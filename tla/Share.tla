------------------------------- MODULE Share -------------------------------
(***************************************************************************)
(* The share executor (share.go): goroutines that outlive the task they    *)
(* were started for and are handed the next one through a taskSubmitter.   *)
(*                                                                         *)
(* Grain.  One action holds at most one access to state that other         *)
(* goroutines touch without the locker (running, goroutines, done, the     *)
(* pool, a channel).  Lock() moves right over other goroutines' steps and  *)
(* Unlock() moves left, so acquiring is merged with the first access of    *)
(* the critical section and releasing with the last; a section with one    *)
(* access is one action, enabled while the locker is free.  idles is only  *)
(* touched with the locker held and costs no step of its own.              *)
(*                                                                         *)
(* A task stands for one call of TryExecute or Execute and the task it     *)
(* hands over.  A submitter stands for a taskSubmitter and for the         *)
(* goroutine that runs handle on it.                                       *)
(***************************************************************************)
EXTENDS Naturals, Sequences, FiniteSets, Functions

CONSTANTS
  Tasks,          \* one per call of TryExecute or Execute
  Submitters,     \* taskSubmitter objects
  Closers,        \* one per call of Close
  MaxGoroutines,  \* exec.maxGoroutines
  CloseTimeout,   \* is exec.closeTimeout positive?
  Outer,          \* Outer[t]: the task whose Handle makes the call t, or Nil
  Nil             \* Go's nil task: the entry that stops a goroutine

ASSUME ShareAssumption ==
  /\ MaxGoroutines \in Nat \ {0}
  /\ IsFiniteSet(Tasks) /\ IsFiniteSet(Submitters)
  /\ Tasks \cap Submitters = {}
  /\ Cardinality(Submitters) >= MaxGoroutines  \* Pool.New never runs out
  /\ CloseTimeout \in BOOLEAN
  /\ Nil \notin Tasks
  /\ Nil \notin Submitters
  /\ Outer \in [Tasks -> Tasks \cup {Nil}]

VARIABLES
  running,     \* exec.running
  done,        \* is exec.done closed?
  locker,      \* exec.locker is held
  goroutines,  \* exec.goroutines
  idles,       \* exec.idles, the goroutine that went idle last at the end
  pool,        \* taskSubmitters in exec.submitters, or that New has yet to make
  ch,          \* ch[s]: the buffered entries of the submitter's channel
  worker,      \* worker[s]: where the goroutine on s is
  current,     \* current[s]: the task it runs
  leaving,     \* goroutines past Put that have yet to count themselves out
  call,        \* call[t]: where the call is, or what it returned
  mode,        \* mode[t]: the method called
  held,        \* held[t]: the submitter the call has obtained
  janitor,     \* where the goroutine of start() is
  scratch,     \* submitters clean() took out of idles and has yet to stop
  closer,      \* closer[c]: where the Close call is, or what it returned
  \* History.
  begun,       \* begun[t]: how often Handle was started on the task
  finished,    \* tasks whose Handle returned
  owed         \* tasks accepted and not finished when Close took effect

poolVars == <<idles, pool, ch>>
workerVars == <<worker, current, leaving, begun, finished>>
callVars == <<call, mode, held>>
janitorVars == <<janitor, scratch>>
closeVars == <<running, done, closer, owed>>
vars == <<locker, goroutines, poolVars, workerVars, callVars, janitorVars,
          closeVars>>

Modes == {"TryExecute", "Execute"}
Returned == {"ok", "busy", "closed"}

TypeOK ==
  /\ running \in BOOLEAN /\ done \in BOOLEAN /\ locker \in BOOLEAN
  /\ goroutines \in Nat /\ leaving \in Nat
  /\ idles \in Seq(Submitters) /\ scratch \in Seq(Submitters)
  /\ pool \subseteq Submitters
  /\ ch \in [Submitters -> Seq(Tasks \cup {Nil})]
  /\ worker \in [Submitters -> {"none", "receive", "handle", "release",
                                "rejoin", "append", "put"}]
  /\ current \in [Submitters -> Tasks \cup {Nil}]
  /\ call \in [Tasks -> {"start", "running", "count", "pick", "incr", "get",
                         "submit"} \cup Returned]
  /\ mode \in [Tasks -> Modes]
  /\ held \in [Tasks -> Submitters \cup {Nil}]
  /\ janitor \in {"select", "stop", "drain", "draining", "exited"}
  /\ closer \in [Closers -> {"start", "close", "wait", "poll", "ok", "failed",
                             "already"}]
  /\ begun \in [Tasks -> Nat]
  /\ finished \subseteq Tasks /\ owed \subseteq Tasks

\* New() and start(): no goroutine yet but the janitor.
Init ==
  /\ running = TRUE /\ done = FALSE /\ locker = FALSE
  /\ goroutines = 0 /\ leaving = 0
  /\ idles = <<>> /\ scratch = <<>>
  /\ pool = Submitters
  /\ ch = [s \in Submitters |-> <<>>]
  /\ worker = [s \in Submitters |-> "none"]
  /\ current = [s \in Submitters |-> Nil]
  /\ call = [t \in Tasks |-> "start"]
  /\ mode \in [Tasks -> Modes]
  /\ held = [t \in Tasks |-> Nil]
  /\ janitor = "select"
  /\ closer = [c \in Closers |-> "start"]
  /\ begun = [t \in Tasks |-> 0]
  /\ finished = {} /\ owed = {}

-----------------------------------------------------------------------------
(* Calls of TryExecute and Execute.                                        *)

\* locker.Lock(): its compare-and-swap succeeds.
LockFree == ~locker

\* submitter.ch, made with one slot: a send waits for it.
CanSend(s) == Len(ch[s]) < 1
Send(s, entry) == ch' = [ch EXCEPT ![s] = Append(@, entry)]

\* The limit, read with and without the locker.
Saturated == goroutines >= MaxGoroutines
HasRoomOffByOne == goroutines <= MaxGoroutines
HasRoom == goroutines < MaxGoroutines

At(t, from, to) == call[t] = from /\ call' = [call EXCEPT ![t] = to]

\* A goroutine calls the executor: at any time, or from a task's Handle.
Call(t) ==
  /\ \/ Outer[t] = Nil
     \/ \E s \in Submitters : worker[s] = "handle" /\ current[s] = Outer[t]
  /\ At(t, "start", "running")
  /\ UNCHANGED <<locker, goroutines, poolVars, workerVars, mode, held,
                 janitorVars, closeVars>>

\* What is left of idles once its last element is taken.
ButLastForgotten == idles
ButLast == SubSeq(idles, 1, Len(idles) - 1)

\* Execute's loop ends when TryExecute returns nil.
AfterSubmitAgain(t) == IF mode[t] = "Execute" THEN "running" ELSE "ok"
AfterSubmit(t) == "ok"

\* What a call does with ErrBusy: TryExecute returns it, Execute sleeps and
\* tries again, for ever.
AfterBusy(t) == IF mode[t] = "Execute" THEN "running" ELSE "busy"

CheckNothing(t) ==
  /\ At(t, "running", "count")
  /\ UNCHANGED <<locker, goroutines, poolVars, workerVars, mode, held,
                 janitorVars, closeVars>>

CheckRunning(t) ==
  /\ At(t, "running", IF running THEN "count" ELSE "closed")
  /\ UNCHANGED <<locker, goroutines, poolVars, workerVars, mode, held,
                 janitorVars, closeVars>>

CheckLimit(t) ==
  /\ At(t, "count", IF Saturated THEN AfterBusy(t) ELSE "pick")
  /\ UNCHANGED <<locker, goroutines, poolVars, workerVars, mode, held,
                 janitorVars, closeVars>>

\* tryGetTaskSubmitter: the goroutine that went idle last ...
PickIdle(t) ==
  /\ LockFree
  /\ idles # <<>>
  /\ At(t, "pick", "submit")
  /\ held' = [held EXCEPT ![t] = idles[Len(idles)]]
  /\ idles' = ButLast
  /\ UNCHANGED <<locker, goroutines, pool, ch, workerVars, mode, janitorVars,
                 closeVars>>

\* ... or else a new one, within the limit, ...
PickNew(t) ==
  /\ LockFree
  /\ idles = <<>>
  /\ HasRoom
  /\ At(t, "pick", "incr")
  /\ locker' = TRUE
  /\ UNCHANGED <<goroutines, poolVars, workerVars, mode, held, janitorVars,
                 closeVars>>

\* ... or none at all.
PickNone(t) ==
  /\ LockFree
  /\ idles = <<>>
  /\ ~HasRoom
  /\ At(t, "pick", AfterBusy(t))
  /\ UNCHANGED <<locker, goroutines, poolVars, workerVars, mode, held,
                 janitorVars, closeVars>>

\* goroutines.Incr() and Unlock().
CountInForgotten(t) ==
  /\ At(t, "incr", "get")
  /\ locker' = FALSE
  /\ UNCHANGED <<goroutines, poolVars, workerVars, mode, held, janitorVars,
                 closeVars>>

CountIn(t) ==
  /\ At(t, "incr", "get")
  /\ goroutines' = goroutines + 1
  /\ locker' = FALSE
  /\ UNCHANGED <<poolVars, workerVars, mode, held, janitorVars, closeVars>>

\* submitters.Get() and the go statement.
Spawn(t) ==
  /\ At(t, "get", "submit")
  /\ \E s \in pool :
       /\ pool' = pool \ {s}
       /\ held' = [held EXCEPT ![t] = s]
       /\ worker' = [worker EXCEPT ![s] = "receive"]
  /\ UNCHANGED <<locker, goroutines, idles, ch, current, leaving, begun,
                 finished, mode, janitorVars, closeVars>>

\* submitter.submit, and the call returns nil.
Submit(t) ==
  /\ At(t, "submit", AfterSubmit(t))
  /\ CanSend(held[t])
  /\ Send(held[t], t)
  /\ held' = [held EXCEPT ![t] = Nil]
  /\ UNCHANGED <<locker, goroutines, idles, pool, workerVars, mode,
                 janitorVars, closeVars>>

CallStep(t) ==
  \/ CheckRunning(t) \/ CheckLimit(t) \/ PickIdle(t) \/ PickNew(t)
  \/ PickNone(t) \/ CountIn(t) \/ Spawn(t) \/ Submit(t)
-----------------------------------------------------------------------------
(* Goroutines: the func literal in tryGetTaskSubmitter, handle, release.   *)

Goto(s, from, to) == worker[s] = from /\ worker' = [worker EXCEPT ![s] = to]

\* entry := <-submitter.ch
Receive(s) ==
  /\ ch[s] # <<>>
  /\ LET task == Head(ch[s])
     IN  /\ Goto(s, "receive", IF task = Nil THEN "put" ELSE "handle")
         /\ current' = [current EXCEPT ![s] = task]
         /\ begun' = [t \in Tasks |->
                        IF t = task THEN begun[t] + 1 ELSE begun[t]]
  /\ ch' = [ch EXCEPT ![s] = Tail(@)]
  /\ UNCHANGED <<locker, goroutines, idles, pool, leaving, finished, callVars,
                 janitorVars, closeVars>>

\* task.Handle(ctx) returns, after the calls it makes.
Handled(s) ==
  /\ Goto(s, "handle", "release")
  /\ \A t \in Tasks : Outer[t] = current[s] => call[t] \in Returned
  /\ finished' = finished \cup {current[s]}
  /\ current' = [current EXCEPT ![s] = Nil]
  /\ UNCHANGED <<locker, goroutines, poolVars, leaving, begun, callVars,
                 janitorVars, closeVars>>

\* release: running.Load() before the locker ...
ReleaseCheck(s) ==
  /\ Goto(s, "release", IF running THEN "rejoin" ELSE "put")
  /\ UNCHANGED <<locker, goroutines, poolVars, current, leaving, begun,
                 finished, callVars, janitorVars, closeVars>>

\* May a goroutine that holds the locker go back to idles?
MayRejoinUnchecked == TRUE
MayRejoin == running

\* ... and again once it is held.
ReleaseRecheck(s) ==
  /\ LockFree
  /\ Goto(s, "rejoin", IF MayRejoin THEN "append" ELSE "put")
  /\ locker' = MayRejoin
  /\ UNCHANGED <<goroutines, poolVars, current, leaving, begun, finished,
                 callVars, janitorVars, closeVars>>

ReleaseAppend(s) ==
  /\ Goto(s, "append", "receive")
  /\ idles' = Append(idles, s)
  /\ locker' = FALSE
  /\ UNCHANGED <<goroutines, pool, ch, current, leaving, begun, finished,
                 callVars, janitorVars, closeVars>>

\* exec.submitters.Put(submitter): another call may take it from here on.
PutBack(s) ==
  /\ Goto(s, "put", "none")
  /\ pool' = pool \cup {s}
  /\ leaving' = leaving + 1
  /\ UNCHANGED <<locker, goroutines, idles, ch, current, begun, finished,
                 callVars, janitorVars, closeVars>>

\* exec.goroutines.Decr()
CountOutForgotten ==
  /\ leaving > 0
  /\ leaving' = leaving - 1
  /\ UNCHANGED <<goroutines, locker, poolVars, worker, current, begun,
                 finished, callVars, janitorVars, closeVars>>

CountOutAtOnce ==
  /\ goroutines > 0 => leaving > 0
  /\ leaving' = IF leaving > 0 THEN leaving - 1 ELSE leaving
  /\ goroutines' = goroutines - 1
  /\ UNCHANGED <<locker, poolVars, worker, current, begun, finished, callVars,
                 janitorVars, closeVars>>

CountOut ==
  /\ leaving > 0
  /\ leaving' = leaving - 1
  /\ goroutines' = goroutines - 1
  /\ UNCHANGED <<locker, poolVars, worker, current, begun, finished, callVars,
                 janitorVars, closeVars>>

WorkerStep(s) ==
  \/ Receive(s) \/ Handled(s) \/ ReleaseCheck(s) \/ ReleaseRecheck(s)
  \/ ReleaseAppend(s) \/ PutBack(s)
-----------------------------------------------------------------------------
(* The janitor: the goroutine of start(), with clean().                    *)

\* What clean() leaves in idles.
KeptOffByOne(k) == SubSeq(idles, k, Len(idles))
Kept(k) == SubSeq(idles, k + 1, Len(idles))

\* The timer fires and clean() finds the first k goroutines of idles idle
\* for too long (which k its binary search may yield is the subject of
\* Idle); a tick that finds none changes nothing.
Evict(k) ==
  /\ janitor = "select"
  /\ LockFree
  /\ k \in 1..Len(idles)
  /\ scratch' = SubSeq(idles, 1, k)
  /\ idles' = Kept(k)
  /\ janitor' = "stop"
  /\ UNCHANGED <<locker, goroutines, pool, ch, workerVars, callVars,
                 closeVars>>

\* tmp[j].stop(), without the locker.
StopEvicted ==
  /\ janitor = "stop"
  /\ CanSend(Head(scratch))
  /\ Send(Head(scratch), Nil)
  /\ scratch' = Tail(scratch)
  /\ janitor' = IF Len(scratch) = 1 THEN "select" ELSE "stop"
  /\ UNCHANGED <<locker, goroutines, idles, pool, workerVars, callVars,
                 closeVars>>

\* case <-done, and the loop ends.
SeeDone ==
  /\ janitor = "select"
  /\ done
  /\ janitor' = "drain"
  /\ UNCHANGED <<locker, goroutines, poolVars, workerVars, callVars, scratch,
                 closeVars>>

DrainLock ==
  /\ janitor = "drain"
  /\ LockFree
  /\ locker' = TRUE
  /\ janitor' = "draining"
  /\ UNCHANGED <<goroutines, poolVars, workerVars, callVars, scratch,
                 closeVars>>

\* ready[i].stop() with the locker held.  The slots already visited are nil
\* and nobody can look at them: idles is shown without them.
DrainStop ==
  /\ janitor = "draining"
  /\ idles # <<>>
  /\ CanSend(Head(idles))
  /\ Send(Head(idles), Nil)
  /\ idles' = Tail(idles)
  /\ UNCHANGED <<locker, goroutines, pool, workerVars, callVars, janitorVars,
                 closeVars>>

DrainUnlock ==
  /\ janitor = "draining"
  /\ idles = <<>>
  /\ locker' = FALSE
  /\ janitor' = "exited"
  /\ UNCHANGED <<goroutines, poolVars, workerVars, callVars, scratch,
                 closeVars>>

JanitorStep ==
  \/ \E k \in 1..Len(idles) : Evict(k)
  \/ StopEvicted \/ SeeDone \/ DrainLock \/ DrainStop \/ DrainUnlock
-----------------------------------------------------------------------------
(* Close.                                                                  *)

AcceptedTasks == {t \in Tasks : call[t] = "ok"}

\* running.CompareAndSwap(true, false)
CloseSwap(c) ==
  /\ closer[c] = "start"
  /\ closer' = [closer EXCEPT ![c] = IF running THEN "close" ELSE "already"]
  /\ running' = FALSE
  /\ owed' = IF running THEN AcceptedTasks \ finished ELSE owed
  /\ UNCHANGED <<locker, goroutines, poolVars, workerVars, callVars,
                 janitorVars, done>>

\* close(exec.done)
CloseDone(c) ==
  /\ closer[c] = "close"
  /\ closer' = [closer EXCEPT ![c] = "wait"]
  /\ done' = TRUE
  /\ UNCHANGED <<locker, goroutines, poolVars, workerVars, callVars,
                 janitorVars, running, owed>>

\* goroutines.WaitDownTo(ctx, n): has the counter come down?
DownToOffByOne(n) == goroutines <= n + 1
DownTo(n) == goroutines <= n

CloseWait(c) ==
  /\ closer[c] = "wait"
  /\ closer' = [closer EXCEPT ![c] = IF DownTo(0) THEN "ok" ELSE "poll"]
  /\ UNCHANGED <<locker, goroutines, poolVars, workerVars, callVars,
                 janitorVars, running, done, owed>>

\* It has not: sleep and read the counter again ...
ClosePoll(c) ==
  /\ closer[c] = "poll"
  /\ closer' = [closer EXCEPT ![c] = "wait"]
  /\ UNCHANGED <<locker, goroutines, poolVars, workerVars, callVars,
                 janitorVars, running, done, owed>>

\* ... unless the context of closeTimeout has expired.
CloseGiveUp(c) ==
  /\ CloseTimeout
  /\ closer[c] = "poll"
  /\ closer' = [closer EXCEPT ![c] = "failed"]
  /\ UNCHANGED <<locker, goroutines, poolVars, workerVars, callVars,
                 janitorVars, running, done, owed>>

CloseStep(c) == CloseDone(c) \/ CloseWait(c) \/ ClosePoll(c) \/ CloseGiveUp(c)
-----------------------------------------------------------------------------

\* Nothing is left to happen: every call has returned (a call that only a
\* task's Handle would make may never be made) and every goroutine is gone.
Terminated ==
  /\ \A t \in Tasks : \/ call[t] \in Returned
                      \/ call[t] = "start" /\ Outer[t] # Nil
  /\ \A c \in Closers : closer[c] \in {"ok", "failed", "already"}
  /\ \A s \in Submitters : worker[s] = "none"
  /\ leaving = 0
  /\ janitor = "exited"
  /\ UNCHANGED vars

Next ==
  \/ \E t \in Tasks : Call(t) \/ CallStep(t)
  \/ \E s \in Submitters : WorkerStep(s)
  \/ CountOut
  \/ JanitorStep
  \/ \E c \in Closers : CloseSwap(c) \/ CloseStep(c)
  \/ Terminated

Spec == Init /\ [][Next]_vars

\* Every goroutine that has been started goes on running, and Handle returns
\* once its own calls have: that is all the Go scheduler and a well-behaved
\* task give.  Whether and when the executor is called or closed from
\* outside is up to its users; a call made by a task's Handle is made.
Fairness ==
  /\ \A t \in Tasks : WF_vars(CallStep(t)) /\ WF_vars(Outer[t] # Nil /\ Call(t))
  /\ \A s \in Submitters : WF_vars(WorkerStep(s))
  /\ WF_vars(CountOut)
  /\ WF_vars(JanitorStep)
  /\ \A c \in Closers : WF_vars(CloseStep(c))

FairSpec == Spec /\ Fairness
-----------------------------------------------------------------------------
(* Safety.                                                                 *)

Idle == Range(idles)
Evicted == Range(scratch)
Held == Range(held) \ {Nil}
Loaded == {s \in Submitters : ch[s] # <<>>}
Live == {s \in Submitters : worker[s] # "none"}
Starting == {t \in Tasks : call[t] = "get"}

\* The spin locker excludes: it is held exactly while one goroutine is in a
\* critical section of share.go that takes more than one step.
MutualExclusion ==
  LET inside == {t \in Tasks : call[t] = "incr"}
                  \cup {s \in Submitters : worker[s] = "append"}
                  \cup (IF janitor = "draining" THEN {Nil} ELSE {})
  IN  /\ locker <=> inside # {}
      /\ \A p, q \in inside : p = q

\* A taskSubmitter is in one place at a time: in the sync.Pool, in idles, in
\* the janitor's scratch, with one call, or with its goroutine.  Everybody
\* who sends on its channel therefore finds the slot empty (submit and stop
\* never block, not even under the locker), no task lands behind a stop
\* entry, and none is left in the channel of a pooled submitter.
SoleOwner ==
  /\ pool = {s \in Submitters : worker[s] = "none"}
  /\ Idle \cup Evicted \cup Held \cup Loaded
       = {s \in Submitters : worker[s] = "receive"}
  /\ Idle \cap Evicted = {} /\ Idle \cap Held = {} /\ Idle \cap Loaded = {}
  /\ Evicted \cap Held = {} /\ Evicted \cap Loaded = {}
  /\ Held \cap Loaded = {}
  /\ IsInjective(idles) /\ IsInjective(scratch)
  /\ \A t, u \in Tasks : held[t] = held[u] /\ held[t] # Nil => t = u
  /\ \A s \in Submitters : Len(ch[s]) <= 1

\* exec.goroutines counts what Close has to wait for: the goroutines on a
\* submitter, those that gave it back and those about to be started.
CountExact ==
  goroutines = Cardinality(Live) + Cardinality(Starting) + leaving

\* The pool never outgrows Options.MaxGoroutines, although the limit is
\* first compared without the locker and goroutines leave without it.
LimitRespected == goroutines <= MaxGoroutines

\* Once the janitor has drained idles nobody waits there for a stop entry
\* that will never be sent, however release() raced with Close.
NoneStranded == janitor = "exited" => idles = <<>>

\* A task is run at most once, and never if its call did not return nil.
RunAtMostOnce ==
  \A t \in Tasks : begun[t] > 0 => begun[t] = 1 /\ call[t] = "ok"

-----------------------------------------------------------------------------
(* Share implements Executors.                                             *)

TaskStatus ==
  [t \in Tasks |->
     IF t \in finished THEN "finished"
     ELSE IF begun[t] > 0 THEN "running"
     ELSE IF call[t] = "ok" THEN "accepted"
     ELSE IF call[t] \in {"busy", "closed"} THEN call[t]
     ELSE IF call[t] \in {"start", "running"} THEN "idle"
     ELSE "admitted"]

CloseStatus ==
  [c \in Closers |->
     IF closer[c] = "start" THEN "none"
     ELSE IF closer[c] \in {"close", "wait", "poll"} THEN "closing"
     ELSE closer[c]]

Abstract == INSTANCE Executors
              WITH status <- TaskStatus, open <- running, closing <- CloseStatus

\* Seen from outside, share.go does nothing the Executors interface does not
\* promise: at most MaxGoroutines tasks run at once, a call that began after
\* Close is refused, a refused task never runs, Close is graceful.
ImplementsExecutors == Abstract!Spec

-----------------------------------------------------------------------------
(* Liveness.                                                               *)

\* Every goroutine there may be runs a task that waits for a goroutine: only
\* Close ends that.
Jammed ==
  LET waiting == {t \in Tasks : mode[t] = "Execute"
                                  /\ call[t] \in {"running", "count"}}
      stuck == {s \in Submitters : worker[s] = "handle"
                                     /\ \E t \in waiting : Outer[t] = current[s]}
  IN  running /\ Cardinality(stuck) = MaxGoroutines

\* A task that was accepted is run to its end, before and after Close, unless
\* tasks jam the executor.
AcceptedFinishes ==
  \A t \in Tasks : call[t] = "ok" ~> t \in finished \/ Jammed

\* Execute waits for a goroutine and gets one, at the latest when the janitor
\* has released an idle one, unless tasks jam the executor.
ExecuteReturns ==
  \A t \in Tasks : call[t] = "running" ~> call[t] \in Returned \/ Jammed

\* After Close no goroutine is left, the janitor included, whether or not
\* Close itself gave up waiting.
Drains == ~running ~> [](goroutines = 0 /\ janitor = "exited")

\* Close sets free every call that waits for a goroutine, even where tasks
\* on all goroutines wait for their own calls of Execute.
CloseFreesCalls ==
  ~running ~> \A t \in Tasks : call[t] \in Returned \cup {"start"}
=============================================================================
