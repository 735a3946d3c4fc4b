------------------------------- MODULE Alone -------------------------------
(***************************************************************************)
(* The alone executor (alone.go): a goroutine of its own for every task.   *)
(*                                                                         *)
(* Grain.  As in Share: one action holds at most one access to the counter *)
(* and acquiring and releasing the locker are merged with the first and    *)
(* the last access of the section.  Here the locker also guards running,   *)
(* and Close keeps it until it returns.                                    *)
(*                                                                         *)
(* A task stands for one call of TryExecute or Execute and the task it     *)
(* hands over; a member of Tasks with the mode "Running" for a call of     *)
(* Running, which hands nothing over.                                      *)
(***************************************************************************)
EXTENDS Naturals, FiniteSets

CONSTANTS
  Tasks,          \* one per call of TryExecute, Execute or Running
  Closers,        \* one per call of Close
  MaxGoroutines,  \* exec.maxGoroutines
  Outer,          \* Outer[t]: the task whose Handle makes the call t, or Nil
  Nil             \* no task

ASSUME AloneAssumption ==
  /\ MaxGoroutines \in Nat \ {0}
  /\ IsFiniteSet(Tasks) /\ IsFiniteSet(Closers)
  /\ Tasks \cap Closers = {}
  /\ Nil \notin Tasks
  /\ Outer \in [Tasks -> Tasks \cup {Nil}]

VARIABLES
  closeTimeout, \* is exec.closeTimeout positive?  An option, like mode set once
  running,      \* exec.running
  locker,       \* exec.locker is held
  goroutines,   \* exec.goroutines
  call,         \* call[t]: where the call is, or what it returned
  mode,         \* mode[t]: the method called
  runner,       \* runner[t]: where the goroutine started for the task is
  closer,       \* closer[c]: where the Close call is, or what it returned
  owed          \* history: tasks accepted and not finished when Close began

vars == <<running, locker, goroutines, closeTimeout, call, mode, runner, closer,
          owed>>

options == <<closeTimeout, mode>>

Modes == {"TryExecute", "Execute", "Running"}
Returned == {"ok", "busy", "closed", "answered"}

TypeOK ==
  /\ running \in BOOLEAN /\ locker \in BOOLEAN /\ closeTimeout \in BOOLEAN
  /\ goroutines \in Nat
  /\ call \in [Tasks -> {"start", "lock", "incr"} \cup Returned]
  /\ mode \in [Tasks -> Modes]
  /\ runner \in [Tasks -> {"none", "spawned", "handle", "decr", "gone"}]
  /\ closer \in [Closers -> {"start", "wait", "poll", "ok", "failed",
                             "already"}]
  /\ owed \subseteq Tasks

\* New() and start().
Init ==
  /\ running = TRUE /\ locker = FALSE
  /\ goroutines = 0
  /\ call = [t \in Tasks |-> "start"]
  /\ closeTimeout \in BOOLEAN
  /\ mode \in [Tasks -> Modes]
  /\ runner = [t \in Tasks |-> "none"]
  /\ closer = [c \in Closers |-> "start"]
  /\ owed = {}
-----------------------------------------------------------------------------

LockFree == ~locker

Saturated == goroutines >= MaxGoroutines

At(t, from, to) == call[t] = from /\ call' = [call EXCEPT ![t] = to]

\* A goroutine calls the executor: at any time, or from a task's Handle.
Call(t) ==
  /\ Outer[t] # Nil => runner[Outer[t]] = "handle"
  /\ At(t, "start", "lock")
  /\ UNCHANGED <<options, running, locker, goroutines, runner, closer, owed>>

\* Running(): its whole section.
AskRunning(t) ==
  /\ mode[t] = "Running"
  /\ LockFree
  /\ At(t, "lock", "answered")
  /\ UNCHANGED <<options, running, locker, goroutines, runner, closer, owed>>

\* TryExecute under the locker: closed, ...
Refuse(t) ==
  /\ mode[t] # "Running"
  /\ LockFree
  /\ ~running
  /\ At(t, "lock", "closed")
  /\ UNCHANGED <<options, running, locker, goroutines, runner, closer, owed>>

\* ... at the limit (Execute will try again), ...
Busy(t) ==
  /\ mode[t] # "Running"
  /\ LockFree
  /\ running
  /\ Saturated
  /\ At(t, "lock", IF mode[t] = "Execute" THEN "lock" ELSE "busy")
  /\ UNCHANGED <<options, running, locker, goroutines, runner, closer, owed>>

\* ... or with room for one more, read before goroutines.Incr() ...
FindRoomUnchecked(t) ==
  /\ mode[t] # "Running"
  /\ LockFree
  /\ ~Saturated
  /\ At(t, "lock", "incr")
  /\ locker' = TRUE
  /\ UNCHANGED <<options, running, goroutines, runner, closer, owed>>

FindRoom(t) ==
  /\ mode[t] # "Running"
  /\ LockFree
  /\ running
  /\ ~Saturated
  /\ At(t, "lock", "incr")
  /\ locker' = TRUE
  /\ UNCHANGED <<options, running, goroutines, runner, closer, owed>>

\* ... and the go statement.
Spawn(t) ==
  /\ At(t, "incr", "ok")
  /\ goroutines' = goroutines + 1
  /\ runner' = [runner EXCEPT ![t] = "spawned"]
  /\ locker' = FALSE
  /\ UNCHANGED <<options, running, closer, owed>>

CallStep(t) == AskRunning(t) \/ Refuse(t) \/ Busy(t) \/ FindRoom(t) \/ Spawn(t)
-----------------------------------------------------------------------------
(* The goroutine of a task.                                                *)

Goto(t, from, to) == runner[t] = from /\ runner' = [runner EXCEPT ![t] = to]

\* task.Handle(ctx) is called ...
Handle(t) ==
  /\ Goto(t, "spawned", "handle")
  /\ UNCHANGED <<options, running, locker, goroutines, call, closer, owed>>

\* ... and returns, after the calls it makes.
Handled(t) ==
  /\ Goto(t, "handle", "decr")
  /\ \A u \in Tasks : Outer[u] = t => call[u] \in Returned
  /\ UNCHANGED <<options, running, locker, goroutines, call, closer, owed>>

\* exec.goroutines.Decr()
CountOutTwice(t) ==
  /\ Goto(t, "decr", "gone")
  /\ goroutines' = goroutines - 2
  /\ UNCHANGED <<options, running, locker, call, closer, owed>>

CountOut(t) ==
  /\ Goto(t, "decr", "gone")
  /\ goroutines' = goroutines - 1
  /\ UNCHANGED <<options, running, locker, call, closer, owed>>

RunnerStep(t) == Handle(t) \/ Handled(t) \/ CountOut(t)
-----------------------------------------------------------------------------
(* Close.                                                                  *)

AcceptedTasks == {t \in Tasks : call[t] = "ok"}
Unfinished == {t \in AcceptedTasks : runner[t] \in {"spawned", "handle"}}

\* The locker is taken and, unless Close came before, kept.
CloseLock(c) ==
  /\ closer[c] = "start"
  /\ LockFree
  /\ closer' = [closer EXCEPT ![c] = IF running THEN "wait" ELSE "already"]
  /\ owed' = IF running THEN Unfinished ELSE owed
  /\ running' = FALSE
  /\ locker' = running
  /\ UNCHANGED <<options, goroutines, call, runner>>

\* goroutines.WaitDownTo(ctx, 0) has come down: Close unlocks and returns.
CloseEndAtOne(c) ==
  /\ closer[c] = "wait"
  /\ goroutines <= 1
  /\ closer' = [closer EXCEPT ![c] = "ok"]
  /\ locker' = FALSE
  /\ UNCHANGED <<options, running, goroutines, call, runner, owed>>

CloseEndLocked(c) ==
  /\ closer[c] = "wait"
  /\ goroutines <= 0
  /\ closer' = [closer EXCEPT ![c] = "ok"]
  /\ UNCHANGED <<options, locker, running, goroutines, call, runner, owed>>

CloseEnd(c) ==
  /\ closer[c] = "wait"
  /\ goroutines <= 0
  /\ closer' = [closer EXCEPT ![c] = "ok"]
  /\ locker' = FALSE
  /\ UNCHANGED <<options, running, goroutines, call, runner, owed>>

\* It has not: the context of closeTimeout is looked at next ...
CloseWait(c) ==
  /\ closer[c] = "wait"
  /\ goroutines > 0
  /\ closer' = [closer EXCEPT ![c] = "poll"]
  /\ UNCHANGED <<options, running, locker, goroutines, call, runner, owed>>

\* ... and, while it has not expired, the counter again.
ClosePoll(c) ==
  /\ closer[c] = "poll"
  /\ closer' = [closer EXCEPT ![c] = "wait"]
  /\ UNCHANGED <<options, running, locker, goroutines, call, runner, owed>>

CloseGiveUp(c) ==
  /\ closeTimeout
  /\ closer[c] = "poll"
  /\ closer' = [closer EXCEPT ![c] = "failed"]
  /\ locker' = FALSE
  /\ UNCHANGED <<options, running, goroutines, call, runner, owed>>

CloseStep(c) ==
  CloseLock(c) \/ CloseEnd(c) \/ CloseWait(c) \/ ClosePoll(c) \/ CloseGiveUp(c)
-----------------------------------------------------------------------------

\* Nothing is left to happen: every call has returned and every goroutine is
\* gone.
Terminated ==
  /\ \A t \in Tasks : \/ call[t] \in Returned
                      \/ call[t] = "start" /\ Outer[t] # Nil
  /\ \A t \in Tasks : runner[t] \in {"none", "gone"}
  /\ \A c \in Closers : closer[c] \in {"ok", "failed", "already"}
  /\ UNCHANGED vars

Next ==
  \/ \E t \in Tasks : Call(t) \/ CallStep(t) \/ RunnerStep(t)
  \/ \E c \in Closers : CloseStep(c)
  \/ Terminated

Spec == Init /\ [][Next]_vars

\* Goroutines that were started go on running, Handle returns once its own
\* calls have, and the calls it makes are made.  The context of closeTimeout
\* expires at some time and stays expired: a Close that goes on polling will
\* see it, which needs strong fairness because it polls between two reads of
\* the counter.  Whether Close is ever called is up to the users.
Fairness ==
  /\ \A t \in Tasks : /\ WF_vars(CallStep(t))
                      /\ WF_vars(RunnerStep(t))
                      /\ WF_vars(Outer[t] # Nil /\ Call(t))
  /\ \A c \in Closers : /\ WF_vars(CloseEnd(c) \/ CloseWait(c) \/ ClosePoll(c))
                        /\ SF_vars(CloseGiveUp(c))

FairSpec == Spec /\ Fairness
-----------------------------------------------------------------------------
(* Safety.                                                                 *)

\* The locker excludes, over the whole of Close too.
MutualExclusion ==
  LET inside == {t \in Tasks : call[t] = "incr"}
                  \cup {c \in Closers : closer[c] \in {"wait", "poll"}}
  IN  /\ locker <=> inside # {}
      /\ \A p, q \in inside : p = q

\* exec.goroutines counts the goroutines that have not gone.
CountExact ==
  goroutines =
    Cardinality({t \in Tasks : runner[t] \in {"spawned", "handle", "decr"}})

\* At most MaxGoroutines goroutines, although they leave without the locker.
LimitRespected == goroutines <= MaxGoroutines

\* Unlike a share executor, an alone executor that was closed without an
\* error is finished for good: no task that was ever accepted is unfinished,
\* and there is no goroutine.
ClosedForGood ==
  \A c \in Closers : closer[c] = "ok" => Unfinished = {} /\ goroutines = 0

\* Share and Alone keep the same promise.
TaskStatus ==
  [t \in Tasks |->
     IF runner[t] \in {"decr", "gone"} THEN "finished"
     ELSE IF runner[t] = "handle" THEN "running"
     ELSE IF runner[t] = "spawned" THEN "accepted"
     ELSE IF call[t] = "incr" THEN "admitted"
     ELSE IF call[t] \in {"busy", "closed"} THEN call[t]
     ELSE "idle"]

CloseStatus ==
  [c \in Closers |->
     IF closer[c] = "start" THEN "none"
     ELSE IF closer[c] \in {"wait", "poll"} THEN "closing"
     ELSE closer[c]]

Abstract == INSTANCE Executors
              WITH status <- TaskStatus, open <- running, closing <- CloseStatus

\* Seen from outside, alone.go does nothing the Executors interface does not
\* promise.
ImplementsExecutors == Abstract!Spec
-----------------------------------------------------------------------------
(* Liveness.                                                               *)

\* The goroutine of a task waits, within a call of its Handle, for the locker
\* that a Close without a timeout keeps until that goroutine has gone: neither
\* returns.
ShutIn ==
  /\ ~closeTimeout
  /\ \E c \in Closers : closer[c] \in {"wait", "poll"}
  /\ \E t \in Tasks : Outer[t] # Nil /\ call[t] = "lock"

\* Every goroutine that counts is in a Handle that calls Execute, which finds
\* all of them busy.
Jammed ==
  /\ running
  /\ Saturated
  /\ \A t \in Tasks : runner[t] \in {"spawned", "handle", "decr"} =>
       \E u \in Tasks : Outer[u] = t /\ call[u] = "lock" /\ mode[u] = "Execute"

\* Every call returns, and so does Close, except in these two ways: a task and
\* a Close without a timeout wait for each other, although executors.go:48 says
\* that Close makes Execute return an error; and Execute tries in vain among
\* tasks that all do so.  The second way ends when somebody closes: a call that
\* is under way when the executor is closed is answered, or the first has come.
CallsReturn ==
  /\ \A t \in Tasks : call[t] = "lock" ~> \/ call[t] \in Returned
                                          \/ ShutIn
                                          \/ Jammed /\ mode[t] = "Execute"
  /\ \A t \in Tasks :
       call[t] = "lock" /\ ~running ~> call[t] \in Returned \/ ShutIn
  /\ \A c \in Closers : closer[c] = "wait" ~> closer[c] \in {"ok", "failed"}
                                                \/ ShutIn
=============================================================================
