------------------------------- MODULE Future -------------------------------
(***************************************************************************)
(* Promises and futures of package async: futureImpl (future.go), its      *)
(* channel (chan.go) and how Make obtains both (make.go).                  *)
(*                                                                         *)
(* A promise is completed from anywhere, its handler is registered from    *)
(* anywhere, and Handle, run as a task by an executor, brings the two      *)
(* together over a channel out of a sync.Pool, one per size of channels.   *)
(* A channel of size one makes a once promise, a larger one a stream.      *)
(*                                                                         *)
(* Grain.  available, f.ch and hset are only touched with f.locker held    *)
(* (or by the only goroutine that can reach them), the Go channels from    *)
(* both sides: an action is a section under the locker up to the channel   *)
(* operation in it, or one channel operation.                              *)
(*                                                                         *)
(* A call stands for one call of Complete (Succeed, Fail), Cancel or       *)
(* OnComplete and for the message or handler it brings.                    *)
(***************************************************************************)
EXTENDS Naturals, Sequences, FiniteSets, SequencesExt

CONSTANTS
  Promises,       \* futureImpl objects, one per call of Make
  Channels,       \* channel objects of the pools
  Size,           \* Size[c]: cap(c.ch)
  Calls,          \* calls of the methods of a promise
  Methods,        \* Methods[k]: what the call k may be a call of
  Deadlines,      \* are promises made with a deadline?
  ContextEnds,    \* can the context of a promise be done?
  Nil             \* no channel, no promise

\* Succeed, or Fail with an error; Fail with an error that IsCanceled takes
\* for Canceled; Cancel; OnComplete.
Kinds == {"complete", "canceled", "cancel", "handler"}

ASSUME FutureAssumption ==
  /\ IsFiniteSet(Promises) /\ IsFiniteSet(Channels) /\ IsFiniteSet(Calls)
  /\ Size \in [Channels -> Nat \ {0}]
  /\ Methods \in [Calls -> SUBSET Kinds]
  /\ Deadlines \in BOOLEAN /\ ContextEnds \in BOOLEAN
  /\ Nil \notin Channels \cup Promises

VARIABLES
  pool,       \* channels in their sync.Pool, or that New has yet to make
  buffer,     \* buffer[c]: the calls whose messages are in c.ch
  handlers,   \* handlers[c]: the calls whose handlers are in c.hch
  hset,       \* c.hset
  deadline,   \* is c.deadline set?
  own,        \* own[p]: the channel Make gave p and its Handle works with
  size,       \* size[p]: f.buffer, as Make was asked for
  timed,      \* timed[p]: was Make asked for a deadline?
  attached,   \* f.ch # nil
  available,  \* f.available
  locker,     \* f.locker is held
  task,       \* task[p]: where Make, and then Handle, is
  due,        \* has the deadline of p passed?
  ended,      \* is the context of p done?
  call,       \* call[k]: where the call is, or what it returned
  kind,       \* kind[k]: the method called
  target,     \* target[k]: the promise called
  \* History, in the order of the events.
  sent,       \* sent[p]: calls whose message was sent
  got,        \* got[p]: calls whose value or error the handler was given
  spoilt,     \* spoilt[p]: calls whose message was read and thrown away
  left        \* left[p]: calls whose message was left in the end

channelVars == <<pool, buffer, handlers, hset, deadline>>
optionVars == <<size, timed>>
promiseVars == <<own, optionVars, attached, available, locker>>
clockVars == <<due, ended>>
callVars == <<call, kind, target>>
historyVars == <<sent, got, spoilt, left>>
vars == <<channelVars, promiseVars, task, clockVars, callVars, historyVars>>

Returned == {"true", "false", "done", "refused"}

TypeOK ==
  /\ pool \subseteq Channels
  /\ buffer \in [Channels -> Seq(Calls)]
  /\ handlers \in [Channels -> Seq(Calls)]
  /\ hset \in [Channels -> BOOLEAN] /\ deadline \in [Channels -> BOOLEAN]
  /\ own \in [Promises -> Channels \cup {Nil}]
  /\ size \in [Promises -> Nat] /\ timed \in [Promises -> BOOLEAN]
  /\ attached \in [Promises -> BOOLEAN]
  /\ available \in [Promises -> BOOLEAN]
  /\ locker \in [Promises -> BOOLEAN]
  /\ task \in [Promises -> {"none", "making", "failed", "handler", "receive",
                            "select", "finish", "release", "gone"}]
  /\ due \in [Promises -> BOOLEAN] /\ ended \in [Promises -> BOOLEAN]
  /\ call \in [Calls -> {"start", "lock", "send", "panic"}
                          \cup Returned]
  /\ kind \in [Calls -> Kinds \cup {Nil}]
  /\ target \in [Calls -> Promises \cup {Nil}]
  /\ \A history \in {sent, got, spoilt, left} :
       history \in [Promises -> Seq(Calls)]

Init ==
  /\ pool = Channels
  /\ buffer = [c \in Channels |-> <<>>]
  /\ handlers = [c \in Channels |-> <<>>]
  /\ hset = [c \in Channels |-> FALSE]
  /\ deadline = [c \in Channels |-> FALSE]
  /\ own = [p \in Promises |-> Nil]
  /\ size = [p \in Promises |-> 0]
  /\ timed = [p \in Promises |-> FALSE]
  /\ attached = [p \in Promises |-> FALSE]
  /\ available = [p \in Promises |-> FALSE]
  /\ locker = [p \in Promises |-> FALSE]
  /\ task = [p \in Promises |-> "none"]
  /\ due = [p \in Promises |-> FALSE]
  /\ ended = [p \in Promises |-> FALSE]
  /\ call = [k \in Calls |-> "start"]
  /\ kind = [k \in Calls |-> Nil]
  /\ target = [k \in Calls |-> Nil]
  /\ sent = [p \in Promises |-> <<>>]
  /\ got = sent /\ spoilt = sent /\ left = sent

IsOnce(c) == Size[c] = 1
LockFree(p) == ~locker[p]
Goto(p, from, to) == task[p] = from /\ task' = [task EXCEPT ![p] = to]

\* acquireChannel: which channel of the pool, or a new one, is up to it.
Acquire(c) == c \in pool /\ pool' = pool \ {c}

\* releaseChannel: only hset is reset.
GiveBack(c) == pool' = pool \cup {c} /\ hset' = [hset EXCEPT ![c] = FALSE]
-----------------------------------------------------------------------------
(* Make.                                                                   *)

\* The deadline a channel leaves the pool with, if the options ask for d.
DeadlineKept(c, d) == deadline[c] \/ d
NewDeadline(c, d) == d

\* A channel of the size and with the deadline d of the options, and
\* &futureImpl{}.
MakeAcquire(p) ==
  /\ Goto(p, "none", "making")
  /\ \E c \in Channels, d \in BOOLEAN :
       /\ d => Deadlines
       /\ Acquire(c)
       /\ deadline' = [deadline EXCEPT ![c] = NewDeadline(c, d)]
       /\ own' = [own EXCEPT ![p] = c]
       /\ size' = [size EXCEPT ![p] = Size[c]]
       /\ timed' = [timed EXCEPT ![p] = d]
  /\ attached' = [attached EXCEPT ![p] = TRUE]
  /\ available' = [available EXCEPT ![p] = TRUE]
  /\ UNCHANGED <<buffer, handlers, hset, locker, clockVars, callVars,
                 historyVars>>

\* TryExecute, once or until something ends the waiting, fails: f.ch = nil,
\* releaseChannel.  The caller gets no promise.  (MakeFailNil releases
\* future.ch instead of ch.)
MakeFailNil(p) ==
  /\ Goto(p, "making", "failed")
  /\ attached' = [attached EXCEPT ![p] = FALSE]
  /\ pool' = pool \cup {Nil}
  /\ own' = [own EXCEPT ![p] = Nil]
  /\ UNCHANGED <<hset, buffer, handlers, deadline, optionVars, available,
                 locker, clockVars, callVars, historyVars>>

MakeFail(p) ==
  /\ Goto(p, "making", "failed")
  /\ attached' = [attached EXCEPT ![p] = FALSE]
  /\ GiveBack(own[p])
  /\ own' = [own EXCEPT ![p] = Nil]
  /\ UNCHANGED <<buffer, handlers, deadline, optionVars, available, locker,
                 clockVars, callVars, historyVars>>

\* TryExecute accepts the future as a task.
MakeReturn(p) ==
  /\ Goto(p, "making", "handler")
  /\ UNCHANGED <<channelVars, promiseVars, clockVars, callVars, historyVars>>

MakeStep(p) == MakeFail(p) \/ MakeReturn(p)
-----------------------------------------------------------------------------
(* Complete, Cancel and OnComplete.                                        *)

Made(p) == task[p] \notin {"none", "making", "failed"}
\* A user calls a method of a promise that Make has returned.
Call(k, p) ==
  /\ call[k] = "start"
  /\ Made(p)
  /\ call' = [call EXCEPT ![k] = "lock"]
  /\ \E m \in Methods[k] : kind' = [kind EXCEPT ![k] = m]
  /\ target' = [target EXCEPT ![k] = p]
  /\ UNCHANGED <<channelVars, promiseVars, task, clockVars, historyVars>>

\* The locker is taken and a message will be sent ...
SendLock(k) ==
  LET p == target[k]
  IN  /\ call[k] = "lock"
      /\ kind[k] # "handler"
      /\ LockFree(p)
      /\ available[p] /\ attached[p]
      /\ call' = [call EXCEPT ![k] = "send"]
      /\ locker' = [locker EXCEPT ![p] = TRUE]
      /\ UNCHANGED <<channelVars, own, optionVars, attached, available,
                     task, clockVars, kind, target, historyVars>>

\* ... or cannot be any more.
SendRefused(k) ==
  LET p == target[k]
  IN  /\ call[k] = "lock"
      /\ kind[k] # "handler"
      /\ LockFree(p)
      /\ ~available[p] \/ ~attached[p]
      /\ call' = [call EXCEPT ![k] = "false"]
      /\ UNCHANGED <<channelVars, promiseVars, task, clockVars, kind, target,
                     historyVars>>

\* Is the promise still available to others after the send?
StaysAvailableOnce(k) == kind[k] # "cancel"
StaysAvailable(k) == ~IsOnce(own[target[k]]) /\ kind[k] # "cancel"

\* ch.send or ch.cancel, which waits with the locker held while the channel
\* is full, and Unlock().
SendLocked(k) ==
  LET p == target[k]
      c == own[p]
  IN  /\ call[k] = "send"
      /\ Len(buffer[c]) < Size[c]
      /\ buffer' = [buffer EXCEPT ![c] = Append(@, k)]
      /\ available' = [available EXCEPT ![p] = StaysAvailable(k)]
      /\ call' = [call EXCEPT ![k] = "true"]
      /\ sent' = [sent EXCEPT ![p] = Append(@, k)]
      /\ UNCHANGED <<locker, pool, handlers, hset, deadline, own, optionVars,
                     attached, task, clockVars, kind, target, got, spoilt,
                     left>>

Send(k) ==
  LET p == target[k]
      c == own[p]
  IN  /\ call[k] = "send"
      /\ Len(buffer[c]) < Size[c]
      /\ buffer' = [buffer EXCEPT ![c] = Append(@, k)]
      /\ available' = [available EXCEPT ![p] = StaysAvailable(k)]
      /\ locker' = [locker EXCEPT ![p] = FALSE]
      /\ call' = [call EXCEPT ![k] = "true"]
      /\ sent' = [sent EXCEPT ![p] = Append(@, k)]
      /\ UNCHANGED <<pool, handlers, hset, deadline, own, optionVars, attached,
                     task, clockVars, kind, target, got, spoilt, left>>

\* OnComplete: the handler is passed to Handle.
Register(k) ==
  LET p == target[k]
      c == own[p]
  IN  /\ call[k] = "lock"
      /\ kind[k] = "handler"
      /\ LockFree(p)
      /\ attached[p]
      /\ ~hset[c]
      /\ Len(handlers[c]) < 1
      /\ handlers' = [handlers EXCEPT ![c] = Append(@, k)]
      /\ hset' = [hset EXCEPT ![c] = TRUE]
      /\ call' = [call EXCEPT ![k] = "done"]
      /\ UNCHANGED <<pool, buffer, deadline, promiseVars, task, clockVars,
                     kind, target, historyVars>>

\* There is one already: the handler is told Canceled.
RegisterTwice(k) ==
  LET p == target[k]
  IN  /\ call[k] = "lock"
      /\ kind[k] = "handler"
      /\ LockFree(p)
      /\ attached[p]
      /\ hset[own[p]]
      /\ call' = [call EXCEPT ![k] = "refused"]
      /\ UNCHANGED <<channelVars, promiseVars, task, clockVars, kind, target,
                     historyVars>>

\* Handle has finished: ch.hset of a nil channel, a panic that releases the
\* locker on its way.
RegisterLate(k) ==
  LET p == target[k]
  IN  /\ call[k] = "lock"
      /\ kind[k] = "handler"
      /\ LockFree(p)
      /\ ~attached[p]
      /\ call' = [call EXCEPT ![k] = "panic"]
      /\ UNCHANGED <<channelVars, promiseVars, task, clockVars, kind, target,
                     historyVars>>

CallStep(k) ==
  \/ SendLock(k) \/ SendRefused(k) \/ Send(k)
  \/ Register(k) \/ RegisterTwice(k) \/ RegisterLate(k)
-----------------------------------------------------------------------------
(* Handle, and receive.                                                    *)

\* hi := <-ch.hch
TakeHandler(p) ==
  LET c == own[p]
  IN  /\ Goto(p, "handler", "receive")
      /\ handlers[c] # <<>>
      /\ handlers' = [handlers EXCEPT ![c] = Tail(@)]
      /\ UNCHANGED <<pool, buffer, hset, deadline, promiseVars, clockVars,
                     callVars, historyVars>>

\* receive looks at the deadline before it looks at anything else ...
Receive(p) ==
  /\ Goto(p, "receive", "select")
  /\ ~(deadline[own[p]] /\ due[p])
  /\ UNCHANGED <<channelVars, promiseVars, clockVars, callVars, historyVars>>

\* ... and, once it has passed, at nothing else.  The handler is told
\* DeadlineExceeded, and Canceled too for a once promise only.
ExpiredContinues(p) ==
  /\ Goto(p, "receive", "receive")
  /\ deadline[own[p]] /\ due[p]
  /\ UNCHANGED <<channelVars, promiseVars, clockVars, callVars, historyVars>>

Expired(p) ==
  /\ Goto(p, "receive", IF IsOnce(own[p]) THEN "finish" ELSE "receive")
  /\ deadline[own[p]] /\ due[p]
  /\ UNCHANGED <<channelVars, promiseVars, clockVars, callVars, historyVars>>

\* Does the loop of Handle end with this message?
EndsOnceOnly(c, k) == IsOnce(c)
EndsWith(c, k) == kind[k] \in {"cancel", "canceled"} \/ IsOnce(c)

\* case r := <-c.ch without a deadline: the handler is given r.value, r.err.
SelectMessageSkipping(p) ==
  LET c == own[p]
      k == Head(buffer[c])
  IN  /\ task[p] = "select"
      /\ ~deadline[c]
      /\ buffer[c] # <<>>
      /\ Goto(p, "select", IF EndsWith(c, k) THEN "finish" ELSE "receive")
      /\ buffer' = [buffer EXCEPT ![c] = Tail(@)]
      /\ got' = IF kind[k] = "cancel" THEN got
                                      ELSE [got EXCEPT ![p] = Append(@, k)]
      /\ UNCHANGED <<pool, handlers, hset, deadline, promiseVars, clockVars,
                     callVars, sent, spoilt, left>>

SelectMessage(p) ==
  LET c == own[p]
      k == Head(buffer[c])
  IN  /\ task[p] = "select"
      /\ ~deadline[c]
      /\ buffer[c] # <<>>
      /\ Goto(p, "select", IF EndsWith(c, k) THEN "finish" ELSE "receive")
      /\ buffer' = [buffer EXCEPT ![c] = Tail(@)]
      /\ got' = [got EXCEPT ![p] = Append(@, k)]
      /\ UNCHANGED <<pool, handlers, hset, deadline, promiseVars, clockVars,
                     callVars, sent, spoilt, left>>

\* The same with a deadline: receive returns r itself as the value and no
\* error, which Handle takes for an entry of the wrong type and a reason to
\* tell the handler Canceled.
SelectTimed(p) ==
  LET c == own[p]
  IN  /\ Goto(p, "select", "finish")
      /\ deadline[c]
      /\ buffer[c] # <<>>
      /\ buffer' = [buffer EXCEPT ![c] = Tail(@)]
      /\ spoilt' = [spoilt EXCEPT ![p] = Append(@, Head(buffer[c]))]
      /\ UNCHANGED <<pool, handlers, hset, deadline, promiseVars, clockVars,
                     callVars, sent, got, left>>

\* case <-timer.C
SelectTimer(p) ==
  /\ Goto(p, "select", IF IsOnce(own[p]) THEN "finish" ELSE "receive")
  /\ deadline[own[p]] /\ due[p]
  /\ UNCHANGED <<channelVars, promiseVars, clockVars, callVars, historyVars>>

\* case <-ctx.Done(): the handler is told Canceled.
SelectContext(p) ==
  /\ ended[p]
  /\ Goto(p, "select", "finish")
  /\ UNCHANGED <<channelVars, promiseVars, clockVars, callVars, historyVars>>

\* The section after the loop.
Finish(p) ==
  /\ Goto(p, "finish", "release")
  /\ LockFree(p)
  /\ available' = [available EXCEPT ![p] = FALSE]
  /\ attached' = [attached EXCEPT ![p] = FALSE]
  /\ UNCHANGED <<channelVars, own, optionVars, locker, clockVars, callVars,
                 historyVars>>

\* What is left in the channel goes to the unhandledResultHandler, and the
\* channel to the pool.
ReleaseUndrained(p) ==
  LET c == own[p]
  IN  /\ Goto(p, "release", "gone")
      /\ GiveBack(c)
      /\ own' = [own EXCEPT ![p] = Nil]
      /\ UNCHANGED <<left, buffer, handlers, deadline, optionVars, attached,
                     available, locker, clockVars, callVars, sent, got, spoilt>>

ReleaseHandlerKept(p) ==
  LET c == own[p]
  IN  /\ Goto(p, "release", "gone")
      /\ left' = [left EXCEPT ![p] = buffer[c]]
      /\ buffer' = [buffer EXCEPT ![c] = <<>>]
      /\ pool' = pool \cup {c}
      /\ own' = [own EXCEPT ![p] = Nil]
      /\ UNCHANGED <<hset, handlers, deadline, optionVars, attached,
                     available, locker, clockVars, callVars, sent, got, spoilt>>

Release(p) ==
  LET c == own[p]
  IN  /\ Goto(p, "release", "gone")
      /\ left' = [left EXCEPT ![p] = buffer[c]]
      /\ buffer' = [buffer EXCEPT ![c] = <<>>]
      /\ GiveBack(c)
      /\ own' = [own EXCEPT ![p] = Nil]
      /\ UNCHANGED <<handlers, deadline, optionVars, attached, available,
                     locker, clockVars, callVars, sent, got, spoilt>>

HandleStep(p) ==
  \/ TakeHandler(p) \/ Receive(p) \/ Expired(p) \/ SelectMessage(p)
  \/ SelectTimed(p) \/ SelectTimer(p) \/ SelectContext(p) \/ Finish(p)
  \/ Release(p)
-----------------------------------------------------------------------------
(* Time and contexts, which are the world's, while p makes a difference.   *)

DeadlinePasses(p) ==
  /\ Made(p) /\ task[p] # "gone"
  /\ timed[p] /\ ~due[p]
  /\ due' = [due EXCEPT ![p] = TRUE]
  /\ UNCHANGED <<channelVars, promiseVars, task, ended, callVars, historyVars>>

ContextDone(p) ==
  /\ Made(p) /\ task[p] # "gone"
  /\ ContextEnds /\ ~ended[p]
  /\ ended' = [ended EXCEPT ![p] = TRUE]
  /\ UNCHANGED <<channelVars, promiseVars, task, due, callVars, historyVars>>

Next ==
  \/ \E p \in Promises :
       \/ MakeAcquire(p) \/ MakeStep(p) \/ HandleStep(p)
       \/ DeadlinePasses(p) \/ ContextDone(p)
  \/ \E k \in Calls : CallStep(k) \/ \E p \in Promises : Call(k, p)

Spec == Init /\ [][Next]_vars

\* A call that was made and a Handle that was started go on running.  When
\* Handle finds a message and a context that is done, Go's select takes
\* either: fairness is only asked of the step as a whole.
Fairness ==
  /\ \A p \in Promises : WF_vars(MakeStep(p)) /\ WF_vars(HandleStep(p))
  /\ \A k \in Calls : WF_vars(CallStep(k))

FairSpec == Spec /\ Fairness
-----------------------------------------------------------------------------
(* Safety.                                                                 *)

\* The messages on their way to p's handler.
Buffered(p) == IF own[p] = Nil THEN <<>> ELSE buffer[own[p]]

\* Nothing is lost, duplicated, reordered or delivered to another promise:
\* what was sent to p is what its handler got, then what was thrown away,
\* what was left to the unhandledResultHandler, and what is on its way.
Conserved ==
  \A p \in Promises :
    sent[p] = got[p] \o spoilt[p] \o left[p] \o Buffered(p)

\* A channel comes back from the pool as if it were new: empty, without a
\* handler, nobody has kept it, and the deadline of an earlier promise does
\* not stop the messages of one made without.
PoolClean ==
  /\ \A c \in pool : buffer[c] = <<>> /\ handlers[c] = <<>> /\ ~hset[c]
  /\ \A p \in Promises : own[p] \notin pool
  /\ \A p, q \in Promises : own[p] = own[q] /\ own[p] # Nil => p = q
  /\ \A p \in Promises : ~timed[p] => spoilt[p] = <<>>

\* A once promise is completed or canceled at most once, whoever races; no
\* promise accepts anything after Cancel.
CompletedOnce ==
  \A p \in Promises :
    /\ size[p] = 1 => Len(sent[p]) <= 1
    /\ \A i \in DOMAIN sent[p] :
         kind[sent[p][i]] = "cancel" => i = Len(sent[p])

-----------------------------------------------------------------------------
(* Liveness.                                                               *)

Registered(p) ==
  \E k \in Calls : kind[k] = "handler" /\ target[k] = p /\ call[k] = "done"

\* A stream whose deadline has passed: receive sees to the deadline alone and
\* Handle calls it again and again.
Deaf(p) ==
  task[p] = "receive" /\ ~IsOnce(own[p]) /\ deadline[own[p]] /\ due[p]

\* A call waits for room in the channel with p's locker, and Handle will make
\* none: it has no handler, which OnComplete cannot bring without the locker,
\* it has left its loop and waits for the locker, or it is deaf.
Blocked(p) ==
  /\ \E k \in Calls : target[k] = p /\ call[k] = "send"
  /\ Len(buffer[own[p]]) = Size[own[p]]
  /\ \/ task[p] = "handler" /\ handlers[own[p]] = <<>>
     \/ task[p] = "finish"
     \/ Deaf(p)

\* Every call returns, whoever waits for the locker or for room in the channel,
\* unless the promise, a stream, is blocked; or the call is an OnComplete that
\* comes second and after Handle has finished, and panics instead of being
\* told Canceled.
CallsReturn ==
  \A k \in Calls :
    call[k] = "lock" ~> \/ call[k] \in Returned
                        \/ Blocked(target[k])
                        \/ call[k] = "panic" /\ Registered(target[k])

\* What was accepted comes to the handler, once there is one, or to the
\* unhandledResultHandler, unless the stream is blocked.  This is for promises
\* made without a deadline: with one, receive spoils the messages, and neither
\* sees them although README.md:41 says the handler gets the value.
AcceptedArrives ==
  \A k \in Calls, p \in Promises :
    target[k] = p /\ call[k] = "true" /\ Registered(p) /\ ~timed[p]
      ~> Contains(got[p] \o left[p], k) \/ Blocked(p)

Canceled(p) ==
  \E k \in Calls : target[k] = p /\ kind[k] = "cancel" /\ call[k] = "true"

\* A promise with a handler that was canceled, or whose deadline has passed or
\* whose context is done, gives back its goroutine and its channel, unless it
\* is a stream that its deadline made deaf, or one that is blocked.  (A Cancel
\* that got through had the locker: nobody is blocked behind it.)
Releases ==
  \A p \in Promises :
    /\ Registered(p) /\ Canceled(p) ~> task[p] = "gone" \/ Deaf(p)
    /\ Registered(p) /\ (due[p] \/ ended[p])
         ~> task[p] = "gone" \/ Deaf(p) \/ Blocked(p)
=============================================================================
