------------------------------ MODULE Barrier ------------------------------
(***************************************************************************)
(* The barrier (async/barrier.go): calls of Do with the same key share the *)
(* outcome of the first one's promise.                                     *)
(*                                                                         *)
(* A call of Do stands for the promises it makes as well: origin[k] is the *)
(* promise given to fn, if k became the caller of its key, seat[k] the     *)
(* promise behind the future that Do returns.  Both are once promises of   *)
(* async/future.go, each of which occupies a goroutine of the executor     *)
(* from Make until its handler has been run.                               *)
(*                                                                         *)
(* Grain.  What the mutex guards costs no step of its own.  A section that *)
(* also makes promises, or completes them, is cut at each of them, with    *)
(* mutex TRUE in between.                                                  *)
(***************************************************************************)
EXTENDS Naturals, FiniteSets

CONSTANTS
  Calls,          \* calls of Do
  Forgetters,     \* calls of Forget
  Keys,
  MaxGoroutines,  \* of the executor that Make uses
  Waits,          \* is WithWait among the options, and do contexts go on?
  Nil

ASSUME BarrierAssumption ==
  /\ MaxGoroutines \in Nat \ {0}
  /\ Waits \in BOOLEAN
  /\ Nil \notin Calls \cup Keys

VARIABLES
  mutex,    \* b.locker is held
  callers,  \* callers[x]: the call that put its barrierCaller there, or Nil
  done,     \* done[k]: caller.done of the barrierCaller k made
  shared,   \* shared[k]: the calls whose promise is in its caller.shared
  call,     \* call[k]: where Do is, or what it returned
  key,      \* key[k]: its argument
  found,    \* found[k]: the call whose barrierCaller it found in callers
  origin,   \* origin[k]: where the origin promise's goroutine is
  outcome,  \* outcome[k]: what that promise was completed with
  seat,     \* seat[k]: does the shared promise occupy a goroutine?
  answer,   \* answer[k]: what the shared promise was completed with
  forget,   \* forget[f]: where Forget is
  victim    \* victim[f]: the caller it took from callers

argVars == <<key, found>>
callVars == <<call, argVars>>
callerVars == <<callers, done, shared>>
originVars == <<origin, outcome>>
seatVars == <<seat, answer>>
forgetVars == <<forget, victim>>
vars == <<mutex, callVars, callerVars, originVars, seatVars, forgetVars>>

Outcomes == {"completed", "canceled"}
Returned == {"ok", "failed"}

TypeOK ==
  /\ mutex \in BOOLEAN
  /\ callers \in [Keys -> Calls \cup {Nil}]
  /\ done \in [Calls -> BOOLEAN]
  /\ shared \in [Calls -> SUBSET Calls]
  /\ call \in [Calls -> {"start", "origin", "first", "join", "abandon", "fn"}
                           \cup Returned]
  /\ key \in [Calls -> Keys \cup {Nil}]
  /\ found \in [Calls -> Calls \cup {Nil}]
  /\ origin \in [Calls -> {"none", "open", "sharing", "leave", "gone"}]
  /\ outcome \in [Calls -> Outcomes \cup {Nil}]
  /\ seat \in [Calls -> BOOLEAN]
  /\ answer \in [Calls -> Outcomes \cup {"ended", Nil}]
  /\ forget \in [Forgetters -> {"start", "cancel", "done"}]
  /\ victim \in [Forgetters -> Calls \cup {Nil}]
  /\ \A f \in Forgetters : forget[f] = "cancel" => victim[f] # Nil

Init ==
  /\ mutex = FALSE
  /\ callers = [x \in Keys |-> Nil]
  /\ done = [k \in Calls |-> FALSE]
  /\ shared = [k \in Calls |-> {}]
  /\ call = [k \in Calls |-> "start"]
  /\ key = [k \in Calls |-> Nil]
  /\ found = [k \in Calls |-> Nil]
  /\ origin = [k \in Calls |-> "none"]
  /\ outcome = [k \in Calls |-> Nil]
  /\ seat = [k \in Calls |-> FALSE]
  /\ answer = [k \in Calls |-> Nil]
  /\ forget = [f \in Forgetters |-> "start"]
  /\ victim = [f \in Forgetters |-> Nil]

Goto(k, from, to) == call[k] = from /\ call' = [call EXCEPT ![k] = to]

MutexBroken == TRUE
MutexFree == ~mutex

\* The goroutines that the promises occupy, and whether Make finds another:
\* without WithWait it may also be refused for reasons of others.
Occupied ==
  Cardinality({k \in Calls : origin[k] \in {"open", "sharing", "leave"}})
    + Cardinality({k \in Calls : seat[k]})
MakeFinds == Occupied < MaxGoroutines
MakeRefuses == ~Waits
-----------------------------------------------------------------------------
(* Do.                                                                     *)

\* There is no caller for the key: make the origin promise next.
DoFirstUnchecked(k, x) ==
  /\ MutexFree /\ mutex' = TRUE
  /\ Goto(k, "start", "origin")
  /\ key' = [key EXCEPT ![k] = x]
  /\ UNCHANGED <<found, callerVars, originVars, seatVars, forgetVars>>

DoFirst(k, x) ==
  /\ MutexFree /\ mutex' = TRUE
  /\ Goto(k, "start", "origin")
  /\ key' = [key EXCEPT ![k] = x]
  /\ callers[x] = Nil
  /\ UNCHANGED <<found, callerVars, originVars, seatVars, forgetVars>>

\* There is one: make a promise to share its outcome.  With a caller that is
\* done Do would unlock and start again, see SingleFlight.
DoShare(k, x) ==
  /\ MutexFree /\ mutex' = TRUE
  /\ Goto(k, "start", "join")
  /\ key' = [key EXCEPT ![k] = x]
  /\ callers[x] # Nil /\ ~done[callers[x]]
  /\ found' = [found EXCEPT ![k] = callers[x]]
  /\ UNCHANGED <<callerVars, originVars, seatVars, forgetVars>>

MakeOrigin(k) ==
  /\ Goto(k, "origin", "first")
  /\ MakeFinds
  /\ origin' = [origin EXCEPT ![k] = "open"]
  /\ UNCHANGED <<mutex, argVars, outcome, callerVars, seatVars, forgetVars>>

\* The second promise, the entry in callers and the origin's handler; the
\* mutex is released before fn is called.
MakeFirst(k) ==
  /\ Goto(k, "first", "fn")
  /\ MakeFinds
  /\ seat' = [seat EXCEPT ![k] = TRUE]
  /\ shared' = [shared EXCEPT ![k] = {k}]
  /\ callers' = [callers EXCEPT ![key[k]] = k]
  /\ mutex' = FALSE
  /\ UNCHANGED <<argVars, done, originVars, answer, forgetVars>>

MakeJoin(k) ==
  /\ Goto(k, "join", "ok")
  /\ MakeFinds
  /\ seat' = [seat EXCEPT ![k] = TRUE]
  /\ shared' = [shared EXCEPT ![found[k]] = @ \cup {k}]
  /\ mutex' = FALSE
  /\ UNCHANGED <<argVars, callers, done, originVars, answer, forgetVars>>

\* Make returned an error.
MakeFails(k) ==
  /\ MakeRefuses
  /\ Goto(k, "origin", "failed") \/ Goto(k, "join", "failed")
       \/ Goto(k, "first", "abandon")
  /\ mutex' = FALSE
  /\ UNCHANGED <<argVars, callerVars, originVars, seatVars, forgetVars>>

\* The origin promise made before it gets an empty handler and is canceled.
AbandonKept(k) ==
  /\ Goto(k, "abandon", "failed")
  /\ UNCHANGED <<mutex, argVars, originVars, callerVars, seatVars, forgetVars>>

Abandon(k) ==
  /\ Goto(k, "abandon", "failed")
  /\ outcome' = [outcome EXCEPT ![k] = "canceled"]
  /\ UNCHANGED <<mutex, argVars, origin, callerVars, seatVars, forgetVars>>

\* fn(origin) returns; the promise may be completed before or after that.
FnReturns(k) ==
  /\ Goto(k, "fn", "ok")
  /\ UNCHANGED <<mutex, argVars, callerVars, originVars, seatVars, forgetVars>>

DoStep(k) ==
  \/ MakeOrigin(k) \/ MakeFirst(k) \/ MakeJoin(k) \/ MakeFails(k)
  \/ Abandon(k) \/ FnReturns(k)
-----------------------------------------------------------------------------
(* The promises.                                                           *)

\* The user completes or fails the origin promise, or its context ends.
Settle(k) ==
  /\ origin[k] = "open" /\ call[k] \in {"fn", "ok"}
  /\ outcome[k] = Nil
  /\ outcome' = [outcome EXCEPT ![k] = "completed"]
  /\ UNCHANGED <<mutex, callVars, callerVars, origin, seatVars, forgetVars>>

\* The handler doCall has given it, in the origin's goroutine.
HandlerLock(k) ==
  /\ MutexFree /\ mutex' = TRUE
  /\ origin[k] = "open" /\ call[k] \in {"fn", "ok"} /\ ~done[k]
  /\ outcome[k] # Nil
  /\ origin' = [origin EXCEPT ![k] = "sharing"]
  /\ UNCHANGED <<callVars, callerVars, outcome, seatVars, forgetVars>>

\* promise.Complete(entry, cause) for one of caller.shared.
CauseDropped(o) == "completed"
Cause(o) == o

HandlerComplete(k) ==
  /\ origin[k] = "sharing"
  /\ \E j \in shared[k] :
       /\ answer[j] = Nil
       /\ answer' = [answer EXCEPT ![j] = Cause(outcome[k])]
  /\ UNCHANGED <<mutex, callVars, callerVars, originVars, seat, forgetVars>>

\* All of them have been completed, or had ended before.
HandlerListed(k) ==
  /\ origin[k] = "sharing"
  /\ \A j \in shared[k] : answer[j] # Nil
  /\ origin' = [origin EXCEPT ![k] = "leave"]
  /\ done' = [done EXCEPT ![k] = TRUE]
  /\ mutex' = FALSE
  /\ UNCHANGED <<callers, callVars, shared, outcome, seatVars, forgetVars>>

HandlerEnd(k) ==
  /\ origin[k] = "sharing"
  /\ \A j \in shared[k] : answer[j] # Nil
  /\ origin' = [origin EXCEPT ![k] = "leave"]
  /\ done' = [done EXCEPT ![k] = TRUE]
  /\ callers' = [callers EXCEPT ![key[k]] = Nil]
  /\ mutex' = FALSE
  /\ UNCHANGED <<callVars, shared, outcome, seatVars, forgetVars>>

\* The goroutine of an origin promise leaves: after the handler, or with the
\* empty one that an abandoned promise was given.
OriginLeaves(k) ==
  /\ \/ origin[k] = "leave"
     \/ origin[k] = "open" /\ call[k] = "failed" /\ outcome[k] # Nil
  /\ origin' = [origin EXCEPT ![k] = "gone"]
  /\ UNCHANGED <<mutex, callVars, callerVars, outcome, seatVars, forgetVars>>

OriginStep(k) == HandlerLock(k) \/ HandlerComplete(k) \/ HandlerEnd(k)
                   \/ OriginLeaves(k)

\* The context of a shared promise ends before it has been completed.
SharedEnds(k) ==
  /\ call[k] = "ok" /\ seat[k] /\ answer[k] = Nil
  /\ answer' = [answer EXCEPT ![k] = "ended"]
  /\ UNCHANGED <<mutex, callVars, callerVars, originVars, seat, forgetVars>>

\* The user's handler, registered once Do has returned, gets the answer, and
\* the goroutine leaves.
Collect(k) ==
  /\ call[k] = "ok" /\ seat[k] /\ answer[k] # Nil
  /\ seat' = [seat EXCEPT ![k] = FALSE]
  /\ UNCHANGED <<mutex, callVars, callerVars, originVars, answer, forgetVars>>
-----------------------------------------------------------------------------
(* Forget.                                                                 *)

ForgetUnchecked(f, x) ==
  /\ MutexFree
  /\ forget[f] = "start"
  /\ victim' = [victim EXCEPT ![f] = callers[x]]
  /\ callers' = [callers EXCEPT ![x] = Nil]
  /\ forget' = [forget EXCEPT ![f] = "cancel"]
  /\ UNCHANGED <<mutex, done, shared, callVars, originVars, seatVars>>

Forget(f, x) ==
  /\ MutexFree
  /\ forget[f] = "start"
  /\ victim' = [victim EXCEPT ![f] = callers[x]]
  /\ callers' = [callers EXCEPT ![x] = Nil]
  /\ forget' = [forget EXCEPT ![f] = IF callers[x] = Nil THEN "done"
                                                         ELSE "cancel"]
  /\ UNCHANGED <<mutex, done, shared, callVars, originVars, seatVars>>

\* caller.origin.Cancel(), without the mutex: too late if the promise has
\* been completed.
ForgetOnly(f) ==
  /\ forget[f] = "cancel"
  /\ forget' = [forget EXCEPT ![f] = "done"]
  /\ UNCHANGED <<mutex, victim, callVars, callerVars, originVars, seatVars>>

ForgetCancel(f) ==
  /\ forget[f] = "cancel"
  /\ forget' = [forget EXCEPT ![f] = "done"]
  /\ LET c == victim[f]
     IN  outcome' = [outcome EXCEPT ![c] = IF @ = Nil THEN "canceled" ELSE @]
  /\ UNCHANGED <<mutex, victim, callVars, callerVars, origin, seatVars>>
-----------------------------------------------------------------------------

Next ==
  \/ \E k \in Calls :
       \/ \E x \in Keys : DoFirst(k, x) \/ DoShare(k, x)
       \/ DoStep(k) \/ OriginStep(k)
       \/ Settle(k) \/ SharedEnds(k) \/ Collect(k)
  \/ \E f \in Forgetters : ForgetCancel(f) \/ \E x \in Keys : Forget(f, x)

Spec == Init /\ [][Next]_vars

\* A call that was made goes on and fn returns; a promise that was completed
\* is handled, once it has a handler, which users must register
\* (async/future.go).  Whether fn's promise is ever completed is the user's.
Fairness ==
  /\ \A k \in Calls :
       WF_vars(DoStep(k)) /\ WF_vars(OriginStep(k)) /\ WF_vars(Collect(k))
  /\ \A f \in Forgetters : WF_vars(ForgetCancel(f))

FairSpec == Spec /\ Fairness
-----------------------------------------------------------------------------
(* Safety.                                                                 *)

\* Callers whose origin promise is with the user or waits for its handler.
InFlight == {c \in Calls : shared[c] # {} /\ ~done[c]}

\* Everybody who shares a call gets its outcome, value or error, unless the
\* context of his own promise ended first; nobody shares two, and nobody
\* joins while, or after, the outcome is handed out.
OneOutcome ==
  \A c \in Calls : \A k \in shared[c] :
    /\ answer[k] \in {Nil, "ended", outcome[c]}
    /\ done[c] => answer[k] # Nil
    /\ \A d \in Calls : k \in shared[d] => c = d

\* A call in flight is the one that later calls with its key share, unless
\* the key was forgotten at some time; and no call that is done is listed,
\* though Forget and handlers remove entries that belong to others.
SingleFlight ==
  /\ \A c \in InFlight :
       \/ callers[key[c]] = c
       \/ \E f \in Forgetters : victim[f] # Nil /\ key[victim[f]] = key[c]
  /\ \A x \in Keys : callers[x] # Nil => ~done[callers[x]]
-----------------------------------------------------------------------------
(* Liveness.                                                               *)

\* Everybody who shares a call that was completed, or forgotten, gets an
\* answer.
SharersAnswered ==
  \A c \in Calls :
    outcome[c] # Nil \/ (\E f \in Forgetters : victim[f] = c)
      ~> \A k \in shared[c] : answer[k] # Nil

\* An origin promise gives its goroutine back once it is completed, and also
\* when Do gave up because the second promise could not be made.
OriginsLeave ==
  \A c \in Calls :
    outcome[c] # Nil \/ call[c] = "abandon" ~> origin[c] = "gone"
-----------------------------------------------------------------------------
(* What the documentation says.                                            *)

\* barrier.go: once the first promise is completed its caller is forgotten.
CompletionForgets ==
  \A c \in Calls, x \in Keys : outcome[c] # Nil ~> callers[x] # c
=============================================================================
