----------------------------- MODULE Executors -----------------------------
(***************************************************************************)
(* What an executor promises to its callers, whatever its mode: the        *)
(* interface Executors of executors.go, seen from outside.  A task stands  *)
(* for one call of TryExecute or Execute together with the task it hands   *)
(* over; the same Go value submitted twice is two tasks.                   *)
(*                                                                         *)
(* Share and Alone are shown to implement this specification.              *)
(***************************************************************************)
EXTENDS Naturals, FiniteSets

CONSTANTS
  Tasks,          \* one per call of TryExecute or Execute
  Closers,        \* one per call of Close
  MaxGoroutines   \* Options.MaxGoroutines

VARIABLES
  status,    \* how far each task got
  open,      \* Running()
  owed,      \* tasks accepted and not finished when Close took effect
  closing    \* how far each Close call got

vars == <<status, open, owed, closing>>

Status ==
  {"idle", "admitted", "accepted", "running", "finished", "busy", "closed"}
Closing == {"none", "closing", "ok", "failed", "already"}

TypeOK ==
  /\ status \in [Tasks -> Status]
  /\ open \in BOOLEAN
  /\ owed \subseteq Tasks
  /\ closing \in [Closers -> Closing]

Init ==
  /\ status = [t \in Tasks |-> "idle"]
  /\ open = TRUE
  /\ owed = {}
  /\ closing = [c \in Closers |-> "none"]

WithStatus(st) == {t \in Tasks : status[t] = st}

Move(t, from, to) ==
  /\ status[t] = from
  /\ status' = [status EXCEPT ![t] = to]
  /\ UNCHANGED <<open, owed, closing>>

\* A call sees the executor running; only such a call may still be accepted.
Admit(t) == open /\ Move(t, "idle", "admitted")

\* Execute found no goroutine and tries again.
Retry(t) == Move(t, "admitted", "idle")

\* The call returns ErrBusy ...
RefuseBusy(t) ==
  \/ Move(t, "admitted", "busy")
  \/ open /\ Move(t, "idle", "busy")

\* ... or ErrClosed.
RefuseClosed(t) == ~open /\ Move(t, "idle", "closed")

\* The call returns no error.
Accept(t) == Move(t, "admitted", "accepted")

\* A goroutine starts Task.Handle.
Start(t) ==
  /\ Cardinality(WithStatus("running")) < MaxGoroutines
  /\ Move(t, "accepted", "running")

Finish(t) == Move(t, "running", "finished")

CloseBegin(c) ==
  /\ open
  /\ closing[c] = "none"
  /\ open' = FALSE
  /\ owed' = WithStatus("accepted") \cup WithStatus("running")
  /\ closing' = [closing EXCEPT ![c] = "closing"]
  /\ UNCHANGED status

CloseAlready(c) ==
  /\ ~open
  /\ closing[c] = "none"
  /\ closing' = [closing EXCEPT ![c] = "already"]
  /\ UNCHANGED <<status, open, owed>>

\* A graceful Close returns no error: everything it found submitted is done.
CloseEnd(c) ==
  /\ closing[c] = "closing"
  /\ owed \subseteq WithStatus("finished")
  /\ closing' = [closing EXCEPT ![c] = "ok"]
  /\ UNCHANGED <<status, open, owed>>

\* Close gives up on its timeout.
CloseFail(c) ==
  /\ closing[c] = "closing"
  /\ closing' = [closing EXCEPT ![c] = "failed"]
  /\ UNCHANGED <<status, open, owed>>

Next ==
  \/ \E t \in Tasks :
       \/ Admit(t) \/ Retry(t) \/ RefuseBusy(t) \/ RefuseClosed(t)
       \/ Accept(t) \/ Start(t) \/ Finish(t)
  \/ \E c \in Closers :
       CloseBegin(c) \/ CloseAlready(c) \/ CloseEnd(c) \/ CloseFail(c)

Spec == Init /\ [][Next]_vars
=============================================================================
