---------------------------- MODULE BarrierProofs ---------------------------
(***************************************************************************)
(* Proofs about Barrier, for any calls of Do and Forget, any keys and any  *)
(* limit of goroutines, with WithWait and without: everybody who shares a  *)
(* call gets its outcome, and unless a key was forgotten there is one call *)
(* in flight for it.                                                       *)
(*                                                                         *)
(* Both hang on the mutex.  MutexInv: one goroutine at a time is inside a  *)
(* section that is cut.  StageInv: what Do has put where when it is at     *)
(* some point, and for the two sections of Do that what callers said at    *)
(* their beginning is still so when they write.  ListedInv and VictimInv   *)
(* are about those callers and what Forget took from them.                 *)
(***************************************************************************)
EXTENDS Barrier, TLAPS

Holds(k) == call[k] \in {"origin", "first", "join"} \/ origin[k] = "sharing"

MutexInv ==
  \A k \in Calls : Holds(k) => mutex /\ \A j \in Calls : Holds(j) => j = k

\* A call that has put its promise into a caller's shared, its own's or
\* another's.
Shares(k) == call[k] \in {"fn", "ok"}

\* What a call of Do has done so far.
StageInv(k) ==
  /\ call[k] \in {"origin", "first"} =>
       key[k] \in Keys /\ callers[key[k]] = Nil
  /\ call[k] = "join" =>
       /\ key[k] \in Keys /\ found[k] \in Calls
       /\ callers[key[k]] = found[k]
  /\ ~Shares(k) =>
       /\ shared[k] = {} /\ ~done[k] /\ answer[k] = Nil
       /\ origin[k] \in {"none", "open", "gone"}
       /\ \A c \in Calls : k \notin shared[c]
  /\ call[k] \in {"start", "origin", "join"} => origin[k] = "none"
  /\ call[k] = "fn" \/ (Shares(k) /\ origin[k] # "none") => k \in shared[k]
  /\ done[k] => origin[k] \in {"leave", "gone"}

\* The barrierCaller under a key is one of a call with that key, that has not
\* been handled.
ListedInv(x) ==
  callers[x] # Nil =>
    LET c == callers[x]
    IN  Shares(c) /\ key[c] = x /\ c \in shared[c] /\ ~done[c]

VictimInv(f) ==
  /\ forget[f] = "start" => victim[f] = Nil
  /\ forget[f] = "cancel" => victim[f] # Nil
  /\ victim[f] # Nil => Shares(victim[f])

\* OneOutcome and SingleFlight, one call at a time.
OutcomeOf(c) ==
  \A k \in shared[c] :
    /\ answer[k] \in {Nil, "ended", outcome[c]}
    /\ done[c] => answer[k] # Nil
    /\ \A d \in Calls : k \in shared[d] => c = d

Forgotten(x) == \E f \in Forgetters : victim[f] # Nil /\ key[victim[f]] = x

FlightOf(c) ==
  shared[c] # {} /\ ~done[c] => callers[key[c]] = c \/ Forgotten(key[c])

IInv ==
  /\ TypeOK
  /\ MutexInv
  /\ \A k \in Calls : StageInv(k) /\ OutcomeOf(k) /\ FlightOf(k)
  /\ \A x \in Keys : ListedInv(x)
  /\ \A f \in Forgetters : VictimInv(f)
-----------------------------------------------------------------------------
(* Invariance.                                                             *)

LEMMA InitInvariant == Init => IInv
PROOF
  <1> SUFFICES ASSUME Init PROVE IInv
    OBVIOUS
  <1>1. TypeOK
    BY DEF Init, TypeOK
  <1>2. MutexInv
    BY DEF Init, MutexInv, Holds
  <1>3. ASSUME NEW k \in Calls PROVE StageInv(k) /\ OutcomeOf(k) /\ FlightOf(k)
    BY <1>3 DEF Init, StageInv, OutcomeOf, FlightOf, Shares
  <1>4. ASSUME NEW x \in Keys PROVE ListedInv(x)
    BY DEF Init, ListedInv
  <1>5. ASSUME NEW f \in Forgetters PROVE VictimInv(f)
    BY DEF Init, VictimInv
  <1> QED BY <1>1, <1>2, <1>3, <1>4, <1>5 DEF IInv

LEMMA TypeStep ==
  ASSUME IInv, [Next]_vars
  PROVE  TypeOK'
PROOF
  <1> USE DEF argVars, callVars, callerVars, originVars, seatVars, forgetVars
  <1>1. TypeOK
    BY DEF IInv
  <1>2. ASSUME NEW k \in Calls, NEW x \in Keys, DoFirst(k, x) \/ DoShare(k, x)
        PROVE  TypeOK'
    <2>1. CASE DoFirst(k, x)
      BY <1>1, <2>1 DEF DoFirst, Goto, TypeOK
    <2>2. CASE DoShare(k, x)
      BY <1>1, <2>2 DEF DoShare, Goto, TypeOK
    <2> QED BY <1>2, <2>1, <2>2
  <1>3. ASSUME NEW k \in Calls,
               MakeOrigin(k) \/ MakeFails(k) \/ Abandon(k) \/ FnReturns(k)
        PROVE  TypeOK'
    <2>1. CASE MakeOrigin(k) \/ Abandon(k)
      BY <1>1, <2>1 DEF MakeOrigin, Abandon, Goto, TypeOK, Outcomes, Returned
    <2>2. CASE MakeFails(k) \/ FnReturns(k)
      BY <1>1, <2>2 DEF MakeFails, FnReturns, Goto, TypeOK, Returned
    <2> QED BY <1>3, <2>1, <2>2
  <1>4. ASSUME NEW k \in Calls, MakeFirst(k) PROVE TypeOK'
    BY <1>1, <1>4 DEF MakeFirst, Goto, TypeOK
  <1>5. ASSUME NEW k \in Calls, MakeJoin(k) PROVE TypeOK'
    BY <1>1, <1>5 DEF MakeJoin, Goto, TypeOK, Returned
  <1>6. ASSUME NEW k \in Calls,
               HandlerLock(k) \/ HandlerEnd(k) \/ OriginLeaves(k)
        PROVE  TypeOK'
    BY <1>1, <1>6 DEF HandlerLock, HandlerEnd, OriginLeaves, TypeOK
  <1>7. ASSUME NEW k \in Calls,
               \/ HandlerComplete(k) \/ Settle(k) \/ SharedEnds(k)
               \/ Collect(k)
        PROVE  TypeOK'
    BY <1>1, <1>7 DEF HandlerComplete, Cause, Settle, SharedEnds, Collect,
                      TypeOK, Outcomes
  <1>8. ASSUME NEW f \in Forgetters, ForgetCancel(f) PROVE TypeOK'
    BY <1>1, <1>8 DEF ForgetCancel, TypeOK, Outcomes
  <1>9. ASSUME NEW f \in Forgetters, NEW x \in Keys, Forget(f, x) PROVE TypeOK'
    BY <1>1, <1>9 DEF Forget, TypeOK
  <1>10. ASSUME UNCHANGED vars PROVE TypeOK'
    BY <1>1, <1>10 DEF vars, TypeOK
  <1> QED BY <1>2, <1>3, <1>4, <1>5, <1>6, <1>7, <1>8, <1>9, <1>10
          DEF Next, DoStep, OriginStep

\* One goroutine at a time is inside a section: it got in while the mutex was
\* free, and the next one gets in when it has left.
LEMMA MutexStep ==
  ASSUME IInv, [Next]_vars
  PROVE  MutexInv'
PROOF
  <1> USE DEF argVars, callVars, callerVars, originVars, seatVars, forgetVars
  <1>1. TypeOK /\ MutexInv
    BY DEF IInv
  <1>a. ASSUME mutex' = mutex, \A j \in Calls : Holds(j)' => Holds(j)
        PROVE  MutexInv'
    BY <1>1, <1>a DEF MutexInv
  <1>b. ASSUME NEW k \in Calls, ~mutex, mutex',
               \A j \in Calls : Holds(j)' => Holds(j) \/ j = k
        PROVE  MutexInv'
    BY <1>1, <1>b DEF MutexInv
  <1>c. ASSUME NEW k \in Calls, Holds(k),
               \A j \in Calls : Holds(j)' => Holds(j) /\ j # k
        PROVE  MutexInv'
    BY <1>1, <1>c DEF MutexInv
  <1>2. ASSUME NEW k \in Calls, NEW x \in Keys, DoFirst(k, x) \/ DoShare(k, x)
        PROVE  MutexInv'
    BY <1>1, <1>2, <1>b DEF DoFirst, DoShare, Goto, MutexFree, Holds, TypeOK
  <1>3. ASSUME NEW k \in Calls, HandlerLock(k) PROVE MutexInv'
    BY <1>1, <1>3, <1>b DEF HandlerLock, MutexFree, Holds, TypeOK
  <1>4. ASSUME NEW k \in Calls, MakeFirst(k) \/ MakeJoin(k) \/ MakeFails(k)
        PROVE  MutexInv'
    <2>1. Holds(k) /\ origin[k] # "sharing"
      BY <1>4 DEF MakeFirst, MakeJoin, MakeFails, Goto, Holds, IInv, StageInv,
                  Shares
    <2>2. \A j \in Calls : Holds(j)' => Holds(j) /\ j # k
      BY <1>1, <1>4, <2>1
         DEF MakeFirst, MakeJoin, MakeFails, Goto, Holds, TypeOK
    <2> QED BY <2>1, <2>2, <1>c
  <1>5. ASSUME NEW k \in Calls, HandlerEnd(k) PROVE MutexInv'
    <2>1. Holds(k) /\ call[k] \notin {"origin", "first", "join"}
      BY <1>5 DEF HandlerEnd, Holds, IInv, StageInv, Shares
    <2>2. \A j \in Calls : Holds(j)' => Holds(j) /\ j # k
      BY <1>1, <1>5, <2>1 DEF HandlerEnd, Holds, TypeOK
    <2> QED BY <2>1, <2>2, <1>c
  <1>6. ASSUME NEW k \in Calls,
               \/ MakeOrigin(k) \/ Abandon(k) \/ FnReturns(k)
               \/ HandlerComplete(k) \/ OriginLeaves(k)
               \/ Settle(k) \/ SharedEnds(k) \/ Collect(k)
        PROVE  MutexInv'
    <2>1. mutex' = mutex /\ \A j \in Calls : Holds(j)' => Holds(j)
      BY <1>1, <1>6
         DEF MakeOrigin, Abandon, FnReturns, HandlerComplete, OriginLeaves,
             Settle, SharedEnds, Collect, Goto, Holds, TypeOK
    <2> QED BY <2>1, <1>a
  <1>7. ASSUME \/ \E f \in Forgetters : ForgetCancel(f)
               \/ \E f \in Forgetters, x \in Keys : Forget(f, x)
               \/ UNCHANGED vars
        PROVE  MutexInv'
    BY <1>7, <1>a DEF ForgetCancel, Forget, vars, Holds
  <1> QED BY <1>2, <1>3, <1>4, <1>5, <1>6, <1>7
          DEF Next, DoStep, OriginStep

\* A call that shares does so for ever, and keeps its key.
LEMMA SharesStays ==
  ASSUME IInv, [Next]_vars, NEW c \in Calls, Shares(c)
  PROVE  Shares(c)' /\ key'[c] = key[c]
PROOF
  <1> USE DEF argVars, callVars
  <1>1. TypeOK
    BY DEF IInv
  <1>2. ASSUME NEW k \in Calls, NEW x \in Keys, DoFirst(k, x) \/ DoShare(k, x)
        PROVE  Shares(c)' /\ key'[c] = key[c]
    BY <1>1, <1>2 DEF DoFirst, DoShare, Goto, Shares, TypeOK
  <1>3. ASSUME NEW k \in Calls, DoStep(k) PROVE Shares(c)' /\ key'[c] = key[c]
    BY <1>1, <1>3
       DEF DoStep, MakeOrigin, MakeFirst, MakeJoin, MakeFails, Abandon,
           FnReturns, Goto, Shares, TypeOK
  <1>4. ASSUME \/ \E k \in Calls : \/ OriginStep(k) \/ Settle(k)
                                   \/ SharedEnds(k) \/ Collect(k)
               \/ \E f \in Forgetters : ForgetCancel(f)
               \/ \E f \in Forgetters, x \in Keys : Forget(f, x)
               \/ UNCHANGED vars
        PROVE  UNCHANGED callVars
    BY <1>4 DEF OriginStep, HandlerLock, HandlerComplete, HandlerEnd,
                OriginLeaves, Settle, SharedEnds, Collect, ForgetCancel, Forget,
                vars
  <1> QED BY <1>2, <1>3, <1>4 DEF Next, Shares

LEMMA VictimStep ==
  ASSUME IInv, [Next]_vars, NEW g \in Forgetters
  PROVE  VictimInv(g)'
PROOF
  <1>1. TypeOK /\ VictimInv(g)
    BY DEF IInv
  <1>2. victim[g] # Nil => Shares(victim[g]) /\ victim[g] \in Calls
    BY <1>1 DEF VictimInv, TypeOK
  <1>3. \A c \in Calls : Shares(c) => Shares(c)'
    BY SharesStays
  <1>4. ASSUME UNCHANGED forgetVars PROVE VictimInv(g)'
    BY <1>1, <1>2, <1>3, <1>4 DEF forgetVars, VictimInv, Shares
  <1>5. ASSUME NEW f \in Forgetters, ForgetCancel(f) PROVE VictimInv(g)'
    BY <1>1, <1>2, <1>3, <1>5 DEF ForgetCancel, VictimInv, TypeOK, Shares
  <1>6. ASSUME NEW f \in Forgetters, NEW x \in Keys, Forget(f, x)
        PROVE  VictimInv(g)'
    <2>1. callers[x] # Nil => Shares(callers[x]) /\ callers[x] \in Calls
      BY <1>1 DEF IInv, ListedInv, TypeOK
    <2> QED BY <1>1, <1>2, <1>3, <1>6, <2>1
            DEF Forget, callVars, VictimInv, TypeOK, Shares
  <1>7. ASSUME \/ \E k \in Calls :
                    \/ \E x \in Keys : DoFirst(k, x) \/ DoShare(k, x)
                    \/ DoStep(k) \/ OriginStep(k)
                    \/ Settle(k) \/ SharedEnds(k) \/ Collect(k)
               \/ UNCHANGED vars
        PROVE  UNCHANGED forgetVars
    BY <1>7 DEF DoFirst, DoShare, DoStep, MakeOrigin, MakeFirst, MakeJoin,
                MakeFails, Abandon, FnReturns, OriginStep, HandlerLock,
                HandlerComplete, HandlerEnd, OriginLeaves, Settle, SharedEnds,
                Collect, vars
  <1> QED BY <1>4, <1>5, <1>6, <1>7 DEF Next

LEMMA ListedStep ==
  ASSUME IInv, [Next]_vars, NEW y \in Keys
  PROVE  ListedInv(y)'
PROOF
  <1> USE DEF argVars, callVars, callerVars, originVars, seatVars, forgetVars
  <1>1. TypeOK /\ ListedInv(y)
    BY DEF IInv
  <1>2. \A c \in Calls : Shares(c) => Shares(c)' /\ key'[c] = key[c]
    BY SharesStays
  <1>a. ASSUME callers'[y] \in {callers[y], Nil}, UNCHANGED <<shared, done>>
        PROVE  ListedInv(y)'
    BY <1>1, <1>2, <1>a DEF ListedInv, TypeOK, Shares
  <1>3. ASSUME NEW k \in Calls, MakeFirst(k) PROVE ListedInv(y)'
    <2>1. key[k] \in Keys /\ ~done[k]
      BY <1>3 DEF MakeFirst, Goto, IInv, StageInv, Shares
    <2> QED BY <1>1, <1>2, <1>3, <2>1
            DEF MakeFirst, Goto, ListedInv, TypeOK, Shares
  <1>4. ASSUME NEW k \in Calls, MakeJoin(k) PROVE ListedInv(y)'
    BY <1>1, <1>2, <1>4 DEF MakeJoin, ListedInv, TypeOK, Shares
  <1>5. ASSUME NEW k \in Calls, HandlerEnd(k) PROVE ListedInv(y)'
    BY <1>1, <1>2, <1>5 DEF HandlerEnd, ListedInv, TypeOK, Shares
  <1>6. ASSUME NEW f \in Forgetters, NEW x \in Keys, Forget(f, x)
        PROVE  ListedInv(y)'
    BY <1>1, <1>6, <1>a DEF Forget, TypeOK
  <1>7. ASSUME \/ \E k \in Calls :
                    \/ \E x \in Keys : DoFirst(k, x) \/ DoShare(k, x)
                    \/ MakeOrigin(k) \/ MakeFails(k) \/ Abandon(k)
                    \/ FnReturns(k) \/ HandlerLock(k) \/ HandlerComplete(k)
                    \/ OriginLeaves(k)
                    \/ Settle(k) \/ SharedEnds(k) \/ Collect(k)
               \/ \E f \in Forgetters : ForgetCancel(f)
               \/ UNCHANGED vars
        PROVE  UNCHANGED callerVars
    BY <1>7 DEF DoFirst, DoShare, MakeOrigin, MakeFails, Abandon, FnReturns,
                HandlerLock, HandlerComplete, OriginLeaves, Settle, SharedEnds,
                Collect, ForgetCancel, vars
  <1> QED BY <1>3, <1>4, <1>5, <1>6, <1>7, <1>a
          DEF Next, DoStep, OriginStep

\* Who joins finds his caller as Do left it: a different call, and listed.
LEMMA Joining ==
  ASSUME IInv, NEW k \in Calls, call[k] = "join"
  PROVE  /\ found[k] \in Calls /\ found[k] # k
         /\ Shares(found[k]) /\ found[k] \in shared[found[k]] /\ ~done[found[k]]
         /\ key[k] \in Keys /\ key[found[k]] = key[k]
         /\ callers[key[k]] = found[k]
         /\ origin[found[k]] # "sharing"
PROOF
  <1>1. /\ key[k] \in Keys /\ found[k] \in Calls /\ callers[key[k]] = found[k]
        /\ ~Shares(k)
    BY DEF IInv, StageInv, Shares
  <1>2. ListedInv(key[k]) /\ found[k] # Nil
    BY <1>1, BarrierAssumption DEF IInv
  <1>3. Shares(found[k]) /\ found[k] \in shared[found[k]] /\ ~done[found[k]]
        /\ key[found[k]] = key[k] /\ found[k] # k
    BY <1>1, <1>2 DEF ListedInv
  <1>4. origin[found[k]] # "sharing"
    BY <1>1, <1>3 DEF IInv, MutexInv, Holds
  <1> QED BY <1>1, <1>3, <1>4

LEMMA StageStep ==
  ASSUME IInv, [Next]_vars, NEW i \in Calls
  PROVE  StageInv(i)'
PROOF
  <1> USE DEF argVars, callVars, callerVars, originVars, seatVars, forgetVars
  <1>1. TypeOK /\ MutexInv /\ StageInv(i)
    BY DEF IInv
  <1>2. ASSUME NEW k \in Calls, NEW x \in Keys, DoFirst(k, x) \/ DoShare(k, x)
        PROVE  StageInv(i)'
    BY <1>1, <1>2 DEF DoFirst, DoShare, Goto, TypeOK, StageInv, Shares
  <1>3. ASSUME NEW k \in Calls, MakeOrigin(k) PROVE StageInv(i)'
    BY <1>1, <1>3 DEF MakeOrigin, Goto, TypeOK, StageInv, Shares
  <1>4. ASSUME NEW k \in Calls, MakeFirst(k) PROVE StageInv(i)'
    BY <1>1, <1>4 DEF MakeFirst, Goto, TypeOK, MutexInv, Holds, StageInv, Shares
  <1>5. ASSUME NEW k \in Calls, MakeJoin(k) PROVE StageInv(i)'
    <2>1. call[k] = "join" /\ found[k] \in Calls /\ found[k] # k
          /\ Shares(found[k])
      BY <1>5, Joining DEF MakeJoin, Goto
    <2>2. \A c \in Calls :
            shared'[c] = IF c = found[k] THEN shared[c] \cup {k} ELSE shared[c]
      BY <1>1, <1>5, <2>1 DEF MakeJoin, TypeOK
    <2>3. /\ call'[k] = "ok" /\ \A c \in Calls \ {k} : call'[c] = call[c]
          /\ UNCHANGED <<key, found, callers, done, origin, answer>>
      BY <1>1, <1>5 DEF MakeJoin, Goto, TypeOK
    <2>4. CASE i = k
      <3>1. origin[k] = "none" /\ ~done[k]
        BY <1>1, <2>1, <2>4 DEF StageInv, Shares
      <3> QED BY <2>3, <2>4, <3>1 DEF StageInv, Shares
    <2>5. CASE i # k
      BY <1>1, <2>1, <2>2, <2>3, <2>5 DEF StageInv, Shares
    <2> QED BY <2>4, <2>5
  <1>6. ASSUME NEW k \in Calls, MakeFails(k) \/ Abandon(k) \/ FnReturns(k)
        PROVE  StageInv(i)'
    BY <1>1, <1>6
       DEF MakeFails, Abandon, FnReturns, Goto, TypeOK, StageInv, Shares
  <1>7. ASSUME NEW k \in Calls, HandlerLock(k) \/ OriginLeaves(k)
        PROVE  StageInv(i)'
    BY <1>1, <1>7 DEF HandlerLock, OriginLeaves, TypeOK, StageInv, Shares
  <1>8. ASSUME NEW k \in Calls, HandlerComplete(k) PROVE StageInv(i)'
    BY <1>1, <1>8 DEF HandlerComplete, TypeOK, StageInv, Shares
  <1>9. ASSUME NEW k \in Calls, HandlerEnd(k) PROVE StageInv(i)'
    <2>1. Shares(k)
      BY <1>9 DEF HandlerEnd, IInv, StageInv
    <2> QED BY <1>1, <1>9, <2>1
            DEF HandlerEnd, TypeOK, MutexInv, Holds, StageInv, Shares
  <1>10. ASSUME NEW k \in Calls, Settle(k) \/ SharedEnds(k) \/ Collect(k)
         PROVE  StageInv(i)'
    BY <1>1, <1>10 DEF Settle, SharedEnds, Collect, TypeOK, StageInv, Shares
  <1>11. ASSUME NEW f \in Forgetters, NEW x \in Keys, Forget(f, x)
         PROVE  StageInv(i)'
    BY <1>1, <1>11
       DEF Forget, MutexFree, TypeOK, MutexInv, Holds, StageInv, Shares
  <1>12. ASSUME \/ \E f \in Forgetters : ForgetCancel(f)
                \/ UNCHANGED vars
         PROVE  StageInv(i)'
    BY <1>1, <1>12 DEF ForgetCancel, vars, StageInv, Shares
  <1> QED BY <1>2, <1>3, <1>4, <1>5, <1>6, <1>7, <1>8, <1>9, <1>10, <1>11, <1>12
          DEF Next, DoStep, OriginStep

LEMMA OutcomeStep ==
  ASSUME IInv, [Next]_vars, NEW i \in Calls
  PROVE  OutcomeOf(i)'
PROOF
  <1> USE DEF argVars, callVars, callerVars, originVars, seatVars, forgetVars
  <1>1. TypeOK /\ OutcomeOf(i) /\ StageInv(i)
    BY DEF IInv
  <1>a. ASSUME UNCHANGED <<shared, done, outcome, answer>>
        PROVE  OutcomeOf(i)'
    BY <1>1, <1>a DEF OutcomeOf
  <1>2. ASSUME NEW k \in Calls, MakeFirst(k) PROVE OutcomeOf(i)'
    <2>1. /\ answer[k] = Nil /\ ~done[k]
          /\ \A c \in Calls : k \notin shared[c]
      BY <1>2 DEF MakeFirst, Goto, IInv, StageInv, Shares
    <2>2. \A c \in Calls : shared'[c] = IF c = k THEN {k} ELSE shared[c]
      BY <1>1, <1>2 DEF MakeFirst, TypeOK
    <2>3. UNCHANGED <<done, outcome, answer>>
      BY <1>2 DEF MakeFirst
    <2> QED BY <1>1, <2>1, <2>2, <2>3 DEF OutcomeOf
  <1>3. ASSUME NEW k \in Calls, MakeJoin(k) PROVE OutcomeOf(i)'
    <2>1. /\ answer[k] = Nil /\ ~done[found[k]] /\ found[k] \in Calls
          /\ \A c \in Calls : k \notin shared[c]
      BY <1>3, Joining DEF MakeJoin, Goto, IInv, StageInv, Shares
    <2>2. \A c \in Calls :
            shared'[c] = IF c = found[k] THEN shared[c] \cup {k} ELSE shared[c]
      BY <1>1, <1>3, <2>1 DEF MakeJoin, TypeOK
    <2>3. UNCHANGED <<done, outcome, answer>>
      BY <1>3 DEF MakeJoin
    <2>4. ASSUME NEW l \in shared'[i]
          PROVE  /\ answer[l] \in {Nil, "ended", outcome[i]}
                 /\ done[i] => answer[l] # Nil
                 /\ \A d \in Calls : l \in shared'[d] => i = d
      <3>1. CASE l = k
        BY <2>1, <2>2, <2>4, <3>1
      <3>2. CASE l # k
        <4>1. l \in shared[i] /\ \A d \in Calls : l \in shared'[d] => l \in shared[d]
          BY <2>2, <2>4, <3>2
        <4> QED BY <1>1, <4>1 DEF OutcomeOf
      <3> QED BY <3>1, <3>2
    <2> QED BY <2>3, <2>4 DEF OutcomeOf
  <1>4. ASSUME NEW k \in Calls, Abandon(k) PROVE OutcomeOf(i)'
    <2>1. i = k => shared[i] = {}
      BY <1>1, <1>4 DEF Abandon, Goto, StageInv, Shares
    <2> QED BY <1>1, <1>4, <2>1 DEF Abandon, OutcomeOf, TypeOK
  <1>5. ASSUME NEW k \in Calls, Settle(k) PROVE OutcomeOf(i)'
    BY <1>1, <1>5 DEF Settle, OutcomeOf, TypeOK
  <1>6. ASSUME NEW f \in Forgetters, ForgetCancel(f) PROVE OutcomeOf(i)'
    BY <1>1, <1>6 DEF ForgetCancel, OutcomeOf, TypeOK
  <1>7. ASSUME NEW k \in Calls, HandlerComplete(k) PROVE OutcomeOf(i)'
    <2>1. PICK j \in shared[k] :
            answer[j] = Nil /\ answer' = [answer EXCEPT ![j] = outcome[k]]
      BY <1>7 DEF HandlerComplete, Cause
    <2>2. j \in Calls /\ (j \in shared[i] => i = k)
      BY <1>1, <2>1 DEF TypeOK, OutcomeOf
    <2>3. \A l \in Calls \ {j} : answer'[l] = answer[l]
      BY <1>1, <2>1 DEF TypeOK
    <2>4. answer'[j] = outcome[k]
      BY <1>1, <2>1, <2>2 DEF TypeOK
    <2>5. UNCHANGED <<shared, done, outcome>>
      BY <1>7 DEF HandlerComplete
    <2>6. i = k => ~done[i]
      BY <1>1, <1>7 DEF HandlerComplete, StageInv
    <2> QED BY <1>1, <2>2, <2>3, <2>4, <2>5, <2>6 DEF OutcomeOf, TypeOK
  <1>8. ASSUME NEW k \in Calls, HandlerEnd(k) PROVE OutcomeOf(i)'
    BY <1>1, <1>8 DEF HandlerEnd, OutcomeOf, TypeOK
  <1>9. ASSUME NEW k \in Calls, SharedEnds(k) PROVE OutcomeOf(i)'
    BY <1>1, <1>9, BarrierAssumption DEF SharedEnds, OutcomeOf, TypeOK
  <1>10. ASSUME \/ \E k \in Calls :
                     \/ \E x \in Keys : DoFirst(k, x) \/ DoShare(k, x)
                     \/ MakeOrigin(k) \/ MakeFails(k) \/ FnReturns(k)
                     \/ HandlerLock(k) \/ OriginLeaves(k) \/ Collect(k)
                \/ \E f \in Forgetters, x \in Keys : Forget(f, x)
                \/ UNCHANGED vars
         PROVE  UNCHANGED <<shared, done, outcome, answer>>
    BY <1>10 DEF DoFirst, DoShare, MakeOrigin, MakeFails, FnReturns, HandlerLock,
                 OriginLeaves, Collect, Forget, vars
  <1> QED BY <1>2, <1>3, <1>4, <1>5, <1>6, <1>7, <1>8, <1>9, <1>10, <1>a
          DEF Next, DoStep, OriginStep

\* A key that was forgotten stays so: Forget does not forget its victim.
LEMMA ForgottenStays ==
  ASSUME IInv, [Next]_vars, NEW x, Forgotten(x)
  PROVE  Forgotten(x)'
PROOF
  <1>1. TypeOK
    BY DEF IInv
  <1>2. PICK f \in Forgetters : victim[f] # Nil /\ key[victim[f]] = x
    BY DEF Forgotten
  <1>3. victim[f] \in Calls /\ Shares(victim[f]) /\ forget[f] # "start"
    BY <1>1, <1>2 DEF IInv, VictimInv, TypeOK
  <1>4. key'[victim[f]] = x
    BY <1>2, <1>3, SharesStays
  <1>5. ASSUME NEW g \in Forgetters, NEW y \in Keys, Forget(g, y)
        PROVE  victim'[f] = victim[f]
    BY <1>1, <1>3, <1>5 DEF Forget, TypeOK
  <1>6. ASSUME \/ \E k \in Calls :
                    \/ \E y \in Keys : DoFirst(k, y) \/ DoShare(k, y)
                    \/ DoStep(k) \/ OriginStep(k)
                    \/ Settle(k) \/ SharedEnds(k) \/ Collect(k)
               \/ \E g \in Forgetters : ForgetCancel(g)
               \/ UNCHANGED vars
        PROVE  victim' = victim
    BY <1>6 DEF DoFirst, DoShare, DoStep, MakeOrigin, MakeFirst, MakeJoin,
                MakeFails, Abandon, FnReturns, OriginStep, HandlerLock,
                HandlerComplete, HandlerEnd, OriginLeaves, Settle, SharedEnds,
                Collect, ForgetCancel, forgetVars, vars
  <1>7. victim'[f] = victim[f]
    BY <1>5, <1>6 DEF Next
  <1> QED BY <1>2, <1>4, <1>7 DEF Forgotten

LEMMA FlightStep ==
  ASSUME IInv, [Next]_vars, NEW i \in Calls
  PROVE  FlightOf(i)'
PROOF
  <1> USE DEF argVars, callVars, callerVars, originVars, seatVars, forgetVars
  <1>1. TypeOK /\ FlightOf(i) /\ StageInv(i)
    BY DEF IInv
  <1>2. /\ shared[i] # {} => Shares(i)
        /\ Shares(i) => Shares(i)' /\ key'[i] = key[i]
    BY <1>1, SharesStays DEF StageInv
  <1>3. Forgotten(key[i]) /\ Shares(i) => Forgotten(key[i])'
    <2>1. ASSUME NEW x, x = key[i], Forgotten(x), Shares(i)
          PROVE  Forgotten(key[i])'
      <3>1. Forgotten(x)'
        BY <2>1, ForgottenStays
      <3> QED BY <1>2, <2>1, <3>1 DEF Forgotten
    <2> QED BY <2>1
  <1>a. ASSUME shared'[i] = {} \/ shared[i] # {}, done'[i] \/ ~done[i],
               callers[key[i]] = i =>
                 callers'[key[i]] = i \/ Forgotten(key[i])'
        PROVE  FlightOf(i)'
    BY <1>1, <1>2, <1>3, <1>a DEF FlightOf
  <1>4. ASSUME NEW k \in Calls, MakeFirst(k) PROVE FlightOf(i)'
    <2>1. key[k] \in Keys /\ callers[key[k]] # i
      BY <1>4, BarrierAssumption DEF MakeFirst, Goto, IInv, StageInv
    <2>2. /\ callers' = [callers EXCEPT ![key[k]] = k]
          /\ shared' = [shared EXCEPT ![k] = {k}] /\ UNCHANGED <<key, done>>
      BY <1>4 DEF MakeFirst
    <2>3. CASE i = k
      BY <1>1, <2>1, <2>2, <2>3 DEF FlightOf, TypeOK
    <2>4. CASE i # k
      <3>1. key[i] = key[k] => callers[key[i]] # i
        BY <2>1
      <3>2. callers[key[i]] = i => callers'[key[i]] = i
        BY <1>1, <2>2, <3>1 DEF TypeOK
      <3>3. shared'[i] = shared[i] /\ done'[i] = done[i]
        BY <1>1, <2>2, <2>4 DEF TypeOK
      <3> QED BY <1>a, <3>2, <3>3
    <2> QED BY <2>3, <2>4
  <1>5. ASSUME NEW k \in Calls, MakeJoin(k) PROVE FlightOf(i)'
    <2>1. found[k] \in Calls /\ shared[found[k]] # {}
      BY <1>5, Joining DEF MakeJoin, Goto
    <2>2. shared'[i] = {} \/ shared[i] # {}
      BY <1>1, <1>5, <2>1 DEF MakeJoin, TypeOK
    <2> QED BY <1>5, <1>a, <2>2 DEF MakeJoin
  <1>6. ASSUME NEW k \in Calls, HandlerEnd(k) PROVE FlightOf(i)'
    <2>1. k \in shared[k] /\ ~done[k] /\ FlightOf(k)
      BY <1>6 DEF HandlerEnd, IInv, StageInv
    <2>2. /\ callers' = [callers EXCEPT ![key[k]] = Nil]
          /\ done' = [done EXCEPT ![k] = TRUE] /\ shared' = shared
      BY <1>6 DEF HandlerEnd
    <2>3. CASE i = k
      BY <1>1, <2>2, <2>3 DEF FlightOf, TypeOK
    <2>4. CASE i # k
      <3>1. done'[i] = done[i]
        BY <1>1, <2>2, <2>4 DEF TypeOK
      <3>2. CASE key[i] = key[k] /\ callers[key[i]] = i
        <4>1. Forgotten(key[i])
          BY <2>1, <2>4, <3>2 DEF FlightOf
        <4>2. shared[i] # {} => Forgotten(key[i])'
          BY <1>2, <1>3, <4>1
        <4> QED BY <1>a, <2>2, <3>1, <4>2 DEF FlightOf
      <3>3. CASE key[i] # key[k] /\ callers[key[i]] = i
        BY <1>1, <1>a, <2>2, <3>1, <3>3 DEF TypeOK
      <3>4. CASE callers[key[i]] # i
        BY <1>a, <2>2, <3>1, <3>4
      <3> QED BY <3>2, <3>3, <3>4
    <2> QED BY <2>3, <2>4
  <1>7. ASSUME NEW f \in Forgetters, NEW x \in Keys, Forget(f, x)
        PROVE  FlightOf(i)'
    <2>1. /\ victim' = [victim EXCEPT ![f] = callers[x]]
          /\ callers' = [callers EXCEPT ![x] = Nil]
          /\ UNCHANGED <<shared, done, key>>
      BY <1>7 DEF Forget
    <2>2. CASE key[i] = x /\ callers[x] = i
      <3>1. victim'[f] = i /\ i # Nil
        BY <1>1, <2>1, <2>2, BarrierAssumption DEF TypeOK
      <3>2. Forgotten(key[i])'
        BY <2>1, <2>2, <3>1 DEF Forgotten
      <3> QED BY <1>a, <2>1, <3>2
    <2>3. CASE key[i] # x \/ callers[x] # i
      BY <1>1, <1>a, <2>1, <2>3 DEF TypeOK
    <2> QED BY <2>2, <2>3
  <1>8. ASSUME \/ \E k \in Calls :
                    \/ \E x \in Keys : DoFirst(k, x) \/ DoShare(k, x)
                    \/ MakeOrigin(k) \/ MakeFails(k) \/ Abandon(k)
                    \/ FnReturns(k) \/ HandlerLock(k) \/ HandlerComplete(k)
                    \/ OriginLeaves(k)
                    \/ Settle(k) \/ SharedEnds(k) \/ Collect(k)
               \/ \E f \in Forgetters : ForgetCancel(f)
               \/ UNCHANGED vars
        PROVE  UNCHANGED callerVars
    BY <1>8 DEF DoFirst, DoShare, MakeOrigin, MakeFails, Abandon, FnReturns,
                HandlerLock, HandlerComplete, OriginLeaves, Settle, SharedEnds,
                Collect, ForgetCancel, vars
  <1>9. ASSUME UNCHANGED callerVars PROVE FlightOf(i)'
    BY <1>9, <1>a
  <1> QED BY <1>4, <1>5, <1>6, <1>7, <1>8, <1>9 DEF Next, DoStep, OriginStep

LEMMA Invariance == Spec => []IInv
PROOF
  <1>1. Init => IInv
    BY InitInvariant
  <1>2. IInv /\ [Next]_vars => IInv'
    BY TypeStep, MutexStep, StageStep, OutcomeStep, FlightStep, ListedStep,
       VictimStep DEF IInv
  <1> QED BY <1>1, <1>2, PTL DEF Spec
-----------------------------------------------------------------------------
(* The theorems.                                                           *)

\* Every variable of the barrier has its type, and whoever goes on to cancel
\* a forgotten caller has one.
THEOREM TypeCorrect == Spec => []TypeOK
PROOF
  <1>1. IInv => TypeOK
    BY DEF IInv
  <1> QED BY <1>1, Invariance, PTL

\* doCall's handler gives everybody who shares a call its outcome before the
\* caller is done, nobody joins from then on, and nobody shares two.
THEOREM SameOutcome == Spec => []OneOutcome
PROOF
  <1>1. IInv => OneOutcome
    BY DEF IInv, OutcomeOf, OneOutcome
  <1> QED BY <1>1, Invariance, PTL

\* Without Forget a key has one call in flight, the one later calls share;
\* and Do never finds a caller that is done, so that it need not start again.
THEOREM OneFlight == Spec => []SingleFlight
PROOF
  <1>1. IInv => SingleFlight
    BY DEF IInv, FlightOf, Forgotten, ListedInv, InFlight, SingleFlight
  <1> QED BY <1>1, Invariance, PTL

\* Two goroutines are never inside the sections of barrier.go that b.locker
\* guards, whose steps the model separates.
THEOREM Exclusion == Spec => []MutexInv
PROOF
  <1>1. IInv => MutexInv
    BY DEF IInv
  <1> QED BY <1>1, Invariance, PTL
=============================================================================
