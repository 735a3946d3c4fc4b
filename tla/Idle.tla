-------------------------------- MODULE Idle --------------------------------
(***************************************************************************)
(* The idle goroutines of the share executor by the time they became idle, *)
(* and the binary search by which clean() finds those that were idle for   *)
(* too long.  Share leaves open which prefix of idles is evicted; this is  *)
(* the module that decides it.                                             *)
(*                                                                         *)
(* release() reads the clock before it has the locker, so goroutines may   *)
(* overtake each other between the two and idles need not be sorted by     *)
(* lastUseTime, which the search takes for granted.                        *)
(*                                                                         *)
(* The search is the only section of the locker with more than one step.   *)
(* Indices count from one: l and r here are l + 1 and r + 1 there.         *)
(***************************************************************************)
EXTENDS Integers, Sequences

CONSTANTS
  Workers,    \* submitters, each with its goroutine
  Duration,   \* maxGoroutinesIdleDuration
  MaxTime     \* bound of the clock in what TLC checks

ASSUME IdleAssumption == Duration \in Nat \ {0} /\ MaxTime \in Nat

VARIABLES
  clock,         \* time.Now()
  idles,
  lastUseTime,
  at,            \* at[w]: where w is
  janitor,       \* where clean() is
  critical,      \* criticalTime
  l, r,          \* of the search
  scratch        \* what clean() has taken out of idles and still has to stop

searchVars == <<critical, l, r>>
vars == <<clock, idles, lastUseTime, at, janitor, searchVars, scratch>>

Init ==
  /\ clock = 0
  /\ idles = <<>>
  /\ lastUseTime = [w \in Workers |-> 0]
  /\ at = [w \in Workers |-> "task"]
  /\ janitor = "away"
  /\ critical = 0 /\ l = 1 /\ r = 0
  /\ scratch = <<>>

LockFree == janitor # "search"
Goto(w, from, to) == at[w] = from /\ at' = [at EXCEPT ![w] = to]

\* The clock is monotonic.
Tick ==
  /\ clock < MaxTime
  /\ clock' = clock + 1
  /\ UNCHANGED <<idles, lastUseTime, at, janitor, searchVars, scratch>>

\* A bound of what TLC checks: what is released by then is expired before
\* MaxTime.
LastRelease == MaxTime - Duration - 1

\* release(): the clock, and then, with the locker, the append.
Stamp(w) ==
  /\ clock <= LastRelease
  /\ Goto(w, "task", "stamped")
  /\ lastUseTime' = [lastUseTime EXCEPT ![w] = clock]
  /\ UNCHANGED <<clock, idles, janitor, searchVars, scratch>>

Rejoin(w) ==
  /\ LockFree
  /\ Goto(w, "stamped", "idle")
  /\ idles' = Append(idles, w)
  /\ UNCHANGED <<clock, lastUseTime, janitor, searchVars, scratch>>

\* tryGetTaskSubmitter takes the last one, or else starts a goroutine.
Pick(w) ==
  /\ LockFree
  /\ idles # <<>> /\ idles[Len(idles)] = w
  /\ Goto(w, "idle", "task")
  /\ idles' = SubSeq(idles, 1, Len(idles) - 1)
  /\ UNCHANGED <<clock, lastUseTime, janitor, searchVars, scratch>>

Spawn(w) ==
  /\ LockFree /\ idles = <<>>
  /\ Goto(w, "gone", "task")
  /\ UNCHANGED <<clock, idles, lastUseTime, janitor, searchVars, scratch>>
-----------------------------------------------------------------------------
(* clean().                                                                *)

CleanLock ==
  /\ janitor = "away" /\ idles # <<>>
  /\ janitor' = "search"
  /\ critical' = clock - Duration
  /\ l' = 1 /\ r' = Len(idles)
  /\ UNCHANGED <<clock, idles, lastUseTime, at, scratch>>

Expired(w) == lastUseTime[w] < critical

\* (SearchStuck forgets to step over mid.)
SearchStuck ==
  /\ janitor = "search" /\ l <= r
  /\ LET mid == (l + r) \div 2
     IN  IF Expired(idles[mid]) THEN l' = mid /\ r' = r
                                ELSE r' = mid - 1 /\ l' = l
  /\ UNCHANGED <<clock, idles, lastUseTime, at, janitor, critical, scratch>>

Search ==
  /\ janitor = "search" /\ l <= r
  /\ LET mid == (l + r) \div 2
     IN  IF Expired(idles[mid]) THEN l' = mid + 1 /\ r' = r
                                ELSE r' = mid - 1 /\ l' = l
  /\ UNCHANGED <<clock, idles, lastUseTime, at, janitor, critical, scratch>>

\* ready[:i+1] leaves, the rest moves up, and the locker is released.  (CutAtL
\* takes the goroutine at l as well.)
CutAtL == IF l <= Len(idles) THEN l ELSE r
Cut == r

Evict ==
  /\ janitor = "search" /\ l > r
  /\ scratch' = SubSeq(idles, 1, Cut)
  /\ idles' = SubSeq(idles, Cut + 1, Len(idles))
  /\ janitor' = IF r = 0 THEN "away" ELSE "stop"
  /\ UNCHANGED <<clock, lastUseTime, at, searchVars>>

\* tmp[j].stop(), on which the goroutine ends.
Stop ==
  /\ janitor = "stop"
  /\ at' = [at EXCEPT ![Head(scratch)] = "gone"]
  /\ scratch' = Tail(scratch)
  /\ janitor' = IF Len(scratch) = 1 THEN "away" ELSE "stop"
  /\ UNCHANGED <<clock, idles, lastUseTime, searchVars>>

Clean == CleanLock \/ Search \/ Evict \/ Stop
Use(w) == Stamp(w) \/ Rejoin(w) \/ Pick(w) \/ Spawn(w)

Next == Tick \/ Clean \/ \E w \in Workers : Use(w)
Spec == Init /\ [][Next]_vars

\* The clock goes on, and clean() is called again and again.
FairSpec == Spec /\ WF_vars(Tick) /\ WF_vars(Clean)
-----------------------------------------------------------------------------
(* Properties.                                                             *)

\* clean() goes by the goroutine, as executors.go:40 has it and unlike
\* options.go:34, which says that a whole group goes at once: where nobody was
\* overtaken, those are evicted that have been idle for longer than the
\* duration and no others.  Where somebody was, the error is bounded by the
\* overtaking: who is evicted before his time stands before one who had been
\* idle for longer, and whose time had come; who stays beyond it, behind one
\* who was idle for less.
OnlyOvertaken ==
  [][Evict =>
       \A i \in 1..Len(idles) :
         /\ i <= Len(scratch') /\ ~Expired(idles[i]) =>
              \E j \in 1..Len(idles) : /\ i < j /\ j <= Len(scratch')
                                       /\ Expired(idles[j])
         /\ i > Len(scratch') /\ Expired(idles[i]) =>
              \E j \in 1..Len(idles) : /\ j < i /\ j > Len(scratch')
                                       /\ ~Expired(idles[j])]_vars

\* A goroutine does not stay idle for ever, in whatever order it got there:
\* it is picked, or evicted and stopped.
IdleGoes ==
  \A w \in Workers : at[w] = "idle" ~> at[w] # "idle"
=============================================================================
