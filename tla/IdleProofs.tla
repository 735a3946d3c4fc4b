----------------------------- MODULE IdleProofs -----------------------------
(***************************************************************************)
(* The binary search of clean(), for any number of idle goroutines and any *)
(* stamps.                                                                 *)
(*                                                                         *)
(* The loop invariant says that what is left of l ends with an expired     *)
(* goroutine and what is right of r starts with one that is not.  Without  *)
(* order among the stamps that is all there is to know, and it is enough   *)
(* for OnlyOvertaken; with order it makes the cut exact.                   *)
(***************************************************************************)
EXTENDS Idle, SequenceTheorems, TLAPS

TypeInv ==
  /\ clock \in Int /\ critical \in Int /\ l \in Int /\ r \in Int
  /\ idles \in Seq(Workers) /\ scratch \in Seq(Workers)
  /\ lastUseTime \in [Workers -> Int]
  /\ at \in [Workers -> {"task", "stamped", "idle", "gone"}]
  /\ janitor \in {"away", "search", "stop"}
  /\ janitor = "stop" => scratch # <<>>

\* A goroutine waits in one place, once, so that nobody stamps it while it is
\* searched.
PlaceInv ==
  /\ \A i \in 1..Len(idles) : at[idles[i]] = "idle"
  /\ \A i \in 1..Len(scratch) : at[scratch[i]] = "idle"
  /\ \A i, j \in 1..Len(idles) : idles[i] = idles[j] => i = j
  /\ \A i, j \in 1..Len(scratch) : scratch[i] = scratch[j] => i = j
  /\ \A i \in 1..Len(idles), j \in 1..Len(scratch) : idles[i] # scratch[j]
  /\ janitor # "stop" => scratch = <<>>

LoopInv ==
  janitor = "search" =>
    /\ 1 <= l /\ l <= r + 1 /\ r <= Len(idles)
    /\ l > 1 => Expired(idles[l - 1])
    /\ r < Len(idles) => ~Expired(idles[r + 1])

IInv == TypeInv /\ PlaceInv /\ LoopInv
-----------------------------------------------------------------------------
\* A part of a sequence.
LEMMA Part ==
  ASSUME NEW s \in Seq(Workers), NEW m \in Int, NEW n \in Int,
         1 <= m, m <= n + 1, n <= Len(s)
  PROVE  /\ SubSeq(s, m, n) \in Seq(Workers)
         /\ Len(SubSeq(s, m, n)) = n - m + 1
         /\ \A i \in 1..(n - m + 1) : SubSeq(s, m, n)[i] = s[m + i - 1]
PROOF
  <1>1. \A i \in m..n : s[i] \in Workers
    OBVIOUS
  <1> QED BY <1>1, SubSeqProperties

\* What Evict takes and what it leaves.
LEMMA EvictFacts ==
  ASSUME TypeInv, LoopInv, Evict
  PROVE  /\ l = r + 1 /\ r \in 0..Len(idles) /\ Len(idles) \in Nat
         /\ scratch' \in Seq(Workers) /\ Len(scratch') = r
         /\ \A i \in 1..r : scratch'[i] = idles[i]
         /\ idles' \in Seq(Workers) /\ Len(idles') = Len(idles) - r
         /\ \A i \in 1..(Len(idles) - r) : idles'[i] = idles[r + i]
         /\ janitor' = IF r = 0 THEN "away" ELSE "stop"
         /\ UNCHANGED <<clock, lastUseTime, at, critical, l, r>>
PROOF
  <1>1. /\ l = r + 1 /\ r \in 0..Len(idles) /\ Len(idles) \in Nat
        /\ idles \in Seq(Workers)
    BY DEF TypeInv, LoopInv, Evict
  <1>2. scratch' = SubSeq(idles, 1, r) /\ idles' = SubSeq(idles, r + 1, Len(idles))
    BY DEF Evict, Cut
  <1>3. /\ SubSeq(idles, 1, r) \in Seq(Workers)
        /\ Len(SubSeq(idles, 1, r)) = r - 1 + 1
        /\ \A i \in 1..(r - 1 + 1) : SubSeq(idles, 1, r)[i] = idles[1 + i - 1]
    BY <1>1, Part
  <1>4. /\ SubSeq(idles, r + 1, Len(idles)) \in Seq(Workers)
        /\ Len(SubSeq(idles, r + 1, Len(idles))) = Len(idles) - (r + 1) + 1
        /\ \A i \in 1..(Len(idles) - (r + 1) + 1) :
             SubSeq(idles, r + 1, Len(idles))[i] = idles[(r + 1) + i - 1]
    BY <1>1, Part
  <1>5. /\ janitor' = IF r = 0 THEN "away" ELSE "stop"
        /\ UNCHANGED <<clock, lastUseTime, at, critical, l, r>>
    BY DEF Evict, searchVars
  <1> QED BY <1>1, <1>2, <1>3, <1>4, <1>5

\* What Pick leaves.
LEMMA PickFacts ==
  ASSUME TypeInv, NEW w \in Workers, Pick(w)
  PROVE  /\ Len(idles) \in Nat \ {0} /\ idles[Len(idles)] = w
         /\ idles' \in Seq(Workers) /\ Len(idles') = Len(idles) - 1
         /\ \A i \in 1..(Len(idles) - 1) : idles'[i] = idles[i]
         /\ at' = [at EXCEPT ![w] = "task"]
         /\ UNCHANGED <<clock, lastUseTime, janitor, critical, l, r, scratch>>
PROOF
  <1>1. /\ Len(idles) \in Nat \ {0} /\ idles[Len(idles)] = w
        /\ idles \in Seq(Workers)
    BY DEF TypeInv, Pick
  <1> DEFINE n == Len(idles) - 1
  <1>2. n \in Nat /\ n <= Len(idles)
    BY <1>1
  <1>3. idles' = SubSeq(idles, 1, n)
    BY DEF Pick
  <1> HIDE DEF n
  <1>4. /\ SubSeq(idles, 1, n) \in Seq(Workers)
        /\ Len(SubSeq(idles, 1, n)) = n - 1 + 1
        /\ \A i \in 1..(n - 1 + 1) : SubSeq(idles, 1, n)[i] = idles[1 + i - 1]
    BY <1>1, <1>2, Part
  <1>5. /\ at' = [at EXCEPT ![w] = "task"]
        /\ UNCHANGED <<clock, lastUseTime, janitor, critical, l, r, scratch>>
    BY DEF Pick, Goto, searchVars
  <1>6. Len(idles') = n /\ \A i \in 1..n : idles'[i] = idles[i]
    BY <1>2, <1>3, <1>4
  <1> QED BY <1>1, <1>3, <1>4, <1>5, <1>6 DEF n
-----------------------------------------------------------------------------
LEMMA TypeStep ==
  ASSUME IInv, [Next]_vars
  PROVE  TypeInv'
PROOF
  <1> USE IdleAssumption DEF TypeInv, IInv
  <1>1. CASE Tick
    BY <1>1 DEF Tick, searchVars
  <1>2. ASSUME NEW w \in Workers, Stamp(w) PROVE TypeInv'
    BY <1>2 DEF Stamp, Goto, searchVars
  <1>3. ASSUME NEW w \in Workers, Rejoin(w) PROVE TypeInv'
    BY <1>3 DEF Rejoin, Goto, searchVars
  <1>4. ASSUME NEW w \in Workers, Pick(w) PROVE TypeInv'
    BY <1>4, PickFacts
  <1>5. ASSUME NEW w \in Workers, Spawn(w) PROVE TypeInv'
    BY <1>5 DEF Spawn, Goto, searchVars
  <1>6. CASE CleanLock
    BY <1>6 DEF CleanLock
  <1>7. CASE Search
    BY <1>7 DEF Search
  <1>8. CASE Evict
    BY <1>8, EvictFacts
  <1>9. CASE Stop
    <2>1. scratch # <<>> /\ scratch \in Seq(Workers)
      BY <1>9 DEF Stop
    <2>2. /\ Tail(scratch) \in Seq(Workers) /\ Head(scratch) \in Workers
          /\ Len(Tail(scratch)) = Len(scratch) - 1 /\ Len(scratch) \in Nat \ {0}
      BY <2>1
    <2>3. janitor' = "stop" => scratch' # <<>>
      <3>1. scratch' = Tail(scratch) /\ (janitor' = "stop" => Len(scratch) # 1)
        BY <1>9 DEF Stop
      <3>2. janitor' = "stop" => Len(scratch') # 0
        BY <3>1, <2>2
      <3> QED BY <3>2
    <2>4. scratch' \in Seq(Workers) /\ janitor' \in {"away", "search", "stop"}
      BY <1>9, <2>2 DEF Stop
    <2>5. at' \in [Workers -> {"task", "stamped", "idle", "gone"}]
      BY <1>9 DEF Stop
    <2>6. UNCHANGED <<clock, idles, lastUseTime, critical, l, r>>
      BY <1>9 DEF Stop, searchVars
    <2> QED BY <2>3, <2>4, <2>5, <2>6
  <1>10. CASE UNCHANGED vars
    BY <1>10 DEF vars, searchVars
  <1> QED BY <1>1, <1>2, <1>3, <1>4, <1>5, <1>6, <1>7, <1>8, <1>9, <1>10
          DEF Next, Clean, Use

LEMMA PlaceStep ==
  ASSUME IInv, [Next]_vars
  PROVE  PlaceInv'
PROOF
  <1> USE DEF TypeInv, IInv
  <1>1. CASE Tick
    BY <1>1 DEF Tick, searchVars, PlaceInv
  <1>2. ASSUME NEW w \in Workers, Stamp(w) PROVE PlaceInv'
    BY <1>2 DEF Stamp, Goto, searchVars, PlaceInv
  <1>3. ASSUME NEW w \in Workers, Rejoin(w) PROVE PlaceInv'
    <2>1. /\ idles' = Append(idles, w) /\ Len(idles') = Len(idles) + 1
          /\ \A i \in 1..Len(idles) : idles'[i] = idles[i]
          /\ idles'[Len(idles) + 1] = w
      BY <1>3 DEF Rejoin
    <2>2. /\ \A i \in 1..Len(idles) : idles[i] # w
          /\ \A i \in 1..Len(scratch) : scratch[i] # w
      BY <1>3 DEF Rejoin, Goto, PlaceInv
    <2>3. /\ at[w] = "stamped" /\ at' = [at EXCEPT ![w] = "idle"]
          /\ UNCHANGED <<janitor, scratch>> /\ Len(idles) \in Nat
      BY <1>3 DEF Rejoin, Goto
    <2>4. \A i \in 1..Len(idles') :
            /\ at'[idles'[i]] = "idle"
            /\ \A j \in 1..Len(scratch) : idles'[i] # scratch[j]
      <3> TAKE i \in 1..Len(idles')
      <3>1. CASE i \in 1..Len(idles)
        <4>1. idles'[i] = idles[i] /\ at[idles[i]] = "idle"
          BY <2>1, <3>1 DEF PlaceInv
        <4>2. at'[idles[i]] = "idle"
          BY <2>3, <4>1
        <4> QED BY <3>1, <4>1, <4>2 DEF PlaceInv
      <3>2. CASE i = Len(idles) + 1
        BY <2>1, <2>2, <2>3, <3>2
      <3> QED BY <2>1, <2>3, <3>1, <3>2
    <2>5. \A i, j \in 1..Len(idles') : idles'[i] = idles'[j] => i = j
      BY <2>1, <2>2, <2>3 DEF PlaceInv
    <2>6. \A i \in 1..Len(scratch) : at'[scratch[i]] = "idle"
      BY <2>2, <2>3 DEF PlaceInv
    <2>7. /\ \A i, j \in 1..Len(scratch) : scratch[i] = scratch[j] => i = j
          /\ janitor # "stop" => scratch = <<>>
      BY DEF PlaceInv
    <2>8. scratch' = scratch /\ janitor' = janitor
      BY <2>3
    <2>9. \A i \in 1..Len(idles'), j \in 1..Len(scratch) : idles'[i] # scratch[j]
      BY <2>4
    <2>10. \A i \in 1..Len(idles') : at'[idles'[i]] = "idle"
      BY <2>4
    <2> HIDE DEF TypeInv, IInv
    <2> QED BY <2>5, <2>6, <2>7, <2>8, <2>9, <2>10 DEF PlaceInv
  <1>4. ASSUME NEW w \in Workers, Pick(w) PROVE PlaceInv'
    <2>1. /\ Len(idles) \in Nat \ {0} /\ idles[Len(idles)] = w
          /\ Len(idles') = Len(idles) - 1
          /\ \A i \in 1..(Len(idles) - 1) : idles'[i] = idles[i]
          /\ at' = [at EXCEPT ![w] = "task"]
          /\ UNCHANGED <<janitor, scratch>>
      BY <1>4, PickFacts
    <2>2. \A i \in 1..(Len(idles) - 1) : idles[i] # w /\ idles[i] \in Workers
      <3> TAKE i \in 1..(Len(idles) - 1)
      <3>1. i \in 1..Len(idles) /\ Len(idles) \in 1..Len(idles) /\ i # Len(idles)
        BY <2>1
      <3>2. idles[i] # idles[Len(idles)]
        BY <3>1 DEF PlaceInv
      <3> QED BY <2>1, <3>1, <3>2
    <2>3. \A i \in 1..Len(scratch) : scratch[i] # w /\ scratch[i] \in Workers
      BY <2>1 DEF PlaceInv
    <2>4. \A i \in 1..Len(idles') : at'[idles'[i]] = "idle"
      BY <2>1, <2>2 DEF PlaceInv
    <2>5. \A i \in 1..Len(scratch') : at'[scratch'[i]] = "idle"
      BY <2>1, <2>3 DEF PlaceInv
    <2> QED BY <2>1, <2>4, <2>5 DEF PlaceInv
  <1>5. ASSUME NEW w \in Workers, Spawn(w) PROVE PlaceInv'
    BY <1>5 DEF Spawn, Goto, searchVars, PlaceInv
  <1>6. CASE CleanLock
    BY <1>6 DEF CleanLock, PlaceInv
  <1>7. CASE Search
    BY <1>7 DEF Search, PlaceInv
  <1>8. CASE Evict
    <2>1. janitor' # "stop" => scratch' = <<>>
      BY <1>8, EvictFacts
    <2>2. /\ r \in 0..Len(idles) /\ Len(idles) \in Nat
          /\ Len(scratch') = r /\ \A i \in 1..r : scratch'[i] = idles[i]
          /\ Len(idles') = Len(idles) - r
          /\ \A i \in 1..(Len(idles) - r) : idles'[i] = idles[r + i]
          /\ UNCHANGED at
      BY <1>8, EvictFacts
    <2>3. \A i, j \in 1..Len(idles') : idles'[i] = idles'[j] => i = j
      <3> SUFFICES ASSUME NEW i \in 1..Len(idles'), NEW j \in 1..Len(idles'),
                          idles'[i] = idles'[j]
                   PROVE  i = j
        OBVIOUS
      <3>1. r + i \in 1..Len(idles) /\ r + j \in 1..Len(idles)
        BY <2>2
      <3>2. idles[r + i] = idles[r + j]
        BY <2>2, <3>1
      <3>3. r + i = r + j
        BY <3>1, <3>2 DEF PlaceInv
      <3> QED BY <2>2, <3>3
    <2>4. \A i \in 1..Len(idles'), j \in 1..Len(scratch') : idles'[i] # scratch'[j]
      <3> SUFFICES ASSUME NEW i \in 1..Len(idles'), NEW j \in 1..Len(scratch')
                   PROVE  idles'[i] # scratch'[j]
        OBVIOUS
      <3>1. r + i \in 1..Len(idles) /\ j \in 1..Len(idles) /\ r + i # j
        BY <2>2
      <3>2. idles[r + i] # idles[j]
        BY <3>1 DEF PlaceInv
      <3>3. idles'[i] = idles[r + i] /\ scratch'[j] = idles[j]
        BY <2>2
      <3> QED BY <3>2, <3>3
    <2>5. \A i \in 1..Len(idles') : at'[idles'[i]] = "idle"
      <3> TAKE i \in 1..Len(idles')
      <3>1. r + i \in 1..Len(idles) /\ idles'[i] = idles[r + i]
        BY <2>2
      <3>2. at[idles[r + i]] = "idle"
        BY <3>1 DEF PlaceInv
      <3> QED BY <2>2, <3>1, <3>2
    <2>6. \A i \in 1..Len(scratch') : at'[scratch'[i]] = "idle"
      BY <2>2 DEF PlaceInv
    <2>7. \A i, j \in 1..Len(scratch') : scratch'[i] = scratch'[j] => i = j
      <3> SUFFICES ASSUME NEW i \in 1..Len(scratch'), NEW j \in 1..Len(scratch'),
                          scratch'[i] = scratch'[j]
                   PROVE  i = j
        OBVIOUS
      <3>1. i \in 1..Len(idles) /\ j \in 1..Len(idles) /\ idles[i] = idles[j]
        BY <2>2
      <3> QED BY <3>1 DEF PlaceInv
    <2> QED BY <2>1, <2>3, <2>4, <2>5, <2>6, <2>7 DEF PlaceInv
  <1>9. CASE Stop
    <2>1. scratch # <<>> /\ scratch \in Seq(Workers)
      BY <1>9 DEF Stop
    <2>2. /\ scratch' = Tail(scratch) /\ at' = [at EXCEPT ![Head(scratch)] = "gone"]
          /\ Len(scratch') = Len(scratch) - 1 /\ Len(scratch) \in Nat \ {0}
          /\ \A i \in 1..(Len(scratch) - 1) : scratch'[i] = scratch[i + 1]
          /\ Head(scratch) = scratch[1]
      BY <1>9, <2>1 DEF Stop
    <2>3. janitor' # "stop" => scratch' = <<>>
      BY <1>9, <2>1, <2>2 DEF Stop
    <2>4. UNCHANGED idles /\ janitor = "stop"
      BY <1>9 DEF Stop
    <2>5. \A i \in 1..Len(scratch') : scratch'[i] # scratch[1] /\ at[scratch'[i]] = "idle"
      <3> TAKE i \in 1..Len(scratch')
      <3>1. i + 1 \in 1..Len(scratch) /\ 1 \in 1..Len(scratch) /\ i + 1 # 1
            /\ scratch'[i] = scratch[i + 1]
        BY <2>2
      <3> QED BY <3>1 DEF PlaceInv
    <2>6. \A i \in 1..Len(idles) : idles[i] # scratch[1] /\ at[idles[i]] = "idle"
      BY <2>2 DEF PlaceInv
    <2>7. /\ \A i \in 1..Len(scratch') : at'[scratch'[i]] = "idle"
          /\ \A i \in 1..Len(idles) : at'[idles[i]] = "idle"
      BY <2>2, <2>5, <2>6
    <2>8. \A i, j \in 1..Len(scratch') : scratch'[i] = scratch'[j] => i = j
      <3> SUFFICES ASSUME NEW i \in 1..Len(scratch'), NEW j \in 1..Len(scratch'),
                          scratch'[i] = scratch'[j]
                   PROVE  i = j
        OBVIOUS
      <3>1. /\ i + 1 \in 1..Len(scratch) /\ j + 1 \in 1..Len(scratch)
            /\ scratch[i + 1] = scratch[j + 1]
        BY <2>2
      <3>2. i + 1 = j + 1
        BY <3>1 DEF PlaceInv
      <3> QED BY <3>2
    <2>9. \A i \in 1..Len(idles), j \in 1..Len(scratch') : idles[i] # scratch'[j]
      <3> TAKE i \in 1..Len(idles), j \in 1..Len(scratch')
      <3>1. j + 1 \in 1..Len(scratch) /\ scratch'[j] = scratch[j + 1]
        BY <2>2
      <3> QED BY <3>1 DEF PlaceInv
    <2> QED BY <2>3, <2>4, <2>7, <2>8, <2>9 DEF PlaceInv
  <1>10. CASE UNCHANGED vars
    BY <1>10 DEF vars, searchVars, PlaceInv
  <1> QED BY <1>1, <1>2, <1>3, <1>4, <1>5, <1>6, <1>7, <1>8, <1>9, <1>10
          DEF Next, Clean, Use

\* The loop invariant of the search.
LEMMA LoopStep ==
  ASSUME IInv, [Next]_vars
  PROVE  LoopInv'
PROOF
  <1> USE IdleAssumption DEF TypeInv, IInv
  <1>1. CASE Tick
    BY <1>1 DEF Tick, searchVars, LoopInv, Expired
  <1>2. ASSUME NEW w \in Workers, Stamp(w) PROVE LoopInv'
    <2>1. \A i \in 1..Len(idles) : lastUseTime'[idles[i]] = lastUseTime[idles[i]]
      BY <1>2 DEF Stamp, Goto, PlaceInv
    <2>2. UNCHANGED <<idles, janitor, critical, l, r>>
      BY <1>2 DEF Stamp, searchVars
    <2>3. \A i \in 1..Len(idles) : Expired(idles[i])' = Expired(idles[i])
      BY <2>1, <2>2 DEF Expired
    <2>4. CASE janitor = "search"
      <3>1. l > 1 => l - 1 \in 1..Len(idles)
        BY <2>4 DEF LoopInv
      <3>2. r < Len(idles) => r + 1 \in 1..Len(idles)
        BY <2>4 DEF LoopInv
      <3> QED BY <2>2, <2>3, <2>4, <3>1, <3>2 DEF LoopInv
    <2> QED BY <2>2, <2>4 DEF LoopInv
  <1>3. ASSUME NEW w \in Workers, Rejoin(w) \/ Pick(w) \/ Spawn(w) PROVE LoopInv'
    BY <1>3 DEF Rejoin, Pick, Spawn, LockFree, LoopInv
  <1>4. CASE CleanLock
    BY <1>4 DEF CleanLock, LoopInv
  <1>5. CASE Search
    <2> DEFINE mid == (l + r) \div 2
    <2>1. l <= mid /\ mid <= r /\ mid \in Int
      BY <1>5 DEF Search, LoopInv
    <2>2. \/ Expired(idles[mid]) /\ l' = mid + 1 /\ r' = r
          \/ ~Expired(idles[mid]) /\ r' = mid - 1 /\ l' = l
      BY <1>5 DEF Search
    <2>3. UNCHANGED <<idles, lastUseTime, critical, janitor>>
      BY <1>5 DEF Search
    <2> HIDE DEF mid
    <2>4. CASE Expired(idles[mid]) /\ l' = mid + 1 /\ r' = r
      BY <1>5, <2>1, <2>3, <2>4 DEF Search, LoopInv, Expired
    <2>5. CASE ~Expired(idles[mid]) /\ r' = mid - 1 /\ l' = l
      BY <1>5, <2>1, <2>3, <2>5 DEF Search, LoopInv, Expired
    <2> QED BY <2>2, <2>4, <2>5
  <1>6. CASE Evict \/ Stop
    BY <1>6 DEF Evict, Stop, LoopInv
  <1>7. CASE UNCHANGED vars
    BY <1>7 DEF vars, searchVars, LoopInv, Expired
  <1> QED BY <1>1, <1>2, <1>3, <1>4, <1>5, <1>6, <1>7 DEF Next, Clean, Use

\* The search keeps to the boundary between expired and not.
THEOREM Invariance == Spec => []IInv
PROOF
  <1>1. Init => IInv
    BY IdleAssumption DEF Init, IInv, TypeInv, PlaceInv, LoopInv
  <1>2. IInv /\ [Next]_vars => IInv'
    BY TypeStep, PlaceStep, LoopStep DEF IInv
  <1> QED BY <1>1, <1>2, PTL DEF Spec
-----------------------------------------------------------------------------
Sorted ==
  \A i, j \in 1..Len(idles) :
    i < j => lastUseTime[idles[i]] <= lastUseTime[idles[j]]

\* The first k of idles are those that were idle for too long.
Exactly(k) == \A i \in 1..Len(idles) : Expired(idles[i]) <=> i <= k

SortedExact == [][Evict /\ Sorted => Exactly(Len(scratch'))]_vars

\* Among stamps in order, clean() evicts exactly the expired goroutines, for
\* any number of them.
THEOREM SearchExact == Spec => SortedExact
PROOF
  <1>1. IInv => (Evict /\ Sorted => Exactly(Len(scratch')))
    <2> SUFFICES ASSUME IInv, Evict, Sorted PROVE Exactly(Len(scratch'))
      OBVIOUS
    <2> USE DEF IInv
    <2>1. l = r + 1 /\ r \in 0..Len(idles) /\ Len(scratch') = r
      BY EvictFacts
    <2>2. /\ l > 1 => Expired(idles[r])
          /\ r < Len(idles) => ~Expired(idles[r + 1])
      BY <2>1 DEF Evict, LoopInv, TypeInv
    <2>3. ASSUME NEW i \in 1..Len(idles) PROVE Expired(idles[i]) <=> i <= r
      <3>1. CASE i <= r
        BY <2>1, <2>2, <3>1 DEF Sorted, Expired, TypeInv
      <3>2. CASE i > r
        <4>1. r + 1 \in 1..Len(idles) /\ r + 1 <= i
          BY <2>1, <3>2 DEF TypeInv
        <4>2. lastUseTime[idles[r + 1]] <= lastUseTime[idles[i]]
          BY <4>1 DEF Sorted, TypeInv
        <4>3. ~Expired(idles[r + 1])
          BY <2>1, <2>2, <4>1
        <4>4. /\ lastUseTime[idles[r + 1]] \in Int /\ lastUseTime[idles[i]] \in Int
              /\ critical \in Int
          BY <4>1 DEF TypeInv
        <4>5. ~Expired(idles[i])
          BY <4>2, <4>3, <4>4 DEF Expired
        <4>6. i \in Int /\ ~(i <= r)
          BY <2>1, <3>2
        <4> QED BY <4>5, <4>6
      <3> QED BY <3>1, <3>2, <2>1 DEF TypeInv
    <2> QED BY <2>1, <2>3 DEF Exactly
  <1> QED BY <1>1, Invariance, PTL DEF Spec, SortedExact

\* In whatever order the stamps are, a goroutine is misjudged only because
\* another one overtook it between reading the clock and the locker.
THEOREM SearchOvertaken == Spec => OnlyOvertaken
PROOF
  <1> DEFINE P(i) ==
        /\ i <= Len(scratch') /\ ~Expired(idles[i]) =>
             \E j \in 1..Len(idles) : /\ i < j /\ j <= Len(scratch')
                                      /\ Expired(idles[j])
        /\ i > Len(scratch') /\ Expired(idles[i]) =>
             \E j \in 1..Len(idles) : /\ j < i /\ j > Len(scratch')
                                      /\ ~Expired(idles[j])
  <1>1. IInv => (Evict => \A i \in 1..Len(idles) : P(i))
    <2> SUFFICES ASSUME IInv, Evict, NEW i \in 1..Len(idles) PROVE P(i)
      OBVIOUS
    <2> USE DEF IInv
    <2>1. l = r + 1 /\ r \in 0..Len(idles) /\ Len(scratch') = r
      BY EvictFacts
    <2>2. /\ l > 1 => Expired(idles[r])
          /\ r < Len(idles) => ~Expired(idles[r + 1])
      BY <2>1 DEF Evict, LoopInv, TypeInv
    <2>3. CASE i <= r /\ ~Expired(idles[i])
      <3>1. i < r /\ Expired(idles[r]) /\ r \in 1..Len(idles)
        BY <2>1, <2>2, <2>3 DEF TypeInv
      <3> QED BY <2>1, <2>3, <3>1
    <2>4. CASE i > r /\ Expired(idles[i])
      <3>1. r + 1 < i /\ ~Expired(idles[r + 1]) /\ r + 1 \in 1..Len(idles)
        BY <2>1, <2>2, <2>4 DEF TypeInv
      <3> QED BY <2>1, <2>4, <3>1
    <2> QED BY <2>1, <2>3, <2>4 DEF TypeInv
  <1> QED BY <1>1, Invariance, PTL DEF Spec, OnlyOvertaken
=============================================================================
