----------------------------- MODULE MakeProofs -----------------------------
(***************************************************************************)
(* Proofs about Make, for any options in any number and order, any times   *)
(* they are applied at, and ints of any width: the waiting time in force   *)
(* is the shortest asked for, and the channel is the one that fits.        *)
(*                                                                         *)
(* The second is arithmetic: the bits of a number, the number with given   *)
(* bits, and powers of two.  Induction is by the least number for which a  *)
(* statement would fail.                                                   *)
(***************************************************************************)
EXTENDS Make, SequenceTheorems, FiniteSetTheorems, WellFoundedInduction, TLAPS

Options == [WaitTimeout : Int, StreamBuffer : Int, Deadline : Int]

\* What the options come to: the shortest of the waiting times asked for since
\* the last deadline that had passed is in force, a wait without a limit if it
\* is all that was asked for since.
ShortestWait ==
  stage # "options" =>
    opt.WaitTimeout =
      IF bounds # {} THEN Min(bounds) ELSE IF waits THEN -1 ELSE 0

\* The same while the options are still being applied.
InForce ==
  IF bounds # {}
  THEN opt.WaitTimeout \in bounds /\ \A b \in bounds : opt.WaitTimeout <= b
  ELSE opt.WaitTimeout = IF waits THEN -1 ELSE 0

IInv ==
  /\ options \in Seq([with : With, arg : Int])
  /\ applied \in 0..Len(options)
  /\ opt \in Options /\ now \in Int
  /\ bounds \subseteq {b \in Int : b > 0}
  /\ waits \in BOOLEAN
  /\ InForce
  /\ stage # "options" => applied = Len(options)
-----------------------------------------------------------------------------

LEMMA InitInvariant == Init => IInv
PROOF
  <1> SUFFICES ASSUME Init PROVE IInv
    OBVIOUS
  <1>1. options \in Seq([with : With, arg : Int])
    BY MakeAssumption DEF Init
  <1>2. applied \in 0..Len(options)
    BY <1>1, LenProperties DEF Init
  <1>3. opt \in Options /\ now \in Int
    BY DEF Init, Options
  <1>4. InForce
    BY DEF Init, InForce
  <1> QED BY <1>1, <1>2, <1>3, <1>4 DEF Init, IInv

LEMMA AppliedOptions ==
  ASSUME opt \in Options, now \in Int, NEW o \in [with : With, arg : Int]
  PROVE  Applied(o) \in Options
PROOF
  <1> USE DEF Applied, Options
  <1>1. CASE o.with = "StreamAndSize"
    BY <1>1 DEF WithStreamAndSize
  <1>2. CASE o.with = "WaitTimeout"
    BY <1>2 DEF WithWaitTimeout
  <1>3. CASE o.with = "Wait"
    BY <1>3 DEF WithWait
  <1>4. CASE o.with = "Deadline"
    <2> DEFINE wait == IF o.arg - now < 1 THEN 0
                       ELSE Shorter(opt.WaitTimeout, o.arg - now)
    <2>1. wait \in Int
      BY DEF Shorter
    <2>2. CASE o.arg = 0
      BY <1>4, <2>2 DEF WithDeadline
    <2>3. CASE o.arg # 0
      <3>1. Applied(o) = [opt EXCEPT !.Deadline = o.arg, !.WaitTimeout = wait]
        BY <1>4, <2>3, Zenon DEF WithDeadline
      <3> HIDE DEF wait
      <3> QED BY <2>1, <3>1
    <2> QED BY <2>2, <2>3
  <1>5. CASE o.with = "Timeout"
    <2>1. now + o.arg \in Int /\ Shorter(opt.WaitTimeout, o.arg) \in Int
      BY DEF Shorter
    <2> QED BY <1>5, <2>1 DEF WithTimeout
  <1> QED BY <1>1, <1>2, <1>3, <1>4, <1>5 DEF With

\* What an option makes of the waiting time w in force.
LEMMA AppliedWait ==
  ASSUME opt \in Options, now \in Int, NEW o \in [with : With, arg : Int],
         ~Passed(o)
  PROVE  Applied(o).WaitTimeout =
           IF Bounded(o) THEN Shorter(opt.WaitTimeout, Bound(o))
           ELSE IF o.with = "Wait" /\ opt.WaitTimeout = 0 THEN -1
           ELSE opt.WaitTimeout
PROOF
  <1> USE DEF Applied, Bounded, Passed, Bound, Options
  <1>1. CASE o.with = "StreamAndSize"
    BY <1>1 DEF WithStreamAndSize
  <1>2. CASE o.with = "WaitTimeout"
    BY <1>2 DEF WithWaitTimeout, Shorter
  <1>3. CASE o.with = "Wait"
    BY <1>3 DEF WithWait
  <1>4. CASE o.with = "Deadline"
    BY <1>4 DEF WithDeadline, Shorter
  <1>5. CASE o.with = "Timeout"
    BY <1>5 DEF WithTimeout, Shorter
  <1> QED BY <1>1, <1>2, <1>3, <1>4, <1>5 DEF With

LEMMA ApplyStep ==
  ASSUME IInv, Apply
  PROVE  IInv'
PROOF
  <1>1. PICK o : o = options[applied + 1]
    OBVIOUS
  <1>2. /\ applied < Len(options) /\ applied' = applied + 1
        /\ opt' = Applied(o)
        /\ bounds' = IF Passed(o) THEN {}
                     ELSE IF Bounded(o) THEN bounds \cup {Bound(o)} ELSE bounds
        /\ waits' = (~Passed(o) /\ (waits \/ o.with = "Wait"))
        /\ stage = "options"
        /\ UNCHANGED <<options, now, stage>>
    BY <1>1 DEF Apply, worldVars
  <1>3. /\ options \in Seq([with : With, arg : Int]) /\ Len(options) \in Nat
        /\ applied \in 0..Len(options)
        /\ applied + 1 \in 1..Len(options)
    BY <1>2, LenProperties DEF IInv
  <1>4. o \in [with : With, arg : Int]
    BY <1>1, <1>3, ElementOfSeq
  <1>5. opt' \in Options
    BY <1>2, <1>4, AppliedOptions DEF IInv
  <1>6. bounds' \subseteq {b \in Int : b > 0}
    <2>1. bounds \subseteq {b \in Int : b > 0}
      BY DEF IInv
    <2>2. CASE Bounded(o)
      <3>1. Bound(o) \in Int
        BY <1>4 DEF IInv, Bound
      <3>2. Bound(o) > 0
        BY <2>2 DEF Bounded
      <3> QED BY <1>2, <2>1, <3>1, <3>2
    <2>3. CASE ~Bounded(o)
      BY <1>2, <2>1, <2>3
    <2> QED BY <2>2, <2>3
  <1>7. CASE Passed(o)
    <2>1. opt'.WaitTimeout = 0
      BY <1>2, <1>4, <1>7
         DEF IInv, Options, Passed, Bound, Applied, WithDeadline
    <2>2. bounds' = {} /\ waits' = FALSE
      BY <1>2, <1>7
    <2>3. InForce'
      BY <2>1, <2>2 DEF InForce
    <2> QED BY <1>2, <1>3, <1>5, <1>6, <2>2, <2>3 DEF IInv
  <1>8. CASE ~Passed(o)
    <2>1. waits' = (waits \/ o.with = "Wait")
      BY <1>2, <1>8
    <2>2. InForce /\ opt.WaitTimeout \in Int
      BY DEF IInv, Options
    <2>3. opt'.WaitTimeout =
            IF Bounded(o) THEN Shorter(opt.WaitTimeout, Bound(o))
            ELSE IF o.with = "Wait" /\ opt.WaitTimeout = 0 THEN -1
            ELSE opt.WaitTimeout
      BY <1>2, <1>4, <1>8, AppliedWait DEF IInv
    <2>4. CASE Bounded(o)
      <3>1. Bound(o) \in Int /\ Bound(o) > 0
        BY <1>4, <2>4 DEF IInv, Bounded, Bound
      <3>2. bounds' = bounds \cup {Bound(o)}
        BY <1>2, <1>8, <2>4
      <3>3. opt'.WaitTimeout = Shorter(opt.WaitTimeout, Bound(o))
        BY <2>3, <2>4
      <3>4. bounds \subseteq {b \in Int : b > 0}
        BY DEF IInv
      <3>5. ASSUME bounds # {} PROVE InForce'
        BY <2>2, <3>1, <3>2, <3>3, <3>4, <3>5 DEF InForce, Shorter
      <3>6. ASSUME bounds = {} PROVE InForce'
        BY <2>2, <3>1, <3>2, <3>3, <3>6 DEF InForce, Shorter
      <3>7. InForce'
        BY <3>5, <3>6
      <3> QED BY <1>2, <1>3, <1>5, <1>6, <3>7 DEF IInv
    <2>5. CASE ~Bounded(o)
      <3>1. bounds' = bounds
        BY <1>2, <1>8, <2>5
      <3>2. ASSUME bounds # {} PROVE InForce'
        <4>1. opt.WaitTimeout # 0
          BY <2>2, <3>2 DEF InForce, IInv
        <4>2. opt'.WaitTimeout = opt.WaitTimeout
          BY <2>3, <2>5, <4>1
        <4> QED BY <2>2, <3>1, <3>2, <4>2 DEF InForce
      <3>3. ASSUME bounds = {} PROVE InForce'
        BY <2>1, <2>2, <2>3, <2>5, <3>1, <3>3 DEF InForce
      <3>4. InForce'
        BY <3>2, <3>3
      <3> QED BY <1>2, <1>3, <1>5, <1>6, <3>4 DEF IInv
    <2> QED BY <2>4, <2>5
  <1> QED BY <1>7, <1>8

LEMMA Invariance == Spec => []IInv
PROOF
  <1>1. Init => IInv
    BY InitInvariant
  <1>2. ASSUME IInv, [Next]_vars PROVE IInv'
    <2>1. CASE Apply
      BY <1>2, <2>1, ApplyStep
    <2>2. CASE /\ UNCHANGED <<optionVars, now>>
               /\ stage' # "options" => applied = Len(options)
      BY <1>2, <2>2 DEF IInv, optionVars, InForce
    <2>3. CASE Acquire \/ GivesUp \/ Try \/ ContextEnds \/ ExecutorChanges
      <3>1. UNCHANGED <<optionVars, now>>
        BY <2>3 DEF Acquire, GivesUp, Try, ContextEnds, ExecutorChanges, worldVars
      <3>2. stage' # "options" => applied = Len(options)
        BY <1>2, <2>3
           DEF IInv, Acquire, GivesUp, Try, ContextEnds, ExecutorChanges
      <3> QED BY <2>2, <3>1, <3>2
    <2>4. CASE Tick
      <3>1. UNCHANGED <<options, applied, opt, bounds, waits, stage>>
        BY <2>4 DEF Tick, optionVars
      <3>2. now' = now + 1 /\ now \in Int
        BY <1>2, <2>4 DEF IInv, Tick
      <3>3. InForce' <=> InForce
        BY <3>1 DEF InForce
      <3> QED BY <1>2, <3>1, <3>2, <3>3 DEF IInv
    <2>5. CASE UNCHANGED vars
      BY <1>2, <2>2, <2>5 DEF IInv, vars, worldVars
    <2> QED BY <1>2, <2>1, <2>3, <2>4, <2>5 DEF Next, Running
  <1> QED BY <1>1, <1>2, PTL DEF Spec

LEMMA MinIs ==
  ASSUME NEW S, S \subseteq Int, NEW m \in S, \A c \in S : m <= c
  PROVE  Min(S) = m
PROOF
  <1>1. \A b \in S : (\A c \in S : b <= c) => b = m
    <2> SUFFICES ASSUME NEW b \in S, \A c \in S : b <= c PROVE b = m
      OBVIOUS
    <2>1. b <= m /\ m <= b /\ b \in Int /\ m \in Int
      OBVIOUS
    <2> QED BY <2>1
  <1>2. Min(S) \in S /\ \A c \in S : Min(S) <= c
    BY DEF Min
  <1> QED BY <1>1, <1>2

\* The waiting time with which Make starts to look for a goroutine is the
\* shortest that WithWaitTimeout, WithDeadline and WithTimeout asked for since
\* the last deadline that had passed, and WithWait's only if none did.  (That
\* is what the options do; make.go:113 has it that WithDeadline and WithTimeout
\* override the other two.)
THEOREM Shortest == Spec => []ShortestWait
PROOF
  <1>1. IInv => ShortestWait
    <2> SUFFICES ASSUME IInv, stage # "options"
                 PROVE  opt.WaitTimeout = IF bounds # {} THEN Min(bounds)
                                          ELSE IF waits THEN -1 ELSE 0
      BY DEF ShortestWait
    <2>1. InForce /\ bounds \subseteq Int
      BY DEF IInv
    <2>2. CASE bounds # {}
      <3>1. Min(bounds) = opt.WaitTimeout
        BY <2>1, <2>2, MinIs DEF InForce
      <3> QED BY <2>2, <3>1
    <2>3. CASE bounds = {}
      BY <2>1, <2>3 DEF InForce
    <2> QED BY <2>2, <2>3
  <1> QED BY <1>1, Invariance, PTL
-----------------------------------------------------------------------------
(* Powers of two.                                                          *)

\* What is used for induction: a set of numbers has a least one.
LEMMA Least ==
  ASSUME NEW T, T \subseteq Nat, T # {}
  PROVE  \E n \in T : \A m \in T : n <= m
PROOF
  <1> DEFINE R == OpToRel(<, Nat)
  <1>1. IsWellFoundedOn(R, Nat)
    BY NatLessThanWellFounded
  <1>2. \A m, n \in Nat : <<m, n>> \in R <=> m < n
    BY DEF OpToRel
  <1> HIDE DEF R
  <1>3. PICK n \in T : \A m \in T : <<m, n>> \notin R
    BY <1>1, WFMin
  <1>4. ASSUME NEW m \in T PROVE n <= m
    <2>1. m \in Nat /\ n \in Nat
      OBVIOUS
    <2>2. ~(m < n)
      BY <1>2, <1>3, <2>1
    <2> QED BY <2>1, <2>2
  <1> QED BY <1>4

\* 2^n counts the subsets of n elements, and one element more doubles them.
LEMMA Subsets ==
  ASSUME NEW n \in Nat
  PROVE  IsFiniteSet(SUBSET (1..n)) /\ Cardinality(SUBSET (1..n)) = 2^n
PROOF
  <1>1. IsFiniteSet(1..n) /\ Cardinality(1..n) = n
    BY FS_Interval
  <1>2. /\ IsFiniteSet(SUBSET (1..n))
        /\ Cardinality(SUBSET (1..n)) = 2^Cardinality(1..n)
    BY <1>1, FS_SUBSET
  <1> QED BY <1>1, <1>2

LEMMA Doubles ==
  ASSUME NEW n \in Nat
  PROVE  2^n \in Nat /\ 2^(n + 1) = 2^n + 2^n
PROOF
  <1> DEFINE S == SUBSET (1..n)
             U == {A \cup {n + 1} : A \in S}
  <1>1. IsFiniteSet(S) /\ Cardinality(S) = 2^n
    BY Subsets
  <1>2. 2^n \in Nat
    BY <1>1, FS_CardinalityType
  <1>3. \A A \in S : n + 1 \notin A
    OBVIOUS
  <1>4. IsFiniteSet(U) /\ Cardinality(U) = Cardinality(S)
    <2> DEFINE f == [A \in S |-> A \cup {n + 1}]
    <2>1. f \in Bijection(S, U)
      <3>1. f \in [S -> U] /\ \A B \in U : \E A \in S : f[A] = B
        OBVIOUS
      <3>2. ASSUME NEW A \in S, NEW B \in S, f[A] = f[B] PROVE A = B
        <4>1. A \cup {n + 1} = B \cup {n + 1}
          BY <3>2
        <4>2. n + 1 \notin A /\ n + 1 \notin B
          BY <1>3
        <4> QED BY <4>1, <4>2
      <3> QED BY <3>1, <3>2, Zenon DEF Bijection, Injection, Surjection, IsInjective
    <2> QED BY <1>1, <2>1, FS_Bijection DEF ExistsBijection
  <1>5. SUBSET (1..(n + 1)) = S \cup U
    <2>1. ASSUME NEW B \in SUBSET (1..(n + 1)) PROVE B \in S \cup U
      <3>1. CASE n + 1 \in B
        <4> DEFINE A == B \ {n + 1}
        <4>1. A \in S /\ B = A \cup {n + 1}
          BY <3>1
        <4> QED BY <4>1
      <3>2. CASE n + 1 \notin B
        BY <3>2
      <3> QED BY <3>1, <3>2
    <2>2. ASSUME NEW B \in S \cup U PROVE B \in SUBSET (1..(n + 1))
      <3>1. ASSUME NEW A \in S
            PROVE  A \subseteq 1..(n + 1) /\ A \cup {n + 1} \subseteq 1..(n + 1)
        OBVIOUS
      <3>2. CASE B \in S
        BY <3>1, <3>2
      <3>3. CASE B \in U
        BY <3>1, <3>3
      <3> QED BY <2>2, <3>2, <3>3
    <2> HIDE DEF S, U
    <2> QED BY <2>1, <2>2
  <1>6. S \cap U = {}
    BY <1>3
  <1>7. Cardinality(S \cup U)
          = Cardinality(S) + Cardinality(U) - Cardinality(S \cap U)
    BY <1>1, <1>4, FS_Union
  <1>8. Cardinality(SUBSET (1..(n + 1))) = 2^(n + 1)
    BY Subsets
  <1>9. Cardinality(S \cap U) = 0
    BY <1>6, FS_EmptySet
  <1>10. 2^(n + 1) = Cardinality(S \cup U)
    BY <1>5, <1>8
  <1> DEFINE a == 2^n
             b == 2^(n + 1)
  <1>11. a \in Nat /\ b = a + a - 0
    BY <1>1, <1>2, <1>4, <1>7, <1>9, <1>10
  <1> HIDE DEF a, b
  <1>12. b = a + a
    BY <1>11
  <1> QED BY <1>11, <1>12 DEF a, b

LEMMA Powers ==
  /\ 2^0 = 1
  /\ \A k \in Nat : 2^k \in Nat \ {0}
  /\ \A k \in Nat : 2^(k + 1) = 2^k + 2^k
  /\ \A j, k \in Nat : j <= k => 2^j <= 2^k
PROOF
  <1> DEFINE p(k) == 2^k
  <1>1. p(0) = 1
    OBVIOUS
  <1>2. \A k \in Nat : p(k) \in Nat /\ p(k + 1) = p(k) + p(k)
    BY Doubles
  <1> HIDE DEF p
  <1>3. ASSUME NEW j \in Nat PROVE \A k \in Nat : j <= k => p(j) <= p(k)
    <2> DEFINE T == {k \in Nat : j <= k /\ ~(p(j) <= p(k))}
    <2>1. ASSUME T # {} PROVE FALSE
      <3>1. PICK k \in T : \A m \in T : k <= m
        BY <2>1, Least
      <3>2. CASE k = j
        BY <1>2, <3>1, <3>2
      <3>3. CASE k # j
        <4>1. k - 1 \in Nat /\ j <= k - 1 /\ k - 1 \notin T /\ (k - 1) + 1 = k
          BY <3>1, <3>3
        <4>2. p(j) <= p(k - 1)
          BY <4>1
        <4>3. p(k) = p(k - 1) + p(k - 1)
          BY <1>2, <4>1
        <4> QED BY <1>2, <3>1, <4>1, <4>2, <4>3
      <3> QED BY <3>2, <3>3
    <2> QED BY <2>1
  <1>4. \A k \in Nat : p(k) # 0
    <2>1. \A k \in Nat : p(0) <= p(k)
      BY <1>3
    <2> QED BY <1>1, <1>2, <2>1
  <1> QED BY <1>1, <1>2, <1>3, <1>4 DEF p
-----------------------------------------------------------------------------
(* Bits.                                                                   *)

LEMMA Quotients ==
  ASSUME NEW x \in Nat, NEW p \in Nat \ {0}
  PROVE  /\ x < p => (x \div p) % 2 # 1
         /\ p <= x /\ x < p + p => (x \div p) % 2 = 1
PROOF
  <1>1. CASE x < p
    <2>1. x \div p = 0
      BY <1>1
    <2> QED BY <1>1, <2>1
  <1>2. CASE p <= x /\ x < p + p
    <2>1. x \div p = 1
      BY <1>2
    <2> QED BY <1>2, <2>1
  <1> QED BY <1>1, <1>2

\* The highest bit of a number.
Highest(x, h) ==
  /\ h \in Positions /\ 2^h <= x /\ x < 2^(h + 1)
  /\ h \in Bits(x) /\ \A b \in Bits(x) : b <= h

LEMMA HighestBit ==
  ASSUME NEW x \in Nat \ {0}, x < 2^Width
  PROVE  \E h : Highest(x, h)
PROOF
  <1>0. Width \in Nat /\ Width > 12
    BY MakeAssumption
  <1> DEFINE p(k) == 2^k
             T == {k \in Nat : x < p(k)}
  <1>1. /\ p(0) = 1 /\ \A k \in Nat : p(k) \in Nat \ {0}
        /\ \A k \in Nat : p(k + 1) = p(k) + p(k)
        /\ \A j, k \in Nat : j <= k => p(j) <= p(k)
    BY Powers
  <1>2. Width \in T
    BY <1>0
  <1> HIDE DEF p
  <1>3. PICK n \in T : \A m \in T : n <= m
    <2>1. T # {} /\ T \subseteq Nat
      BY <1>2
    <2> HIDE DEF T
    <2> QED BY <2>1, Least
  <1>4. n # 0
    BY <1>1, <1>3
  <1> DEFINE h == n - 1
  <1>5. h \in Nat /\ h + 1 = n /\ h \notin T /\ n <= Width
    BY <1>2, <1>3, <1>4
  <1> HIDE DEF h
  <1>6. h \in Positions /\ p(h) <= x /\ x < p(h + 1)
    <2>1. h \in 0..(Width - 1)
      BY <1>0, <1>5
    <2>2. ~(x < p(h)) /\ p(h) \in Nat
      BY <1>1, <1>5
    <2>3. p(h) <= x
      BY <2>2
    <2>4. x < p(n)
      BY <1>3
    <2> QED BY <1>5, <2>1, <2>3, <2>4 DEF Positions
  <1>7. p(h + 1) = p(h) + p(h) /\ p(h) \in Nat \ {0}
    BY <1>1, <1>5
  <1>8. (x \div p(h)) % 2 = 1
    BY <1>6, <1>7, Quotients
  <1>9. ASSUME NEW b \in Positions, ~(b <= h) PROVE (x \div p(b)) % 2 # 1
    <2>1. b \in Nat /\ h + 1 <= b /\ h + 1 \in Nat
      BY <1>0, <1>5, <1>9 DEF Positions
    <2>2. x < p(b) /\ p(b) \in Nat \ {0}
      BY <1>1, <1>6, <2>1
    <2> QED BY <2>2, Quotients
  <1> QED BY <1>6, <1>8, <1>9 DEF Highest, Bits, p

LEMMA Smeared ==
  ASSUME NEW x, NEW h, Highest(x, h)
  PROVE  /\ Smear(Bits(x)) \subseteq 0..h /\ h \in Smear(Bits(x))
         /\ h <= 31 => Smear(Bits(x)) = 0..h
PROOF
  <1>0. Width \in Nat
    BY MakeAssumption
  <1>1. h \in Positions /\ h \in Bits(x)
        /\ \A b \in Bits(x) : b \in Positions /\ b <= h
    BY DEF Highest, Bits
  <1>2. h \in 0..(Width - 1) /\ h \in Int
    BY <1>1, <1>0 DEF Positions
  <1> DEFINE B == Bits(x)
  <1> HIDE DEF B
  <1>3. h \in B /\ \A b \in B : b \in 0..(Width - 1) /\ b <= h
    BY <1>1 DEF B, Positions
  <1>4. Smear(B) \subseteq 0..h
    BY <1>0, <1>2, <1>3 DEF Smear, Positions
  <1>5. h \in Smear(B)
    BY <1>0, <1>2, <1>3 DEF Smear, Positions
  <1>6. ASSUME h <= 31, NEW b \in 0..h PROVE b \in Smear(B)
    <2>1. h - b \in 0..31 /\ b \in 0..(Width - 1)
      BY <1>0, <1>2, <1>6
    <2> QED BY <1>3, <2>1 DEF Smear, Positions
  <1> QED BY <1>4, <1>5, <1>6 DEF B
-----------------------------------------------------------------------------
(* The number with given bits.                                             *)

Addend(bits, k) == IF k - 1 \in bits THEN 2^(k - 1) ELSE 0
IsSums(s, bits, n) ==
  s = [k \in 0..n |-> IF k = 0 THEN 0 ELSE s[k - 1] + Addend(bits, k)]

LEMMA SumsDef ==
  ASSUME NEW bits
  PROVE  IsSums(Sums(bits), bits, Width)
PROOF
  <1>0. Width \in Nat
    BY MakeAssumption
  <1> DEFINE T == {n \in Nat : ~\E s : IsSums(s, bits, n)}
  <1>1. ASSUME T # {} PROVE FALSE
    <2>1. PICK n \in T : \A m \in T : n <= m
      BY <1>1, Least
    <2>2. CASE n = 0
      <3> DEFINE s == [k \in 0..0 |-> 0]
      <3>1. s = [k \in 0..0 |-> IF k = 0 THEN 0 ELSE s[k - 1] + Addend(bits, k)]
        <4>1. \A k \in 0..0 : k = 0
          OBVIOUS
        <4> QED BY <4>1
      <3>2. IsSums(s, bits, 0)
        BY <3>1 DEF IsSums
      <3> HIDE DEF s
      <3> QED BY <2>2, <3>2
    <2>3. CASE n # 0
      <3>1. n \in Nat /\ n - 1 \in Nat /\ n - 1 \notin T
        BY <2>1, <2>3
      <3>2. PICK p : IsSums(p, bits, n - 1)
        BY <3>1
      <3> DEFINE next(q, k) == IF k = 0 THEN 0 ELSE q[k - 1] + Addend(bits, k)
                 s == [k \in 0..n |-> next(p, k)]
      <3>3. p = [k \in 0..(n - 1) |-> next(p, k)]
        BY <3>2 DEF IsSums
      <3>4. \A k \in 0..(n - 1) : p[k] = next(p, k) /\ s[k] = next(p, k)
        <4> HIDE DEF next
        <4>1. \A k \in 0..(n - 1) : k \in 0..n
          BY <3>1
        <4> QED BY <3>3, <4>1
      <3>5. \A k \in 0..(n - 1) : s[k] = p[k]
        BY <3>4
      <3>6. ASSUME NEW k \in 0..n PROVE next(p, k) = next(s, k)
        <4>1. CASE k = 0
          BY <4>1
        <4>2. CASE k # 0
          <5>1. k - 1 \in 0..(n - 1)
            BY <3>1, <4>2
          <5>2. s[k - 1] = p[k - 1]
            BY <3>5, <5>1
          <5> HIDE DEF s
          <5> QED BY <5>2
        <4> QED BY <4>1, <4>2
      <3>7. s = [k \in 0..n |-> next(s, k)]
        <4> DEFINE f(k) == next(p, k)
                   g(k) == next(s, k)
        <4>1. \A k \in 0..n : f(k) = g(k)
          BY <3>6
        <4> HIDE DEF f, g
        <4>2. [k \in 0..n |-> f(k)] = [k \in 0..n |-> g(k)]
          BY <4>1
        <4> QED BY <4>2 DEF f, g
      <3>8. IsSums(s, bits, n)
        BY <3>7 DEF IsSums
      <3> HIDE DEF s
      <3> QED BY <2>1, <3>8
    <2> QED BY <2>2, <2>3
  <1>2. \E s : IsSums(s, bits, Width)
    BY <1>0, <1>1
  <1> QED BY <1>2 DEF Sums, IsSums, Addend

\* With the bits up to h, and no other, it is one less than a power of two;
\* with h as the highest bit it is no less than the power that h stands for.
LEMMA NumberOfBits ==
  ASSUME NEW h \in Positions, NEW bits, bits \subseteq 0..h, h \in bits
  PROVE  /\ Number(bits) \in Nat /\ Number(bits) >= 2^h
         /\ bits = 0..h => Number(bits) = 2^(h + 1) - 1
PROOF
  <1>0. Width \in Nat /\ h \in Nat /\ h < Width
    BY MakeAssumption DEF Positions
  <1> DEFINE p(k) == 2^k
             s == Sums(bits)
  <1>1. /\ p(0) = 1 /\ \A k \in Nat : p(k) \in Nat \ {0}
        /\ \A k \in Nat : p(k + 1) = p(k) + p(k)
    BY Powers
  <1>2. \A k \in 0..Width :
          s[k] = IF k = 0 THEN 0 ELSE s[k - 1] + Addend(bits, k)
    <2> DEFINE q(k) == IF k = 0 THEN 0 ELSE s[k - 1] + Addend(bits, k)
    <2>1. s = [k \in 0..Width |-> q(k)]
      BY SumsDef DEF IsSums
    <2> HIDE DEF q, s
    <2>2. \A k \in 0..Width : s[k] = q(k)
      BY <2>1
    <2> QED BY <2>2 DEF q
  <1>3. \A k \in Nat \ {0} : Addend(bits, k) = IF k - 1 \in bits THEN p(k - 1) ELSE 0
    BY DEF Addend
  <1> HIDE DEF p, s
  <1> DEFINE Right(k) ==
        /\ s[k] \in Nat
        /\ k = h + 1 => s[k] >= p(h)
        /\ k > h + 1 => s[k] = s[h + 1]
        /\ bits = 0..h /\ k <= h + 1 => s[k] = p(k) - 1
             T == {k \in 0..Width : ~Right(k)}
  <1>4. ASSUME T # {} PROVE FALSE
    <2>1. PICK k \in T : \A m \in T : k <= m
      <3>1. T \subseteq Nat
        BY <1>0
      <3> HIDE DEF T
      <3> QED BY <1>4, <3>1, Least
    <2>2. CASE k = 0
      <3>1. s[0] = 0
        BY <1>0, <1>2
      <3>2. p(0) - 1 = 0 /\ ~(0 > h + 1) /\ 0 # h + 1
        BY <1>0, <1>1
      <3>3. Right(0)
        BY <3>1, <3>2
      <3> QED BY <2>1, <2>2, <3>3
    <2>3. CASE k # 0
      <3>1. k \in 1..Width /\ k - 1 \in 0..Width /\ k - 1 \in Nat /\ (k - 1) + 1 = k
        BY <1>0, <2>1, <2>3
      <3>2. Right(k - 1)
        BY <2>1, <3>1
      <3>3. s[k] = s[k - 1] + (IF k - 1 \in bits THEN p(k - 1) ELSE 0)
        BY <1>2, <1>3, <2>3, <3>1
      <3>4. p(k - 1) \in Nat /\ p(k) = p(k - 1) + p(k - 1)
        BY <1>1, <3>1
      <3>5. s[k] \in Nat
        BY <3>2, <3>3, <3>4
      <3>6. CASE k <= h
        <4>1. bits = 0..h => k - 1 \in bits
          BY <1>0, <3>1, <3>6
        <4> QED BY <1>0, <2>1, <3>1, <3>2, <3>3, <3>4, <3>5, <3>6, <4>1
      <3>7. CASE k = h + 1
        <4>1. k - 1 = h /\ k - 1 \in bits
          BY <1>0, <3>7
        <4> QED BY <1>0, <2>1, <3>1, <3>2, <3>3, <3>4, <3>5, <3>7, <4>1
      <3>8. CASE k > h + 1
        <4>1. k - 1 \notin bits /\ k - 1 >= h + 1
          BY <1>0, <3>1, <3>8
        <4>2. s[k] = s[k - 1]
          BY <3>2, <3>3, <4>1
        <4> QED BY <1>0, <2>1, <3>1, <3>2, <3>5, <3>8, <4>1, <4>2
      <3> QED BY <1>0, <3>1, <3>6, <3>7, <3>8
    <2> QED BY <2>2, <2>3
  <1>5. Right(Width) /\ Right(h + 1)
    BY <1>0, <1>4
  <1>6. s[Width] = s[h + 1]
    BY <1>0, <1>5
  <1>7. /\ s[Width] \in Nat /\ s[Width] >= p(h)
        /\ bits = 0..h => s[Width] = p(h + 1) - 1
    BY <1>0, <1>5, <1>6
  <1> QED BY <1>7 DEF p, s, Number
-----------------------------------------------------------------------------
(* The size of the channel.                                                *)

\* Between two neighbouring powers of two the higher one is what is rounded
\* up to, or, from 2^32 on, anything above the lower one.
LEMMA RoundedUp ==
  ASSUME NEW n \in Nat, n >= 2, n <= 2^Width
  PROVE  \E h \in Nat :
           /\ 2^h < n /\ n <= 2^(h + 1)
           /\ h <= 31 => roundupPow2(n) = 2^(h + 1)
           /\ h > 31 => roundupPow2(n) \in Nat /\ roundupPow2(n) > 2^h
PROOF
  <1> DEFINE p(k) == 2^k
             x == n - 1
  <1>1. Width \in Nat /\ \A k \in Nat : p(k) \in Nat \ {0}
    BY Powers, MakeAssumption
  <1>2. x \in Nat \ {0} /\ x < p(Width)
    BY <1>1
  <1>3. PICK h : Highest(x, h)
    BY <1>2, HighestBit
  <1>4. h \in Positions /\ p(h) <= x /\ x < p(h + 1)
    BY <1>3 DEF Highest
  <1>5. h \in Nat /\ h + 1 \in Nat
    BY <1>1, <1>4 DEF Positions
  <1> DEFINE bits == Smear(Bits(x))
  <1>6. bits \subseteq 0..h /\ h \in bits /\ (h <= 31 => bits = 0..h)
    BY <1>3, Smeared
  <1>7. roundupPow2(n) = 1 + Number(bits)
    BY DEF roundupPow2, Below
  <1> HIDE DEF bits
  <1>8. /\ Number(bits) \in Nat /\ Number(bits) >= p(h)
        /\ bits = 0..h => Number(bits) = p(h + 1) - 1
    BY <1>4, <1>6, NumberOfBits
  <1> HIDE DEF p
  <1>9. p(h) \in Nat /\ p(h + 1) \in Nat
    BY <1>1, <1>5
  <1>10. p(h) < n /\ n <= p(h + 1)
    BY <1>4, <1>9
  <1>11. h <= 31 => roundupPow2(n) = p(h + 1)
    BY <1>6, <1>7, <1>8, <1>9
  <1>12. roundupPow2(n) \in Nat /\ roundupPow2(n) > p(h)
    BY <1>7, <1>8, <1>9
  <1> QED BY <1>5, <1>10, <1>11, <1>12 DEF p

LEMMA Pools ==
  /\ 2^12 = 4096 /\ PoolSizes \subseteq Nat /\ {1, 4096} \subseteq PoolSizes
  /\ \A k \in Nat : k <= 12 => 2^k \in PoolSizes
  /\ \A s \in PoolSizes : \E k \in 0..12 : s = 2^k
  /\ \A s \in PoolSizes : s <= 4096
PROOF
  <1> DEFINE p(k) == 2^k
  <1>1. PoolSizes = {p(k) : k \in 0..12}
    BY DEF PoolSizes
  <1>2. p(0) = 1 /\ p(12) = 4096
    OBVIOUS
  <1>3. /\ \A k \in Nat : p(k) \in Nat
        /\ \A j, k \in Nat : j <= k => p(j) <= p(k)
    BY Powers
  <1> HIDE DEF p
  <1>4. \A s \in PoolSizes : \E k \in 0..12 : s = p(k)
    BY <1>1
  <1>5. \A k \in Nat : k <= 12 => p(k) \in PoolSizes
    BY <1>1
  <1>6. \A s \in PoolSizes : s \in Nat /\ s <= 4096
    <2> TAKE s \in PoolSizes
    <2>1. PICK k \in 0..12 : s = p(k)
      BY <1>4
    <2>2. k \in Nat /\ k <= 12 /\ 12 \in Nat
      OBVIOUS
    <2>3. p(k) \in Nat /\ p(k) <= p(12)
      BY <1>3, <2>2
    <2> QED BY <1>2, <2>1, <2>3
  <1>7. p(0) \in PoolSizes /\ p(12) \in PoolSizes
    BY <1>5
  <1> QED BY <1>2, <1>4, <1>5, <1>6, <1>7 DEF p

LEMMA ChannelSize ==
  ASSUME NEW n \in Nat \ {0}, n <= 2^Width
  PROVE  /\ acquireChannel(n) = Min({s \in PoolSizes : s >= n} \cup {4096})
         /\ n > 1 <=> acquireChannel(n) > 1
PROOF
  <1> DEFINE top == 4096
             p(k) == 2^k
             S == {s \in PoolSizes : s >= n} \cup {top}
  <1>1. /\ top \in Nat \ {0} /\ p(12) = top /\ PoolSizes \subseteq Nat
        /\ {1, top} \subseteq PoolSizes
        /\ \A k \in Nat : k <= 12 => p(k) \in PoolSizes
        /\ \A s \in PoolSizes : \E k \in 0..12 : s = p(k)
        /\ \A s \in PoolSizes : s <= top
    BY Pools
  <1>2. /\ \A k \in Nat : p(k) \in Nat \ {0} /\ p(k + 1) = p(k) + p(k)
        /\ \A j, k \in Nat : j <= k => p(j) <= p(k)
    BY Powers
  <1> HIDE DEF p, top
  <1>0. S \subseteq Int /\ top \in S
    <2>1. PoolSizes \subseteq Int /\ top \in Int
      BY <1>1
    <2> QED BY <2>1
  <1>3. CASE n < 2
    <2>1. n = 1 /\ acquireChannel(n) = 1
      BY <1>3 DEF acquireChannel
    <2>2. 1 \in S
      <3>1. 1 >= n
        BY <2>1
      <3>2. 1 \in PoolSizes
        BY <1>1
      <3> QED BY <3>1, <3>2
    <2>3. \A s \in S : 1 <= s
      BY <1>1, <2>1
    <2> HIDE DEF S
    <2>4. Min(S) = 1
      BY <1>0, <2>2, <2>3, MinIs
    <2> QED BY <2>1, <2>4 DEF S, top
  <1>4. CASE n >= 2
    <2> DEFINE r == roundupPow2(n)
    <2>1. PICK h \in Nat :
             /\ p(h) < n /\ n <= p(h + 1)
             /\ h <= 31 => r = p(h + 1)
             /\ h > 31 => r \in Nat /\ r > p(h)
      BY <1>4, RoundedUp DEF p
    <2>2. acquireChannel(n) = IF r \in PoolSizes THEN r ELSE top
      BY <1>4 DEF acquireChannel, top
    <2> HIDE DEF r
    <2>4. /\ p(h) \in Nat /\ p(h) # 0 /\ p(h + 1) \in Nat
          /\ p(h + 1) = p(h) + p(h)
      <3>1. h \in Nat /\ h + 1 \in Nat
        OBVIOUS
      <3> QED BY <1>2, <3>1
    <2>5. CASE h < 12
      <3>1. r = p(h + 1) /\ r \in PoolSizes /\ acquireChannel(n) = r
        BY <1>1, <2>1, <2>2, <2>5
      <3>2. r \in S /\ r >= 2
        BY <2>1, <2>4, <3>1
      <3>3. ASSUME NEW s \in S PROVE r <= s
        <4>1. PICK k \in 0..12 : s = p(k)
          BY <1>1, <3>3
        <4>2. CASE k <= h
          <5>1. p(k) <= p(h) /\ p(k) \in Nat
            <6>1. k \in Nat
              OBVIOUS
            <6>2. p(k) \in Nat \ {0}
              BY <1>2, <6>1
            <6>3. p(k) <= p(h)
              BY <1>2, <4>2, <6>1
            <6> QED BY <6>2, <6>3
          <5>2. ~(s >= n)
            BY <2>1, <2>4, <4>1, <5>1
          <5>3. s = top
            BY <5>2
          <5>4. k = 12 \/ p(12) <= p(h)
            BY <1>1, <4>1, <5>1, <5>3
          <5>5. h <= 12 /\ 12 \in Nat
            BY <2>5
          <5>6. p(h + 1) <= p(12)
            BY <1>2, <2>5, <5>5
          <5> QED BY <1>1, <2>4, <3>1, <5>3, <5>6
        <4>3. CASE ~(k <= h)
          <5>1. h + 1 <= k /\ h + 1 \in Nat /\ k \in Nat
            BY <4>3
          <5>2. p(h + 1) <= p(k)
            BY <1>2, <5>1
          <5> QED BY <3>1, <4>1, <5>2
        <4> QED BY <4>2, <4>3
      <3> HIDE DEF S
      <3>4. Min(S) = r
        BY <1>0, <3>2, <3>3, MinIs
      <3>5. n > 1 /\ r > 1
        BY <1>4, <2>4, <3>1, <3>2
      <3> QED BY <3>1, <3>4, <3>5 DEF S, top
    <2>6. CASE ~(h < 12)
      <3>1. p(h) >= top
        <4>1. 12 \in Nat /\ 12 <= h
          BY <2>6
        <4> QED BY <1>1, <1>2, <4>1
      <3>2. r \in Nat /\ r > top
        <4>1. CASE h <= 31
          BY <1>1, <2>1, <2>4, <3>1, <4>1
        <4>2. CASE ~(h <= 31)
          <5>1. r \in Nat /\ r > p(h)
            BY <2>1, <4>2
          <5> QED BY <1>1, <2>4, <3>1, <5>1
        <4> QED BY <4>1, <4>2
      <3>3. r \notin PoolSizes
        BY <1>1, <3>2
      <3>4. acquireChannel(n) = top
        BY <2>2, <3>3
      <3>5. \A s \in PoolSizes : ~(s >= n)
        BY <1>1, <2>1, <2>4, <3>1
      <3>6. S = {top}
        BY <3>5
      <3> HIDE DEF S
      <3>7. Min(S) = top
        BY <1>0, <3>6, MinIs
      <3> QED BY <1>4, <3>4, <3>7 DEF S, top
    <2> QED BY <2>5, <2>6
  <1> QED BY <1>3, <1>4 DEF top
-----------------------------------------------------------------------------

\* The room asked for is an int's, and the channel is for that room.
SizeInv ==
  /\ options \in Seq([with : With, arg : Int])
  /\ \A k \in 1..Len(options) : options[k].arg < 2^Width
  /\ applied \in Nat
  /\ opt \in Options
  /\ opt.StreamBuffer \in Nat \ {0} /\ opt.StreamBuffer <= 2^Width
  /\ stage \in {"trying", "made"} => size = acquireChannel(opt.StreamBuffer)

LEMMA WidthHolds == 2^Width \in Nat /\ 2 <= 2^Width
PROOF
  <1> DEFINE p(k) == 2^k
  <1>1. /\ p(0) = 1 /\ \A k \in Nat : p(k) \in Nat /\ p(k + 1) = p(k) + p(k)
        /\ \A j, k \in Nat : j <= k => p(j) <= p(k)
    BY Powers
  <1>2. Width \in Nat /\ 1 <= Width /\ 0 \in Nat /\ 1 \in Nat
    BY MakeAssumption
  <1> HIDE DEF p
  <1>3. p(0 + 1) = 2
    BY <1>1, <1>2
  <1>4. p(1) = 2
    BY <1>3
  <1>5. p(Width) \in Nat /\ p(1) <= p(Width)
    BY <1>1, <1>2
  <1> QED BY <1>4, <1>5 DEF p

LEMMA SizeInit == Init => SizeInv
PROOF
  <1> SUFFICES ASSUME Init PROVE SizeInv
    OBVIOUS
  <1>1. /\ options \in Seq([with : With, arg : Int])
        /\ \A k \in DOMAIN options : options[k].arg < 2^Width
    BY MakeAssumption DEF Init
  <1>2. DOMAIN options = 1..Len(options)
    BY <1>1, LenProperties
  <1>3. opt \in Options /\ opt.StreamBuffer = 1
    BY DEF Init, Options
  <1>4. 1 <= 2^Width
    <2> DEFINE w == 2^Width
    <2>1. w \in Nat /\ 2 <= w
      BY WidthHolds
    <2> HIDE DEF w
    <2>2. 1 <= w
      BY <2>1
    <2> QED BY <2>2 DEF w
  <1>5. applied \in Nat /\ stage \notin {"trying", "made"}
    BY DEF Init
  <1> QED BY <1>1, <1>2, <1>3, <1>4, <1>5 DEF SizeInv

LEMMA SizeStep ==
  ASSUME IInv, SizeInv, [Next]_vars
  PROVE  SizeInv'
PROOF
  <1>1. CASE Apply
    <2>1. PICK o : o = options[applied + 1]
      OBVIOUS
    <2>2. /\ applied < Len(options) /\ applied' = applied + 1
          /\ opt' = Applied(o) /\ stage = "options"
          /\ UNCHANGED <<options, stage>>
      BY <1>1, <2>1 DEF Apply, worldVars
    <2>3. Len(options) \in Nat /\ applied + 1 \in 1..Len(options)
      BY <2>2, LenProperties DEF SizeInv
    <2>4. o \in [with : With, arg : Int] /\ o.arg < 2^Width
      BY <2>1, <2>3, ElementOfSeq DEF SizeInv
    <2>5. opt' \in Options
      BY <2>2, <2>4, AppliedOptions DEF IInv
    <2> DEFINE w == 2^Width
    <2>6. w \in Nat /\ 2 <= w /\ o.arg < w /\ opt.StreamBuffer <= w
      BY <2>4, WidthHolds DEF SizeInv
    <2> HIDE DEF w
    <2>7. opt'.StreamBuffer
            = IF o.with # "StreamAndSize" THEN opt.StreamBuffer
              ELSE IF o.arg < 2 THEN 2 ELSE o.arg
      BY <2>2, <2>4
         DEF SizeInv, Options, Applied, WithStreamAndSize, WithWaitTimeout,
             WithWait, WithDeadline, WithTimeout
    <2>8. opt'.StreamBuffer \in Nat \ {0} /\ opt'.StreamBuffer <= w
      BY <2>4, <2>6, <2>7 DEF SizeInv
    <2> QED BY <2>2, <2>3, <2>5, <2>8 DEF SizeInv, w
  <1>2. CASE Acquire
    BY <1>2 DEF SizeInv, Acquire, optionVars
  <1>3. CASE GivesUp
    BY <1>3 DEF SizeInv, GivesUp, Fails, optionVars
  <1>4. CASE Try
    BY <1>4 DEF SizeInv, Try, Fails, optionVars
  <1>5. CASE Tick \/ ContextEnds \/ ExecutorChanges \/ UNCHANGED vars
    BY <1>5 DEF SizeInv, Tick, ContextEnds, ExecutorChanges, optionVars, vars
  <1> QED BY <1>1, <1>2, <1>3, <1>4, <1>5 DEF Next, Running

\* The channel of a promise is the smallest that has the room its options
\* asked for, the largest if none has it, and has room for more than one
\* result just when the promise says it is a stream.
THEOREM Fits == Spec => []SizeFits
PROOF
  <1>1. SizeInv => SizeFits
    <2> SUFFICES ASSUME SizeInv, stage \in {"trying", "made"}
                 PROVE  /\ opt.StreamBuffer > 1 <=> size > 1
                        /\ size = Min({s \in PoolSizes : s >= opt.StreamBuffer}
                                       \cup {4096})
      BY DEF SizeFits
    <2>1. /\ size = acquireChannel(opt.StreamBuffer)
          /\ opt.StreamBuffer \in Nat \ {0} /\ opt.StreamBuffer <= 2^Width
      BY DEF SizeInv
    <2> QED BY <2>1, ChannelSize
  <1>2. IInv /\ SizeInv /\ [Next]_vars => SizeInv'
    BY SizeStep
  <1> QED BY <1>1, <1>2, SizeInit, Invariance, PTL DEF Spec
=============================================================================
