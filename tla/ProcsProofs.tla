----------------------------- MODULE ProcsProofs -----------------------------
(***************************************************************************)
(* Executors made and closed one inside the other restore GOMAXPROCS, for  *)
(* any number of executors, any options and any hosts; whatever the        *)
(* options of the package are given is in order in those that New returns; *)
(* and the quota they start from is the one of their own group.            *)
(*                                                                         *)
(* NestedRestores is about the empty stack only.  What carries it is a     *)
(* chain: every executor on the stack goes back to the value that the one  *)
(* below it left in force.  TypeOK rests on what a list of options comes   *)
(* to, by induction over the list: WFMin, that a set of numbers which is   *)
(* not empty has a least one, takes the place of the library's induction   *)
(* theorems, whose parameters are operators.                               *)
(***************************************************************************)
EXTENDS Procs, SequenceTheorems, WellFoundedInduction, TLAPS

\* A number was found by everybody who gets to call runtime.GOMAXPROCS.
ValueInv ==
  /\ host \in Hosts
  /\ gomaxprocs \in Nat \ {0}
  /\ pc \in [Executors -> {"none", "invalid", "refused", "read", "set",
                           "open", "undo", "closed"}]
  /\ found \in [Executors -> Int \cup {Error, Undefined}]
  /\ prev \in [Executors -> (Nat \ {0}) \cup {Nil}]
  /\ \A e \in Executors : pc[e] \in {"read", "set"} => found[e] \in Int
  /\ \A e \in Executors : pc[e] \in {"none", "invalid", "refused", "read"}
                            => prev[e] = Nil
  /\ \A e \in Executors : pc[e] = "set" => prev[e] # Nil

\* The value in force because of e alone.
After(e) == IF pc[e] = "set" THEN prev[e] ELSE Value(found[e], prev[e])

\* Who is on the stack.
StackInv ==
  /\ stack \in Seq(Executors)
  /\ \A i, j \in 1..Len(stack) : stack[i] = stack[j] => i = j
  /\ \A i \in 1..Len(stack) : /\ pc[stack[i]] \in {"set", "open", "undo"}
                              /\ prev[stack[i]] # Nil
                              /\ found[stack[i]] \in Int

\* The value that the executor at i goes back to.
Under(i) == IF i = 1 THEN Initial ELSE After(stack[i - 1])

ChainInv ==
  /\ \A i \in 1..Len(stack) : prev[stack[i]] = Under(i)
  /\ gomaxprocs = Under(Len(stack) + 1)

IInv == ValueInv /\ (nested => StackInv /\ ChainInv)
-----------------------------------------------------------------------------
(* The options.                                                            *)

\* What is used for induction: a set of numbers has a least one.
LEMMA Least ==
  ASSUME NEW T, T \subseteq Nat, T # {}
  PROVE  \E n \in T : \A m \in T : n <= m
PROOF
  <1> DEFINE R == OpToRel(<, Nat)
  <1>1. IsWellFoundedOn(R, Nat)
    BY NatLessThanWellFounded
  <1>2. \A m, n \in Nat : <<m, n>> \in R <=> m < n
    BY DEF OpToRel
  <1> HIDE DEF R
  <1>3. PICK n \in T : \A m \in T : <<m, n>> \notin R
    BY <1>1, WFMin
  <1>4. ASSUME NEW m \in T PROVE n <= m
    <2>1. m \in Nat /\ n \in Nat
      OBVIOUS
    <2>2. ~(m < n)
      BY <1>2, <1>3, <2>1
    <2> QED BY <2>1, <2>2
  <1> QED BY <1>4

\* And one that is bounded a greatest one.
LEMMA Greatest ==
  ASSUME NEW n \in Nat, NEW T, T \subseteq 1..n, T # {}
  PROVE  \E k \in T : \A m \in T : m <= k
PROOF
  <1> DEFINE U == {n - k : k \in T}
  <1>1. U \subseteq Nat /\ U # {}
    <2>1. \A k \in T : n - k \in Nat
      OBVIOUS
    <2>2. PICK k \in T : TRUE
      OBVIOUS
    <2>3. n - k \in U
      OBVIOUS
    <2> QED BY <2>1, <2>3
  <1> HIDE DEF U
  <1>2. PICK u \in U : \A v \in U : u <= v
    BY <1>1, Least
  <1>3. PICK k \in T : u = n - k
    BY DEF U
  <1>4. ASSUME NEW m \in T PROVE m <= k
    <2>1. n - m \in U
      BY DEF U
    <2>2. n - k <= n - m /\ k \in Int /\ m \in Int
      BY <1>2, <1>3, <2>1
    <2> QED BY <2>2
  <1> QED BY <1>4

\* The options that come of the first n of a list, one after the other.
IsApplied(o, list, n) ==
  o = [k \in 0..n |-> IF k = 0 THEN Defaults ELSE Apply(o[k - 1], list[k])]

LEMMA AppliedDef ==
  ASSUME NEW list, Len(list) \in Nat
  PROVE  IsApplied(Applied(list), list, Len(list))
PROOF
  <1> DEFINE T == {n \in Nat : ~\E o : IsApplied(o, list, n)}
  <1>1. ASSUME T # {} PROVE FALSE
    <2>1. PICK n \in T : \A m \in T : n <= m
      BY <1>1, Least
    <2>2. CASE n = 0
      <3> DEFINE o == [k \in 0..0 |-> Defaults]
      <3>1. o = [k \in 0..0 |-> IF k = 0 THEN Defaults ELSE Apply(o[k - 1], list[k])]
        <4>1. \A k \in 0..0 : k = 0
          OBVIOUS
        <4> QED BY <4>1
      <3>2. IsApplied(o, list, 0)
        BY <3>1 DEF IsApplied
      <3> HIDE DEF o
      <3> QED BY <2>2, <3>2
    <2>3. CASE n # 0
      <3>1. n \in Nat /\ n - 1 \in Nat /\ n - 1 \notin T
        BY <2>1, <2>3
      <3>2. PICK p : IsApplied(p, list, n - 1)
        BY <3>1
      <3> DEFINE next(q, k) == IF k = 0 THEN Defaults ELSE Apply(q[k - 1], list[k])
                 o == [k \in 0..n |-> next(p, k)]
      <3>3. p = [k \in 0..(n - 1) |-> next(p, k)]
        BY <3>2 DEF IsApplied
      <3>4. \A k \in 0..(n - 1) : p[k] = next(p, k) /\ o[k] = next(p, k)
        <4> HIDE DEF next
        <4>1. \A k \in 0..(n - 1) : k \in 0..n
          BY <3>1
        <4> QED BY <3>3, <4>1
      <3>5. \A k \in 0..(n - 1) : o[k] = p[k]
        BY <3>4
      <3>6. ASSUME NEW k \in 0..n PROVE next(p, k) = next(o, k)
        <4>1. CASE k = 0
          BY <4>1
        <4>2. CASE k # 0
          <5>1. k - 1 \in 0..(n - 1)
            BY <3>1, <4>2
          <5>2. o[k - 1] = p[k - 1]
            BY <3>5, <5>1
          <5> HIDE DEF o
          <5> QED BY <5>2
        <4> QED BY <4>1, <4>2
      <3>7. o = [k \in 0..n |-> next(o, k)]
        <4> DEFINE f(k) == next(p, k)
                   g(k) == next(o, k)
        <4>1. \A k \in 0..n : f(k) = g(k)
          BY <3>6
        <4> HIDE DEF f, g
        <4>2. [k \in 0..n |-> f(k)] = [k \in 0..n |-> g(k)]
          BY <4>1
        <4> QED BY <4>2 DEF f, g
      <3>8. IsApplied(o, list, n)
        BY <3>7 DEF IsApplied
      <3> HIDE DEF o
      <3> QED BY <2>1, <3>8
    <2> QED BY <2>2, <2>3
  <1>2. \E o : IsApplied(o, list, Len(list))
    BY <1>1
  <1> QED BY <1>2 DEF Applied, IsApplied

\* What the last option did not set by a user's own leave are usable numbers.
Usable(o) ==
  /\ DOMAIN o = Fields \cup {"own"}
  /\ o = [f \in Fields \cup {"own"} |-> o[f]]
  /\ o["own"] \subseteq Fields
  /\ "limit" \notin o["own"] => o["limit"] \in Nat \ {0}
  /\ "idle" \notin o["own"] => o["idle"] \in Nat \ {0}
  /\ "timeout" \notin o["own"] => o["timeout"] \in Nat
  /\ o["min"] \in Int /\ o["procs"] \in Int \cup {Nil, Error, Undefined}

LEMMA DefaultsUsable == Usable(Defaults)
PROOF
  <1> DEFINE D == {"mode", "min", "procs", "round", "limit", "idle", "timeout", "own"}
  <1>1. Fields \cup {"own"} = D
    BY DEF Fields, Numbers
  <1>2. DOMAIN Defaults = D /\ Defaults = [f \in D |-> Defaults[f]]
    BY DEF Defaults
  <1>3. /\ Defaults["own"] = {} /\ Defaults["limit"] \in Nat \ {0}
        /\ Defaults["idle"] \in Nat \ {0} /\ Defaults["timeout"] = 0
        /\ Defaults["min"] = 0 /\ Defaults["procs"] = Nil
    BY ProcsAssumption DEF Defaults
  <1> HIDE DEF D
  <1>4. /\ DOMAIN Defaults = Fields \cup {"own"}
        /\ Defaults = [f \in Fields \cup {"own"} |-> Defaults[f]]
    BY <1>1, <1>2
  <1> QED BY <1>3, <1>4 DEF Usable

LEMMA ApplyUsable ==
  ASSUME NEW o, Usable(o), NEW option, IsOption(option), Apply(o, option) # Error
  PROVE  Usable(Apply(o, option))
PROOF
  <1> DEFINE v == Setting(o, option)
             f == option.name
             own == IF option.own THEN o.own \cup {f} ELSE o.own \ {f}
  <1>1. f \in Fields /\ f # "own"
    BY DEF Apply, Refused, IsOption, Fields, Numbers
  <1>2. /\ v \in Int \/ f \notin Numbers
        /\ f \in {"limit", "idle"} /\ ~option.own => v \in Nat \ {0}
        /\ f = "timeout" /\ ~option.own => v \in Nat
        /\ f = "procs" => v \in Int \cup {Nil, Error, Undefined}
    BY ProcsAssumption DEF Usable, IsOption, Numbers, Setting, AtLeastOne
  <1>3. Apply(o, option) = [o EXCEPT ![f] = v, !.own = own]
    BY <1>1 DEF Apply, Usable
  <1>4. own \subseteq Fields /\ \A g \in Fields : g \notin own =>
          IF g = f THEN ~option.own ELSE g \notin o.own
    BY <1>1 DEF Usable
  <1> HIDE DEF v, f, own
  <1>5. [o EXCEPT ![f] = v, !.own = own] =
          [g \in Fields \cup {"own"} |->
             IF g = "own" THEN own ELSE IF g = f THEN v ELSE o[g]]
    BY <1>1 DEF Usable
  <1> QED BY <1>1, <1>2, <1>3, <1>4, <1>5 DEF Usable, Fields, Numbers

LEMMA OptionsUsable ==
  ASSUME NEW list \in OptionLists
  PROVE  Options(list) = Error \/ Usable(Options(list))
PROOF
  <1> DEFINE n == Len(list)
             o == Applied(list)
             T == {k \in 0..n : ~(o[k] = Error \/ Usable(o[k]))}
  <1>1. n \in Nat /\ IsOptionList(list)
    BY ProcsAssumption DEF IsOptionList
  <1>2. \A k \in 0..n :
          o[k] = IF k = 0 THEN Defaults ELSE Apply(o[k - 1], list[k])
    <2> DEFINE p(k) == IF k = 0 THEN Defaults ELSE Apply(o[k - 1], list[k])
    <2>1. o = [k \in 0..n |-> p(k)]
      BY <1>1, AppliedDef DEF IsApplied
    <2> HIDE DEF p, o, n
    <2>2. \A k \in 0..n : o[k] = p(k)
      BY <2>1
    <2> QED BY <2>2 DEF p
  <1> HIDE DEF n, o
  <1>3. ASSUME T # {} PROVE FALSE
    <2>0. T \subseteq Nat
      BY <1>1
    <2>1. PICK k \in T : \A m \in T : k <= m
      <3> HIDE DEF T
      <3> QED BY <1>3, <2>0, Least
    <2>2. CASE k = 0
      <3>1. Usable(Defaults)
        BY DefaultsUsable
      <3>2. 0 \in 0..n /\ o[0] = Defaults
        BY <1>1, <1>2
      <3> QED BY <2>1, <2>2, <3>1, <3>2
    <2>3. CASE k # 0
      <3>1. k \in 0..n /\ k \in 1..n /\ k - 1 \in 0..n /\ ~(k <= k - 1)
        BY <1>1, <2>1, <2>3
      <3>2. o[k - 1] = Error \/ Usable(o[k - 1])
        BY <2>1, <3>1
      <3>3. o[k] = Apply(o[k - 1], list[k])
        BY <1>2, <2>3, <3>1
      <3>4. IsOption(list[k])
        BY <1>1, <3>1 DEF IsOptionList, n
      <3>5. o[k] = Error \/ Usable(o[k])
        <4>1. CASE o[k - 1] = Error
          BY <3>3, <4>1 DEF Apply
        <4>2. CASE o[k - 1] # Error
          BY <3>2, <3>3, <3>4, <4>2, ApplyUsable
        <4> QED BY <4>1, <4>2
      <3> QED BY <2>1, <3>5
    <2> QED BY <2>2, <2>3
  <1>4. n \in 0..n
    BY <1>1
  <1> QED BY <1>3, <1>4 DEF Options, n, o

-----------------------------------------------------------------------------
(* The quota.                                                              *)

Pairs == {Error, Undefined} \cup (Int \X (Nat \ {0}))

LEMMA ReadIntType ==
  ASSUME NEW content, IsContent(content)
  PROVE  ReadInt(content) \in Int \cup {Error}
PROOF
  <1>1. CASE content \in {Missing, Empty} \/ Len(content) # 1
    BY <1>1 DEF ReadInt
  <1>2. CASE ~(content \in {Missing, Empty} \/ Len(content) # 1)
    <2>1. content[1] \in Words
      BY <1>2, ElementOfSeq DEF IsContent
    <2> QED BY <1>2, <2>1 DEF ReadInt, Number, Words
  <1> QED BY <1>1, <1>2

LEMMA ReadMaxType ==
  ASSUME NEW content, IsContent(content)
  PROVE  ReadMax(content) \in Pairs
PROOF
  <1>1. CASE content \in {Missing, Empty} \/ Len(content) \notin {1, 2}
    <2>1. CASE content = Missing \/ content = Empty
      BY <2>1 DEF ReadMax, Pairs
    <2>2. CASE content \notin {Missing, Empty} /\ Len(content) \notin {1, 2}
      BY <2>2 DEF ReadMax, Pairs
    <2> QED BY <1>1, <2>1, <2>2
  <1>2. CASE ~(content \in {Missing, Empty} \/ Len(content) \notin {1, 2})
    <2>1. /\ content \in Seq(Words) /\ Len(content) \in {1, 2}
          /\ Len(content) = 2 /\ content[2] \in Int => content[2] >= 0
      BY <1>2 DEF IsContent
    <2>2. DOMAIN content = 1..Len(content)
      BY <2>1, LenProperties
    <2>3. CASE content[1] = MaxWord \/ NoNumber(content)
      BY <1>2, <2>3 DEF ReadMax, Pairs
    <2>4. CASE ~(content[1] = MaxWord \/ NoNumber(content))
      <3>1. \A i \in 1..Len(content) : content[i] \in Int
        BY <2>1, <2>2, <2>4, ElementOfSeq DEF NoNumber, Number, Words
      <3>2. ReadMax(content) =
              IF Len(content) = 1 THEN <<content[1], DefaultPeriod>>
              ELSE IF content[2] = 0 THEN Error ELSE content
        BY <1>2, <2>4 DEF ReadMax
      <3>3. CASE Len(content) = 1
        BY <3>1, <3>2, <3>3 DEF Pairs, DefaultPeriod
      <3>4. CASE Len(content) = 2
        <4>1. content[1] \in Int /\ content[2] \in Nat
          BY <2>1, <3>1, <3>4
        <4>2. content = <<content[1], content[2]>>
          BY <2>1, <3>4
        <4> QED BY <3>2, <3>4, <4>1, <4>2 DEF Pairs
      <3> QED BY <2>1, <3>3, <3>4
    <2> QED BY <2>3, <2>4
  <1> QED BY <1>1, <1>2

LEMMA QuotaType ==
  ASSUME NEW h \in Hosts
  PROVE  Quota(h) \in Pairs
PROOF
  <1>1. \A path : Content(h, path) = Missing \/ IsContent(Content(h, path))
    BY ProcsAssumption DEF Content, IsHost
  <1>2. \A path : IsContent(Content(h, path))
    BY <1>1 DEF IsContent
  <1>3. ASSUME NEW q \in Int \cup {Error}, NEW p \in Int \cup {Error}
        PROVE  QuotaOf(q, p) \in Pairs
    BY <1>3 DEF QuotaOf, Pairs
  <1>4. \A dir : CGroupQuota(h, dir) \in Pairs
    BY <1>2, <1>3, ReadIntType DEF CGroupQuota
  <1>5. QuotaV1(h) \in Pairs
    BY <1>4 DEF QuotaV1, Pairs
  <1> QED BY <1>2, <1>5, ReadMaxType DEF Quota, Pairs

LEMMA FoundType ==
  ASSUME NEW h \in Hosts, NEW o, Usable(o)
  PROVE  Found(h, o) \in Int \cup {Error, Undefined}
PROOF
  <1>1. o.min \in Int /\ o.procs \in Int \cup {Nil, Error, Undefined}
    BY DEF Usable
  <1>2. FromQuota(h, o) \in Int \cup {Error, Undefined}
    <2>1. CASE Quota(h) \in {Error, Undefined}
      BY <2>1 DEF FromQuota
    <2>2. CASE Quota(h) \in Int \X (Nat \ {0})
      <3>1. Quota(h)[1] \in Int /\ Quota(h)[2] \in Nat \ {0}
        BY <2>2
      <3>2. Round(Quota(h), o.round) \in Int
        BY <3>1 DEF Round
      <3> QED BY <1>1, <3>2 DEF FromQuota, Rounded, Minimum
    <2> QED BY <2>1, <2>2, QuotaType DEF Pairs
  <1> QED BY <1>1, <1>2 DEF Found
-----------------------------------------------------------------------------
(* The right quota.                                                        *)

\* QuotaFound, for what is read: the quota there is, or none, or an error,
\* the last two not from a host that is in order and has one.
Right(h, quota) ==
  \/ h.quota # Nil /\ quota = h.quota
  \/ quota = Undefined /\ (h.sane => h.quota = Nil)
  \/ quota = Error /\ ~h.sane

\* The quota of a host is a pair, and no other result is.
LEMMA QuotaFacts ==
  ASSUME NEW h \in Hosts, h.quota # Nil
  PROVE  /\ h.quota[1] \in Nat \ {0} /\ h.quota[2] \in Nat \ {0}
         /\ h.quota = <<h.quota[1], h.quota[2]>> /\ Len(h.quota) = 2
         /\ DOMAIN h.quota = 1..2
         /\ h.quota \notin {Missing, Empty, Error, Undefined}
PROOF
  <1>1. h.quota \in (Nat \ {0}) \X (Nat \ {0})
    BY ProcsAssumption DEF Truthful
  <1>2. PICK a \in Nat \ {0}, b \in Nat \ {0} : h.quota = <<a, b>>
    BY <1>1
  <1>3. <<a, b>> \in Seq(Words)
    BY DEF Words
  <1>4. <<a, b>> \notin {Missing, Empty, Error, Undefined}
    BY <1>3, ProcsAssumption
  <1>5. Len(<<a, b>>) = 2 /\ DOMAIN <<a, b>> = 1..2 /\ <<a, b>>[1] = a /\ <<a, b>>[2] = b
    OBVIOUS
  <1> QED BY <1>2, <1>4, <1>5

LEMMA ContentType ==
  ASSUME NEW h \in Hosts, NEW path
  PROVE  IsContent(Content(h, path))
PROOF
  <1>1. Content(h, path) = Missing \/ IsContent(Content(h, path))
    BY ProcsAssumption DEF Content, IsHost
  <1> QED BY <1>1 DEF IsContent

\* Of what is not in order cpu.max makes no quota.
LEMMA ReadMaxDamaged ==
  ASSUME NEW c, IsDamaged(c)
  PROVE  \/ ReadMax(c) = Undefined /\ (c = Missing \/ IsMax(c))
         \/ ReadMax(c) = Error /\ c # Missing /\ ~IsMax(c)
PROOF
  <1>1. CASE c = Missing
    BY <1>1 DEF ReadMax
  <1>2. CASE c # Missing /\ (c = Empty \/ Len(c) \notin {1, 2})
    BY <1>2 DEF ReadMax, IsMax
  <1>3. CASE c \notin {Missing, Empty} /\ Len(c) \in {1, 2} /\ NoNumber(c)
    BY <1>3 DEF ReadMax, IsMax
  <1> QED BY <1>1, <1>2, <1>3 DEF IsDamaged

\* Of the cpu.max of the own group, its quota.
LEMMA ReadMaxRight ==
  ASSUME NEW h \in Hosts, NEW dir, ShownV2(h, dir)
  PROVE  Right(h, ReadMax(Content(h, dir \o <<"cpu.max">>)))
PROOF
  <1> DEFINE c == Content(h, dir \o <<"cpu.max">>)
  <1>1. IF h.quota = Nil
        THEN IsDamaged(c) /\ (h.sane => IsMax(c) \/ c = Missing)
        ELSE \/ c = h.quota
             \/ c = <<h.quota[1]>> /\ h.quota[2] = DefaultPeriod
             \/ IsDamaged(c) /\ ~h.sane
    BY Zenon DEF ShownV2
  <1> SUFFICES Right(h, ReadMax(c))
    OBVIOUS
  <1> HIDE DEF c
  <1>2. CASE h.quota = Nil
    BY <1>1, <1>2, ReadMaxDamaged DEF Right
  <1>3. CASE h.quota # Nil /\ IsDamaged(c) /\ ~h.sane
    BY <1>3, ReadMaxDamaged DEF Right
  <1>4. CASE h.quota # Nil /\ ~(IsDamaged(c) /\ ~h.sane)
    <2>1. /\ h.quota[1] \in Nat \ {0} /\ h.quota[2] \in Nat \ {0}
          /\ h.quota = <<h.quota[1], h.quota[2]>> /\ Len(h.quota) = 2
          /\ DOMAIN h.quota = 1..2
          /\ h.quota \notin {Missing, Empty, Error, Undefined}
      BY <1>4, QuotaFacts
    <2>2. \A n \in Nat : n # MaxWord /\ Number(n) = n /\ n # Error
      BY ProcsAssumption DEF Number
    <2>3. CASE c = h.quota
      <3>1. ~NoNumber(c)
        BY <2>1, <2>2, <2>3 DEF NoNumber
      <3>2. ReadMax(c) = c
        BY <2>1, <2>2, <2>3, <3>1 DEF ReadMax
      <3> QED BY <1>4, <2>3, <3>2 DEF Right
    <2>4. CASE c = <<h.quota[1]>> /\ h.quota[2] = DefaultPeriod
      <3>1. c \in Seq(Words) /\ Len(c) = 1 /\ c[1] = h.quota[1] /\ DOMAIN c = 1..1
        <4>1. h.quota[1] \in Words
          BY <2>1 DEF Words
        <4> QED BY <2>4, <4>1
      <3>2. c \notin {Missing, Empty}
        BY <3>1, ProcsAssumption
      <3>3. ~NoNumber(c)
        BY <2>1, <2>2, <3>1 DEF NoNumber
      <3>4. ReadMax(c) = <<c[1], DefaultPeriod>>
        <4>1. c[1] # MaxWord
          BY <2>1, <2>2, <3>1
        <4> QED BY <3>1, <3>2, <3>3, <4>1 DEF ReadMax
      <3>5. ReadMax(c) = h.quota
        BY <2>1, <2>4, <3>1, <3>4
      <3> QED BY <1>4, <3>5 DEF Right
    <2> QED BY <1>1, <1>4, <2>3, <2>4
  <1> QED BY <1>2, <1>3, <1>4

LEMMA ReadIntIs ==
  ASSUME NEW content, IsContent(content)
  PROVE  ReadInt(content) = IF IsNumber(content) THEN content[1] ELSE Error
PROOF
  <1>1. CASE content \in {Missing, Empty} \/ Len(content) # 1
    BY <1>1 DEF ReadInt, IsNumber
  <1>2. CASE content \notin {Missing, Empty} /\ Len(content) = 1
    <2>1. content[1] \in Words
      BY <1>2, ElementOfSeq DEF IsContent
    <2> QED BY <1>2, <2>1, ProcsAssumption DEF ReadInt, IsNumber, Number, Words
  <1> QED BY <1>1, <1>2

\* The same for the two files of version 1.
LEMMA CGroupQuotaRight ==
  ASSUME NEW h \in Hosts, NEW dir, ShownV1(h, dir)
  PROVE  Right(h, CGroupQuota(h, dir))
PROOF
  <1> DEFINE q == Content(h, Append(dir, "cpu.cfs_quota_us"))
             p == Content(h, Append(dir, "cpu.cfs_period_us"))
  <1>1. IsContent(q) /\ IsContent(p)
    BY ContentType
  <1>2. /\ h.quota = Nil => /\ IsNumber(q) => q[1] <= 0
                            /\ h.sane => IsNumber(q)
        /\ h.quota # Nil => /\ IsNumber(q) => q[1] = h.quota[1]
                            /\ IsNumber(p) => p[1] = h.quota[2]
                            /\ h.sane => IsNumber(q) /\ IsNumber(p)
    BY DEF ShownV1
  <1>3. CGroupQuota(h, dir) = QuotaOf(ReadInt(q), ReadInt(p))
    BY DEF CGroupQuota
  <1> HIDE DEF q, p
  <1>4. /\ ReadInt(q) = IF IsNumber(q) THEN q[1] ELSE Error
        /\ ReadInt(p) = IF IsNumber(p) THEN p[1] ELSE Error
    BY <1>1, ReadIntIs
  <1>5. /\ IsNumber(q) => q[1] \in Int /\ q[1] # Error
        /\ IsNumber(p) => p[1] \in Int /\ p[1] # Error
    BY ProcsAssumption DEF IsNumber
  <1>6. CASE h.quota = Nil
    <2>1. CASE IsNumber(q)
      <3>1. QuotaOf(ReadInt(q), ReadInt(p)) = Undefined
        BY <1>2, <1>4, <1>5, <1>6, <2>1 DEF QuotaOf
      <3> QED BY <1>3, <1>6, <3>1 DEF Right
    <2>2. CASE ~IsNumber(q)
      <3>1. QuotaOf(ReadInt(q), ReadInt(p)) = Error
        BY <1>4, <2>2 DEF QuotaOf
      <3> QED BY <1>2, <1>3, <1>6, <2>2, <3>1 DEF Right
    <2> QED BY <2>1, <2>2
  <1>7. CASE h.quota # Nil
    <2>1. /\ h.quota[1] \in Nat \ {0} /\ h.quota[2] \in Nat \ {0}
          /\ h.quota = <<h.quota[1], h.quota[2]>>
      BY <1>7, QuotaFacts
    <2>2. CASE IsNumber(q) /\ IsNumber(p)
      <3>1. QuotaOf(ReadInt(q), ReadInt(p)) = <<h.quota[1], h.quota[2]>>
        BY <1>2, <1>4, <1>5, <1>7, <2>1, <2>2 DEF QuotaOf
      <3> QED BY <1>3, <1>7, <2>1, <3>1 DEF Right
    <2>3. CASE ~(IsNumber(q) /\ IsNumber(p))
      <3>1. QuotaOf(ReadInt(q), ReadInt(p)) = Error
        BY <1>2, <1>4, <1>5, <1>7, <2>1, <2>3 DEF QuotaOf
      <3> QED BY <1>2, <1>3, <1>7, <2>3, <3>1 DEF Right
    <2> QED BY <2>2, <2>3
  <1> QED BY <1>6, <1>7

\* The group of a controller that is listed is one of its lines.
LEMMA GroupIs ==
  ASSUME NEW h \in Hosts, Parses(h.groups), NEW c \in Known(h)
  PROVE  \E j \in Listing(h, c) : Group(h, c) = h.groups[j].path
PROOF
  <1> DEFINE n == Len(h.groups)
             L == Listing(h, c)
             top(i) == i \in L /\ \A j \in L : j <= i
  <1>1. n \in Nat /\ DOMAIN h.groups = 1..n
    BY ProcsAssumption DEF IsHost, IsList
  <1>2. L \subseteq DOMAIN h.groups /\ L # {}
    BY DEF Listing, Known
  <1>3. \E i \in L : \A j \in L : j <= i
    <2> HIDE DEF n, L
    <2> QED BY <1>1, <1>2, Greatest
  <1>4. (CHOOSE i \in L : \A j \in L : j <= i) \in L
    <2> HIDE DEF L
    <2> QED BY <1>3
  <1> QED BY <1>4 DEF Group

\* A path below the root of a mount is one below its point.
LEMMA TranslateType ==
  ASSUME NEW m, m.root \in Paths, m.point \in Paths, NEW path \in Paths,
         IsPrefix(m.root, path)
  PROVE  Translate(m, path) # Error
PROOF
  <1> DEFINE k == Len(m.root) + 1
             l == Len(path)
             rest == SubSeq(path, k, l)
  <1>1. k \in Nat /\ k >= 1 /\ l \in Nat
    BY LenProperties DEF Paths
  <1>2. \A i \in k..l : path[i] \in STRING
    <2>1. \A i \in 1..l : path[i] \in STRING
      BY ElementOfSeq DEF Paths
    <2> HIDE DEF k, l
    <2> QED BY <1>1, <2>1
  <1>3. rest \in Seq(STRING)
    <2> HIDE DEF k, l
    <2> QED BY <1>1, <1>2, SubSeqProperties
  <1>4. m.point \o rest \in Seq(STRING)
    <2> HIDE DEF rest
    <2> QED BY <1>3, ConcatProperties DEF Paths
  <1>5. Translate(m, path) = m.point \o rest
    BY DEF Translate
  <1> QED BY <1>4, <1>5, ProcsAssumption

\* With several mounts for cpu the last one counts; all show the same.
LEMMA V1Right ==
  ASSUME NEW h \in Hosts, GroupV2(h) = Missing
  PROVE  Right(h, QuotaV1(h))
PROOF
  <1> DEFINE v1 == {i \in DOMAIN h.mounts : h.mounts[i].fs = "cgroup"}
             cpu == {i \in v1 : "cpu" \in h.mounts[i].options}
             v2 == {i \in DOMAIN h.mounts :
                      h.mounts[i].fs = "cgroup2" /\ h.mounts[i].point = V2Point}
             own == {j \in DOMAIN h.groups : h.groups[j].id = 0}
             places == {place \in Places(h) : place[2] = "cpu"}
  <1>1. CASE ~Parses(h.groups) \/ ~Parses(h.mounts)
    <2>1. QuotaV1(h) = Error
      BY <1>1 DEF QuotaV1
    <2>2. ~h.sane
      BY <1>1, ProcsAssumption DEF Truthful
    <2> QED BY <2>1, <2>2 DEF Right
  <1>2. CASE Parses(h.groups) /\ Parses(h.mounts)
    <2>1. v2 = {} \/ own = {}
      <3>1. CASE ~\E i \in DOMAIN h.mounts : IsV2(h.mounts[i])
        BY <3>1 DEF IsV2
      <3>2. CASE (\E i \in DOMAIN h.mounts : IsV2(h.mounts[i])) /\ own # {}
        <4> DEFINE at == CHOOSE i \in own : TRUE
        <4>1. at \in own
          BY <3>2
        <4>2. GroupV2(h) = h.groups[at].path
          BY <1>2, <3>2 DEF GroupV2
        <4> HIDE DEF at
        <4>3. GroupV2(h) \in Seq(STRING)
          BY <1>2, <4>1, <4>2, ProcsAssumption DEF IsHost, Paths
        <4> QED BY <4>3, ProcsAssumption
      <3> QED BY <3>1, <3>2
    <2>2. /\ \A i \in cpu, j \in Listing(h, "cpu") :
               LET dir == Translate(h.mounts[i], h.groups[j].path)
               IN  dir # Error => ShownV1(h, dir)
          /\ h.sane =>
               /\ \A i \in v1, j \in DOMAIN h.groups :
                    h.mounts[i].options \cap h.groups[j].controllers # {} =>
                      IsPrefix(h.mounts[i].root, h.groups[j].path)
               /\ h.quota # Nil => cpu # {} /\ "cpu" \in Known(h)
      BY <1>2, <2>1, ProcsAssumption DEF Truthful
    <2> SUFFICES Right(h, QuotaV1(h))
      OBVIOUS
    <2>3. ASSUME NEW place \in Places(h)
          PROVE  /\ place[1] \in v1 /\ place[2] \in Known(h)
                 /\ place[2] \in h.mounts[place[1]].options
      BY DEF Places
    <2>4. CASE \E place \in Places(h) : PathAt(h, place) = Error
      <3>1. QuotaV1(h) = Error
        BY <1>2, <2>4 DEF QuotaV1
      <3>2. ASSUME h.sane PROVE FALSE
        <4>1. PICK place \in Places(h) : PathAt(h, place) = Error
          BY <2>4
        <4>2. PICK j \in Listing(h, place[2]) : Group(h, place[2]) = h.groups[j].path
          BY <1>2, <2>3, GroupIs
        <4>3. j \in DOMAIN h.groups /\ place[2] \in h.groups[j].controllers
          BY DEF Listing
        <4>4. IsPrefix(h.mounts[place[1]].root, h.groups[j].path)
          BY <2>2, <2>3, <3>2, <4>3
        <4>5. /\ h.mounts[place[1]].root \in Paths /\ h.mounts[place[1]].point \in Paths
              /\ h.groups[j].path \in Paths
          BY <1>2, <2>3, <4>3, ProcsAssumption DEF IsHost
        <4>6. Translate(h.mounts[place[1]], h.groups[j].path) # Error
          BY <4>4, <4>5, TranslateType
        <4> QED BY <4>1, <4>2, <4>6 DEF PathAt
      <3> QED BY <3>1, <3>2 DEF Right
    <2>5. CASE ~(\E place \in Places(h) : PathAt(h, place) = Error) /\ places = {}
      <3>1. QuotaV1(h) = Undefined
        BY <1>2, <2>5 DEF QuotaV1
      <3>2. ASSUME h.sane, h.quota # Nil PROVE FALSE
        <4>1. PICK i \in cpu : "cpu" \in Known(h)
          BY <2>2, <3>2
        <4>2. <<i, "cpu">> \in places
          BY <4>1 DEF Places
        <4> QED BY <2>5, <4>2
      <3> QED BY <3>1, <3>2 DEF Right
    <2>6. CASE ~(\E place \in Places(h) : PathAt(h, place) = Error) /\ places # {}
      <3> DEFINE last == CHOOSE place \in places :
                           \A other \in places : other[1] <= place[1]
      <3>1. last \in places
        <4> DEFINE I == {place[1] : place \in places}
        <4>1. Len(h.mounts) \in Nat /\ DOMAIN h.mounts = 1..Len(h.mounts)
          BY <1>2, ProcsAssumption DEF IsHost, IsList
        <4>2. I \subseteq 1..Len(h.mounts) /\ I # {}
          BY <2>3, <2>6, <4>1
        <4> HIDE DEF I
        <4>3. PICK k \in I : \A m \in I : m <= k
          BY <4>1, <4>2, Greatest
        <4>4. \E place \in places : \A other \in places : other[1] <= place[1]
          <5> HIDE DEF places
          <5> QED BY <4>3 DEF I
        <4> HIDE DEF places
        <4> QED BY <4>4
      <3>2. QuotaV1(h) = CGroupQuota(h, PathAt(h, last))
        BY <1>2, <2>6 DEF QuotaV1
      <3> HIDE DEF last
      <3>3. last \in Places(h) /\ last[2] = "cpu" /\ last[1] \in cpu
            /\ "cpu" \in Known(h) /\ PathAt(h, last) # Error
        BY <2>3, <2>6, <3>1
      <3>4. PICK j \in Listing(h, "cpu") : Group(h, "cpu") = h.groups[j].path
        BY <1>2, <3>3, GroupIs
      <3>5. ShownV1(h, PathAt(h, last))
        BY <2>2, <3>3, <3>4 DEF PathAt
      <3> QED BY <3>2, <3>5, CGroupQuotaRight
    <2> QED BY <2>4, <2>5, <2>6
  <1> QED BY <1>1, <1>2

\* Whatever the version: the quota is the one of the process's own group.
LEMMA QuotaRight ==
  ASSUME NEW h \in Hosts
  PROVE  Right(h, Quota(h))
PROOF
  <1>1. CASE GroupV2(h) = Error
    <2>1. Quota(h) = Error
      BY <1>1 DEF Quota
    <2>2. ASSUME Parses(h.mounts), Parses(h.groups) PROVE FALSE
      <3> DEFINE own == {i \in DOMAIN h.groups : h.groups[i].id = 0}
                 at == CHOOSE i \in own : TRUE
      <3>1. GroupV2(h) = Missing \/ (own # {} /\ GroupV2(h) = h.groups[at].path)
        BY <2>2 DEF GroupV2
      <3>2. own # {} => at \in DOMAIN h.groups
        OBVIOUS
      <3> HIDE DEF own, at
      <3>3. own # {} => h.groups[at].path \in Seq(STRING)
        BY <2>2, <3>2, ProcsAssumption DEF IsHost, Paths
      <3> QED BY <1>1, <3>1, <3>3, ProcsAssumption
    <2>3. ~h.sane
      BY <2>2, ProcsAssumption DEF Truthful
    <2> QED BY <2>1, <2>3 DEF Right
  <1>2. CASE GroupV2(h) = Missing
    <2>1. Quota(h) = QuotaV1(h)
      BY <1>2, ProcsAssumption DEF Quota
    <2> QED BY <1>2, <2>1, V1Right
  <1>3. CASE GroupV2(h) \notin {Error, Missing}
    <2> DEFINE v2 == {i \in DOMAIN h.mounts :
                      h.mounts[i].fs = "cgroup2" /\ h.mounts[i].point = V2Point}
               own == {j \in DOMAIN h.groups : h.groups[j].id = 0}
               at == CHOOSE i \in own : TRUE
    <2>1. /\ Parses(h.mounts) /\ Parses(h.groups)
          /\ v2 # {} /\ own # {} /\ GroupV2(h) = h.groups[at].path
      BY <1>3 DEF GroupV2, IsV2
    <2>2. at \in own
      BY <2>1
    <2>3. \A j \in own : ShownV2(h, V2Point \o h.groups[j].path)
      BY <2>1, ProcsAssumption DEF Truthful
    <2> HIDE DEF at, own
    <2>4. ShownV2(h, V2Point \o GroupV2(h))
      BY <2>1, <2>2, <2>3
    <2>5. Quota(h) = ReadMax(Content(h, V2Point \o GroupV2(h) \o <<"cpu.max">>))
      BY <1>3 DEF Quota
    <2> QED BY <2>4, <2>5, ReadMaxRight
  <1> QED BY <1>1, <1>2, <1>3
-----------------------------------------------------------------------------
\* What New does, without the options.
LEMMA NewFacts ==
  ASSUME NEW e \in Executors, New(e), host \in Hosts
  PROVE  /\ pc[e] = "none"
         /\ UNCHANGED <<host, gomaxprocs, prev, stack, nested>>
         /\ \E at \in {"invalid", "refused", "read", "open", "undo"},
               n \in Int \cup {Error, Undefined} :
              /\ pc' = [pc EXCEPT ![e] = at]
              /\ found' = [found EXCEPT ![e] = n] \/ UNCHANGED found
              /\ at = "read" => n \in Int /\ found' = [found EXCEPT ![e] = n]
PROOF
  <1>1. pc[e] = "none" /\ UNCHANGED <<host, gomaxprocs, prev, stack, nested>>
    BY DEF New
  <1>2. PICK list \in OptionLists :
          LET o == Options(list)
              n == Found(host, o)
          IN  \/ /\ o = Error
                 /\ pc' = [pc EXCEPT ![e] = "invalid"]
                 /\ UNCHANGED <<opts, found>>
              \/ /\ o # Error
                 /\ opts' = [opts EXCEPT ![e] = o]
                 /\ found' = [found EXCEPT ![e] = n]
                 /\ pc' = [pc EXCEPT ![e] = CASE n = Error     -> "refused"
                                              [] n = Undefined -> Armed(o)
                                              [] OTHER         -> "read"]
    BY DEF New
  <1> DEFINE o == Options(list)
             n == Found(host, o)
  <1>3. CASE o = Error
    BY <1>1, <1>2, <1>3
  <1>4. CASE o # Error
    <2> DEFINE at == CASE n = Error     -> "refused"
                       [] n = Undefined -> Armed(o)
                       [] OTHER         -> "read"
    <2>1. n \in Int \cup {Error, Undefined}
      BY <1>2, <1>4, OptionsUsable, FoundType
    <2>2. Armed(o) \in {"open", "undo"}
      BY DEF Armed
    <2>3. found' = [found EXCEPT ![e] = n] /\ pc' = [pc EXCEPT ![e] = at]
      BY <1>2, <1>4
    <2>4. /\ at \in {"invalid", "refused", "read", "open", "undo"}
          /\ at = "read" => n \in Int
      BY <2>1, <2>2
    <2> HIDE DEF at, n
    <2> QED BY <1>1, <2>1, <2>3, <2>4
  <1> QED BY <1>3, <1>4

\* The values of the calls stay in their types.
LEMMA ValueStep ==
  ASSUME ValueInv, [Next]_vars
  PROVE  ValueInv'
PROOF
  <1> USE ProcsAssumption DEF ValueInv
  <1>0. Nil \notin Int
    OBVIOUS
  <1>1. ASSUME NEW e \in Executors, New(e) PROVE ValueInv'
    BY <1>1, NewFacts
  <1>2. ASSUME NEW e \in Executors, ReadPrev(e) PROVE ValueInv'
    BY <1>0, <1>2 DEF ReadPrev
  <1>3. ASSUME NEW e \in Executors, SetProcs(e) PROVE ValueInv'
    <2>1. Value(found[e], gomaxprocs) \in Nat \ {0}
      BY <1>3 DEF SetProcs, Value
    <2> QED BY <1>3, <2>1 DEF SetProcs, Armed
  <1>4. ASSUME NEW e \in Executors, Close(e) PROVE ValueInv'
    BY <1>4 DEF Close
  <1>5. ASSUME NEW e \in Executors, Undo(e) PROVE ValueInv'
    BY <1>5 DEF Undo, Value
  <1>6. CASE UNCHANGED vars
    BY <1>6 DEF vars
  <1> QED BY <1>1, <1>2, <1>3, <1>4, <1>5, <1>6 DEF Next, Step

\* A step of an executor that is not on the stack, and does not get there,
\* leaves the chain as it is.
LEMMA Aside ==
  ASSUME ValueInv, StackInv, ChainInv, UNCHANGED <<gomaxprocs, stack>>,
         \A i \in 1..Len(stack) : /\ prev'[stack[i]] = prev[stack[i]]
                                  /\ found'[stack[i]] = found[stack[i]]
                                  /\ pc'[stack[i]] \in {"set", "open", "undo"}
                                  /\ pc'[stack[i]] = "set" <=> pc[stack[i]] = "set"
  PROVE  StackInv' /\ ChainInv'
PROOF
  <1>1. \A i \in 1..Len(stack) : After(stack[i])' = After(stack[i])
    BY DEF After, StackInv
  <1>2. \A i \in 1..(Len(stack) + 1) : Under(i)' = Under(i)
    BY <1>1 DEF Under, StackInv
  <1>3. StackInv'
    BY DEF StackInv
  <1> QED BY <1>2, <1>3 DEF ChainInv, StackInv

\* As long as the steps are nested the chain holds.
LEMMA ChainStep ==
  ASSUME ValueInv, ValueInv', nested => StackInv /\ ChainInv, [Next]_vars, nested'
  PROVE  StackInv' /\ ChainInv'
PROOF
  <1> USE ProcsAssumption
  <1>1. ASSUME NEW e \in Executors, New(e) PROVE StackInv' /\ ChainInv'
    <2>1. nested
      BY <1>1 DEF New
    <2>2. \A i \in 1..Len(stack) : stack[i] # e
      BY <1>1, <2>1 DEF New, StackInv
    <2>3. UNCHANGED <<gomaxprocs, prev, stack>>
      BY <1>1 DEF New
    <2>4. PICK at \in {"invalid", "refused", "read", "open", "undo"},
               n \in Int \cup {Error, Undefined} :
             /\ pc' = [pc EXCEPT ![e] = at]
             /\ found' = [found EXCEPT ![e] = n] \/ UNCHANGED found
      <3>1. host \in Hosts
        BY DEF ValueInv
      <3> QED BY <1>1, <3>1, NewFacts
    <2>5. \A i \in 1..Len(stack) : /\ pc'[stack[i]] = pc[stack[i]]
                                   /\ found'[stack[i]] = found[stack[i]]
      <3> TAKE i \in 1..Len(stack)
      <3>1. stack[i] \in Executors /\ stack[i] # e
        BY <2>1, <2>2 DEF StackInv
      <3> QED BY <2>4, <3>1 DEF ValueInv
    <2> QED BY <2>1, <2>3, <2>5, Aside DEF StackInv
  <1>2. ASSUME NEW e \in Executors, ReadPrev(e) PROVE StackInv' /\ ChainInv'
    <2>1. nested /\ StackInv /\ ChainInv
      BY <1>2 DEF ReadPrev
    <2>2. \A i \in 1..Len(stack) : stack[i] # e
      BY <1>2, <2>1 DEF ReadPrev, StackInv
    <2>3. /\ stack' = Append(stack, e) /\ Len(stack') = Len(stack) + 1
          /\ stack' \in Seq(Executors)
          /\ \A i \in 1..Len(stack) : stack'[i] = stack[i]
          /\ stack'[Len(stack) + 1] = e
      BY <1>2, <2>1 DEF ReadPrev, StackInv
    <2>4. /\ pc' = [pc EXCEPT ![e] = "set"]
          /\ prev' = [prev EXCEPT ![e] = gomaxprocs]
          /\ UNCHANGED <<gomaxprocs, found>>
          /\ found[e] \in Int
      BY <1>2 DEF ReadPrev, ValueInv
    <2>5. StackInv'
      BY <2>1, <2>2, <2>3, <2>4 DEF StackInv, ValueInv
    <2>6. \A i \in 1..Len(stack) : After(stack[i])' = After(stack[i])
      BY <2>1, <2>2, <2>3, <2>4 DEF After, StackInv, ValueInv
    <2>7. \A i \in 1..(Len(stack) + 1) : Under(i)' = Under(i)
      BY <2>1, <2>3, <2>6 DEF Under, StackInv
    <2>8. After(e)' = gomaxprocs
      BY <2>4 DEF After, ValueInv
    <2>9. Under(Len(stack) + 1)' = gomaxprocs
      BY <2>1, <2>3, <2>8 DEF Under, StackInv
    <2>10. \A i \in 1..Len(stack') : prev'[stack'[i]] = Under(i)'
      <3> TAKE i \in 1..Len(stack')
      <3>1. CASE i = Len(stack) + 1
        BY <3>1, <2>1, <2>3, <2>4, <2>7 DEF ChainInv, StackInv, ValueInv
      <3>2. CASE i \in 1..Len(stack)
        BY <3>2, <2>1, <2>2, <2>3, <2>4, <2>7 DEF ChainInv, StackInv, ValueInv
      <3> QED BY <3>1, <3>2, <2>1, <2>3 DEF StackInv
    <2> QED BY <2>4, <2>5, <2>9, <2>10 DEF ChainInv
  <1>3. ASSUME NEW e \in Executors, SetProcs(e) PROVE StackInv' /\ ChainInv'
    <2>1. nested /\ StackInv /\ ChainInv /\ Top(e)
      BY <1>3 DEF SetProcs
    <2>2. Len(stack) \in Nat \ {0} /\ stack[Len(stack)] = e
      BY <2>1 DEF Top, StackInv
    <2>3. \A i \in 1..(Len(stack) - 1) : stack[i] # e
      BY <2>1, <2>2 DEF StackInv
    <2>4. /\ pc' = [pc EXCEPT ![e] = Armed(opts[e])] /\ pc[e] = "set"
          /\ Armed(opts[e]) \in {"open", "undo"}
          /\ gomaxprocs' = Value(found[e], gomaxprocs)
          /\ UNCHANGED <<stack, prev, found>>
      BY <1>3 DEF SetProcs, Armed
    <2>5. StackInv'
      BY <2>1, <2>2, <2>3, <2>4 DEF StackInv, ValueInv
    <2>6. \A i \in 1..(Len(stack) - 1) : After(stack[i])' = After(stack[i])
      BY <2>1, <2>3, <2>4 DEF After, StackInv, ValueInv
    <2>7. \A i \in 1..Len(stack) : Under(i)' = Under(i)
      BY <2>1, <2>4, <2>6 DEF Under, StackInv
    <2>8. gomaxprocs = prev[e]
      BY <2>1, <2>2, <2>4 DEF ChainInv, Under, After
    <2>9. Under(Len(stack) + 1)' = gomaxprocs'
      BY <2>1, <2>2, <2>4, <2>8 DEF Under, After, ValueInv
    <2> QED BY <2>1, <2>4, <2>5, <2>7, <2>9 DEF ChainInv, StackInv
  <1>4. ASSUME NEW e \in Executors, Close(e) PROVE StackInv' /\ ChainInv'
    BY <1>4, Aside DEF Close, ValueInv, StackInv
  <1>5. ASSUME NEW e \in Executors, Undo(e) PROVE StackInv' /\ ChainInv'
    <2>1. nested /\ StackInv /\ ChainInv /\ (prev[e] # Nil => Top(e))
      BY <1>5 DEF Undo
    <2>2. /\ pc' = [pc EXCEPT ![e] = "closed"]
          /\ UNCHANGED <<prev, found>>
      BY <1>5 DEF Undo
    <2>3. CASE prev[e] = Nil
      <3>1. \A i \in 1..Len(stack) : stack[i] # e
        BY <2>1, <2>3 DEF StackInv
      <3>2. UNCHANGED <<gomaxprocs, stack>>
        BY <1>5, <2>1, <2>3, <3>1 DEF Undo, Top, StackInv
      <3> QED BY <2>1, <2>2, <3>1, <3>2, Aside DEF ValueInv, StackInv
    <2>4. CASE prev[e] # Nil
      <3>1. Top(e) /\ Len(stack) \in Nat \ {0} /\ stack[Len(stack)] = e
        BY <2>1, <2>4 DEF Top, StackInv
      <3>a. stack \in Seq(Executors)
        BY <2>1 DEF StackInv
      <3>b. stack' = SubSeq(stack, 1, Len(stack) - 1)
        BY <1>5, <3>1 DEF Undo
      <3>2. /\ stack' \in Seq(Executors) /\ Len(stack') = Len(stack) - 1
            /\ \A i \in 1..(Len(stack) - 1) : stack'[i] = stack[i]
        <4> DEFINE n == Len(stack) - 1
        <4>1. n \in Nat /\ n < Len(stack) /\ Len(stack) \in Nat
          BY <3>a, <3>1
        <4>2. \A i \in 1..n : stack[i] \in Executors
          BY <3>a, <4>1
        <4> HIDE DEF n
        <4>3. /\ SubSeq(stack, 1, n) \in Seq(Executors)
              /\ Len(SubSeq(stack, 1, n)) = IF 1 <= n THEN n - 1 + 1 ELSE 0
              /\ \A i \in 1..(n - 1 + 1) : SubSeq(stack, 1, n)[i] = stack[1 + i - 1]
          BY <4>1, <4>2, SubSeqProperties
        <4>4. Len(SubSeq(stack, 1, n)) = n
          BY <4>1, <4>3
        <4>5. \A i \in 1..n : SubSeq(stack, 1, n)[i] = stack[i]
          BY <4>1, <4>3
        <4> QED BY <3>b, <4>3, <4>4, <4>5 DEF n
      <3>3. gomaxprocs' = prev[e]
        BY <1>5, <2>4 DEF Undo, Value, ValueInv
      <3>4. \A i \in 1..(Len(stack) - 1) : stack[i] # e
        BY <2>1, <3>1 DEF StackInv
      <3>5. StackInv'
        <4>1. \A i, j \in 1..Len(stack') : stack'[i] = stack'[j] => i = j
          <5>1. \A i \in 1..Len(stack') :
                  i \in 1..Len(stack) /\ stack'[i] = stack[i]
            BY <3>1, <3>2
          <5> QED BY <2>1, <5>1 DEF StackInv
        <4>2. \A i \in 1..Len(stack') :
                /\ pc'[stack'[i]] \in {"set", "open", "undo"}
                /\ prev'[stack'[i]] # Nil
                /\ found'[stack'[i]] \in Int
          BY <2>1, <2>2, <3>1, <3>2, <3>4 DEF StackInv, ValueInv
        <4> QED BY <3>2, <4>1, <4>2 DEF StackInv
      <3>6. \A i \in 1..(Len(stack) - 1) : After(stack[i])' = After(stack[i])
        BY <2>1, <2>2, <3>2, <3>4 DEF After, StackInv, ValueInv
      <3>7. \A i \in 1..Len(stack) : Under(i)' = Under(i)
        BY <2>1, <3>1, <3>2, <3>6 DEF Under, StackInv
      <3>8. gomaxprocs' = Under(Len(stack) + 1)'
        BY <2>1, <3>1, <3>2, <3>3, <3>7 DEF ChainInv, StackInv
      <3> QED BY <2>1, <2>2, <3>2, <3>1, <3>5, <3>7, <3>8 DEF ChainInv, StackInv
    <2> QED BY <2>3, <2>4
  <1>6. CASE UNCHANGED vars
    <2>1. nested /\ StackInv /\ ChainInv
      BY <1>6 DEF vars
    <2> QED BY <1>6, <2>1, Aside DEF vars, StackInv
  <1> QED BY <1>1, <1>2, <1>3, <1>4, <1>5, <1>6 DEF Next, Step

\* The chain of the values to go back to holds for any number of executors.
THEOREM Invariance == Spec => []IInv
PROOF
  <1> USE DEF IInv
  <1>1. Init => IInv
    <2> SUFFICES ASSUME Init PROVE IInv
      OBVIOUS
    <2>1. ValueInv
      BY ProcsAssumption DEF Init, ValueInv
    <2>2. StackInv
      BY DEF Init, StackInv
    <2>3. ChainInv
      BY DEF Init, ChainInv, Under
    <2> QED BY <2>1, <2>2, <2>3
  <1>2. IInv /\ [Next]_vars => IInv'
    BY ValueStep, ChainStep
  <1> QED BY <1>1, <1>2, PTL DEF Spec

\* Executors made and closed one inside the other, by any goroutines, leave
\* GOMAXPROCS as the process started with it (Enable and undo).
THEOREM Restored == Spec => []NestedRestores
PROOF
  <1>1. IInv => NestedRestores
    <2> SUFFICES ASSUME IInv, nested, stack = <<>> PROVE gomaxprocs = Initial
      BY DEF NestedRestores
    <2>1. gomaxprocs = Under(1)
      BY DEF IInv, ChainInv
    <2> QED BY <2>1 DEF Under
  <1> QED BY <1>1, Invariance, PTL
-----------------------------------------------------------------------------
(* What New returns.                                                        *)

\* TypeOK, without what ValueInv has of it.
ReturnedInv ==
  /\ stack \in Seq(Executors) /\ nested \in BOOLEAN
  /\ opts = [e \in Executors |-> opts[e]]
  /\ \A e \in Executors :
       Usable(opts[e]) /\ (pc[e] = "open" => opts[e].mode \in Modes)

LEMMA ReturnedStep ==
  ASSUME ValueInv, ReturnedInv, [Next]_vars
  PROVE  ReturnedInv'
PROOF
  <1>0. pc = [e \in Executors |-> pc[e]]
    BY DEF ValueInv
  <1>1. ASSUME NEW e \in Executors, New(e) PROVE ReturnedInv'
    <2>1. PICK list \in OptionLists :
            LET o == Options(list)
                n == Found(host, o)
            IN  \/ /\ o = Error
                   /\ pc' = [pc EXCEPT ![e] = "invalid"]
                   /\ UNCHANGED <<opts, found>>
                \/ /\ o # Error
                   /\ opts' = [opts EXCEPT ![e] = o]
                   /\ found' = [found EXCEPT ![e] = n]
                   /\ pc' = [pc EXCEPT ![e] = CASE n = Error     -> "refused"
                                                [] n = Undefined -> Armed(o)
                                                [] OTHER         -> "read"]
      BY <1>1 DEF New
    <2> DEFINE o == Options(list)
               n == Found(host, o)
               at == CASE n = Error     -> "refused"
                       [] n = Undefined -> Armed(o)
                       [] OTHER         -> "read"
    <2>2. UNCHANGED <<stack, nested>>
      BY <1>1 DEF New
    <2>3. CASE o = Error
      <3>1. UNCHANGED opts /\ pc' = [pc EXCEPT ![e] = "invalid"]
        BY <2>1, <2>3
      <3> QED BY <1>0, <2>2, <3>1 DEF ReturnedInv
    <2>4. CASE o # Error
      <3>1. opts' = [opts EXCEPT ![e] = o] /\ pc' = [pc EXCEPT ![e] = at]
        BY <2>1, <2>4
      <3>2. Usable(o)
        BY <2>4, OptionsUsable
      <3>3. at = "open" => o.mode \in Modes
        BY DEF Armed
      <3> HIDE DEF o, at
      <3> QED BY <1>0, <2>2, <3>1, <3>2, <3>3 DEF ReturnedInv
    <2> QED BY <2>3, <2>4
  <1>2. ASSUME NEW e \in Executors, ReadPrev(e) PROVE ReturnedInv'
    BY <1>0, <1>2 DEF ReadPrev, ReturnedInv
  <1>3. ASSUME NEW e \in Executors, SetProcs(e) PROVE ReturnedInv'
    BY <1>0, <1>3 DEF SetProcs, Armed, ReturnedInv
  <1>4. ASSUME NEW e \in Executors, Close(e) PROVE ReturnedInv'
    BY <1>0, <1>4 DEF Close, ReturnedInv
  <1>5. ASSUME NEW e \in Executors, Undo(e) PROVE ReturnedInv'
    <2>1. stack' \in Seq(Executors)
      <3>1. CASE Top(e)
        <4> DEFINE m == Len(stack) - 1
        <4>1. stack # <<>> /\ stack' = SubSeq(stack, 1, m)
          BY <1>5, <3>1 DEF Undo, Top
        <4>2. Len(stack) \in Nat \ {0}
          BY <4>1, EmptySeq, LenProperties DEF ReturnedInv
        <4>3. m \in Nat /\ \A i \in 1..m : stack[i] \in Executors
          BY <4>2 DEF ReturnedInv
        <4> HIDE DEF m
        <4> QED BY <4>1, <4>3, SubSeqProperties
      <3>2. CASE ~Top(e)
        BY <1>5, <3>2 DEF Undo, ReturnedInv
      <3> QED BY <3>1, <3>2
    <2>2. pc' = [pc EXCEPT ![e] = "closed"] /\ UNCHANGED opts
          /\ nested' = (nested /\ (prev[e] # Nil => Top(e)))
      BY <1>5 DEF Undo
    <2>3. nested' \in BOOLEAN
      BY <2>2
    <2> QED BY <1>0, <2>1, <2>2, <2>3 DEF ReturnedInv
  <1>6. CASE UNCHANGED vars
    BY <1>6 DEF vars, ReturnedInv
  <1> QED BY <1>1, <1>2, <1>3, <1>4, <1>5, <1>6 DEF Next, Step

LEMMA InitReturned ==
  ASSUME Init
  PROVE  ValueInv /\ ReturnedInv
PROOF
  <1>1. ValueInv
    BY ProcsAssumption DEF Init, ValueInv
  <1>2. Usable(Defaults)
    BY DefaultsUsable
  <1>3. opts = [e \in Executors |-> Defaults] /\ stack = <<>> /\ nested
        /\ \A e \in Executors : pc[e] = "none"
    BY DEF Init
  <1> HIDE DEF Defaults
  <1> QED BY <1>1, <1>2, <1>3 DEF ReturnedInv

\* Whatever the options are, and in whatever order executors are made and
\* closed: an executor that New returns has a valid mode; its limit and idle
\* duration are positive and its close timeout is not negative, each of them
\* that a user's own Option was not the last to set, for New does not look at
\* them; and GOMAXPROCS is at least one.
THEOREM TypeCorrect == Spec => []TypeOK
PROOF
  <1>1. Init => ValueInv /\ ReturnedInv
    BY InitReturned
  <1>2. ValueInv /\ ReturnedInv /\ [Next]_vars => ValueInv' /\ ReturnedInv'
    BY ValueStep, ReturnedStep
  <1>3. ValueInv /\ ReturnedInv => TypeOK
    BY DEF ValueInv, ReturnedInv, Usable, TypeOK
  <1> QED BY <1>1, <1>2, <1>3, PTL DEF Spec
-----------------------------------------------------------------------------
(* The quota an executor finds.                                            *)

\* What New found stays with the options it found it with.
FoundInv ==
  \A e \in Executors :
    pc[e] \notin {"none", "invalid"} => found[e] = Found(host, opts[e])

LEMMA FoundStep ==
  ASSUME ValueInv, ReturnedInv, FoundInv, [Next]_vars
  PROVE  FoundInv'
PROOF
  <1>0. /\ pc = [e \in Executors |-> pc[e]]
        /\ opts = [e \in Executors |-> opts[e]]
        /\ found = [e \in Executors |-> found[e]]
    BY DEF ValueInv, ReturnedInv
  <1>1. ASSUME NEW e \in Executors, New(e) PROVE FoundInv'
    <2>1. PICK list \in OptionLists :
            LET o == Options(list)
                n == Found(host, o)
            IN  \/ /\ o = Error
                   /\ pc' = [pc EXCEPT ![e] = "invalid"]
                   /\ UNCHANGED <<opts, found>>
                \/ /\ o # Error
                   /\ opts' = [opts EXCEPT ![e] = o]
                   /\ found' = [found EXCEPT ![e] = n]
                   /\ pc' = [pc EXCEPT ![e] = CASE n = Error     -> "refused"
                                                [] n = Undefined -> Armed(o)
                                                [] OTHER         -> "read"]
      BY <1>1 DEF New
    <2> DEFINE o == Options(list)
               n == Found(host, o)
               at == CASE n = Error     -> "refused"
                       [] n = Undefined -> Armed(o)
                       [] OTHER         -> "read"
    <2>2. UNCHANGED host /\ pc[e] = "none"
      BY <1>1 DEF New
    <2>3. CASE o = Error
      <3>1. UNCHANGED <<opts, found>> /\ pc' = [pc EXCEPT ![e] = "invalid"]
        BY <2>1, <2>3
      <3> QED BY <1>0, <2>2, <3>1 DEF FoundInv
    <2>4. CASE o # Error
      <3>1. /\ opts' = [opts EXCEPT ![e] = o] /\ found' = [found EXCEPT ![e] = n]
            /\ pc' = [pc EXCEPT ![e] = at]
        BY <2>1, <2>4
      <3>2. n = Found(host, o)
        OBVIOUS
      <3> HIDE DEF o, n, at
      <3> QED BY <1>0, <2>2, <3>1, <3>2 DEF FoundInv
    <2> QED BY <2>3, <2>4
  <1>2. ASSUME UNCHANGED <<host, opts, found>>,
               \A e \in Executors : pc'[e] = pc[e] \/ pc[e] \notin {"none", "invalid"}
        PROVE  FoundInv'
    BY <1>2 DEF FoundInv
  <1>3. ASSUME NEW e \in Executors, ReadPrev(e) \/ SetProcs(e) \/ Close(e) \/ Undo(e)
        PROVE  FoundInv'
    <2>1. UNCHANGED <<host, opts, found>> /\ pc[e] \notin {"none", "invalid"}
      BY <1>3 DEF ReadPrev, SetProcs, Close, Undo
    <2>2. \E at : pc' = [pc EXCEPT ![e] = at]
      BY <1>3 DEF ReadPrev, SetProcs, Close, Undo
    <2> QED BY <1>0, <1>2, <2>1, <2>2
  <1>4. CASE UNCHANGED vars
    BY <1>2, <1>4 DEF vars
  <1> QED BY <1>1, <1>3, <1>4 DEF Next, Step

\* On every host whose kernel shows what it does (Truthful), with cgroups of
\* whatever version, mounted wherever and damaged in any way, and for all
\* options: an executor takes no quota but that of its own group, and takes
\* it whenever the files are in order (QuotaToGOMAXPROCS, newQuery, CPUQuota).
THEOREM Quotas == Spec => []QuotaFound
PROOF
  <1>1. Init => ValueInv /\ ReturnedInv /\ FoundInv
    <2> SUFFICES ASSUME Init PROVE ValueInv /\ ReturnedInv /\ FoundInv
      OBVIOUS
    <2>1. ValueInv /\ ReturnedInv
      BY InitReturned
    <2>2. FoundInv
      BY DEF Init, FoundInv
    <2> QED BY <2>1, <2>2
  <1>2. ValueInv /\ ReturnedInv /\ FoundInv /\ [Next]_vars
          => ValueInv' /\ ReturnedInv' /\ FoundInv'
    BY ValueStep, ReturnedStep, FoundStep
  <1>3. ValueInv /\ ReturnedInv /\ FoundInv => QuotaFound
    <2> SUFFICES ASSUME ValueInv, FoundInv,
                        NEW e \in Executors, pc[e] \notin {"none", "invalid"},
                        opts[e].procs = Nil, ~host.env
                 PROVE  \/ host.quota # Nil /\ found[e] = Promised(e)
                        \/ found[e] = Undefined /\ (host.sane => host.quota = Nil)
                        \/ found[e] = Error /\ ~host.sane
      BY DEF QuotaFound
    <2>1. host \in Hosts
      BY DEF ValueInv
    <2>2. found[e] = FromQuota(host, opts[e])
      BY DEF FoundInv, Found
    <2>3. Right(host, Quota(host))
      BY <2>1, QuotaRight
    <2>4. CASE host.quota # Nil /\ Quota(host) = host.quota
      <3>1. Quota(host) \notin {Error, Undefined}
        BY <2>1, <2>4, QuotaFacts
      <3> QED BY <2>2, <2>4, <3>1 DEF FromQuota, Promised
    <2>5. CASE Quota(host) \in {Error, Undefined}
      <3>1. found[e] = Quota(host)
        BY <2>2, <2>5 DEF FromQuota
      <3>2. CASE host.quota # Nil /\ Quota(host) = host.quota
        BY <2>4, <3>2
      <3> QED BY <2>3, <3>1, <3>2 DEF Right
    <2> QED BY <2>3, <2>4, <2>5 DEF Right
  <1> QED BY <1>1, <1>2, <1>3, PTL DEF Spec
=============================================================================
