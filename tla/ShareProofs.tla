---------------------------- MODULE ShareProofs ----------------------------
(***************************************************************************)
(* Proofs about the share executor, for every value of its constants.      *)
(*                                                                         *)
(* The inductive invariant is the conjunction of the parts below, each     *)
(* shown to be kept by a lemma of its own:                                 *)
(*                                                                         *)
(*    TypeOK        the types (goroutines \in Nat needs CountExact)        *)
(*    LockInv       MutualExclusion, by kind of holder                     *)
(*    PlaceInv      which submitters sync.Pool may hand out                *)
(*    CountExact    what the counter counts                                *)
(*    LimitInv      LimitRespected, with the slot a call is about to take  *)
(*    DrainInv      NoneStranded, with the order in which Close, the       *)
(*                  janitor and release() look at running                  *)
(*    OwnInv        SoleOwner, one submitter at a time                     *)
(*    RunInv        RunAtMostOnce, with where every accepted task is       *)
(***************************************************************************)
EXTENDS Share, FiniteSetTheorems, SequenceTheorems, TLAPS

\* MutualExclusion, spelled out for each of the three kinds of goroutine that
\* hold the locker over more than one step.
LockInv ==
  /\ \A t \in Tasks : call[t] = "incr" =>
       /\ locker /\ janitor # "draining"
       /\ \A u \in Tasks : call[u] = "incr" => u = t
       /\ \A s \in Submitters : worker[s] # "append"
  /\ \A s \in Submitters : worker[s] = "append" =>
       /\ locker /\ janitor # "draining"
       /\ \A r \in Submitters : worker[r] = "append" => r = s
  /\ janitor = "draining" => locker
  /\ locker => \/ \E t \in Tasks : call[t] = "incr"
               \/ \E s \in Submitters : worker[s] = "append"
               \/ janitor = "draining"

\* sync.Pool hands out a submitter without a goroutine; a goroutine that runs
\* Handle has a task; the janitor that is stopping has somebody to stop.
PlaceInv ==
  /\ \A s \in pool : worker[s] = "none"
  /\ \A s \in Submitters : worker[s] = "handle" => current[s] \in Tasks
  /\ janitor = "stop" => scratch # <<>>

\* The call that found room under the locker still has it.
LimitInv ==
  /\ goroutines <= MaxGoroutines
  /\ \A t \in Tasks : call[t] = "incr" => goroutines < MaxGoroutines

\* done is closed after running was reset, the janitor drains after done was
\* closed, and nobody who saw running under the locker is still to append.
DrainInv ==
  /\ \A c \in Closers : closer[c] = "close" => ~running
  /\ done => ~running
  /\ janitor \in {"drain", "draining", "exited"} => done
  /\ \A s \in Submitters : worker[s] = "append" =>
       janitor \notin {"draining", "exited"}
  /\ janitor = "exited" => idles = <<>>

\* SoleOwner, one submitter at a time.
WithCall(s) == \E t \in Tasks : held[t] = s
Empty(s) == ch[s] = <<>>

OwnerOf(s) ==
  /\ s \in pool <=> worker[s] = "none"
  /\ worker[s] = "receive" <=>
       s \in Idle \/ s \in Evicted \/ WithCall(s) \/ ~Empty(s)
  /\ s \in Idle => s \notin Evicted /\ ~WithCall(s) /\ Empty(s)
  /\ s \in Evicted => ~WithCall(s) /\ Empty(s)
  /\ WithCall(s) => Empty(s)
  /\ Len(ch[s]) <= 1

OwnInv ==
  /\ \A s \in Submitters : OwnerOf(s)
  /\ IsInjective(idles) /\ IsInjective(scratch)
  /\ janitor # "stop" => scratch = <<>>
  /\ \A t \in Tasks : call[t] = "submit" <=> held[t] # Nil
  /\ \A t, u \in Tasks : held[t] = held[u] /\ held[t] # Nil => t = u

\* Where a task is: in the channel of a goroutine, or with it.
Carries(s, t) == ch[s] = <<t>>
Runs(s, t) == worker[s] = "handle" /\ current[s] = t

\* A task is accepted once it is in a channel, and begun once it left it.
RunInvOf(t) ==
  /\ begun[t] <= 1
  /\ call[t] # "ok" => begun[t] = 0 /\ t \notin owed
  /\ t \in finished => begun[t] = 1
  /\ call[t] = "ok" /\ begun[t] = 0 => \E s \in Submitters : Carries(s, t)
  /\ begun[t] = 1 /\ t \notin finished => \E s \in Submitters : Runs(s, t)
  /\ \A s \in Submitters : Carries(s, t) =>
       /\ call[t] = "ok" /\ begun[t] = 0
       /\ \A r \in Submitters : Carries(r, t) => r = s
  /\ \A s \in Submitters : Runs(s, t) =>
       /\ begun[t] = 1 /\ t \notin finished
       /\ \A r \in Submitters : Runs(r, t) => r = s

RunInv == \A t \in Tasks : RunInvOf(t)

IInv ==
  /\ TypeOK /\ LockInv /\ PlaceInv /\ CountExact /\ LimitInv /\ DrainInv
  /\ OwnInv /\ RunInv
-----------------------------------------------------------------------------
(* Sequences.                                                              *)

LEMMA SubSeqType ==
  ASSUME NEW S, NEW q \in Seq(S), NEW m \in Nat \ {0}, NEW n \in 0..Len(q)
  PROVE  SubSeq(q, m, n) \in Seq(S)
PROOF
  <1>1. \A i \in m..n : q[i] \in S
    BY ElementOfSeq, LenProperties
  <1> QED BY <1>1, SubSeqProperties, LenProperties

\* A sequence cut in two: the elements are shared out.
LEMMA CutSequence ==
  ASSUME NEW S, NEW q \in Seq(S), IsInjective(q), NEW k \in 0..Len(q)
  PROVE  /\ SubSeq(q, 1, k) \in Seq(S) /\ SubSeq(q, k + 1, Len(q)) \in Seq(S)
         /\ IsInjective(SubSeq(q, 1, k)) /\ IsInjective(SubSeq(q, k + 1, Len(q)))
         /\ Range(SubSeq(q, 1, k)) \cap Range(SubSeq(q, k + 1, Len(q))) = {}
         /\ Range(SubSeq(q, 1, k)) \cup Range(SubSeq(q, k + 1, Len(q))) = Range(q)
PROOF
  <1> DEFINE p == SubSeq(q, 1, k)
             r == SubSeq(q, k + 1, Len(q))
  <1>1. /\ Len(q) \in Nat /\ DOMAIN q = 1..Len(q)
        /\ \A i \in 1..Len(q) : q[i] \in S
    BY LenProperties, ElementOfSeq
  <1>2. p \in Seq(S) /\ Len(p) = k /\ \A i \in 1..k : p[i] = q[i]
    BY <1>1, SubSeqProperties
  <1>3. /\ r \in Seq(S) /\ Len(r) = Len(q) - k
        /\ \A i \in 1..(Len(q) - k) : r[i] = q[k + i]
    <2> DEFINE m == k + 1
               n == Len(q)
    <2>a. m \in Int /\ n \in Int /\ n - m + 1 = Len(q) - k
      BY <1>1
    <2>b. m <= n \/ Len(q) - k = 0
      <3>1. k \in Nat /\ Len(q) \in Nat /\ k <= Len(q)
        BY <1>1
      <3>2. \A x, y \in Nat : x <= y => x + 1 <= y \/ y - x = 0
        OBVIOUS
      <3> QED BY <3>1, <3>2
    <2>c. ASSUME NEW i \in m..n PROVE q[i] \in S
      <3>1. i \in 1..Len(q)
        BY <1>1
      <3> QED BY <1>1, <3>1
    <2>1. /\ m \in Int /\ n \in Int /\ \A i \in m..n : q[i] \in S
          /\ n - m + 1 = Len(q) - k /\ (m <= n \/ Len(q) - k = 0)
      BY <2>a, <2>b, <2>c
    <2>2. r = SubSeq(q, m, n)
      OBVIOUS
    <2>3. \A i \in 1..(Len(q) - k) : m + i - 1 = k + i
      BY <1>1
    <2> HIDE DEF m, n, r
    <2>4. /\ r \in Seq(S) /\ Len(r) = IF m <= n THEN n - m + 1 ELSE 0
          /\ \A i \in 1 .. n - m + 1 : r[i] = q[m + i - 1]
      BY <2>1, <2>2, SubSeqProperties
    <2>5. r \in Seq(S) /\ Len(r) = Len(q) - k
      BY <2>1, <2>4
    <2>6. \A i \in 1..(Len(q) - k) : r[i] = q[k + i]
      BY <2>1, <2>3, <2>4
    <2> QED BY <2>5, <2>6
  <1> HIDE DEF p, r
  <1>4. DOMAIN p = 1..k /\ DOMAIN r = 1..(Len(q) - k)
    BY <1>2, <1>3, LenProperties
  <1>5. \A i, j \in 1..Len(q) : q[i] = q[j] => i = j
    BY <1>1 DEF IsInjective
  <1>6. IsInjective(p)
    <2>1. \A i, j \in 1..k : p[i] = p[j] => i = j
      BY <1>1, <1>2, <1>5
    <2> QED BY <1>4, <2>1 DEF IsInjective
  <1>7. IsInjective(r)
    <2>1. ASSUME NEW i \in 1..(Len(q) - k), NEW j \in 1..(Len(q) - k), r[i] = r[j]
          PROVE  i = j
      <3>1. k + i \in 1..Len(q) /\ k + j \in 1..Len(q)
        BY <1>1
      <3>2. q[k + i] = q[k + j]
        BY <1>3, <2>1
      <3>3. k + i = k + j
        BY <1>5, <3>1, <3>2
      <3> QED BY <3>3, <1>1
    <2> QED BY <1>4, <2>1 DEF IsInjective
  <1>8. Range(p) \cap Range(r) = {}
    <2>1. ASSUME NEW i \in 1..k, NEW j \in 1..(Len(q) - k) PROVE p[i] # r[j]
      <3>1. i \in 1..Len(q) /\ k + j \in 1..Len(q) /\ i # k + j
        BY <1>1
      <3>2. p[i] = q[i] /\ r[j] = q[k + j]
        BY <1>2, <1>3
      <3> QED BY <1>5, <3>1, <3>2
    <2> QED BY <1>4, <2>1 DEF Range
  <1>9. Range(p) \cup Range(r) = Range(q)
    <2>1. ASSUME NEW x \in Range(p) PROVE x \in Range(q)
      <3>1. PICK i \in 1..k : x = p[i]
        BY <1>4 DEF Range
      <3>2. i \in 1..Len(q) /\ x = q[i]
        BY <1>1, <1>2, <3>1
      <3> QED BY <1>1, <3>2 DEF Range
    <2>2. ASSUME NEW x \in Range(r) PROVE x \in Range(q)
      <3>1. PICK i \in 1..(Len(q) - k) : x = r[i]
        BY <1>4 DEF Range
      <3>2. k + i \in 1..Len(q) /\ x = q[k + i]
        BY <1>1, <1>3, <3>1
      <3> QED BY <1>1, <3>2 DEF Range
    <2>3. ASSUME NEW x \in Range(q) PROVE x \in Range(p) \cup Range(r)
      <3>1. PICK i \in 1..Len(q) : x = q[i]
        BY <1>1 DEF Range
      <3>2. CASE i \in 1..k
        BY <1>2, <1>4, <3>1, <3>2 DEF Range
      <3>3. CASE i \notin 1..k
        <4>1. i - k \in 1..(Len(q) - k) /\ k + (i - k) = i
          BY <1>1, <3>3
        <4>2. x = r[i - k]
          BY <1>3, <3>1, <4>1
        <4> QED BY <1>4, <4>1, <4>2 DEF Range
      <3> QED BY <3>2, <3>3
    <2> QED BY <2>1, <2>2, <2>3
  <1> QED BY <1>2, <1>3, <1>6, <1>7, <1>8, <1>9 DEF p, r

\* Taking the first element.
LEMMA TakeFirst ==
  ASSUME NEW S, NEW q \in Seq(S), IsInjective(q), q # <<>>
  PROVE  /\ Tail(q) \in Seq(S) /\ IsInjective(Tail(q))
         /\ Head(q) \in Range(q) /\ Range(Tail(q)) = Range(q) \ {Head(q)}
PROOF
  <1>1. Len(q) \in Nat /\ 1 \in 0..Len(q) /\ 1 \in 1..Len(q) /\ DOMAIN q = 1..Len(q)
    BY EmptySeq, LenProperties
  <1>2. Tail(q) = SubSeq(q, 1 + 1, Len(q))
    BY TailIsSubSeq
  <1>3. Range(SubSeq(q, 1, 1)) = {Head(q)} /\ Head(q) = q[1]
    <2> DEFINE p == SubSeq(q, 1, 1)
    <2>1. \A i \in 1..1 : q[i] \in S
      BY <1>1, ElementOfSeq
    <2>2. p \in Seq(S) /\ Len(p) = 1 /\ p[1] = q[1]
      BY <2>1, SubSeqProperties
    <2>3. DOMAIN p = 1..1
      BY <2>2, LenProperties
    <2>4. Head(q) = q[1]
      OBVIOUS
    <2> HIDE DEF p
    <2>5. Range(p) = {Head(q)}
      BY <2>2, <2>3, <2>4 DEF Range
    <2> QED BY <2>4, <2>5 DEF p
  <1>4. Head(q) \in Range(q)
    BY <1>1, <1>3 DEF Range
  <1>5. /\ SubSeq(q, 1 + 1, Len(q)) \in Seq(S)
        /\ IsInjective(SubSeq(q, 1 + 1, Len(q)))
        /\ Range(SubSeq(q, 1, 1)) \cap Range(SubSeq(q, 1 + 1, Len(q))) = {}
        /\ Range(SubSeq(q, 1, 1)) \cup Range(SubSeq(q, 1 + 1, Len(q))) = Range(q)
    BY <1>1, CutSequence
  <1> DEFINE tl == Tail(q)
             hd == Head(q)
             rest == SubSeq(q, 1 + 1, Len(q))
             first == SubSeq(q, 1, 1)
  <1>6. tl = rest /\ Range(first) = {hd} /\ hd \in Range(q)
    BY <1>2, <1>3, <1>4
  <1>7. /\ rest \in Seq(S) /\ IsInjective(rest)
        /\ Range(first) \cap Range(rest) = {}
        /\ Range(first) \cup Range(rest) = Range(q)
    BY <1>5
  <1> HIDE DEF tl, hd, rest, first
  <1>8. tl \in Seq(S) /\ IsInjective(tl) /\ Range(tl) = Range(q) \ {hd}
    BY <1>6, <1>7
  <1> QED BY <1>6, <1>8 DEF tl, hd

\* Taking the last element.
LEMMA TakeLast ==
  ASSUME NEW S, NEW q \in Seq(S), IsInjective(q), q # <<>>
  PROVE  /\ SubSeq(q, 1, Len(q) - 1) \in Seq(S)
         /\ IsInjective(SubSeq(q, 1, Len(q) - 1))
         /\ q[Len(q)] \in Range(q)
         /\ Range(SubSeq(q, 1, Len(q) - 1)) = Range(q) \ {q[Len(q)]}
PROOF
  <1> DEFINE n == Len(q)
             last == SubSeq(q, n, n)
  <1>1. n \in Nat /\ n - 1 \in 0..n /\ n \in 1..n /\ DOMAIN q = 1..n /\ (n - 1) + 1 = n
    BY EmptySeq, LenProperties
  <1>2. Range(last) = {q[n]}
    <2>1. \A i \in n..n : q[i] \in S
      BY <1>1, ElementOfSeq
    <2>2. last \in Seq(S) /\ Len(last) = 1 /\ last[1] = q[n]
      BY <1>1, <2>1, SubSeqProperties
    <2>3. DOMAIN last = 1..1
      BY <2>2, LenProperties
    <2> HIDE DEF last
    <2> QED BY <2>2, <2>3 DEF Range
  <1>3. q[n] \in Range(q)
    BY <1>1 DEF Range
  <1>4. last = SubSeq(q, (n - 1) + 1, Len(q))
    BY <1>1
  <1> HIDE DEF n, last
  <1>5. /\ SubSeq(q, 1, n - 1) \in Seq(S)
        /\ IsInjective(SubSeq(q, 1, n - 1))
        /\ Range(SubSeq(q, 1, n - 1)) \cap Range(last) = {}
        /\ Range(SubSeq(q, 1, n - 1)) \cup Range(last) = Range(q)
    BY <1>1, <1>4, CutSequence DEF n
  <1> QED BY <1>2, <1>3, <1>5 DEF n

\* Adding a new last element.
LEMMA AddLast ==
  ASSUME NEW S, NEW q \in Seq(S), IsInjective(q), NEW x \in S, x \notin Range(q)
  PROVE  /\ Append(q, x) \in Seq(S) /\ IsInjective(Append(q, x))
         /\ Range(Append(q, x)) = Range(q) \cup {x}
PROOF
  <1> DEFINE p == Append(q, x)
  <1>1. Len(q) \in Nat /\ DOMAIN q = 1..Len(q)
    BY LenProperties
  <1>2. /\ p \in Seq(S) /\ Len(p) = Len(q) + 1
        /\ \A i \in 1..Len(q) : p[i] = q[i]
        /\ p[Len(q) + 1] = x
    BY AppendProperties
  <1>3. DOMAIN p = 1..(Len(q) + 1)
    BY <1>2, LenProperties
  <1> HIDE DEF p
  <1>4. \A i \in 1..Len(q) : q[i] # x
    BY <1>1 DEF Range
  <1>5. IsInjective(p)
    <2>1. \A i, j \in 1..(Len(q) + 1) : p[i] = p[j] => i = j
      <3> SUFFICES ASSUME NEW i \in 1..(Len(q) + 1), NEW j \in 1..(Len(q) + 1),
                          p[i] = p[j]
                   PROVE  i = j
        OBVIOUS
      <3>1. (i \in 1..Len(q) \/ i = Len(q) + 1) /\ (j \in 1..Len(q) \/ j = Len(q) + 1)
        BY <1>1
      <3> QED BY <1>1, <1>2, <1>4, <3>1 DEF IsInjective
    <2> QED BY <1>3, <2>1 DEF IsInjective
  <1>6. Range(p) = Range(q) \cup {x}
    <2>1. ASSUME NEW y \in Range(p) PROVE y \in Range(q) \cup {x}
      <3>1. PICK i \in 1..(Len(q) + 1) : y = p[i]
        BY <1>3 DEF Range
      <3>2. i \in 1..Len(q) \/ i = Len(q) + 1
        BY <1>1
      <3> QED BY <1>1, <1>2, <3>1, <3>2 DEF Range
    <2>2. ASSUME NEW y \in Range(q) PROVE y \in Range(p)
      <3>1. PICK i \in 1..Len(q) : y = q[i]
        BY <1>1 DEF Range
      <3>2. i \in 1..(Len(q) + 1) /\ y = p[i]
        BY <1>1, <1>2, <3>1
      <3> QED BY <1>3, <3>2 DEF Range
    <2>3. x \in Range(p)
      <3>1. Len(q) + 1 \in 1..(Len(q) + 1)
        BY <1>1
      <3> QED BY <1>2, <1>3, <3>1 DEF Range
    <2> QED BY <2>1, <2>2, <2>3
  <1> QED BY <1>2, <1>5, <1>6 DEF p

-----------------------------------------------------------------------------
(* Types.                                                                  *)

LEMMA TypeStep ==
  ASSUME TypeOK, PlaceInv, CountExact, [Next]_vars
  PROVE  TypeOK'
PROOF
  <1> USE ShareAssumption
      DEF TypeOK, At, Goto, Returned, Modes, poolVars, workerVars, callVars,
          janitorVars, closeVars
  <1>1. ASSUME NEW t \in Tasks, Call(t) PROVE TypeOK'
    BY <1>1 DEF Call
  <1>2. ASSUME NEW t \in Tasks, CallStep(t) PROVE TypeOK'
    <2>1. CASE CheckRunning(t) BY <2>1 DEF CheckRunning
    <2>2. CASE CheckLimit(t) BY <2>2 DEF CheckLimit, AfterBusy
    <2>3. CASE PickIdle(t)
      <3>1. idles' \in Seq(Submitters)
        BY <2>3, SubSeqType, LenProperties, EmptySeq DEF PickIdle, ButLast
      <3>2. idles[Len(idles)] \in Submitters
        BY <2>3, ElementOfSeq, LenProperties, EmptySeq DEF PickIdle
      <3> QED BY <2>3, <3>1, <3>2 DEF PickIdle
    <2>4. CASE PickNew(t) BY <2>4 DEF PickNew
    <2>5. CASE PickNone(t) BY <2>5 DEF PickNone, AfterBusy
    <2>6. CASE CountIn(t)
      <3>1. goroutines' \in Nat
        <4>1. goroutines' = goroutines + 1
          BY <2>6 DEF CountIn
        <4> QED BY <4>1
      <3>2. call' \in [Tasks -> {"start", "running", "count", "pick", "incr",
                                "get", "submit"} \cup Returned]
        BY <2>6 DEF CountIn
      <3> QED BY <2>6, <3>1, <3>2 DEF CountIn
    <2>7. CASE Spawn(t)
      <3>1. PICK s \in pool : /\ pool' = pool \ {s}
                              /\ held' = [held EXCEPT ![t] = s]
                              /\ worker' = [worker EXCEPT ![s] = "receive"]
        BY <2>7 DEF Spawn
      <3> QED BY <2>7, <3>1 DEF Spawn
    <2>8. CASE Submit(t)
      <3>1. ch' \in [Submitters -> Seq(Tasks \cup {Nil})]
        BY <2>8, AppendProperties DEF Submit, Send
      <3> QED BY <2>8, <3>1 DEF Submit, AfterSubmit
    <2> QED
      BY <1>2, <2>1, <2>2, <2>3, <2>4, <2>5, <2>6, <2>7, <2>8 DEF CallStep
  <1>3. ASSUME NEW s \in Submitters, WorkerStep(s) PROVE TypeOK'
    <2>1. CASE Receive(s)
      <3>1. /\ Head(ch[s]) \in Tasks \cup {Nil}
            /\ Tail(ch[s]) \in Seq(Tasks \cup {Nil})
        BY <2>1, HeadTailProperties DEF Receive
      <3> QED BY <2>1, <3>1 DEF Receive
    <2>2. CASE Handled(s)
      <3>1. current[s] \in Tasks
        BY <2>2 DEF Handled, PlaceInv
      <3> QED BY <2>2, <3>1 DEF Handled
    <2>3. CASE ReleaseCheck(s) BY <2>3 DEF ReleaseCheck
    <2>4. CASE ReleaseRecheck(s) BY <2>4 DEF ReleaseRecheck, MayRejoin
    <2>5. CASE ReleaseAppend(s)
      BY <2>5, AppendProperties DEF ReleaseAppend
    <2>6. CASE PutBack(s) BY <2>6 DEF PutBack
    <2> QED BY <1>3, <2>1, <2>2, <2>3, <2>4, <2>5, <2>6 DEF WorkerStep
  <1>4. CASE CountOut
    <2>1. Cardinality(Live) \in Nat /\ Cardinality(Starting) \in Nat
      BY FS_CardinalityType, FS_Subset DEF Live, Starting
    <2>2. goroutines >= leaving
      BY <2>1 DEF CountExact
    <2> QED BY <1>4, <2>2 DEF CountOut
  <1>5. ASSUME JanitorStep PROVE TypeOK'
    <2>1. ASSUME NEW k \in 1..Len(idles), Evict(k) PROVE TypeOK'
      <3>1. scratch' \in Seq(Submitters) /\ idles' \in Seq(Submitters)
        BY <2>1, SubSeqType, LenProperties DEF Evict, Kept
      <3> QED BY <2>1, <3>1 DEF Evict
    <2>2. CASE StopEvicted
      <3>1. scratch' \in Seq(Submitters)
        BY <2>2, HeadTailProperties DEF StopEvicted, PlaceInv
      <3>2. ch' \in [Submitters -> Seq(Tasks \cup {Nil})]
        BY <2>2, AppendProperties DEF StopEvicted, Send
      <3> QED BY <2>2, <3>1, <3>2 DEF StopEvicted
    <2>3. CASE SeeDone BY <2>3 DEF SeeDone
    <2>4. CASE DrainLock BY <2>4 DEF DrainLock
    <2>5. CASE DrainStop
      <3>1. idles' \in Seq(Submitters)
        BY <2>5, HeadTailProperties DEF DrainStop
      <3>2. ch' \in [Submitters -> Seq(Tasks \cup {Nil})]
        BY <2>5, AppendProperties DEF DrainStop, Send
      <3> QED BY <2>5, <3>1, <3>2 DEF DrainStop
    <2>6. CASE DrainUnlock BY <2>6 DEF DrainUnlock
    <2> QED BY <1>5, <2>1, <2>2, <2>3, <2>4, <2>5, <2>6 DEF JanitorStep
  <1>6. ASSUME NEW c \in Closers, CloseSwap(c) \/ CloseStep(c) PROVE TypeOK'
    <2>1. CASE CloseSwap(c) BY <2>1 DEF CloseSwap, AcceptedTasks
    <2>2. CASE CloseDone(c) BY <2>2 DEF CloseDone
    <2>3. CASE CloseWait(c) BY <2>3 DEF CloseWait
    <2>4. CASE ClosePoll(c) BY <2>4 DEF ClosePoll
    <2>5. CASE CloseGiveUp(c) BY <2>5 DEF CloseGiveUp
    <2> QED BY <1>6, <2>1, <2>2, <2>3, <2>4, <2>5 DEF CloseStep
  <1>7. CASE UNCHANGED vars BY <1>7 DEF vars
  <1> QED BY <1>1, <1>2, <1>3, <1>4, <1>5, <1>6, <1>7 DEF Next, Terminated

-----------------------------------------------------------------------------
(* Mutual exclusion.                                                       *)

LEMMA LockStep ==
  ASSUME TypeOK, PlaceInv, LockInv, [Next]_vars
  PROVE  LockInv'
PROOF
  <1> USE DEF LockInv, TypeOK, LockFree, At, Goto, Returned, poolVars,
              workerVars, callVars, janitorVars, closeVars
  <1>1. ASSUME NEW t \in Tasks, Call(t) PROVE LockInv'
    BY <1>1 DEF Call
  <1>2. ASSUME NEW t \in Tasks, CallStep(t) PROVE LockInv'
    <2>1. CASE CheckRunning(t) BY <2>1 DEF CheckRunning
    <2>2. CASE CheckLimit(t) BY <2>2 DEF CheckLimit, AfterBusy
    <2>3. CASE PickIdle(t) BY <2>3 DEF PickIdle
    <2>4. CASE PickNew(t) BY <2>4 DEF PickNew
    <2>5. CASE PickNone(t) BY <2>5 DEF PickNone, AfterBusy
    <2>6. CASE CountIn(t) BY <2>6 DEF CountIn
    <2>7. CASE Spawn(t)
      <3>1. PICK s \in pool : worker' = [worker EXCEPT ![s] = "receive"]
        BY <2>7 DEF Spawn
      <3>2. /\ locker' = locker /\ janitor' = janitor
            /\ call[t] = "get" /\ call' = [call EXCEPT ![t] = "submit"]
        BY <2>7 DEF Spawn
      <3>3. worker[s] # "append"
        BY DEF PlaceInv
      <3> QED BY <3>1, <3>2, <3>3
    <2>8. CASE Submit(t) BY <2>8 DEF Submit, AfterSubmit
    <2> QED
      BY <1>2, <2>1, <2>2, <2>3, <2>4, <2>5, <2>6, <2>7, <2>8 DEF CallStep
  <1>3. ASSUME NEW s \in Submitters, WorkerStep(s) PROVE LockInv'
    <2>1. CASE Receive(s) BY <2>1 DEF Receive
    <2>2. CASE Handled(s) BY <2>2 DEF Handled
    <2>3. CASE ReleaseCheck(s) BY <2>3 DEF ReleaseCheck
    <2>4. CASE ReleaseRecheck(s) BY <2>4 DEF ReleaseRecheck, MayRejoin
    <2>5. CASE ReleaseAppend(s) BY <2>5 DEF ReleaseAppend
    <2>6. CASE PutBack(s) BY <2>6 DEF PutBack
    <2> QED BY <1>3, <2>1, <2>2, <2>3, <2>4, <2>5, <2>6 DEF WorkerStep
  <1>4. CASE CountOut BY <1>4 DEF CountOut
  <1>5. CASE JanitorStep
    BY <1>5 DEF JanitorStep, Evict, StopEvicted, SeeDone, DrainLock, DrainStop,
                DrainUnlock
  <1>6. ASSUME NEW c \in Closers, CloseSwap(c) \/ CloseStep(c) PROVE LockInv'
    BY <1>6 DEF CloseSwap, CloseStep, CloseDone, CloseWait, ClosePoll,
                CloseGiveUp
  <1>7. CASE UNCHANGED vars BY <1>7 DEF vars
  <1> QED BY <1>1, <1>2, <1>3, <1>4, <1>5, <1>6, <1>7 DEF Next, Terminated

LEMMA LockInvExcludes ==
  ASSUME LockInv
  PROVE  MutualExclusion
PROOF
  BY ShareAssumption DEF LockInv, MutualExclusion

-----------------------------------------------------------------------------
(* Places.                                                                 *)

LEMMA PlaceStep ==
  ASSUME TypeOK, PlaceInv, [Next]_vars
  PROVE  PlaceInv'
PROOF
  <1> USE DEF PlaceInv, TypeOK, At, Goto, poolVars, workerVars, callVars,
              janitorVars, closeVars
  <1>1. ASSUME NEW t \in Tasks, Call(t) PROVE PlaceInv'
    BY <1>1 DEF Call
  <1>2. ASSUME NEW t \in Tasks, CallStep(t) PROVE PlaceInv'
    <2>1. CASE Spawn(t)
      <3>1. PICK s \in pool : /\ pool' = pool \ {s}
                              /\ worker' = [worker EXCEPT ![s] = "receive"]
        BY <2>1 DEF Spawn
      <3> QED BY <2>1, <3>1 DEF Spawn
    <2>2. CASE ~Spawn(t)
      BY <1>2, <2>2 DEF CallStep, CheckRunning, CheckLimit, PickIdle, PickNew,
                        PickNone, CountIn, Submit
    <2> QED BY <2>1, <2>2
  <1>3. ASSUME NEW s \in Submitters, WorkerStep(s) PROVE PlaceInv'
    <2>1. CASE Receive(s)
      <3>1. Head(ch[s]) \in Tasks \cup {Nil}
        BY <2>1, HeadTailProperties DEF Receive
      <3> QED BY <2>1, <3>1 DEF Receive
    <2>2. CASE Handled(s) BY <2>2 DEF Handled
    <2>3. CASE ReleaseCheck(s) BY <2>3 DEF ReleaseCheck
    <2>4. CASE ReleaseRecheck(s) BY <2>4 DEF ReleaseRecheck
    <2>5. CASE ReleaseAppend(s) BY <2>5 DEF ReleaseAppend
    <2>6. CASE PutBack(s) BY <2>6 DEF PutBack
    <2> QED BY <1>3, <2>1, <2>2, <2>3, <2>4, <2>5, <2>6 DEF WorkerStep
  <1>4. CASE CountOut BY <1>4 DEF CountOut
  <1>5. ASSUME JanitorStep PROVE PlaceInv'
    <2>1. ASSUME NEW k \in 1..Len(idles), Evict(k) PROVE PlaceInv'
      <3>1. scratch' = SubSeq(idles, 1, k)
        BY <2>1 DEF Evict
      <3>2. \A i \in 1..k : idles[i] \in Submitters
        BY ElementOfSeq, LenProperties
      <3>3. Len(scratch') = k
        BY <3>1, <3>2, SubSeqProperties, LenProperties
      <3>4. scratch' # <<>>
        BY <3>3, EmptySeq
      <3> QED BY <2>1, <3>4 DEF Evict
    <2>2. CASE StopEvicted
      <3>1. Len(Tail(scratch)) = Len(scratch) - 1
        BY <2>2, HeadTailProperties DEF StopEvicted
      <3>2. Len(scratch) # 1 => Len(Tail(scratch)) # 0
        BY <3>1, LenProperties
      <3>3. janitor' = "stop" => scratch' # <<>>
        BY <2>2, <3>2, EmptySeq DEF StopEvicted
      <3> QED BY <2>2, <3>3 DEF StopEvicted
    <2>3. CASE SeeDone \/ DrainLock \/ DrainStop \/ DrainUnlock
      BY <2>3 DEF SeeDone, DrainLock, DrainStop, DrainUnlock
    <2> QED BY <1>5, <2>1, <2>2, <2>3 DEF JanitorStep
  <1>6. ASSUME NEW c \in Closers, CloseSwap(c) \/ CloseStep(c) PROVE PlaceInv'
    BY <1>6 DEF CloseSwap, CloseStep, CloseDone, CloseWait, ClosePoll,
                CloseGiveUp
  <1>7. CASE UNCHANGED vars BY <1>7 DEF vars
  <1> QED BY <1>1, <1>2, <1>3, <1>4, <1>5, <1>6, <1>7 DEF Next, Terminated

-----------------------------------------------------------------------------
(* The counter.                                                            *)

\* Live and Starting are finite, and one element makes a difference of one.
LEMMA CountOne ==
  ASSUME NEW S, NEW T \in SUBSET S, IsFiniteSet(S), NEW x
  PROVE  /\ Cardinality(T) \in Nat
         /\ x \notin T => Cardinality(T \cup {x}) = Cardinality(T) + 1
         /\ x \in T => Cardinality(T \ {x}) = Cardinality(T) - 1
PROOF
  <1>1. IsFiniteSet(T)
    BY FS_Subset
  <1> QED BY <1>1, FS_CardinalityType, FS_AddElement, FS_RemoveElement

LEMMA CountStep ==
  ASSUME TypeOK, PlaceInv, CountExact, [Next]_vars
  PROVE  CountExact'
PROOF
  <1> USE ShareAssumption DEF CountExact
  <1>a. /\ Live \subseteq Submitters /\ Starting \subseteq Tasks
        /\ Cardinality(Live) \in Nat /\ Cardinality(Starting) \in Nat
        /\ goroutines \in Nat /\ leaving \in Nat
    BY CountOne DEF Live, Starting, TypeOK
  <1>1. ASSUME UNCHANGED <<goroutines, leaving, worker>>,
               Starting' = Starting
        PROVE  CountExact'
    BY <1>1 DEF Live
  <1>2. ASSUME UNCHANGED <<goroutines, leaving, call>>, Live' = Live
        PROVE  CountExact'
    BY <1>2 DEF Starting
  <1>3. ASSUME NEW t \in Tasks, Call(t) PROVE CountExact'
    <2>1. Starting' = Starting
      BY <1>3 DEF Call, At, Starting, TypeOK
    <2> QED BY <1>1, <1>3, <2>1 DEF Call, workerVars
  <1>4. ASSUME NEW t \in Tasks, CallStep(t) PROVE CountExact'
    <2>1. CASE CountIn(t)
      <3>1. Starting' = Starting \cup {t} /\ t \notin Starting
        BY <2>1 DEF CountIn, At, Starting, TypeOK
      <3>2. Cardinality(Starting') = Cardinality(Starting) + 1
        BY <3>1, <1>a, CountOne
      <3>3. /\ goroutines' = goroutines + 1
            /\ leaving' = leaving /\ Live' = Live
        BY <2>1 DEF CountIn, workerVars, Live
      <3> QED BY <1>a, <3>2, <3>3
    <2>2. CASE Spawn(t)
      <3>1. PICK s \in pool : worker' = [worker EXCEPT ![s] = "receive"]
        BY <2>2 DEF Spawn
      <3>2. s \in Submitters /\ worker[s] = "none"
        BY DEF PlaceInv, TypeOK
      <3>3. Live' = Live \cup {s} /\ s \notin Live
        BY <3>1, <3>2 DEF Live, TypeOK
      <3>4. Starting' = Starting \ {t} /\ t \in Starting
        BY <2>2 DEF Spawn, At, Starting, TypeOK
      <3>5. /\ Cardinality(Live') = Cardinality(Live) + 1
            /\ Cardinality(Starting') = Cardinality(Starting) - 1
        BY <3>3, <3>4, <1>a, CountOne
      <3>6. goroutines' = goroutines /\ leaving' = leaving
        BY <2>2 DEF Spawn
      <3> QED BY <1>a, <3>5, <3>6
    <2>3. CASE ~CountIn(t) /\ ~Spawn(t)
      <3> USE <1>4, <2>3
          DEF CallStep, CheckRunning, CheckLimit, PickIdle, PickNew, PickNone,
              Submit, At, workerVars
      <3>1. Starting' = Starting
        BY DEF Starting, TypeOK, AfterBusy, AfterSubmit
      <3>2. UNCHANGED <<goroutines, leaving, worker>>
        OBVIOUS
      <3> QED BY <3>1, <3>2, <1>1
    <2> QED BY <2>1, <2>2, <2>3
  <1>5. ASSUME NEW s \in Submitters, WorkerStep(s) PROVE CountExact'
    <2>1. CASE PutBack(s)
      <3>1. Live' = Live \ {s} /\ s \in Live
        BY <2>1 DEF PutBack, Goto, Live, TypeOK
      <3>2. Cardinality(Live') = Cardinality(Live) - 1
        BY <3>1, <1>a, CountOne
      <3>3. /\ goroutines' = goroutines /\ leaving' = leaving + 1
            /\ Starting' = Starting
        BY <2>1 DEF PutBack, callVars, Starting
      <3> QED BY <1>a, <3>2, <3>3
    <2>2. CASE ~PutBack(s)
      <3> USE <1>5, <2>2
          DEF WorkerStep, Receive, Handled, ReleaseCheck, ReleaseRecheck,
              ReleaseAppend, Goto, callVars
      <3>1. Live' = Live
        BY DEF Live, TypeOK
      <3>2. UNCHANGED <<goroutines, leaving, call>>
        OBVIOUS
      <3> QED BY <3>1, <3>2, <1>2
    <2> QED BY <2>1, <2>2
  <1>6. CASE CountOut
    <2>1. /\ goroutines' = goroutines - 1 /\ leaving' = leaving - 1
          /\ Live' = Live /\ Starting' = Starting
      BY <1>6 DEF CountOut, callVars, Live, Starting
    <2> QED BY <1>a, <2>1
  <1>7. CASE JanitorStep
    <2>1. UNCHANGED <<goroutines, leaving, worker, call>>
      BY <1>7 DEF JanitorStep, Evict, StopEvicted, SeeDone, DrainLock,
                  DrainStop, DrainUnlock, workerVars, callVars
    <2> QED BY <2>1, <1>1 DEF Starting
  <1>8. ASSUME NEW c \in Closers, CloseSwap(c) \/ CloseStep(c)
        PROVE  CountExact'
    <2>1. UNCHANGED <<goroutines, leaving, worker, call>>
      BY <1>8 DEF CloseSwap, CloseStep, CloseDone, CloseWait, ClosePoll,
                  CloseGiveUp,
                  workerVars, callVars
    <2> QED BY <2>1, <1>1 DEF Starting
  <1>9. CASE UNCHANGED vars
    <2>1. UNCHANGED <<goroutines, leaving, worker, call>>
      BY <1>9 DEF vars, workerVars, callVars
    <2> QED BY <2>1, <1>1 DEF Starting
  <1> QED BY <1>3, <1>4, <1>5, <1>6, <1>7, <1>8, <1>9 DEF Next, Terminated

-----------------------------------------------------------------------------
(* The limit.                                                              *)

LEMMA LimitStep ==
  ASSUME TypeOK, LockInv, LimitInv, [Next]_vars
  PROVE  LimitInv'
PROOF
  <1> USE ShareAssumption DEF LimitInv
  <1>1. ASSUME NEW t \in Tasks, Call(t) PROVE LimitInv'
    BY <1>1 DEF Call, At, TypeOK
  <1>2. ASSUME NEW t \in Tasks, CallStep(t) PROVE LimitInv'
    <2>1. CASE PickNew(t)
      BY <2>1 DEF PickNew, HasRoom, At, TypeOK
    <2>2. CASE CountIn(t)
      <3>1. goroutines' = goroutines + 1 /\ goroutines < MaxGoroutines
        BY <2>2 DEF CountIn, At
      <3>2. goroutines' <= MaxGoroutines
        BY <3>1 DEF TypeOK
      <3>3. \A u \in Tasks : call'[u] # "incr"
        BY <2>2 DEF CountIn, At, TypeOK, LockInv
      <3> QED BY <3>2, <3>3
    <2>3. CASE ~PickNew(t) /\ ~CountIn(t)
      <3> USE <1>2, <2>3
          DEF CallStep, CheckRunning, CheckLimit, PickIdle, PickNone, Spawn,
              Submit, At
      <3>1. goroutines' = goroutines
        OBVIOUS
      <3>2. \A u \in Tasks : call'[u] = "incr" => call[u] = "incr"
        BY DEF TypeOK, AfterBusy, AfterSubmit
      <3> QED BY <3>1, <3>2
    <2> QED BY <2>1, <2>2, <2>3
  <1>3. ASSUME NEW s \in Submitters, WorkerStep(s) PROVE LimitInv'
    BY <1>3 DEF WorkerStep, Receive, Handled, ReleaseCheck, ReleaseRecheck,
                ReleaseAppend, PutBack, callVars
  <1>4. CASE CountOut
    <2>1. goroutines' = goroutines - 1 /\ call' = call
      BY <1>4 DEF CountOut, callVars
    <2> QED BY <2>1 DEF TypeOK
  <1>5. CASE JanitorStep
    BY <1>5 DEF JanitorStep, Evict, StopEvicted, SeeDone, DrainLock,
                DrainStop, DrainUnlock, callVars
  <1>6. ASSUME NEW c \in Closers, CloseSwap(c) \/ CloseStep(c)
        PROVE  LimitInv'
    BY <1>6 DEF CloseSwap, CloseStep, CloseDone, CloseWait, ClosePoll,
                CloseGiveUp,
                callVars
  <1>7. CASE UNCHANGED vars BY <1>7 DEF vars, callVars
  <1> QED BY <1>1, <1>2, <1>3, <1>4, <1>5, <1>6, <1>7 DEF Next, Terminated

-----------------------------------------------------------------------------
(* Draining.                                                               *)

LEMMA DrainStep ==
  ASSUME TypeOK, PlaceInv, LockInv, DrainInv, [Next]_vars
  PROVE  DrainInv'
PROOF
  <1> USE DEF DrainInv, TypeOK, closeVars, janitorVars, workerVars, poolVars
  <1>1. ASSUME NEW t \in Tasks, Call(t) PROVE DrainInv'
    BY <1>1 DEF Call
  <1>2. ASSUME NEW t \in Tasks, CallStep(t) PROVE DrainInv'
    <2>1. CASE PickIdle(t)
      BY <2>1 DEF PickIdle
    <2>2. CASE Spawn(t)
      <3>1. PICK s \in pool : worker' = [worker EXCEPT ![s] = "receive"]
        BY <2>2 DEF Spawn
      <3>2. UNCHANGED <<closeVars, janitorVars, idles>>
        BY <2>2 DEF Spawn
      <3> QED BY <3>1, <3>2
    <2>3. CASE ~PickIdle(t) /\ ~Spawn(t)
      BY <1>2, <2>3 DEF CallStep, CheckRunning, CheckLimit, PickNew, PickNone,
                        CountIn, Submit
    <2> QED BY <2>1, <2>2, <2>3
  <1>3. ASSUME NEW s \in Submitters, WorkerStep(s) PROVE DrainInv'
    <2> USE DEF Goto
    <2>1. CASE Receive(s) BY <2>1 DEF Receive
    <2>2. CASE Handled(s) BY <2>2 DEF Handled
    <2>3. CASE ReleaseCheck(s) BY <2>3 DEF ReleaseCheck
    <2>4. CASE ReleaseRecheck(s) BY <2>4 DEF ReleaseRecheck, MayRejoin
    <2>5. CASE ReleaseAppend(s) BY <2>5 DEF ReleaseAppend
    <2>6. CASE PutBack(s) BY <2>6 DEF PutBack
    <2> QED BY <1>3, <2>1, <2>2, <2>3, <2>4, <2>5, <2>6 DEF WorkerStep
  <1>4. CASE CountOut BY <1>4 DEF CountOut
  <1>5. ASSUME JanitorStep PROVE DrainInv'
    <2>1. CASE \E k \in 1..Len(idles) : Evict(k)
      BY <2>1 DEF Evict
    <2>2. CASE StopEvicted BY <2>2 DEF StopEvicted
    <2>3. CASE SeeDone BY <2>3 DEF SeeDone
    <2>4. CASE DrainLock BY <2>4 DEF DrainLock, LockFree, LockInv
    <2>5. CASE DrainStop BY <2>5 DEF DrainStop
    <2>6. CASE DrainUnlock BY <2>6 DEF DrainUnlock
    <2> QED BY <1>5, <2>1, <2>2, <2>3, <2>4, <2>5, <2>6 DEF JanitorStep
  <1>6. ASSUME NEW c \in Closers, CloseSwap(c) \/ CloseStep(c)
        PROVE  DrainInv'
    <2>1. CASE CloseSwap(c) BY <2>1 DEF CloseSwap
    <2>2. CASE CloseDone(c) BY <2>2 DEF CloseDone
    <2>3. CASE CloseWait(c) BY <2>3 DEF CloseWait
    <2>4. CASE ClosePoll(c) BY <2>4 DEF ClosePoll
    <2>5. CASE CloseGiveUp(c) BY <2>5 DEF CloseGiveUp
    <2> QED BY <1>6, <2>1, <2>2, <2>3, <2>4, <2>5 DEF CloseStep
  <1>7. CASE UNCHANGED vars BY <1>7 DEF vars
  <1> QED BY <1>1, <1>2, <1>3, <1>4, <1>5, <1>6, <1>7 DEF Next, Terminated

-----------------------------------------------------------------------------
(* A channel with one slot.                                                *)

LEMMA Sent ==
  ASSUME TypeOK, NEW s \in Submitters, NEW e \in Tasks \cup {Nil},
         Empty(s), Send(s, e)
  PROVE  /\ ~Empty(s)' /\ Len(ch'[s]) <= 1
         /\ \A t \in Tasks : Carries(s, t)' <=> t = e
         /\ \A r \in Submitters : r # s => ch'[r] = ch[r]
PROOF
  <1> DEFINE new == Append(<<>>, e)
  <1>1. /\ \A r \in Submitters : r # s => ch'[r] = ch[r]
        /\ ch'[s] = new
    BY DEF Send, Empty, TypeOK
  <1>2. <<>> \in Seq(Tasks \cup {Nil}) /\ Len(<<>>) = 0
    BY EmptySeq
  <1>3. new # <<>> /\ Len(new) = 1 /\ new[1] = e
    BY <1>2, AppendProperties
  <1>4. new = <<e>>
    BY <1>2, AppendIsConcat, ConcatEmptySeq
  <1> HIDE DEF new
  <1>5. ASSUME NEW t \in Tasks PROVE new = <<t>> <=> t = e
    BY <1>3, <1>4
  <1> QED BY <1>1, <1>3, <1>5 DEF Empty, Carries

LEMMA Received ==
  ASSUME TypeOK, NEW s \in Submitters, Len(ch[s]) <= 1, ~Empty(s),
         ch' = [ch EXCEPT ![s] = Tail(@)]
  PROVE  /\ Empty(s)' /\ Head(ch[s]) \in Tasks \cup {Nil}
         /\ \A t \in Tasks : Carries(s, t) <=> t = Head(ch[s])
         /\ \A r \in Submitters : r # s => ch'[r] = ch[r]
PROOF
  <1> DEFINE q == ch[s]
             E == Tasks \cup {Nil}
  <1>1. /\ q \in Seq(E) /\ q # <<>> /\ Len(q) <= 1 /\ ch'[s] = Tail(q)
        /\ \A r \in Submitters : r # s => ch'[r] = ch[r]
    BY DEF TypeOK, Empty
  <1> HIDE DEF q, E
  <1>2. Len(q) = 1
    <2>1. Len(q) \in Nat \ {0}
      BY <1>1, EmptySeq
    <2>2. Len(q) <= 1
      BY <1>1
    <2>3. \A n \in Nat \ {0} : n <= 1 => n = 1
      OBVIOUS
    <2> QED BY <2>1, <2>2, <2>3
  <1>3. Head(q) \in E /\ Tail(q) \in Seq(E) /\ Len(Tail(q)) = 0
    BY <1>1, <1>2, HeadTailProperties
  <1>4. Tail(q) = <<>>
    BY <1>3, EmptySeq
  <1>5. q = <<Head(q)>>
    <2>1. q[1] = Head(q)
      BY <1>1
    <2>2. <<Head(q)>> \in Seq(E) /\ Len(<<Head(q)>>) = 1 /\ <<Head(q)>>[1] = Head(q)
      BY <1>3
    <2> QED BY <1>1, <1>2, <2>1, <2>2, SeqEqual
  <1>6. ASSUME NEW t \in Tasks PROVE q = <<t>> <=> t = Head(q)
    BY <1>5
  <1> QED BY <1>1, <1>3, <1>4, <1>6 DEF Empty, Carries, q, E

-----------------------------------------------------------------------------
(* Ownership.                                                              *)

\* Steps that neither take a submitter nor hand it on.
LEMMA OwnFrame ==
  ASSUME TypeOK, OwnInv, UNCHANGED <<idles, pool, ch, held, scratch>>,
         janitor' # "stop" => scratch = <<>>,
         \A s \in Submitters : /\ worker'[s] = "none" <=> worker[s] = "none"
                               /\ worker'[s] = "receive" <=> worker[s] = "receive",
         \A t \in Tasks : call'[t] = "submit" <=> call[t] = "submit"
  PROVE  OwnInv'
PROOF
  <1>1. ASSUME NEW s \in Submitters PROVE OwnerOf(s)'
    <2>1. OwnerOf(s)
      BY DEF OwnInv
    <2> QED BY <2>1 DEF OwnerOf, WithCall, Empty, Idle, Evicted
  <1> QED BY <1>1 DEF OwnInv

LEMMA OwnCallStep ==
  ASSUME TypeOK, OwnInv, NEW t \in Tasks, Call(t) \/ CallStep(t)
  PROVE  OwnInv'
PROOF
  <1> USE DEF poolVars, workerVars, janitorVars
  <1>0. /\ \A s \in Submitters : OwnerOf(s)
        /\ IsInjective(idles) /\ IsInjective(scratch)
        /\ janitor # "stop" => scratch = <<>>
        /\ \A u \in Tasks : call[u] = "submit" <=> held[u] # Nil
        /\ \A u, v \in Tasks : held[u] = held[v] /\ held[u] # Nil => u = v
    BY DEF OwnInv
  <1>1. CASE Call(t) \/ CheckRunning(t) \/ CheckLimit(t) \/ PickNew(t)
               \/ PickNone(t) \/ CountIn(t)
    <2>1. /\ UNCHANGED <<idles, pool, ch, held, scratch, worker, janitor>>
          /\ \A u \in Tasks : call'[u] = "submit" <=> call[u] = "submit"
      BY <1>1 DEF Call, CheckRunning, CheckLimit, PickNew, PickNone, CountIn,
                  At, AfterBusy, TypeOK
    <2> QED BY <1>0, <2>1, OwnFrame
  <1>2. CASE PickIdle(t)
    <2> DEFINE last == idles[Len(idles)]
    <2>1. /\ idles # <<>> /\ idles' = SubSeq(idles, 1, Len(idles) - 1)
          /\ held' = [held EXCEPT ![t] = last]
          /\ call[t] = "pick" /\ call' = [call EXCEPT ![t] = "submit"]
          /\ UNCHANGED <<pool, ch, worker, scratch, janitor>>
      BY <1>2 DEF PickIdle, ButLast, At
    <2>2. /\ IsInjective(idles') /\ last \in Idle /\ Idle' = Idle \ {last}
      BY <1>0, <2>1, TakeLast DEF Idle, TypeOK
    <2>3. last \in Submitters
      BY <2>2, RangeOfSeq DEF Idle, TypeOK
    <2> HIDE DEF last
    <2>4. held[t] = Nil
      BY <1>0, <2>1
    <2>5. \A s \in Submitters : WithCall(s)' <=> WithCall(s) \/ s = last
      BY <2>1, <2>3, <2>4, ShareAssumption DEF WithCall, TypeOK
    <2>6. ASSUME NEW s \in Submitters PROVE OwnerOf(s)'
      <3>1. OwnerOf(s)
        BY <1>0
      <3>2. (s \in Evicted)' <=> s \in Evicted
        BY <2>1 DEF Evicted
      <3> QED BY <2>1, <2>2, <2>5, <3>1, <3>2 DEF OwnerOf, Empty
    <2>7. \A u \in Tasks : call'[u] = "submit" <=> held'[u] # Nil
      BY <1>0, <2>1, <2>3, ShareAssumption DEF TypeOK
    <2>8. ~WithCall(last)
      BY <1>0, <2>2, <2>3 DEF OwnerOf
    <2>9. \A u, v \in Tasks : held'[u] = held'[v] /\ held'[u] # Nil => u = v
      BY <1>0, <2>1, <2>8 DEF TypeOK, WithCall
    <2>10. scratch' = scratch /\ janitor' = janitor
      BY <2>1
    <2> QED BY <1>0, <2>2, <2>6, <2>7, <2>9, <2>10 DEF OwnInv
  <1>3. CASE Spawn(t)
    <2>1. PICK r \in pool : /\ pool' = pool \ {r}
                            /\ held' = [held EXCEPT ![t] = r]
                            /\ worker' = [worker EXCEPT ![r] = "receive"]
      BY <1>3 DEF Spawn
    <2>2. /\ call[t] = "get" /\ call' = [call EXCEPT ![t] = "submit"]
          /\ UNCHANGED <<idles, ch, scratch, janitor>>
      BY <1>3 DEF Spawn, At
    <2>3. r \in Submitters /\ held[t] = Nil
      BY <1>0, <2>2 DEF TypeOK
    <2>4. OwnerOf(r)
      BY <1>0, <2>3
    <2>5. /\ worker[r] = "none" /\ r \notin Idle /\ r \notin Evicted
          /\ ~WithCall(r) /\ Empty(r)
      BY <2>4, <2>1 DEF OwnerOf
    <2>6. \A s \in Submitters : WithCall(s)' <=> WithCall(s) \/ s = r
      BY <2>1, <2>3, ShareAssumption DEF WithCall, TypeOK
    <2>7. ASSUME NEW s \in Submitters PROVE OwnerOf(s)'
      <3>1. OwnerOf(s)
        BY <1>0
      <3>2. ((s \in Evicted)' <=> s \in Evicted) /\ ((s \in Idle)' <=> s \in Idle)
        BY <2>2 DEF Evicted, Idle
      <3>3. /\ worker'[s] = IF s = r THEN "receive" ELSE worker[s]
            /\ s \in pool' <=> s \in pool /\ s # r
            /\ ch' = ch
        BY <2>1, <2>2 DEF TypeOK
      <3> QED BY <2>5, <2>6, <3>1, <3>2, <3>3 DEF OwnerOf, Empty
    <2>8. \A u \in Tasks : call'[u] = "submit" <=> held'[u] # Nil
      BY <1>0, <2>1, <2>2, <2>3, ShareAssumption DEF TypeOK
    <2>9. \A u, v \in Tasks : held'[u] = held'[v] /\ held'[u] # Nil => u = v
      BY <1>0, <2>1, <2>5 DEF TypeOK, WithCall
    <2>10. UNCHANGED <<idles, scratch, janitor>>
      BY <2>2
    <2> QED BY <1>0, <2>7, <2>8, <2>9, <2>10 DEF OwnInv
  <1>4. CASE Submit(t)
    <2>a. call[t] = "submit"
      BY <1>4 DEF Submit, At
    <2>2. PICK h \in Submitters : h = held[t]
      BY <1>0, <2>a DEF TypeOK
    <2>1. /\ call[t] = "submit" /\ call' = [call EXCEPT ![t] = "ok"]
          /\ Send(h, t) /\ held' = [held EXCEPT ![t] = Nil]
          /\ UNCHANGED <<idles, pool, worker, scratch, janitor>>
      BY <1>4, <2>2 DEF Submit, At, AfterSubmit
    <2>3. WithCall(h) /\ OwnerOf(h)
      BY <1>0, <2>2 DEF WithCall
    <2>4. h \notin Idle /\ h \notin Evicted /\ Empty(h)
      BY <2>3 DEF OwnerOf
    <2>5. \A s \in Submitters : WithCall(s)' <=> WithCall(s) /\ s # h
      BY <1>0, <2>1, <2>2, ShareAssumption DEF WithCall, TypeOK
    <2>6. /\ ~Empty(h)' /\ Len(ch'[h]) <= 1
          /\ \A r \in Submitters : r # h => ch'[r] = ch[r]
      BY <2>1, <2>2, <2>4, Sent
    <2>7. ASSUME NEW s \in Submitters PROVE OwnerOf(s)'
      <3>1. OwnerOf(s)
        BY <1>0
      <3>2. ((s \in Evicted)' <=> s \in Evicted) /\ ((s \in Idle)' <=> s \in Idle)
        BY <2>1 DEF Evicted, Idle
      <3>3. worker' = worker /\ pool' = pool
        BY <2>1
      <3>4. CASE s = h
        BY <2>3, <2>4, <2>5, <2>6, <3>2, <3>3, <3>4 DEF OwnerOf
      <3>5. CASE s # h
        BY <2>5, <2>6, <3>1, <3>2, <3>3, <3>5 DEF OwnerOf, Empty
      <3> QED BY <3>4, <3>5
    <2>8. \A u \in Tasks : call'[u] = "submit" <=> held'[u] # Nil
      BY <1>0, <2>1 DEF TypeOK
    <2>9. \A u, v \in Tasks : held'[u] = held'[v] /\ held'[u] # Nil => u = v
      BY <1>0, <2>1 DEF TypeOK
    <2>10. UNCHANGED <<idles, scratch, janitor>>
      BY <2>1
    <2> QED BY <1>0, <2>7, <2>8, <2>9, <2>10 DEF OwnInv
  <1> QED BY <1>1, <1>2, <1>3, <1>4 DEF CallStep

LEMMA OwnWorkerStep ==
  ASSUME TypeOK, OwnInv, NEW r \in Submitters, WorkerStep(r)
  PROVE  OwnInv'
PROOF
  <1> USE DEF poolVars, callVars, janitorVars
  <1>0. /\ \A s \in Submitters : OwnerOf(s)
        /\ IsInjective(idles) /\ IsInjective(scratch)
        /\ janitor # "stop" => scratch = <<>>
    BY DEF OwnInv
  <1>a. ASSUME UNCHANGED <<call, held, scratch, janitor>>, IsInjective(idles'),
               \A s \in Submitters : OwnerOf(s)'
        PROVE  OwnInv'
    BY <1>0, <1>a DEF OwnInv
  <1>1. CASE Handled(r) \/ ReleaseCheck(r) \/ ReleaseRecheck(r)
    <2>1. UNCHANGED <<idles, pool, ch, held, scratch, janitor, call>>
      BY <1>1 DEF Handled, ReleaseCheck, ReleaseRecheck
    <2>2. /\ worker[r] \in {"handle", "release", "rejoin"}
          /\ \E w \in {"release", "rejoin", "append", "put"} :
               worker' = [worker EXCEPT ![r] = w]
      BY <1>1 DEF Handled, ReleaseCheck, ReleaseRecheck, Goto
    <2>3. \A s \in Submitters : /\ worker'[s] = "none" <=> worker[s] = "none"
                                /\ worker'[s] = "receive" <=> worker[s] = "receive"
      BY <2>2 DEF TypeOK
    <2> QED BY <1>0, <2>1, <2>3, OwnFrame
  <1>2. CASE Receive(r)
    <2>1. /\ UNCHANGED <<idles, pool, held, scratch, janitor, call>>
          /\ ~Empty(r) /\ ch' = [ch EXCEPT ![r] = Tail(@)]
          /\ worker[r] = "receive"
          /\ \E w \in {"put", "handle"} : worker' = [worker EXCEPT ![r] = w]
      BY <1>2 DEF Receive, Goto, Empty
    <2>2. Len(ch[r]) <= 1 /\ r \notin Idle /\ r \notin Evicted /\ ~WithCall(r)
            /\ r \notin pool
      BY <1>0, <2>1 DEF OwnerOf
    <2>3. Empty(r)' /\ \A s \in Submitters : s # r => ch'[s] = ch[s]
      BY <2>1, <2>2, Received
    <2>4. ch'[r] = <<>> /\ Len(ch'[r]) <= 1
      BY <2>3, EmptySeq DEF Empty
    <2>5. ASSUME NEW s \in Submitters PROVE OwnerOf(s)'
      <3>1. OwnerOf(s)
        BY <1>0
      <3>2. /\ (s \in Evicted)' <=> s \in Evicted
            /\ (s \in Idle)' <=> s \in Idle
            /\ WithCall(s)' <=> WithCall(s)
        BY <2>1 DEF Evicted, Idle, WithCall
      <3>3. CASE s = r
        BY <2>1, <2>2, <2>3, <2>4, <3>2, <3>3 DEF OwnerOf, TypeOK
      <3>4. CASE s # r
        BY <2>1, <2>3, <3>1, <3>2, <3>4 DEF OwnerOf, Empty, TypeOK
      <3> QED BY <3>3, <3>4
    <2> QED BY <1>0, <1>a, <2>1, <2>5
  <1>3. CASE ReleaseAppend(r)
    <2>1. /\ UNCHANGED <<ch, pool, held, scratch, janitor, call>>
          /\ worker[r] = "append" /\ worker' = [worker EXCEPT ![r] = "receive"]
          /\ idles' = Append(idles, r)
      BY <1>3 DEF ReleaseAppend, Goto
    <2>2. /\ r \notin Idle /\ r \notin Evicted /\ ~WithCall(r) /\ Empty(r)
          /\ r \notin pool
      BY <1>0, <2>1 DEF OwnerOf
    <2>3. IsInjective(idles') /\ Idle' = Idle \cup {r}
      BY <1>0, <2>1, <2>2, AddLast DEF Idle, TypeOK
    <2>4. ASSUME NEW s \in Submitters PROVE OwnerOf(s)'
      <3>1. OwnerOf(s)
        BY <1>0
      <3>2. /\ (s \in Evicted)' <=> s \in Evicted
            /\ WithCall(s)' <=> WithCall(s)
            /\ Empty(s)' <=> Empty(s)
        BY <2>1 DEF Evicted, WithCall, Empty
      <3> QED BY <2>1, <2>2, <2>3, <3>1, <3>2 DEF OwnerOf, TypeOK
    <2> QED BY <1>a, <2>1, <2>3, <2>4
  <1>4. CASE PutBack(r)
    <2>1. /\ UNCHANGED <<ch, idles, held, scratch, janitor, call>>
          /\ worker[r] = "put" /\ worker' = [worker EXCEPT ![r] = "none"]
          /\ pool' = pool \cup {r}
      BY <1>4 DEF PutBack, Goto
    <2>2. ASSUME NEW s \in Submitters PROVE OwnerOf(s)'
      <3>1. OwnerOf(s)
        BY <1>0
      <3>2. /\ (s \in Evicted)' <=> s \in Evicted
            /\ (s \in Idle)' <=> s \in Idle
            /\ WithCall(s)' <=> WithCall(s)
            /\ Empty(s)' <=> Empty(s)
        BY <2>1 DEF Evicted, Idle, WithCall, Empty
      <3> QED BY <2>1, <3>1, <3>2 DEF OwnerOf, TypeOK
    <2> QED BY <1>0, <1>a, <2>1, <2>2
  <1> QED BY <1>1, <1>2, <1>3, <1>4 DEF WorkerStep

LEMMA OwnJanitorStep ==
  ASSUME TypeOK, PlaceInv, OwnInv, JanitorStep
  PROVE  OwnInv'
PROOF
  <1> USE DEF workerVars, callVars, janitorVars, poolVars
  <1>0. /\ \A s \in Submitters : OwnerOf(s)
        /\ IsInjective(idles) /\ IsInjective(scratch)
        /\ janitor # "stop" => scratch = <<>>
    BY DEF OwnInv
  <1>a. ASSUME UNCHANGED <<call, held>>, IsInjective(idles'), IsInjective(scratch'),
               (janitor # "stop" => scratch = <<>>)',
               \A s \in Submitters : OwnerOf(s)'
        PROVE  OwnInv'
    BY <1>a DEF OwnInv
  <1>1. ASSUME NEW k \in 1..Len(idles), Evict(k) PROVE OwnInv'
    <2> DEFINE tmp == SubSeq(idles, 1, k)
               kept == SubSeq(idles, k + 1, Len(idles))
    <2>1. /\ scratch' = tmp /\ idles' = kept
          /\ janitor = "select" /\ janitor' = "stop"
          /\ UNCHANGED <<pool, ch, worker, held, call>>
      BY <1>1 DEF Evict, Kept
    <2>2. k \in 0..Len(idles)
      BY LenProperties DEF TypeOK
    <2>3. /\ IsInjective(tmp) /\ IsInjective(kept)
          /\ Range(tmp) \cap Range(kept) = {}
          /\ Range(tmp) \cup Range(kept) = Range(idles)
      BY <1>0, <2>2, CutSequence DEF TypeOK
    <2> HIDE DEF tmp, kept
    <2>4. /\ Evicted' \cap Idle' = {} /\ Evicted' \cup Idle' = Idle
      BY <2>1, <2>3 DEF Evicted, Idle
    <2>5. Evicted = {}
      BY <1>0, <2>1, EmptySeq DEF Evicted, Range
    <2>6. ASSUME NEW s \in Submitters PROVE OwnerOf(s)'
      <3>1. OwnerOf(s)
        BY <1>0
      <3>2. /\ WithCall(s)' <=> WithCall(s)
            /\ Empty(s)' <=> Empty(s)
        BY <2>1 DEF WithCall, Empty
      <3> QED BY <2>1, <2>4, <2>5, <3>1, <3>2 DEF OwnerOf
    <2> QED BY <1>a, <2>1, <2>3, <2>6
  <1>2. CASE StopEvicted
    <2>2. scratch # <<>>
      BY <1>2 DEF StopEvicted, PlaceInv
    <2>4. PICK h \in Submitters : h = Head(scratch)
      BY <2>2, HeadTailProperties DEF TypeOK
    <2>1. /\ janitor = "stop" /\ Send(h, Nil) /\ scratch' = Tail(scratch)
          /\ janitor' = IF Len(scratch) = 1 THEN "select" ELSE "stop"
          /\ UNCHANGED <<idles, pool, worker, held, call>>
      BY <1>2, <2>4 DEF StopEvicted
    <2>3. IsInjective(scratch') /\ h \in Evicted /\ Evicted' = Evicted \ {h}
      BY <1>0, <2>1, <2>2, <2>4, TakeFirst DEF Evicted, TypeOK
    <2>5. janitor' # "stop" => scratch' = <<>>
      <3>1. Tail(scratch) \in Seq(Submitters) /\ Len(Tail(scratch)) = Len(scratch) - 1
        BY <2>2, HeadTailProperties DEF TypeOK
      <3> DEFINE rest == Tail(scratch)
      <3>2. Len(scratch) = 1 => Len(rest) = 0
        BY <3>1
      <3> HIDE DEF rest
      <3>3. Len(rest) = 0 /\ rest \in Seq(Submitters) => rest = <<>>
        BY EmptySeq
      <3> QED BY <2>1, <3>1, <3>2, <3>3 DEF rest
    <2>6. /\ OwnerOf(h) /\ h \notin Idle /\ ~WithCall(h) /\ Empty(h)
      BY <1>0, <2>3, <2>4 DEF OwnerOf
    <2>7. /\ ~Empty(h)' /\ Len(ch'[h]) <= 1
          /\ \A s \in Submitters : s # h => ch'[s] = ch[s]
      BY <2>1, <2>4, <2>6, Sent
    <2>8. ASSUME NEW s \in Submitters PROVE OwnerOf(s)'
      <3>1. OwnerOf(s)
        BY <1>0
      <3>2. ((s \in Idle)' <=> s \in Idle) /\ (WithCall(s)' <=> WithCall(s))
        BY <2>1 DEF Idle, WithCall
      <3>3. worker' = worker /\ pool' = pool
        BY <2>1
      <3>4. CASE s = h
        BY <2>3, <2>6, <2>7, <3>2, <3>3, <3>4 DEF OwnerOf
      <3>5. CASE s # h
        BY <2>3, <2>7, <3>1, <3>2, <3>3, <3>5 DEF OwnerOf, Empty
      <3> QED BY <3>4, <3>5
    <2>9. UNCHANGED <<call, held, idles>>
      BY <2>1
    <2> QED BY <1>0, <1>a, <2>3, <2>5, <2>8, <2>9
  <1>3. CASE SeeDone \/ DrainLock \/ DrainUnlock
    <2>1. UNCHANGED <<idles, pool, ch, held, scratch, worker, call>>
      BY <1>3 DEF SeeDone, DrainLock, DrainUnlock
    <2>2. janitor' # "stop" => scratch = <<>>
      BY <1>0, <1>3 DEF SeeDone, DrainLock, DrainUnlock
    <2> QED BY <2>1, <2>2, OwnFrame
  <1>4. CASE DrainStop
    <2>3. PICK h \in Submitters : h = Head(idles)
      BY <1>4, HeadTailProperties DEF DrainStop, TypeOK
    <2>1. /\ idles # <<>> /\ Send(h, Nil) /\ idles' = Tail(idles)
          /\ UNCHANGED <<scratch, janitor, pool, worker, held, call>>
      BY <1>4, <2>3 DEF DrainStop
    <2>2. IsInjective(idles') /\ h \in Idle /\ Idle' = Idle \ {h}
      BY <1>0, <2>1, <2>3, TakeFirst DEF Idle, TypeOK
    <2>4. OwnerOf(h) /\ h \notin Evicted /\ ~WithCall(h) /\ Empty(h)
      BY <1>0, <2>2, <2>3 DEF OwnerOf
    <2>5. /\ ~Empty(h)' /\ Len(ch'[h]) <= 1
          /\ \A s \in Submitters : s # h => ch'[s] = ch[s]
      BY <2>1, <2>3, <2>4, Sent
    <2>6. ASSUME NEW s \in Submitters PROVE OwnerOf(s)'
      <3>1. OwnerOf(s)
        BY <1>0
      <3>2. ((s \in Evicted)' <=> s \in Evicted) /\ (WithCall(s)' <=> WithCall(s))
        BY <2>1 DEF Evicted, WithCall
      <3>3. worker' = worker /\ pool' = pool
        BY <2>1
      <3>4. CASE s = h
        BY <2>2, <2>4, <2>5, <3>2, <3>3, <3>4 DEF OwnerOf
      <3>5. CASE s # h
        BY <2>2, <2>5, <3>1, <3>2, <3>3, <3>5 DEF OwnerOf, Empty
      <3> QED BY <3>4, <3>5
    <2>7. UNCHANGED <<call, held, scratch, janitor>>
      BY <2>1
    <2> QED BY <1>0, <1>a, <2>2, <2>6, <2>7
  <1> QED BY <1>1, <1>2, <1>3, <1>4 DEF JanitorStep

LEMMA OwnStep ==
  ASSUME TypeOK, PlaceInv, OwnInv, [Next]_vars
  PROVE  OwnInv'
PROOF
  <1>1. ASSUME UNCHANGED <<idles, pool, ch, held, scratch, worker, call, janitor>>
        PROVE  OwnInv'
    BY <1>1, OwnFrame DEF OwnInv
  <1>2. CASE CountOut
    BY <1>1, <1>2 DEF CountOut, poolVars, callVars, janitorVars
  <1>3. ASSUME NEW c \in Closers, CloseSwap(c) \/ CloseStep(c) PROVE OwnInv'
    BY <1>1, <1>3 DEF CloseSwap, CloseStep, CloseDone, CloseWait, ClosePoll,
                      CloseGiveUp, poolVars, callVars, janitorVars, workerVars
  <1>4. CASE UNCHANGED vars
    BY <1>1, <1>4 DEF vars, poolVars, callVars, janitorVars, workerVars
  <1> QED BY <1>2, <1>3, <1>4, OwnCallStep, OwnWorkerStep, OwnJanitorStep
          DEF Next, Terminated

LEMMA OwnInvSole ==
  ASSUME TypeOK, OwnInv
  PROVE  SoleOwner
PROOF
  <1>0. \A s \in Submitters : OwnerOf(s)
    BY DEF OwnInv
  <1>1. /\ Idle \subseteq Submitters /\ Evicted \subseteq Submitters
        /\ Loaded \subseteq Submitters /\ Held \subseteq Submitters
    <2>1. Idle \subseteq Submitters /\ Evicted \subseteq Submitters
      BY RangeOfSeq DEF Idle, Evicted, TypeOK
    <2> QED BY <2>1 DEF Loaded, Held, Range, TypeOK
  <1>2. \A s \in Submitters : /\ s \in Held <=> WithCall(s)
                              /\ s \in Loaded <=> ~Empty(s)
    BY ShareAssumption DEF Held, Loaded, WithCall, Empty, Range, TypeOK
  <1>3. pool = {s \in Submitters : worker[s] = "none"}
    BY <1>0 DEF OwnerOf, TypeOK
  <1>4. Idle \cup Evicted \cup Held \cup Loaded
          = {s \in Submitters : worker[s] = "receive"}
    BY <1>0, <1>1, <1>2 DEF OwnerOf
  <1>5. /\ Idle \cap Evicted = {} /\ Idle \cap Held = {} /\ Idle \cap Loaded = {}
        /\ Evicted \cap Held = {} /\ Evicted \cap Loaded = {}
        /\ Held \cap Loaded = {}
    BY <1>0, <1>1, <1>2 DEF OwnerOf
  <1>6. \A s \in Submitters : Len(ch[s]) <= 1
    BY <1>0 DEF OwnerOf
  <1> QED BY <1>3, <1>4, <1>5, <1>6 DEF OwnInv, SoleOwner

-----------------------------------------------------------------------------
(* Every accepted task in one place.                                       *)

\* Steps that leave the channels and the tasks that run alone.
LEMMA RunFrame ==
  ASSUME TypeOK, RunInv, UNCHANGED <<begun, finished>>,
         \A t \in Tasks : call'[t] = "ok" <=> call[t] = "ok",
         \A t \in Tasks : t \in owed' => t \in owed \/ call[t] = "ok",
         \A s \in Submitters, t \in Tasks :
           /\ Carries(s, t)' <=> Carries(s, t)
           /\ Runs(s, t)' <=> Runs(s, t)
  PROVE  RunInv'
PROOF
  <1> SUFFICES ASSUME NEW t \in Tasks PROVE RunInvOf(t)'
    BY DEF RunInv
  <1>1. RunInvOf(t)
    BY DEF RunInv
  <1> QED BY <1>1 DEF RunInvOf

LEMMA RunCallStep ==
  ASSUME TypeOK, OwnInv, RunInv, NEW t \in Tasks, Call(t) \/ CallStep(t)
  PROVE  RunInv'
PROOF
  <1> USE DEF poolVars, workerVars, closeVars
  <1>1. CASE ~Submit(t)
    <2>1. UNCHANGED <<begun, finished, owed, ch, current>>
      BY <1>1 DEF Call, CallStep, CheckRunning, CheckLimit, PickIdle, PickNew,
                  PickNone, CountIn, Spawn
    <2>2. \A u \in Tasks : call'[u] = "ok" <=> call[u] = "ok"
      BY <1>1 DEF Call, CallStep, CheckRunning, CheckLimit, PickIdle, PickNew,
                  PickNone, CountIn, Spawn, At, AfterBusy, TypeOK
    <2>3. \A s \in Submitters : worker'[s] = "handle" <=> worker[s] = "handle"
      <3>1. CASE Spawn(t)
        <4>1. PICK r \in pool : worker' = [worker EXCEPT ![r] = "receive"]
          BY <3>1 DEF Spawn
        <4>2. r \in Submitters /\ worker[r] = "none"
          BY DEF OwnInv, OwnerOf, TypeOK
        <4> QED BY <4>1, <4>2 DEF TypeOK
      <3>2. CASE ~Spawn(t)
        <4>1. worker' = worker
          BY <1>1, <3>2 DEF Call, CallStep, CheckRunning, CheckLimit, PickIdle,
                            PickNew, PickNone, CountIn
        <4> QED BY <4>1
      <3> QED BY <3>1, <3>2
    <2>4. ASSUME NEW s \in Submitters, NEW u \in Tasks
          PROVE  (Carries(s, u)' <=> Carries(s, u)) /\ (Runs(s, u)' <=> Runs(s, u))
      BY <2>1, <2>3 DEF Carries, Runs
    <2> QED BY <2>1, <2>2, <2>4, RunFrame
  <1>2. CASE Submit(t)
    <2>a. call[t] = "submit"
      BY <1>2 DEF Submit, At
    <2>1. PICK h \in Submitters : h = held[t]
      BY <2>a DEF OwnInv, TypeOK
    <2>2. /\ Send(h, t) /\ call' = [call EXCEPT ![t] = "ok"]
          /\ UNCHANGED <<begun, finished, owed, worker, current>>
      BY <1>2, <2>1 DEF Submit, At, AfterSubmit
    <2>3. Empty(h)
      BY <2>1 DEF OwnInv, OwnerOf, WithCall
    <2>4. /\ \A u \in Tasks : Carries(h, u)' <=> u = t
          /\ \A r \in Submitters : r # h => ch'[r] = ch[r]
      BY <2>2, <2>3, Sent
    <2>5. ASSUME NEW s \in Submitters, NEW u \in Tasks
          PROVE  /\ s # h => (Carries(s, u)' <=> Carries(s, u))
                 /\ Runs(s, u)' <=> Runs(s, u)
      BY <2>2, <2>4 DEF Carries, Runs
    <2>6. \A u \in Tasks : ~Carries(h, u)
      BY <2>3, EmptySeq DEF Empty, Carries
    <2>7. \A u \in Tasks : call'[u] = IF u = t THEN "ok" ELSE call[u]
      BY <2>2 DEF TypeOK
    <2>8. ASSUME NEW u \in Tasks PROVE RunInvOf(u)'
      <3>1. RunInvOf(u)
        BY DEF RunInv
      <3>2. CASE u = t
        BY <2>a, <2>2, <2>4, <2>5, <2>7, <3>1, <3>2 DEF RunInvOf
      <3>3. CASE u # t
        BY <2>2, <2>4, <2>5, <2>6, <2>7, <3>1, <3>3 DEF RunInvOf
      <3> QED BY <3>2, <3>3
    <2> QED BY <2>8 DEF RunInv
  <1> QED BY <1>1, <1>2

LEMMA RunWorkerStep ==
  ASSUME TypeOK, PlaceInv, OwnInv, RunInv, NEW r \in Submitters, WorkerStep(r)
  PROVE  RunInv'
PROOF
  <1> USE DEF poolVars, callVars, closeVars
  <1>1. CASE Receive(r)
    <2>1. PICK e : e = Head(ch[r])
      OBVIOUS
    <2>2. /\ ~Empty(r) /\ ch' = [ch EXCEPT ![r] = Tail(@)]
          /\ worker[r] = "receive"
          /\ worker' = [worker EXCEPT ![r] = IF e = Nil THEN "put" ELSE "handle"]
          /\ current' = [current EXCEPT ![r] = e]
          /\ begun' = [u \in Tasks |-> IF u = e THEN begun[u] + 1 ELSE begun[u]]
          /\ UNCHANGED <<finished, call, owed>>
      BY <1>1, <2>1 DEF Receive, Goto, Empty
    <2>3. Len(ch[r]) <= 1
      BY DEF OwnInv, OwnerOf
    <2>4. /\ Empty(r)' /\ e \in Tasks \cup {Nil}
          /\ \A u \in Tasks : Carries(r, u) <=> u = e
          /\ \A s \in Submitters : s # r => ch'[s] = ch[s]
      BY <2>1, <2>2, <2>3, Received
    <2>5. \A u \in Tasks : ~Carries(r, u)'
      BY <2>4, EmptySeq DEF Empty, Carries
    <2>6. ASSUME NEW s \in Submitters, NEW u \in Tasks
          PROVE  /\ s # r => (Carries(s, u)' <=> Carries(s, u))
                 /\ s # r => (Runs(s, u)' <=> Runs(s, u))
                 /\ ~Runs(r, u) /\ (Runs(r, u)' <=> u = e)
      BY <2>2, <2>4, ShareAssumption DEF Carries, Runs, TypeOK
    <2>7. ASSUME NEW u \in Tasks PROVE RunInvOf(u)'
      <3>1. RunInvOf(u) /\ begun[u] \in Nat
        BY DEF RunInv, TypeOK
      <3>2. CASE u = e
        <4>1. begun[u] = 0 /\ call[u] = "ok" /\ begun'[u] = 1
          BY <2>2, <2>4, <3>1, <3>2 DEF RunInvOf
        <4>2. u \notin finished
          BY <3>1, <4>1 DEF RunInvOf
        <4>3. \A s \in Submitters : ~Carries(s, u)' /\ (Runs(s, u)' <=> s = r)
          BY <2>4, <2>5, <2>6, <3>1, <3>2, <4>1 DEF RunInvOf
        <4> QED BY <2>2, <4>1, <4>2, <4>3 DEF RunInvOf
      <3>3. CASE u # e
        <4>1. begun'[u] = begun[u]
          BY <2>2, <3>3
        <4>2. \A s \in Submitters : /\ Carries(s, u)' <=> Carries(s, u)
                                    /\ Runs(s, u)' <=> Runs(s, u)
          BY <2>4, <2>5, <2>6, <3>3
        <4> QED BY <2>2, <3>1, <4>1, <4>2 DEF RunInvOf
      <3> QED BY <3>2, <3>3
    <2> QED BY <2>7 DEF RunInv
  <1>2. CASE Handled(r)
    <2>1. PICK e \in Tasks : e = current[r]
      BY <1>2 DEF Handled, Goto, PlaceInv
    <2>2. /\ worker[r] = "handle" /\ worker' = [worker EXCEPT ![r] = "release"]
          /\ finished' = finished \cup {e}
          /\ current' = [current EXCEPT ![r] = Nil]
          /\ UNCHANGED <<ch, begun, call, owed>>
      BY <1>2, <2>1 DEF Handled, Goto
    <2>3. ASSUME NEW s \in Submitters, NEW u \in Tasks
          PROVE  /\ Carries(s, u)' <=> Carries(s, u)
                 /\ s # r => (Runs(s, u)' <=> Runs(s, u))
                 /\ ~Runs(r, u)' /\ (Runs(r, u) <=> u = e)
      BY <2>1, <2>2 DEF Carries, Runs, TypeOK
    <2>4. ASSUME NEW u \in Tasks PROVE RunInvOf(u)'
      <3>1. RunInvOf(u)
        BY DEF RunInv
      <3>2. CASE u = e
        <4>1. begun[u] = 1
          BY <2>3, <3>1, <3>2 DEF RunInvOf
        <4>2. \A s \in Submitters : ~Runs(s, u)'
          BY <2>3, <3>1, <3>2 DEF RunInvOf
        <4> QED BY <2>2, <2>3, <3>1, <3>2, <4>1, <4>2 DEF RunInvOf
      <3>3. CASE u # e
        <4>1. \A s \in Submitters : Runs(s, u)' <=> Runs(s, u)
          BY <2>3, <3>3
        <4> QED BY <2>2, <2>3, <3>1, <3>3, <4>1 DEF RunInvOf
      <3> QED BY <3>2, <3>3
    <2> QED BY <2>4 DEF RunInv
  <1>3. CASE ReleaseCheck(r) \/ ReleaseRecheck(r) \/ ReleaseAppend(r) \/ PutBack(r)
    <2>1. /\ UNCHANGED <<ch, current, begun, finished, call, owed>>
          /\ worker[r] \in {"release", "rejoin", "append", "put"}
          /\ \E w \in {"rejoin", "append", "put", "receive", "none"} :
               worker' = [worker EXCEPT ![r] = w]
      BY <1>3 DEF ReleaseCheck, ReleaseRecheck, ReleaseAppend, PutBack, Goto
    <2>2. ASSUME NEW s \in Submitters, NEW u \in Tasks
          PROVE  (Carries(s, u)' <=> Carries(s, u)) /\ (Runs(s, u)' <=> Runs(s, u))
      BY <2>1 DEF Carries, Runs, TypeOK
    <2> QED BY <2>1, <2>2, RunFrame
  <1> QED BY <1>1, <1>2, <1>3 DEF WorkerStep

\* A stop entry is no task.
LEMMA RunStop ==
  ASSUME TypeOK, RunInv, NEW h \in Submitters, Empty(h), Send(h, Nil),
         UNCHANGED <<worker, current, begun, finished, call, owed>>
  PROVE  RunInv'
PROOF
  <1>1. /\ \A u \in Tasks : ~Carries(h, u)'
        /\ \A s \in Submitters : s # h => ch'[s] = ch[s]
    BY Sent, ShareAssumption
  <1>2. \A u \in Tasks : ~Carries(h, u)
    BY EmptySeq DEF Empty, Carries
  <1>3. ASSUME NEW s \in Submitters, NEW u \in Tasks
        PROVE  (Carries(s, u)' <=> Carries(s, u)) /\ (Runs(s, u)' <=> Runs(s, u))
    BY <1>1, <1>2 DEF Carries, Runs
  <1> QED BY <1>3, RunFrame

LEMMA RunStep ==
  ASSUME TypeOK, PlaceInv, OwnInv, RunInv, [Next]_vars
  PROVE  RunInv'
PROOF
  <1>1. ASSUME UNCHANGED <<ch, worker, current, begun, finished, call>>,
               \A t \in Tasks : t \in owed' => t \in owed \/ call[t] = "ok"
        PROVE  RunInv'
    <2>1. ASSUME NEW s \in Submitters, NEW u \in Tasks
          PROVE  (Carries(s, u)' <=> Carries(s, u)) /\ (Runs(s, u)' <=> Runs(s, u))
      BY <1>1 DEF Carries, Runs
    <2> QED BY <1>1, <2>1, RunFrame
  <1> USE DEF poolVars, callVars, janitorVars, workerVars, closeVars
  <1>2. CASE CountOut
    BY <1>1, <1>2 DEF CountOut
  <1>3. ASSUME NEW c \in Closers, CloseSwap(c) \/ CloseStep(c) PROVE RunInv'
    <2>1. UNCHANGED <<ch, worker, current, begun, finished, call>>
      BY <1>3 DEF CloseSwap, CloseStep, CloseDone, CloseWait, ClosePoll,
                  CloseGiveUp
    <2>2. owed' = owed \/ owed' = AcceptedTasks \ finished
      BY <1>3 DEF CloseSwap, CloseStep, CloseDone, CloseWait, ClosePoll,
                  CloseGiveUp
    <2> QED BY <1>1, <2>1, <2>2 DEF AcceptedTasks
  <1>4. CASE UNCHANGED vars
    BY <1>1, <1>4 DEF vars
  <1>5. ASSUME JanitorStep PROVE RunInv'
    <2>1. CASE StopEvicted
      <3>1. scratch # <<>>
        BY <2>1 DEF StopEvicted, PlaceInv
      <3>2. PICK h \in Submitters : h = Head(scratch)
        BY <3>1, HeadTailProperties DEF TypeOK
      <3>3. h \in Evicted
        BY <3>1, <3>2, TakeFirst DEF Evicted, OwnInv, TypeOK
      <3>4. Empty(h)
        BY <3>3 DEF OwnInv, OwnerOf
      <3>5. /\ Send(h, Nil)
            /\ UNCHANGED <<worker, current, begun, finished, call, owed>>
        BY <2>1, <3>2 DEF StopEvicted
      <3> QED BY <3>4, <3>5, RunStop
    <2>2. CASE DrainStop
      <3>1. PICK h \in Submitters : h = Head(idles)
        BY <2>2, HeadTailProperties DEF DrainStop, TypeOK
      <3>2. h \in Idle
        BY <2>2, <3>1, TakeFirst DEF DrainStop, Idle, OwnInv, TypeOK
      <3>3. Empty(h)
        BY <3>2 DEF OwnInv, OwnerOf
      <3>4. /\ Send(h, Nil)
            /\ UNCHANGED <<worker, current, begun, finished, call, owed>>
        BY <2>2, <3>1 DEF DrainStop
      <3> QED BY <3>3, <3>4, RunStop
    <2>3. CASE ~StopEvicted /\ ~DrainStop
      BY <1>1, <1>5, <2>3 DEF JanitorStep, Evict, SeeDone, DrainLock, DrainUnlock
    <2> QED BY <2>1, <2>2, <2>3
  <1> QED BY <1>2, <1>3, <1>4, <1>5, RunCallStep, RunWorkerStep DEF Next, Terminated

LEMMA RunInvOnce ==
  ASSUME TypeOK, RunInv
  PROVE  RunAtMostOnce
PROOF
  <1> SUFFICES ASSUME NEW t \in Tasks, begun[t] > 0
               PROVE  begun[t] = 1 /\ call[t] = "ok"
    BY DEF RunAtMostOnce
  <1>1. RunInvOf(t) /\ begun[t] \in Nat
    BY DEF RunInv, TypeOK
  <1> QED BY <1>1 DEF RunInvOf

-----------------------------------------------------------------------------
(* The inductive invariant, and what follows from it.                      *)

LEMMA InitOwn ==
  ASSUME Init
  PROVE  OwnInv /\ RunInv
PROOF
  <1> USE ShareAssumption DEF Init
  <1>1. Idle = {} /\ Evicted = {} /\ IsInjective(<<>>)
    BY EmptySeq DEF Idle, Evicted, Range, IsInjective
  <1>2. ASSUME NEW s \in Submitters PROVE OwnerOf(s)
    <2>1. Empty(s) /\ Len(ch[s]) = 0
      BY EmptySeq DEF Empty
    <2> QED BY <1>1, <2>1 DEF OwnerOf, WithCall
  <1>3. OwnInv
    BY <1>1, <1>2 DEF OwnInv
  <1>4. ASSUME NEW s \in Submitters, NEW t \in Tasks
        PROVE  ~Carries(s, t) /\ ~Runs(s, t)
    BY EmptySeq DEF Carries, Runs
  <1>5. RunInv
    BY <1>4 DEF RunInv, RunInvOf
  <1> QED BY <1>3, <1>5

LEMMA InitIInv ==
  ASSUME Init
  PROVE  IInv
PROOF
  <1> USE ShareAssumption DEF Init
  <1>1. TypeOK
    BY EmptySeq DEF TypeOK, Modes, Returned
  <1>2. LockInv /\ PlaceInv /\ DrainInv
    BY DEF LockInv, PlaceInv, DrainInv
  <1>3. CountExact
    <2>1. Live = {} /\ Starting = {}
      BY DEF Live, Starting
    <2> QED BY <2>1, FS_EmptySet DEF CountExact
  <1>4. LimitInv
    BY DEF LimitInv
  <1> QED BY <1>1, <1>2, <1>3, <1>4, InitOwn DEF IInv

\* Every reachable state satisfies the inductive invariant.
THEOREM Invariance == Spec => []IInv
PROOF
  <1>1. Init => IInv
    BY InitIInv
  <1>2. IInv /\ [Next]_vars => IInv'
    BY TypeStep, PlaceStep, LockStep, CountStep, LimitStep, DrainStep, OwnStep,
       RunStep DEF IInv
  <1> QED BY <1>1, <1>2, PTL DEF Spec

\* The variables keep their types; in particular the counter of share.go
\* never goes below zero.
THEOREM TypeCorrect == Spec => []TypeOK
PROOF
  <1>1. IInv => TypeOK
    BY DEF IInv
  <1> QED BY <1>1, Invariance, PTL

\* The locker of share.go excludes, however many goroutines use it.
THEOREM Exclusion == Spec => []MutualExclusion
PROOF
  <1>1. IInv => MutualExclusion
    BY LockInvExcludes DEF IInv
  <1> QED BY <1>1, Invariance, PTL

\* exec.goroutines is the number of goroutines Close has to wait for.
THEOREM Counting == Spec => []CountExact
PROOF
  <1>1. IInv => CountExact
    BY DEF IInv
  <1> QED BY <1>1, Invariance, PTL

\* The pool never outgrows MaxGoroutines.
THEOREM Limit == Spec => []LimitRespected
PROOF
  <1>1. IInv => LimitRespected
    BY DEF IInv, LimitInv, LimitRespected
  <1> QED BY <1>1, Invariance, PTL

\* No goroutine is left behind in idles once the janitor is gone.
THEOREM NobodyStranded == Spec => []NoneStranded
PROOF
  <1>1. IInv => NoneStranded
    BY DEF IInv, DrainInv, NoneStranded
  <1> QED BY <1>1, Invariance, PTL

\* A taskSubmitter has one owner at a time, so that nobody who sends on its
\* channel waits.
THEOREM Ownership == Spec => []SoleOwner
PROOF
  <1>1. IInv => SoleOwner
    BY OwnInvSole DEF IInv
  <1> QED BY <1>1, Invariance, PTL

\* No task is run twice and none whose call was refused.
THEOREM AtMostOnce == Spec => []RunAtMostOnce
PROOF
  <1>1. IInv => RunAtMostOnce
    BY RunInvOnce DEF IInv
  <1> QED BY <1>1, Invariance, PTL

-----------------------------------------------------------------------------
(* What share.go promises: every step is one of Executors, or none.        *)

\* The status of one task follows from its call, begun and finished.
LEMMA StatusOne ==
  ASSUME NEW t \in Tasks,
         \A u \in Tasks : u # t =>
           /\ call'[u] = call[u] /\ begun'[u] = begun[u]
           /\ u \in finished' <=> u \in finished
  PROVE  TaskStatus' = [TaskStatus EXCEPT ![t] = TaskStatus'[t]]
PROOF
  <1>1. \A u \in Tasks : u # t => TaskStatus'[u] = TaskStatus[u]
    BY DEF TaskStatus
  <1>2. /\ TaskStatus = [u \in Tasks |-> TaskStatus[u]]
        /\ TaskStatus' = [u \in Tasks |-> TaskStatus'[u]]
    BY DEF TaskStatus
  <1> HIDE DEF TaskStatus
  <1> QED BY <1>1, <1>2

LEMMA ClosingOne ==
  ASSUME NEW c \in Closers, NEW to, TypeOK,
         closer' = [closer EXCEPT ![c] = to]
  PROVE  CloseStatus' = [CloseStatus EXCEPT ![c] = CloseStatus'[c]]
PROOF
  <1>1. \A d \in Closers : d # c => closer'[d] = closer[d]
    BY DEF TypeOK
  <1>2. \A d \in Closers : d # c => CloseStatus'[d] = CloseStatus[d]
    BY <1>1 DEF CloseStatus
  <1>3. /\ CloseStatus = [d \in Closers |-> CloseStatus[d]]
        /\ CloseStatus' = [d \in Closers |-> CloseStatus'[d]]
    BY DEF CloseStatus
  <1> HIDE DEF CloseStatus
  <1> QED BY <1>2, <1>3

\* What a status says of the variables.
LEMMA StatusFacts ==
  ASSUME IInv
  PROVE  /\ Abstract!WithStatus("accepted") \cup Abstract!WithStatus("running")
              = AcceptedTasks \ finished
         /\ Abstract!WithStatus("running") =
              {t \in Tasks : begun[t] = 1 /\ t \notin finished}
         /\ Abstract!WithStatus("finished") = finished
PROOF
  <1>1. ASSUME NEW t \in Tasks
        PROVE  /\ begun[t] \in {0, 1} /\ (begun[t] = 1 => call[t] = "ok")
               /\ t \in finished => begun[t] = 1
    <2>1. RunInvOf(t) /\ begun[t] \in Nat
      BY DEF IInv, RunInv, TypeOK
    <2> QED BY <2>1 DEF RunInvOf
  <1>2. ASSUME NEW t \in Tasks
        PROVE  /\ TaskStatus[t] = "finished" <=> t \in finished
               /\ TaskStatus[t] = "running" <=> begun[t] = 1 /\ t \notin finished
               /\ TaskStatus[t] = "accepted" <=> begun[t] = 0 /\ call[t] = "ok"
    BY <1>1 DEF TaskStatus, IInv, TypeOK, Returned
  <1>3. finished \subseteq Tasks
    BY DEF IInv, TypeOK
  <1> HIDE DEF TaskStatus
  <1> QED BY <1>1, <1>2, <1>3 DEF Abstract!WithStatus, AcceptedTasks

\* Executors counts the way this module does.
LEMMA SameCardinality ==
  ASSUME NEW S
  PROVE  Abstract!Cardinality(S) = Cardinality(S)
PROOF
  BY DEF Cardinality, Abstract!Cardinality

LEMMA ImplementsInit ==
  ASSUME Init
  PROVE  Abstract!Init
PROOF
  BY DEF Init, Abstract!Init, TaskStatus, CloseStatus

\* A task runs on a goroutine of its own.
LEMMA RunningBounded ==
  ASSUME IInv, NEW r \in Submitters, worker[r] = "receive"
  PROVE  Cardinality(Abstract!WithStatus("running")) < MaxGoroutines
PROOF
  <1> DEFINE busy == {t \in Tasks : begun[t] = 1 /\ t \notin finished}
             hands == Live \ {r}
             g == [t \in busy |-> CHOOSE s \in Submitters : Runs(s, t)]
  <1>1. /\ Live \subseteq Submitters /\ r \in Live
        /\ IsFiniteSet(Live) /\ IsFiniteSet(hands)
    BY ShareAssumption, FS_Subset DEF Live
  <1>2. ASSUME NEW t \in busy
        PROVE  /\ g[t] \in hands /\ current[g[t]] = t
    <2>1. \E s \in Submitters : Runs(s, t)
      BY DEF IInv, RunInv, RunInvOf
    <2>2. g[t] \in Submitters /\ Runs(g[t], t)
      BY <2>1
    <2> QED BY <2>2 DEF Runs, Live
  <1>3. g \in [busy -> hands]
    BY <1>2
  <1> HIDE DEF g, busy, hands
  <1>4. g \in Injection(busy, hands)
    BY <1>2, <1>3 DEF Injection, IsInjective
  <1>5. IsFiniteSet(busy) /\ Cardinality(busy) <= Cardinality(hands)
    BY <1>1, <1>4, FS_Injection
  <1>6. /\ Cardinality(hands) = Cardinality(Live) - 1
        /\ Cardinality(Live) \in Nat /\ Cardinality(busy) \in Nat
    BY <1>1, <1>5, FS_RemoveElement, FS_CardinalityType DEF hands
  <1>7. Cardinality(Live) <= goroutines /\ goroutines <= MaxGoroutines
    <2>1. /\ goroutines = Cardinality(Live) + Cardinality(Starting) + leaving
          /\ goroutines <= MaxGoroutines
          /\ leaving \in Nat
      BY DEF IInv, CountExact, LimitInv, TypeOK
    <2>2. Cardinality(Starting) \in Nat
      BY ShareAssumption, FS_Subset, FS_CardinalityType DEF Starting
    <2> QED BY <1>6, <2>1, <2>2
  <1>8. Cardinality(busy) < MaxGoroutines
    <2>1. goroutines \in Nat /\ MaxGoroutines \in Nat
      BY ShareAssumption DEF IInv, TypeOK
    <2> QED BY <1>5, <1>6, <1>7, <2>1
  <1> QED BY <1>8, StatusFacts DEF busy

\* A call takes the steps Admit, Retry, RefuseBusy, RefuseClosed and Accept.
LEMMA ImplementsCall ==
  ASSUME IInv, NEW t \in Tasks, Call(t) \/ CallStep(t)
  PROVE  [Abstract!Next]_(Abstract!vars)
PROOF
  <1> USE DEF workerVars, closeVars
  <1>a. TypeOK /\ RunInvOf(t)
    BY DEF IInv, RunInv
  <1>b. CloseStatus' = CloseStatus /\ running' = running /\ owed' = owed
    BY DEF Call, CallStep, CheckRunning, CheckLimit, PickIdle, PickNew,
           PickNone, CountIn, Spawn, Submit, CloseStatus
  <1>c. begun' = begun /\ finished' = finished
    BY DEF Call, CallStep, CheckRunning, CheckLimit, PickIdle, PickNew,
           PickNone, CountIn, Spawn, Submit
  <1>d. call[t] # "ok" /\ \E to : call' = [call EXCEPT ![t] = to]
    BY DEF Call, CallStep, CheckRunning, CheckLimit, PickIdle, PickNew,
           PickNone, CountIn, Spawn, Submit, At
  <1>e. \A u \in Tasks : u # t => call'[u] = call[u]
    BY <1>a, <1>d DEF TypeOK
  <1>f. TaskStatus' = [TaskStatus EXCEPT ![t] = TaskStatus'[t]]
    BY <1>c, <1>e, StatusOne
  <1>g. begun[t] = 0 /\ t \notin finished
    BY <1>a, <1>d DEF RunInvOf
  <1>h. /\ TaskStatus[t] = IF call[t] \in {"start", "running"} THEN "idle"
                           ELSE IF call[t] \in {"busy", "closed"} THEN call[t]
                           ELSE "admitted"
        /\ TaskStatus'[t] = IF call'[t] = "ok" THEN "accepted"
                            ELSE IF call'[t] \in {"start", "running"} THEN "idle"
                            ELSE IF call'[t] \in {"busy", "closed"} THEN call'[t]
                            ELSE "admitted"
    BY <1>c, <1>d, <1>g DEF TaskStatus
  <1>1. ASSUME TaskStatus'[t] = TaskStatus[t] PROVE UNCHANGED Abstract!vars
    <2>1. TaskStatus' = TaskStatus
      BY <1>1, <1>f DEF TaskStatus
    <2> QED BY <2>1, <1>b DEF Abstract!vars
  <1>2. CASE Call(t) \/ PickIdle(t) \/ PickNew(t) \/ CountIn(t) \/ Spawn(t)
    <2>1. TaskStatus'[t] = TaskStatus[t]
      BY <1>2, <1>a, <1>h DEF Call, PickIdle, PickNew, CountIn, Spawn, At, TypeOK
    <2> QED BY <1>1, <2>1
  <1>3. CASE CheckRunning(t)
    <2>1. /\ TaskStatus[t] = "idle"
          /\ TaskStatus'[t] = IF running THEN "admitted" ELSE "closed"
      BY <1>3, <1>a, <1>h DEF CheckRunning, At, TypeOK
    <2>2. CASE running
      <3>1. Abstract!Admit(t)
        BY <1>b, <1>f, <2>1, <2>2 DEF Abstract!Admit, Abstract!Move
      <3> QED BY <3>1 DEF Abstract!Next
    <2>3. CASE ~running
      <3>1. Abstract!RefuseClosed(t)
        BY <1>b, <1>f, <2>1, <2>3 DEF Abstract!RefuseClosed, Abstract!Move
      <3> QED BY <3>1 DEF Abstract!Next
    <2> QED BY <2>2, <2>3
  <1>4. CASE CheckLimit(t) \/ PickNone(t)
    <2>1. /\ TaskStatus[t] = "admitted"
          /\ TaskStatus'[t] \in {"admitted", "idle", "busy"}
      BY <1>4, <1>a, <1>h DEF CheckLimit, PickNone, At, AfterBusy, TypeOK
    <2>2. CASE TaskStatus'[t] = "admitted"
      BY <1>1, <2>1, <2>2
    <2>3. CASE TaskStatus'[t] = "idle"
      <3>1. Abstract!Retry(t)
        BY <1>b, <1>f, <2>1, <2>3 DEF Abstract!Retry, Abstract!Move
      <3> QED BY <3>1 DEF Abstract!Next
    <2>4. CASE TaskStatus'[t] = "busy"
      <3>1. Abstract!RefuseBusy(t)
        BY <1>b, <1>f, <2>1, <2>4 DEF Abstract!RefuseBusy, Abstract!Move
      <3> QED BY <3>1 DEF Abstract!Next
    <2> QED BY <2>1, <2>2, <2>3, <2>4
  <1>5. CASE Submit(t)
    <2>1. TaskStatus[t] = "admitted" /\ TaskStatus'[t] = "accepted"
      BY <1>5, <1>a, <1>h DEF Submit, At, AfterSubmit, TypeOK
    <2>2. Abstract!Accept(t)
      BY <1>b, <1>f, <2>1 DEF Abstract!Accept, Abstract!Move
    <2> QED BY <2>2 DEF Abstract!Next
  <1> QED BY <1>2, <1>3, <1>4, <1>5 DEF CallStep

\* A goroutine takes the steps Start and Finish.
LEMMA ImplementsWorker ==
  ASSUME IInv, NEW r \in Submitters, WorkerStep(r)
  PROVE  [Abstract!Next]_(Abstract!vars)
PROOF
  <1> USE DEF callVars, closeVars
  <1>a. TypeOK /\ PlaceInv /\ \A t \in Tasks : RunInvOf(t)
    BY DEF IInv, RunInv
  <1>b. /\ CloseStatus' = CloseStatus /\ running' = running /\ owed' = owed
        /\ call' = call
    BY DEF WorkerStep, Receive, Handled, ReleaseCheck, ReleaseRecheck,
           ReleaseAppend, PutBack, CloseStatus
  <1>1. ASSUME UNCHANGED <<begun, finished>> PROVE UNCHANGED Abstract!vars
    BY <1>1, <1>b DEF Abstract!vars, TaskStatus
  <1>2. CASE Receive(r)
    <2>1. PICK e : e = Head(ch[r])
      OBVIOUS
    <2>2. /\ ~Empty(r) /\ ch' = [ch EXCEPT ![r] = Tail(@)]
          /\ worker[r] = "receive"
          /\ begun' = [u \in Tasks |-> IF u = e THEN begun[u] + 1 ELSE begun[u]]
          /\ finished' = finished
      BY <1>2, <2>1 DEF Receive, Goto, Empty
    <2>3. Len(ch[r]) <= 1
      BY DEF IInv, OwnInv, OwnerOf
    <2>4. e \in Tasks \cup {Nil} /\ \A u \in Tasks : Carries(r, u) <=> u = e
      BY <1>a, <2>1, <2>2, <2>3, Received
    <2>5. CASE e = Nil
      <3>1. \A u \in Tasks : begun'[u] = begun[u]
        BY <2>2, <2>5, ShareAssumption
      <3>2. TaskStatus' = TaskStatus
        BY <1>b, <2>2, <3>1 DEF TaskStatus
      <3> QED BY <1>b, <3>2 DEF Abstract!vars
    <2>6. CASE e # Nil
      <3>1. e \in Tasks /\ begun[e] = 0 /\ call[e] = "ok" /\ e \notin finished
        BY <1>a, <2>4, <2>6 DEF RunInvOf
      <3>2. /\ begun'[e] = 1
            /\ \A u \in Tasks : u # e => begun'[u] = begun[u]
        BY <2>2, <3>1
      <3>3. TaskStatus' = [TaskStatus EXCEPT ![e] = TaskStatus'[e]]
        BY <1>b, <2>2, <3>1, <3>2, StatusOne
      <3>4. TaskStatus[e] = "accepted" /\ TaskStatus'[e] = "running"
        BY <1>b, <2>2, <3>1, <3>2 DEF TaskStatus
      <3>5. Abstract!Cardinality(Abstract!WithStatus("running")) < MaxGoroutines
        BY <2>2, RunningBounded, SameCardinality
      <3>6. Abstract!Start(e)
        BY <1>b, <3>3, <3>4, <3>5 DEF Abstract!Start, Abstract!Move
      <3> QED BY <3>1, <3>6 DEF Abstract!Next
    <2> QED BY <2>5, <2>6
  <1>3. CASE Handled(r)
    <2>1. PICK e \in Tasks : e = current[r]
      BY <1>3, <1>a DEF Handled, Goto, PlaceInv
    <2>2. /\ Runs(r, e) /\ begun' = begun /\ finished' = finished \cup {e}
      BY <1>3, <2>1 DEF Handled, Goto, Runs
    <2>3. begun[e] = 1 /\ e \notin finished
      BY <1>a, <2>2 DEF RunInvOf
    <2>4. TaskStatus' = [TaskStatus EXCEPT ![e] = TaskStatus'[e]]
      BY <1>b, <2>2, StatusOne
    <2>5. TaskStatus[e] = "running" /\ TaskStatus'[e] = "finished"
      BY <2>2, <2>3 DEF TaskStatus
    <2>6. Abstract!Finish(e)
      BY <1>b, <2>4, <2>5 DEF Abstract!Finish, Abstract!Move
    <2> QED BY <2>6 DEF Abstract!Next
  <1>4. CASE ReleaseCheck(r) \/ ReleaseRecheck(r) \/ ReleaseAppend(r) \/ PutBack(r)
    BY <1>1, <1>4 DEF ReleaseCheck, ReleaseRecheck, ReleaseAppend, PutBack
  <1> QED BY <1>2, <1>3, <1>4 DEF WorkerStep

\* No goroutine, no task that is still to be finished.
LEMMA NothingLeft ==
  ASSUME IInv, goroutines = 0
  PROVE  owed \subseteq finished
PROOF
  <1>1. Live = {}
    <2>1. IsFiniteSet(Live) /\ IsFiniteSet(Starting)
      BY ShareAssumption, FS_Subset DEF Live, Starting
    <2>2. Cardinality(Live) \in Nat /\ Cardinality(Starting) \in Nat
      BY <2>1, FS_CardinalityType
    <2>3. 0 = Cardinality(Live) + Cardinality(Starting) + leaving /\ leaving \in Nat
      BY DEF IInv, CountExact, TypeOK
    <2>4. Cardinality(Live) = 0
      BY <2>2, <2>3
    <2> QED BY <2>1, <2>4, FS_EmptySet
  <1> SUFFICES ASSUME NEW t \in Tasks, t \in owed, t \notin finished PROVE FALSE
    BY DEF IInv, TypeOK
  <1>2. RunInvOf(t) /\ begun[t] \in Nat
    BY DEF IInv, RunInv, TypeOK
  <1>3. \/ \E s \in Submitters : Carries(s, t)
        \/ \E s \in Submitters : Runs(s, t)
    BY <1>2 DEF RunInvOf
  <1>4. ASSUME NEW s \in Submitters PROVE ~Carries(s, t) /\ ~Runs(s, t)
    <2>1. worker[s] = "none" /\ OwnerOf(s)
      BY <1>1 DEF Live, IInv, OwnInv
    <2>2. Empty(s)
      BY <2>1 DEF OwnerOf
    <2> QED BY <2>1, <2>2, EmptySeq DEF Empty, Carries, Runs
  <1> QED BY <1>3, <1>4

\* Close takes the steps CloseBegin, CloseAlready, CloseEnd and CloseFail.
LEMMA ImplementsClose ==
  ASSUME IInv, NEW c \in Closers, CloseSwap(c) \/ CloseStep(c)
  PROVE  [Abstract!Next]_(Abstract!vars)
PROOF
  <1> USE DEF workerVars, callVars
  <1>a. TypeOK
    BY DEF IInv
  <1>b. TaskStatus' = TaskStatus
    BY DEF CloseSwap, CloseStep, CloseDone, CloseWait, ClosePoll, CloseGiveUp,
           TaskStatus
  <1>c. PICK to : closer' = [closer EXCEPT ![c] = to]
    BY DEF CloseSwap, CloseStep, CloseDone, CloseWait, ClosePoll, CloseGiveUp
  <1>d. CloseStatus' = [CloseStatus EXCEPT ![c] = CloseStatus'[c]]
    BY <1>a, <1>c, ClosingOne
  <1>1. CASE CloseSwap(c) /\ running
    <2>1. CloseStatus[c] = "none" /\ CloseStatus'[c] = "closing" /\ ~running'
      BY <1>1, <1>a DEF CloseSwap, CloseStatus, TypeOK
    <2>2. owed' = Abstract!WithStatus("accepted")
                    \cup Abstract!WithStatus("running")
      BY <1>1, StatusFacts DEF CloseSwap
    <2>3. Abstract!CloseBegin(c)
      BY <1>a, <1>b, <1>d, <1>1, <2>1, <2>2
      DEF Abstract!CloseBegin, TypeOK, CloseSwap
    <2> QED BY <2>3 DEF Abstract!Next
  <1>2. CASE CloseSwap(c) /\ ~running
    <2>1. CloseStatus[c] = "none" /\ CloseStatus'[c] = "already"
      BY <1>2, <1>a DEF CloseSwap, CloseStatus, TypeOK
    <2>2. running' = running /\ owed' = owed
      BY <1>2, <1>a DEF CloseSwap, TypeOK
    <2>3. Abstract!CloseAlready(c)
      BY <1>b, <1>d, <1>2, <2>1, <2>2 DEF Abstract!CloseAlready
    <2> QED BY <2>3 DEF Abstract!Next
  <1>3. CASE CloseDone(c) \/ ClosePoll(c) \/ (CloseWait(c) /\ ~DownTo(0))
    <2>1. CloseStatus'[c] = CloseStatus[c]
      BY <1>3, <1>a DEF CloseDone, ClosePoll, CloseWait, CloseStatus, TypeOK
    <2>2. CloseStatus' = CloseStatus
      BY <1>d, <2>1 DEF CloseStatus
    <2>3. running' = running /\ owed' = owed
      BY <1>3 DEF CloseDone, ClosePoll, CloseWait
    <2> QED BY <1>b, <2>2, <2>3 DEF Abstract!vars
  <1>4. CASE CloseWait(c) /\ DownTo(0)
    <2>1. CloseStatus[c] = "closing" /\ CloseStatus'[c] = "ok"
      BY <1>4, <1>a DEF CloseWait, CloseStatus, TypeOK
    <2>2. goroutines = 0
      BY <1>4, <1>a DEF DownTo, TypeOK
    <2>3. owed \subseteq Abstract!WithStatus("finished")
      BY <2>2, NothingLeft, StatusFacts
    <2>4. Abstract!CloseEnd(c)
      BY <1>b, <1>d, <1>4, <2>1, <2>3 DEF Abstract!CloseEnd, CloseWait
    <2> QED BY <2>4 DEF Abstract!Next
  <1>5. CASE CloseGiveUp(c)
    <2>1. CloseStatus[c] = "closing" /\ CloseStatus'[c] = "failed"
      BY <1>5, <1>a DEF CloseGiveUp, CloseStatus, TypeOK
    <2>2. Abstract!CloseFail(c)
      BY <1>b, <1>d, <1>5, <2>1 DEF Abstract!CloseFail, CloseGiveUp
    <2> QED BY <2>2 DEF Abstract!Next
  <1> QED BY <1>1, <1>2, <1>3, <1>4, <1>5 DEF CloseStep

\* The share executor implements the Executors interface: at most
\* MaxGoroutines tasks run at once, a call that began after Close is refused,
\* and Close returns no error only when the tasks it found submitted are done.
THEOREM Implements == Spec => ImplementsExecutors
PROOF
  <1>1. Init => Abstract!Init
    BY ImplementsInit
  <1>2. IInv /\ [Next]_vars => [Abstract!Next]_(Abstract!vars)
    <2> SUFFICES ASSUME IInv, [Next]_vars
                 PROVE  [Abstract!Next]_(Abstract!vars)
      OBVIOUS
    <2>1. ASSUME UNCHANGED <<begun, finished, call, running, owed, closer>>
          PROVE  UNCHANGED Abstract!vars
      BY <2>1 DEF Abstract!vars, TaskStatus, CloseStatus
    <2> USE DEF workerVars, callVars, closeVars
    <2>2. CASE CountOut
      BY <2>1, <2>2 DEF CountOut
    <2>3. CASE JanitorStep
      BY <2>1, <2>3 DEF JanitorStep, Evict, StopEvicted, SeeDone, DrainLock,
                        DrainStop, DrainUnlock
    <2>4. CASE UNCHANGED vars
      BY <2>1, <2>4 DEF vars
    <2> QED BY <2>2, <2>3, <2>4, ImplementsCall, ImplementsWorker, ImplementsClose
            DEF Next, Terminated
  <1> QED BY <1>1, <1>2, Invariance, PTL
          DEF Spec, ImplementsExecutors, Abstract!Spec
=============================================================================
