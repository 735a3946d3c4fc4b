---------------------------- MODULE DeriveProofs ----------------------------
(***************************************************************************)
(* The types of module Derive; that Reduce loses no member and takes none  *)
(* twice; that Map gives once what it is told; and that nothing of a       *)
(* combined stream, or of Await's, is lost, repeated or overtaken.  All of *)
(* it for any number of sources and results.                               *)
(*                                                                         *)
(* Whole is about messages that have left the collector.  What carries it  *)
(* is an account of the members on their way: what is collected and what   *)
(* is in the channel are different members, and with those that remain     *)
(* they are all.  Mapped and InOrder are about what has come through the   *)
(* sink, Flow: which delivery brought each message (FlowInv), which        *)
(* sources have not ended (OpenInv), who may bring the end (EndInv), and   *)
(* where in Flow the earlier deliveries of a source are (OrderInv).        *)
(***************************************************************************)
EXTENDS Derive, FiniteSetTheorems, SequenceTheorems, TLAPS

\* What is on its way to the sink, or to Await, was brought by a source.
Brought(d) == d[2] <= Len(sources[d[1]].results)
HandedInv ==
  /\ \A d \in Deliveries :
       at[d] \in {"pending", "lock", "send"} => result[d] \in Outcomes
  /\ \A k \in 1..Len(pipe.ch) : Brought(pipe.ch[k])

TInv == TypeOK /\ HandedInv
-----------------------------------------------------------------------------
\* What the assumption says of the input at hand.
LEMMA InputFacts ==
  ASSUME TypeOK
  PROVE  /\ form \in Forms
         /\ sources \in Seq(Source)
         /\ Len(sources) \in Nat \ {0}
         /\ \A i \in 1..Len(sources) :
              /\ sources[i].type \in Types
              /\ sources[i].results \in Seq(Outcomes)
              /\ Len(sources[i].results) \in Nat \ {0}
              /\ sources[i].type # "stream" => Len(sources[i].results) = 1
PROOF
  <1>1. PICK i \in Inputs : form = i.form /\ sources = i.sources
    BY DEF TypeOK
  <1>2. /\ form \in Forms /\ sources \in Seq(Source)
        /\ Len(sources) \in 1..MaxSources
        /\ \A k \in DOMAIN sources : IsSource(sources[k])
    BY <1>1, DeriveAssumption
  <1>3. \A k \in 1..Len(sources) : IsSource(sources[k])
    BY <1>2, LenProperties
  <1>4. MaxSources \in Nat /\ MaxLength \in Nat
    BY DeriveAssumption
  <1> QED
    BY <1>2, <1>3, <1>4 DEF IsSource, Source

LEMMA DeliveryFacts ==
  ASSUME TypeOK, NEW d \in Deliveries
  PROVE  /\ d[1] \in 1..Len(sources) /\ d[2] \in Nat \ {0}
         /\ d = <<d[1], d[2]>>
         /\ d \in Nat \X Nat
PROOF
  <1>1. sources \in Seq(Source) /\ MaxLength \in Nat
    BY InputFacts, DeriveAssumption
  <1>2. PICK i \in DOMAIN sources, j \in 1..MaxLength : d = <<i, j>>
    BY DEF Deliveries, Most
  <1>3. i \in 1..Len(sources)
    BY <1>1, <1>2, LenProperties
  <1> QED
    BY <1>1, <1>2, <1>3, LenProperties

\* A result that was brought is a result.
LEMMA OutcomeType ==
  ASSUME TypeOK, NEW d \in Deliveries, Brought(d)
  PROVE  Outcome(d) \in Outcomes
PROOF
  <1>1. d[1] \in 1..Len(sources) /\ d[2] \in Nat \ {0}
    BY DeliveryFacts
  <1>2. sources[d[1]].results \in Seq(Outcomes)
    BY <1>1, InputFacts
  <1>3. d[2] \in 1..Len(sources[d[1]].results)
    BY <1>1, <1>2, LenProperties DEF Brought
  <1> QED
    BY <1>2, <1>3, ElementOfSeq DEF Outcome

LEMMA MessageType ==
  ASSUME TypeOK, NEW r \in Outcomes
  PROVE  /\ \A d \in Deliveries : Message(<<d>>, r) \in Messages
         /\ \A s \in Seq(Deliveries) : Message(s, r) \in Messages
         /\ Message(<<>>, r) \in Messages
PROOF
  <1>1. Deliveries \subseteq Nat \X Nat
    BY DeliveryFacts
  <1>2. \A s \in Seq(Deliveries) : s \in Seq(Nat \X Nat)
    BY <1>1, SeqMonotonic
  <1>3. \A d \in Deliveries : <<d>> \in Seq(Deliveries)
    OBVIOUS
  <1>4. <<>> \in Seq(Deliveries)
    OBVIOUS
  <1> QED
    BY <1>2, <1>3, <1>4 DEF Message, Messages
-----------------------------------------------------------------------------
\* The types of a step's outcome, over the sources that there are.
Places == {"none", "pending", "lock", "send", "done", "refused"}
Pipes == [ch : Seq(Deliveries), closed : BOOLEAN]
Collectors == [task : {"none", "running", "done"}, rs : Seq(Deliveries)]
Sinks == [ch : Seq(Messages), available : BOOLEAN, locker : BOOLEAN,
          handle : {"waiting", "receiving", "ending", "gone"},
          left : Seq(Messages)]

LEMMA Assemble ==
  ASSUME TInv, UNCHANGED input,
         phase' \in {"build", "register", "attach", "done", "failed"},
         turn' \in 0..Len(sources),
         at' \in [Deliveries -> Places],
         result' \in [Deliveries -> Outcomes \cup {"none"}],
         \A d \in Deliveries :
           at'[d] \in {"pending", "lock", "send"} => result'[d] \in Outcomes,
         apart' \subseteq Deliveries,
         remains' \in Int,
         pipe' \in Pipes,
         \A k \in 1..Len(pipe'.ch) : Brought(pipe'.ch[k]),
         collector' \in Collectors,
         sink' \in Sinks,
         out' \in Seq(Messages)
  PROVE  TInv'
PROOF
  <1>1. UNCHANGED <<form, sources>>
    BY DEF input
  <1>2. Deliveries' = Deliveries
    BY <1>1 DEF Deliveries
  <1>3. (\E i \in Inputs : form = i.form /\ sources = i.sources)'
    BY <1>1 DEF TInv, TypeOK
  <1>4. TypeOK'
    BY <1>1, <1>2, <1>3 DEF TypeOK, Places, Pipes, Collectors, Sinks
  <1>5. HandedInv'
    BY <1>1, <1>2 DEF HandedInv, Brought
  <1> QED
    BY <1>4, <1>5 DEF TInv

\* Before the step.
LEMMA Before ==
  ASSUME TInv
  PROVE  /\ phase \in {"build", "register", "attach", "done", "failed"}
         /\ turn \in 0..Len(sources) /\ Len(sources) \in Nat
         /\ at \in [Deliveries -> Places]
         /\ result \in [Deliveries -> Outcomes \cup {"none"}]
         /\ \A d \in Deliveries :
              at[d] \in {"pending", "lock", "send"} => result[d] \in Outcomes
         /\ apart \subseteq Deliveries
         /\ remains \in Int
         /\ pipe \in Pipes
         /\ \A k \in 1..Len(pipe.ch) : Brought(pipe.ch[k])
         /\ collector \in Collectors
         /\ sink \in Sinks
         /\ out \in Seq(Messages)
PROOF
  BY InputFacts DEF TInv, TypeOK, HandedInv, Places, Pipes, Collectors, Sinks

LEMMA Grows ==
  ASSUME NEW s \in Seq(Deliveries), NEW d \in Deliveries, Brought(d),
         \A k \in 1..Len(s) : Brought(s[k])
  PROVE  /\ Append(s, d) \in Seq(Deliveries)
         /\ \A k \in 1..Len(Append(s, d)) : Brought(Append(s, d)[k])
PROOF
  <1>1. /\ Append(s, d) \in Seq(Deliveries)
        /\ Len(s) \in Nat /\ Len(Append(s, d)) = Len(s) + 1
        /\ \A k \in 1..(Len(s) + 1) :
             Append(s, d)[k] = IF k <= Len(s) THEN s[k] ELSE d
    OBVIOUS
  <1> QED
    BY <1>1

LEMMA Single ==
  ASSUME NEW S, NEW x \in S
  PROVE  <<x>> \in Seq(S)
PROOF
  OBVIOUS

\* A call brings what it delivers.
LEMMA CallsFacts ==
  ASSUME TypeOK, NEW d \in Deliveries, Calls(d)
  PROVE  Brought(d) /\ Outcome(d) \in Outcomes /\ at[d] = "none"
PROOF
  <1>1. Brought(d) /\ at[d] = "none"
    BY DEF Calls, Brought
  <1> QED
    BY <1>1, OutcomeType

\* The sink after a message.
LEMMA SendKeeps ==
  ASSUME NEW d, SinkSend(d), sink \in Sinks,
         Message(<<d>>, result[d]) \in Messages
  PROVE  sink' \in Sinks
PROOF
  <1> DEFINE again == ~(Once \/ Cancels(d))
             more == Append(sink.ch, Message(<<d>>, result[d]))
  <1>1. again \in BOOLEAN /\ more \in Seq(Messages)
    BY DEF Sinks
  <1>2. sink' = [sink EXCEPT !.ch = more, !.available = again, !.locker = FALSE]
    BY DEF SinkSend
  <1> HIDE DEF again, more
  <1> QED
    BY <1>1, <1>2 DEF Sinks

LEMMA TypeInit ==
  ASSUME Init
  PROVE  TInv
PROOF
  <1>1. PICK i \in Inputs : form = i.form /\ sources = i.sources
    BY DEF Init
  <1>2. sources \in Seq(Source)
    BY <1>1, DeriveAssumption
  <1>3. Len(sources) \in Nat
    BY <1>2, LenProperties
  <1>4. TypeOK
    BY <1>1, <1>3 DEF Init, TypeOK
  <1>5. HandedInv
    BY DEF Init, HandedInv
  <1> QED
    BY <1>4, <1>5 DEF TInv

LEMMA TypeStep ==
  ASSUME TInv, [Next]_vars
  PROVE  TInv'
PROOF
  <1> USE DEF TInv
  <1>1. CASE UNCHANGED vars
    <2>1. UNCHANGED <<input, phase, turn, calls, joints, sink, out>>
      BY <1>1 DEF vars
    <2> QED
      BY <2>1, Before, Assemble DEF calls, joints
  <1>2. CASE Build
    <2>1. UNCHANGED <<input, turn, calls, pipe, collector, sink, out>>
      BY <1>2 DEF Build
    <2>2. phase' = "register" /\ remains' \in Int
      BY <1>2, InputFacts DEF Build
    <2> QED
      BY <2>1, <2>2, Before, Assemble DEF calls
  <1>3. CASE BuildFails
    <2>1. UNCHANGED <<input, turn, calls, joints, sink>>
      BY <1>3 DEF BuildFails
    <2>2. phase' = "failed" /\ out' = <<Message(<<>>, "error")>>
      BY <1>3 DEF BuildFails
    <2>3. Message(<<>>, "error") \in Messages
      BY MessageType DEF Outcomes
    <2>4. out' \in Seq(Messages)
      BY <2>2, <2>3, Single
    <2> QED
      BY <2>1, <2>2, <2>4, Before, Assemble DEF calls, joints
  <1>4. CASE Register
    <2>1. UNCHANGED <<input, phase, calls, joints, sink, out>>
      BY <1>4 DEF Register
    <2>2. turn' \in 0..Len(sources)
      BY <1>4, Before DEF Register
    <2> QED
      BY <2>1, <2>2, Before, Assemble DEF calls, joints
  <1>5. CASE Registered
    <2>1. UNCHANGED <<input, turn, calls, remains, pipe, out>> /\ phase' = "attach"
      BY <1>5 DEF Registered
    <2>2. Message(<<>>, "error") \in Messages
      BY MessageType DEF Outcomes
    <2>3. collector' \in Collectors
      BY <1>5, Before DEF Registered, Collectors
    <2>4. sink' \in Sinks
      <3>1. <<Message(<<>>, "error")>> \in Seq(Messages)
        BY <2>2, Single
      <3>2. \/ UNCHANGED sink
            \/ sink' = [sink EXCEPT !.ch = <<Message(<<>>, "error")>>,
                                    !.available = FALSE]
        BY <1>5 DEF Registered
      <3> QED
        BY <3>1, <3>2, Before DEF Sinks
    <2> QED
      BY <2>1, <2>3, <2>4, Before, Assemble DEF calls
  <1>6. CASE Attach
    <2>1. UNCHANGED <<input, turn, calls, joints, out>> /\ phase' = "done"
      BY <1>6 DEF Attach
    <2>2. sink' \in Sinks
      BY <1>6, Before DEF Attach, Sinks
    <2> QED
      BY <2>1, <2>2, Before, Assemble DEF calls, joints
  <1>7. CASE Await
    <2>1. /\ UNCHANGED <<input, turn, calls, remains, collector, sink>>
          /\ phase' \in {phase, "done"}
      BY <1>7 DEF Await
    <2>2. pipe.ch \in Seq(Deliveries) /\ Len(pipe.ch) \in Nat
      BY LenProperties DEF TypeOK
    <2>3. out' \in Seq(Messages)
      <3>1. CASE pipe.ch # <<>> /\ out' = Append(out,
                   Message(<<Head(pipe.ch)>>, Outcome(Head(pipe.ch))))
        <4>1. 1 \in 1..Len(pipe.ch) /\ Head(pipe.ch) = pipe.ch[1]
          BY <2>2, <3>1, EmptySeq
        <4>2. Head(pipe.ch) \in Deliveries /\ Brought(Head(pipe.ch))
          BY <2>2, <4>1, ElementOfSeq DEF HandedInv
        <4>3. Outcome(Head(pipe.ch)) \in Outcomes
          BY <4>2, OutcomeType
        <4>4. Message(<<Head(pipe.ch)>>, Outcome(Head(pipe.ch))) \in Messages
          BY <4>2, <4>3, MessageType
        <4> QED
          BY <3>1, <4>4 DEF TypeOK
      <3>2. CASE out' = Append(out, Message(<<>>, "canceled"))
        <4>1. Message(<<>>, "canceled") \in Messages
          BY MessageType DEF Outcomes
        <4> QED
          BY <3>2, <4>1 DEF TypeOK
      <3> QED
        BY <1>7, <3>1, <3>2 DEF Await
    <2>4. /\ pipe' \in Pipes
          /\ \A k \in 1..Len(pipe'.ch) : Brought(pipe'.ch[k])
      <3>1. pipe' = [pipe EXCEPT !.ch = SubSeq(@, 2, Len(@))]
        BY <1>7 DEF Await
      <3>2. pipe'.ch = SubSeq(pipe.ch, 2, Len(pipe.ch)) /\ pipe'.closed = pipe.closed
        BY <3>1 DEF TypeOK
      <3>3. \A k \in 2..Len(pipe.ch) : pipe.ch[k] \in Deliveries /\ Brought(pipe.ch[k])
        BY <2>2, ElementOfSeq DEF HandedInv
      <3>4. /\ pipe'.ch \in Seq(Deliveries)
            /\ Len(pipe'.ch) = IF 2 <= Len(pipe.ch) THEN Len(pipe.ch) - 1 ELSE 0
            /\ \A k \in 1..(Len(pipe.ch) - 1) : pipe'.ch[k] = pipe.ch[k + 1]
        BY <2>2, <3>2, <3>3, SubSeqProperties
      <3>5. \A k \in 1..Len(pipe'.ch) : Brought(pipe'.ch[k])
        <4> TAKE k \in 1..Len(pipe'.ch)
        <4>1. k \in 1..(Len(pipe.ch) - 1) /\ k + 1 \in 2..Len(pipe.ch)
          BY <2>2, <3>4
        <4> QED
          BY <3>3, <3>4, <4>1
      <3> QED
        BY <3>1, <3>4, <3>5, Before DEF Pipes
    <2> QED
      BY <2>1, <2>3, <2>4, Before, Assemble DEF calls
  <1>8. CASE SinkReceive
    <2>1. UNCHANGED <<input, phase, turn, calls, joints>>
      BY <1>8 DEF SinkReceive
    <2>2. sink.ch \in Seq(Messages) /\ sink.ch # <<>>
      BY <1>8, Before DEF SinkReceive, Sinks
    <2>3. Head(sink.ch) \in Messages /\ Tail(sink.ch) \in Seq(Messages)
      BY <2>2, HeadTailProperties
    <2>4. out' \in Seq(Messages)
      BY <1>8, <2>3, Before DEF SinkReceive
    <2>5. sink' \in Sinks
      BY <1>8, <2>3, Before DEF SinkReceive, Sinks
    <2> QED
      BY <2>1, <2>4, <2>5, Before, Assemble DEF calls, joints
  <1>9. CASE SinkFinish
    <2>1. UNCHANGED <<input, phase, turn, calls, joints, out>>
      BY <1>9 DEF SinkFinish
    <2>2. sink' \in Sinks
      <3>1. sink' = [sink EXCEPT !.handle = "gone", !.available = FALSE,
                                 !.left = sink.ch, !.ch = <<>>]
        BY <1>9 DEF SinkFinish
      <3>2. sink.ch \in Seq(Messages) /\ <<>> \in Seq(Messages)
        BY Before, EmptySeq DEF Sinks
      <3> QED
        BY <3>1, <3>2, Before DEF Sinks
    <2> QED
      BY <2>1, <2>2, Before, Assemble DEF calls, joints
  <1>10. CASE Collect
    <2>1. UNCHANGED <<input, phase, turn, calls, remains, sink, out>>
      BY <1>10 DEF Collect
    <2>2. pipe.ch \in Seq(Deliveries) /\ pipe.ch # <<>>
      BY <1>10, Before DEF Collect, Pipes
    <2>3. /\ Head(pipe.ch) \in Deliveries /\ Tail(pipe.ch) \in Seq(Deliveries)
          /\ Len(pipe.ch) \in Nat
          /\ Len(Tail(pipe.ch)) = Len(pipe.ch) - 1
          /\ \A k \in 1..Len(Tail(pipe.ch)) : Tail(pipe.ch)[k] = pipe.ch[k + 1]
      BY <2>2, HeadTailProperties, LenProperties
    <2>4. pipe' = [pipe EXCEPT !.ch = Tail(pipe.ch)]
      BY <1>10 DEF Collect
    <2>5. pipe' \in Pipes /\ pipe'.ch = Tail(pipe.ch)
      BY <2>3, <2>4, Before DEF Pipes
    <2>6. \A k \in 1..Len(pipe'.ch) : Brought(pipe'.ch[k])
      <3> TAKE k \in 1..Len(pipe'.ch)
      <3>1. pipe'.ch[k] = pipe.ch[k + 1] /\ k + 1 \in 1..Len(pipe.ch)
        BY <2>3, <2>5
      <3> QED
        BY <3>1, Before
    <2>7. collector' \in Collectors
      <3>1. collector' = [collector EXCEPT !.rs = Append(@, Head(pipe.ch))]
        BY <1>10 DEF Collect
      <3>2. Append(collector.rs, Head(pipe.ch)) \in Seq(Deliveries)
        BY <2>3, Before DEF Collectors
      <3> QED
        BY <3>1, <3>2, Before DEF Collectors
    <2> QED
      BY <2>1, <2>5, <2>6, <2>7, Before, Assemble DEF calls
  <1>11. CASE Collected
    <2>1. UNCHANGED <<input, phase, turn, calls, remains, pipe, out>>
      BY <1>11 DEF Collected
    <2>2. collector' \in Collectors
      BY <1>11, Before DEF Collected, Collectors
    <2>3. <<Message(collector.rs, "value")>> \in Seq(Messages)
      <3>1. Message(collector.rs, "value") \in Messages
        BY MessageType, Before DEF Outcomes, Collectors
      <3> QED
        BY <3>1, Single
    <2>4. sink' \in Sinks
      BY <1>11, <2>3, Before DEF Collected, Sinks
    <2> QED
      BY <2>1, <2>2, <2>4, Before, Assemble DEF calls
  <1>12. ASSUME NEW d \in Deliveries, Delivery(d)
         PROVE  TInv'
    <2> USE <1>12
    <2>1. CASE CombineHandle(d)
      <3>1. UNCHANGED <<input, phase, turn, apart, pipe, collector, sink, out>>
        BY <2>1 DEF CombineHandle
      <3>2. Outcome(d) \in Outcomes
        BY <2>1, CallsFacts DEF CombineHandle
      <3>3. PICK where \in {"lock", "done"} :
              /\ result' = [result EXCEPT ![d] = Outcome(d)]
              /\ at' = [at EXCEPT ![d] = where]
        BY <2>1 DEF CombineHandle, Goes
      <3>4. remains' \in Int
        BY <2>1, Before DEF CombineHandle
      <3> QED
        BY <3>1, <3>2, <3>3, <3>4, Before, Assemble DEF Places
    <2>2. CASE MapHandle(d)
      <3>1. UNCHANGED <<input, phase, turn, joints, sink, out>>
        BY <2>2 DEF MapHandle
      <3>2. Outcome(d) \in Outcomes
        BY <2>2, CallsFacts DEF MapHandle
      <3>3. PICK r \in Outcomes, where \in {"lock", "pending"} :
              /\ result' = [result EXCEPT ![d] = r]
              /\ at' = [at EXCEPT ![d] = where]
        BY <2>2, <3>2 DEF MapHandle, Goes
      <3>4. apart' \subseteq Deliveries
        BY <2>2, Before DEF MapHandle
      <3> QED
        BY <3>1, <3>3, <3>4, Before, Assemble DEF Places, joints
    <2>3. CASE MapComplete(d)
      <3>1. UNCHANGED <<input, phase, turn, result, apart, joints, sink, out>>
        BY <2>3 DEF MapComplete
      <3>2. at[d] = "pending" /\ at' = [at EXCEPT ![d] = "lock"]
        BY <2>3 DEF MapComplete
      <3> QED
        BY <3>1, <3>2, Before, Assemble DEF Places, joints
    <2>4. CASE SinkLock(d)
      <3>1. UNCHANGED <<input, phase, turn, result, apart, joints, out>>
        BY <2>4 DEF SinkLock
      <3>2. /\ at[d] = "lock"
            /\ \E where \in {"send", "refused"} : at' = [at EXCEPT ![d] = where]
        BY <2>4 DEF SinkLock
      <3>3. sink' \in Sinks
        BY <2>4, Before DEF SinkLock, Sinks
      <3> QED
        BY <3>1, <3>2, <3>3, Before, Assemble DEF Places, joints
    <2>5. CASE SinkSend(d)
      <3>1. UNCHANGED <<input, phase, turn, result, apart, joints, out>>
        BY <2>5 DEF SinkSend
      <3>2. at[d] = "send" /\ at' = [at EXCEPT ![d] = "done"]
        BY <2>5 DEF SinkSend
      <3>3. Message(<<d>>, result[d]) \in Messages
        BY <3>2, Before, MessageType
      <3>4. sink' \in Sinks
        BY <2>5, <3>3, Before, SendKeeps
      <3> QED
        BY <3>1, <3>2, <3>4, Before, Assemble DEF Places, joints
    <2>6. CASE ReduceOnComplete(d)
      <3>1. /\ UNCHANGED <<input, phase, turn, result, apart, collector, sink, out>>
            /\ at' = [at EXCEPT ![d] = "done"]
            /\ remains' = remains - 1
            /\ pipe' = [ch |-> Append(pipe.ch, d), closed |-> Close]
        BY <2>6 DEF ReduceOnComplete
      <3>2. Brought(d)
        BY <2>6, CallsFacts DEF ReduceOnComplete
      <3>3. pipe' \in Pipes /\ \A k \in 1..Len(pipe'.ch) : Brought(pipe'.ch[k])
        BY <3>1, <3>2, Before, Grows DEF Pipes, Close
      <3> QED
        BY <3>1, <3>3, Before, Assemble DEF Places
    <2>7. CASE AwaitHandle(d)
      <3>1. /\ UNCHANGED <<input, phase, turn, result, apart, remains, collector,
                           sink, out>>
            /\ at' = [at EXCEPT ![d] = "done"]
            /\ \/ pipe' = [pipe EXCEPT !.closed = TRUE]
               \/ pipe' = [pipe EXCEPT !.ch = Append(@, d)]
        BY <2>7 DEF AwaitHandle
      <3>2. Brought(d)
        BY <2>7, CallsFacts DEF AwaitHandle
      <3>3. pipe' \in Pipes /\ \A k \in 1..Len(pipe'.ch) : Brought(pipe'.ch[k])
        <4>1. CASE pipe' = [pipe EXCEPT !.closed = TRUE]
          BY <4>1, Before DEF Pipes
        <4>2. CASE pipe' = [pipe EXCEPT !.ch = Append(@, d)]
          <5>1. pipe'.ch = Append(pipe.ch, d) /\ pipe' \in [ch : {Append(pipe.ch, d)}, closed : BOOLEAN]
            BY <4>2, Before DEF Pipes
          <5>2. pipe.ch \in Seq(Deliveries)
            BY Before DEF Pipes
          <5> QED
            BY <3>2, <5>1, <5>2, Before, Grows DEF Pipes
        <4> QED
          BY <3>1, <4>1, <4>2
      <3> QED
        BY <3>1, <3>3, Before, Assemble DEF Places
    <2> QED
      BY <2>1, <2>2, <2>3, <2>4, <2>5, <2>6, <2>7 DEF Delivery
  <1> QED
    BY <1>1, <1>2, <1>3, <1>4, <1>5, <1>6, <1>7, <1>8, <1>9, <1>10, <1>11, <1>12
       DEF Next, User

\* Every run keeps the types, and only what a source has brought is on its way.
THEOREM TypeInvariance == Spec => []TInv
PROOF
  <1>1. Init => TInv
    BY TypeInit
  <1>2. TInv /\ [Next]_vars => TInv'
    BY TypeStep
  <1> QED
    BY <1>1, <1>2, PTL DEF Spec
-----------------------------------------------------------------------------
(* Reduce.                                                                 *)

\* The members that have come, in order.
Taken == collector.rs \o pipe.ch

Early == phase \in {"build", "failed"}

\* Each came once, as a member with one result, and remains counts the rest.
AccountInv ==
  /\ \A j, k \in 1..Len(Taken) : Taken[j] = Taken[k] => j = k
  /\ \A k \in 1..Len(Taken) : Taken[k][2] = 1 /\ at[Taken[k]] = "done"
  /\ \A d \in Deliveries : at[d] \in {"none", "done"}
  /\ Early => turn = 0 /\ Len(Taken) = 0 /\ ~pipe.closed
  /\ ~Early => /\ \A i \in 1..Len(sources) : sources[i].type # "stream"
               /\ remains = Len(sources) - Len(Taken)
               /\ pipe.closed <=> remains = 0

\* A value has every member.
Full(s) ==
  /\ Len(s) = Len(sources)
  /\ \A i \in DOMAIN sources : <<i, 1>> \in Range(s)
MessageInv ==
  /\ \A k \in 1..Len(sink.ch) : sink.ch[k].kind = "value" => Full(sink.ch[k].of)
  /\ \A k \in 1..Len(out) : out[k].kind = "value" => Full(out[k].of)

IInv == TInv /\ (form = "reduce" => AccountInv /\ MessageInv)
-----------------------------------------------------------------------------
LEMMA Moves ==
  ASSUME NEW S, NEW s \in Seq(S), NEW t \in Seq(S), t # <<>>
  PROVE  Append(s, Head(t)) \o Tail(t) = s \o t
PROOF
  <1>1. /\ Head(t) \in S /\ Tail(t) \in Seq(S)
        /\ Len(s) \in Nat /\ Len(t) \in Nat \ {0}
        /\ Len(Tail(t)) = Len(t) - 1 /\ Head(t) = t[1]
        /\ \A k \in 1..Len(Tail(t)) : Tail(t)[k] = t[k + 1]
    BY HeadTailProperties, LenProperties, EmptySeq
  <1>2. /\ Append(s, Head(t)) \in Seq(S)
        /\ Len(Append(s, Head(t))) = Len(s) + 1
        /\ \A k \in 1..(Len(s) + 1) :
             Append(s, Head(t))[k] = IF k <= Len(s) THEN s[k] ELSE t[1]
    BY <1>1
  <1> DEFINE a == Append(s, Head(t)) \o Tail(t)
             b == s \o t
  <1>3. /\ a \in Seq(S) /\ Len(a) = Len(s) + 1 + Len(t) - 1
        /\ \A k \in 1..(Len(s) + 1 + Len(t) - 1) :
             a[k] = IF k <= Len(s) + 1 THEN Append(s, Head(t))[k]
                                       ELSE Tail(t)[k - (Len(s) + 1)]
    BY <1>1, <1>2, ConcatProperties
  <1>4. /\ b \in Seq(S) /\ Len(b) = Len(s) + Len(t)
        /\ \A k \in 1..(Len(s) + Len(t)) :
             b[k] = IF k <= Len(s) THEN s[k] ELSE t[k - Len(s)]
    BY ConcatProperties
  <1> HIDE DEF a, b
  <1>5. \A k \in 1..Len(a) : a[k] = b[k]
    <2> TAKE k \in 1..Len(a)
    <2>1. CASE k <= Len(s) + 1
      <3>1. k \in 1..(Len(s) + 1) /\ k \in 1..(Len(s) + Len(t))
        BY <1>1, <1>3, <2>1
      <3>2. a[k] = Append(s, Head(t))[k]
        BY <1>1, <1>3, <2>1
      <3>3. a[k] = IF k <= Len(s) THEN s[k] ELSE t[1]
        BY <1>2, <3>1, <3>2
      <3>4. k > Len(s) => k - Len(s) = 1
        BY <1>1, <3>1
      <3> QED
        BY <1>4, <3>1, <3>3, <3>4
    <2>2. CASE k > Len(s) + 1
      <3>1. /\ k - (Len(s) + 1) \in 1..Len(Tail(t))
            /\ k - (Len(s) + 1) + 1 = k - Len(s)
        BY <1>1, <1>3, <2>2
      <3>2. a[k] = Tail(t)[k - (Len(s) + 1)]
        <4>1. k \in 1..(Len(s) + 1 + Len(t) - 1)
          BY <1>3
        <4>2. ~(k <= Len(s) + 1)
          BY <1>1, <2>2, <4>1
        <4> QED
          BY <1>3, <4>1, <4>2
      <3>3. a[k] = t[k - Len(s)]
        BY <1>1, <3>1, <3>2
      <3>4. b[k] = t[k - Len(s)]
        BY <1>1, <1>3, <1>4, <2>2
      <3> QED
        BY <3>3, <3>4
    <2> QED
      BY <1>1, <1>3, <2>1, <2>2
  <1>6. a = b
    BY <1>1, <1>3, <1>4, <1>5, SeqEqual
  <1> QED
    BY <1>6 DEF a, b

LEMMA Adds ==
  ASSUME NEW S, NEW s \in Seq(S), NEW t \in Seq(S), NEW x \in S
  PROVE  /\ Len(s \o Append(t, x)) = Len(s \o t) + 1
         /\ Len(s \o t) \in Nat
         /\ \A k \in 1..(Len(s \o t) + 1) :
              (s \o Append(t, x))[k] = IF k <= Len(s \o t) THEN (s \o t)[k] ELSE x
PROOF
  <1>1. /\ Len(s) \in Nat /\ Len(t) \in Nat /\ Append(t, x) \in Seq(S)
        /\ Len(Append(t, x)) = Len(t) + 1
        /\ \A k \in 1..(Len(t) + 1) :
             Append(t, x)[k] = IF k <= Len(t) THEN t[k] ELSE x
    BY LenProperties
  <1>2. /\ Len(s \o t) = Len(s) + Len(t)
        /\ \A k \in 1..(Len(s) + Len(t)) :
             (s \o t)[k] = IF k <= Len(s) THEN s[k] ELSE t[k - Len(s)]
    BY ConcatProperties
  <1>3. /\ Len(s \o Append(t, x)) = Len(s) + Len(t) + 1
        /\ \A k \in 1..(Len(s) + Len(t) + 1) :
             (s \o Append(t, x))[k] =
               IF k <= Len(s) THEN s[k] ELSE Append(t, x)[k - Len(s)]
    <2> DEFINE more == Append(t, x)
    <2>1. more \in Seq(S) /\ Len(more) = Len(t) + 1
      BY <1>1
    <2> HIDE DEF more
    <2>2. /\ Len(s \o more) = Len(s) + Len(more)
          /\ \A k \in 1..(Len(s) + Len(more)) :
               (s \o more)[k] = IF k <= Len(s) THEN s[k] ELSE more[k - Len(s)]
      BY <2>1, ConcatProperties
    <2>3. Len(s) + Len(more) = Len(s) + Len(t) + 1
      BY <1>1, <2>1
    <2> QED
      BY <2>2, <2>3 DEF more
  <1>4. \A k \in 1..(Len(s) + Len(t) + 1) :
          (s \o Append(t, x))[k] =
             IF k <= Len(s) + Len(t) THEN (s \o t)[k] ELSE x
    <2> TAKE k \in 1..(Len(s) + Len(t) + 1)
    <2>1. CASE k <= Len(s)
      BY <1>1, <1>2, <1>3, <2>1
    <2>2. CASE k > Len(s)
      <3>1. k - Len(s) \in 1..(Len(t) + 1)
        BY <1>1, <2>2
      <3> QED
        BY <1>1, <1>2, <1>3, <2>2, <3>1
    <2> QED
      BY <1>1, <2>1, <2>2
  <1> QED
    BY <1>1, <1>2, <1>3, <1>4

\* Different members, as many as there are sources, are all of them.
LEMMA AllOfThem ==
  ASSUME TypeOK, NEW s \in Seq(Deliveries), Len(s) = Len(sources),
         \A j, k \in 1..Len(s) : s[j] = s[k] => j = k,
         \A k \in 1..Len(s) : s[k][2] = 1
  PROVE  Full(s)
PROOF
  <1> DEFINE n == Len(sources)
             f == [k \in 1..n |-> s[k][1]]
  <1>1. n \in Nat /\ DOMAIN sources = 1..n /\ DOMAIN s = 1..n
    BY InputFacts, LenProperties
  <1>2. \A k \in 1..n : s[k] \in Deliveries
    BY <1>1, ElementOfSeq
  <1>3. \A k \in 1..n : s[k][1] \in 1..n /\ s[k] = <<s[k][1], 1>>
    <2> TAKE k \in 1..n
    <2>1. s[k] \in Deliveries
      BY <1>2
    <2>2. s[k][1] \in 1..n /\ s[k] = <<s[k][1], s[k][2]>>
      BY <2>1, DeliveryFacts
    <2>3. s[k][2] = 1
      BY <1>1
    <2> QED
      BY <2>2, <2>3
  <1>4. f \in [1..n -> 1..n] /\ \A k \in 1..n : f[k] = s[k][1]
    BY <1>3
  <1> HIDE DEF f
  <1>5. \A j, k \in 1..n : f[j] = f[k] => j = k
    <2> TAKE j, k \in 1..n
    <2> HAVE f[j] = f[k]
    <2>1. s[j][1] = s[k][1]
      BY <1>4
    <2>2. s[j] = <<s[j][1], 1>> /\ s[k] = <<s[k][1], 1>>
      BY <1>3
    <2>3. s[j] = s[k]
      BY <2>1, <2>2
    <2> QED
      BY <1>1, <2>3
  <1>6. f \in Injection(1..n, 1..n)
    BY <1>4, <1>5 DEF Injection, IsInjective
  <1>7. f \in Surjection(1..n, 1..n)
    <2>1. IsFiniteSet(1..n)
      BY <1>1, FS_Interval
    <2> QED
      BY <1>6, <2>1, FS_Injection
  <1>8. \A i \in 1..n : \E k \in 1..n : f[k] = i
    BY <1>7 DEF Surjection
  <1>9. ASSUME NEW i \in 1..n
        PROVE  <<i, 1>> \in Range(s)
    <2>1. PICK k \in 1..n : f[k] = i
      BY <1>8
    <2>2. s[k] = <<i, 1>>
      BY <1>3, <1>4, <2>1
    <2> QED
      BY <1>1, <2>2 DEF Range
  <1> QED
    BY <1>1, <1>9 DEF Full
-----------------------------------------------------------------------------
\* Where nothing of the account is touched.
LEMMA Untouched ==
  ASSUME AccountInv, UNCHANGED <<input, at, remains>>,
         pipe' = pipe, collector'.rs = collector.rs,
         Early' <=> Early, Early => turn' = turn
  PROVE  AccountInv'
PROOF
  <1>1. UNCHANGED <<form, sources>>
    BY DEF input
  <1>2. Deliveries' = Deliveries /\ Taken' = Taken
    BY <1>1 DEF Deliveries, Taken
  <1> QED
    BY <1>1, <1>2 DEF AccountInv

\* Who takes the last steps of a delivery is not a member.
LEMMA NoSink ==
  ASSUME form = "reduce", AccountInv, NEW d \in Deliveries, Delivery(d)
  PROVE  ReduceOnComplete(d)
PROOF
  <1>1. at[d] \in {"none", "done"}
    BY DEF AccountInv
  <1> QED
    BY <1>1 DEF Delivery, CombineHandle, MapHandle, MapComplete, SinkLock,
                SinkSend, AwaitHandle

LEMMA AccountStep ==
  ASSUME TInv, form = "reduce", AccountInv, [Next]_vars
  PROVE  AccountInv'
PROOF
  <1>1. CASE UNCHANGED vars
    BY <1>1, Untouched DEF vars, calls, joints, Early
  <1>2. CASE Build
    <2>1. /\ UNCHANGED <<form, sources, turn, at, pipe, collector>>
          /\ phase = "build" /\ phase' = "register" /\ Accepted
          /\ remains' = Len(sources)
      BY <1>2 DEF Build, input, calls
    <2>2. /\ DOMAIN sources = 1..Len(sources) /\ Len(sources) \in Nat \ {0}
      BY InputFacts, LenProperties DEF TInv
    <2>3. Deliveries' = Deliveries /\ Taken' = Taken
      BY <2>1 DEF Deliveries, Taken
    <2>4. \A i \in 1..Len(sources) : sources[i].type # "stream"
      BY <2>1, <2>2 DEF Accepted, Is
    <2>5. Len(Taken) = 0 /\ ~pipe.closed
      BY <2>1 DEF AccountInv, Early
    <2>6. ~Early'
      BY <2>1 DEF Early
    <2> QED
      BY <2>1, <2>2, <2>3, <2>4, <2>5, <2>6 DEF AccountInv
  <1>3. CASE BuildFails
    BY <1>3, Untouched DEF BuildFails, calls, joints, Early
  <1>4. CASE Register
    BY <1>4, Untouched DEF Register, calls, joints, Early
  <1>5. CASE Registered
    <2>1. collector'.rs = collector.rs
      BY <1>5, Before DEF Registered, Collectors
    <2> QED
      BY <1>5, <2>1, Untouched DEF Registered, calls, Early
  <1>6. CASE Attach
    BY <1>6, Untouched DEF Attach, calls, joints, Early
  <1>7. CASE Await
    BY <1>7 DEF Await
  <1>8. CASE SinkReceive
    BY <1>8, Untouched DEF SinkReceive, calls, joints, Early
  <1>9. CASE SinkFinish
    BY <1>9, Untouched DEF SinkFinish, calls, joints, Early
  <1>10. CASE Collect
    <2>1. /\ UNCHANGED <<form, sources, phase, turn, at, remains>>
          /\ pipe.ch # <<>>
          /\ collector' = [collector EXCEPT !.rs = Append(@, Head(pipe.ch))]
          /\ pipe' = [pipe EXCEPT !.ch = Tail(@)]
      BY <1>10 DEF Collect, input, calls
    <2>2. /\ collector.rs \in Seq(Deliveries) /\ pipe.ch \in Seq(Deliveries)
          /\ collector'.rs = Append(collector.rs, Head(pipe.ch))
          /\ pipe'.ch = Tail(pipe.ch) /\ pipe'.closed = pipe.closed
      BY <2>1, Before DEF Collectors, Pipes
    <2>3. Taken' = Taken
      BY <2>1, <2>2, Moves DEF Taken
    <2>4. Deliveries' = Deliveries /\ (Early' <=> Early)
      BY <2>1 DEF Deliveries, Early
    <2> QED
      BY <2>1, <2>2, <2>3, <2>4 DEF AccountInv
  <1>11. CASE Collected
    <2>1. collector'.rs = collector.rs
      BY <1>11, Before DEF Collected, Collectors
    <2> QED
      BY <1>11, <2>1, Untouched DEF Collected, calls, Early
  <1>12. ASSUME NEW d \in Deliveries, Delivery(d)
         PROVE  AccountInv'
    <2>1. ReduceOnComplete(d)
      BY <1>12, NoSink
    <2>2. /\ UNCHANGED <<form, sources, phase, turn, collector>>
          /\ Calls(d)
          /\ at' = [at EXCEPT ![d] = "done"]
          /\ pipe' = [ch |-> Append(pipe.ch, d), closed |-> Close]
          /\ remains' = remains - 1
      BY <2>1 DEF ReduceOnComplete, input
    <2>3. at[d] = "none" /\ d[1] <= turn /\ Brought(d)
      BY <2>2 DEF Calls, Brought
    <2>4. /\ d[1] \in 1..Len(sources) /\ d[2] \in Nat \ {0}
          /\ Len(sources) \in Nat
      BY DeliveryFacts, InputFacts DEF TInv
    <2>5. ~Early
      <3>1. turn # 0
        BY <2>3, <2>4, Before
      <3> QED
        BY <3>1 DEF AccountInv
    <2>6. d[2] = 1
      <3>1. Len(sources[d[1]].results) = 1
        BY <2>4, <2>5, InputFacts DEF AccountInv, TInv
      <3> QED
        BY <2>3, <2>4, <3>1 DEF Brought
    <2>7. /\ collector.rs \in Seq(Deliveries) /\ pipe.ch \in Seq(Deliveries)
          /\ pipe'.ch = Append(pipe.ch, d) /\ (pipe'.closed <=> remains = 1)
          /\ collector'.rs = collector.rs
          /\ remains \in Int
      BY <2>2, Before DEF Collectors, Pipes, Close
    <2>8. /\ Len(Taken) \in Nat /\ Len(Taken') = Len(Taken) + 1
          /\ \A k \in 1..(Len(Taken) + 1) :
               Taken'[k] = IF k <= Len(Taken) THEN Taken[k] ELSE d
      <3> DEFINE t == pipe.ch
                 s == collector.rs
      <3>1. Taken = s \o t /\ Taken' = s \o Append(t, d)
        BY <2>7 DEF Taken
      <3>2. s \in Seq(Deliveries) /\ t \in Seq(Deliveries)
        BY <2>7
      <3> HIDE DEF s, t
      <3>3. /\ Len(s \o Append(t, d)) = Len(s \o t) + 1
            /\ Len(s \o t) \in Nat
            /\ \A k \in 1..(Len(s \o t) + 1) :
                 (s \o Append(t, d))[k] =
                    IF k <= Len(s \o t) THEN (s \o t)[k] ELSE d
        BY <3>2, Adds
      <3> QED
        BY <3>1, <3>3
    <2>9. Deliveries' = Deliveries /\ (Early' <=> Early)
      BY <2>2 DEF Deliveries, Early
    <2>10. \A k \in 1..Len(Taken) : Taken[k] # d
      BY <2>3 DEF AccountInv
    <2>11. at \in [Deliveries -> Places]
      BY Before
    <2>12. \A k \in 1..Len(Taken) : Taken[k] \in Deliveries
      <3>1. Taken \in Seq(Deliveries)
        BY <2>7, ConcatProperties DEF Taken
      <3> QED
        BY <3>1, ElementOfSeq
    <2>13. \A j, k \in 1..Len(Taken') : Taken'[j] = Taken'[k] => j = k
      <3> TAKE j, k \in 1..Len(Taken')
      <3> HAVE Taken'[j] = Taken'[k]
      <3>1. CASE j <= Len(Taken) /\ k <= Len(Taken)
        <4>1. Taken[j] = Taken[k] /\ j \in 1..Len(Taken) /\ k \in 1..Len(Taken)
          BY <2>8, <3>1
        <4> QED
          BY <4>1 DEF AccountInv
      <3>2. CASE j > Len(Taken) /\ k > Len(Taken)
        BY <2>8, <3>2
      <3>3. CASE j <= Len(Taken) /\ k > Len(Taken)
        BY <2>8, <2>10, <3>3
      <3>4. CASE j > Len(Taken) /\ k <= Len(Taken)
        BY <2>8, <2>10, <3>4
      <3> QED
        BY <2>8, <3>1, <3>2, <3>3, <3>4
    <2>14. \A k \in 1..Len(Taken') : Taken'[k][2] = 1 /\ at'[Taken'[k]] = "done"
      <3> TAKE k \in 1..Len(Taken')
      <3>1. CASE k <= Len(Taken)
        <4>1. Taken'[k] = Taken[k] /\ k \in 1..Len(Taken)
          BY <2>8, <3>1
        <4>2. Taken[k][2] = 1 /\ at[Taken[k]] = "done" /\ Taken[k] \in Deliveries
          BY <2>12, <4>1 DEF AccountInv
        <4>3. at'[Taken[k]] = "done"
          BY <2>2, <2>11, <4>2
        <4> QED
          BY <4>1, <4>2, <4>3
      <3>2. CASE k > Len(Taken)
        <4>1. Taken'[k] = d
          BY <2>8, <3>2
        <4> QED
          BY <1>12, <2>2, <2>6, <2>11, <4>1
      <3> QED
        BY <2>8, <3>1, <3>2
    <2>15. \A e \in Deliveries : at'[e] \in {"none", "done"}
      BY <2>2, <2>11 DEF AccountInv
    <2>16. /\ remains' = Len(sources) - Len(Taken')
           /\ pipe'.closed <=> remains' = 0
      <3>1. remains = Len(sources) - Len(Taken)
        BY <2>5 DEF AccountInv
      <3>2. remains' = remains - 1 /\ (pipe'.closed <=> remains = 1)
        BY <2>2, <2>7
      <3>3. Len(Taken) \in Nat /\ Len(Taken') = Len(Taken) + 1
        BY <2>8
      <3>4. remains' = 0 <=> remains = 1
        BY <2>7, <3>2
      <3> QED
        BY <2>4, <3>1, <3>2, <3>3, <3>4
    <2> QED
      BY <2>2, <2>5, <2>9, <2>13, <2>14, <2>15, <2>16 DEF AccountInv
  <1> QED
    BY <1>1, <1>2, <1>3, <1>4, <1>5, <1>6, <1>7, <1>8, <1>9, <1>10, <1>11, <1>12
       DEF Next, User

LEMMA SameMessages ==
  ASSUME MessageInv, sources' = sources, sink'.ch = sink.ch, out' = out
  PROVE  MessageInv'
PROOF
  BY DEF MessageInv, Full

\* Once the channel is closed and empty every member is collected.
LEMMA AllCollected ==
  ASSUME TInv, AccountInv, pipe.ch = <<>>, pipe.closed
  PROVE  Full(collector.rs)
PROOF
  <1>1. collector.rs \in Seq(Deliveries)
    BY Before DEF Collectors
  <1>2. Taken = collector.rs
    BY <1>1, ConcatEmptySeq DEF Taken
  <1>3. ~Early
    BY DEF AccountInv
  <1>4. remains = 0 /\ remains = Len(sources) - Len(Taken)
    BY <1>3 DEF AccountInv
  <1>5. Len(sources) \in Nat /\ Len(collector.rs) \in Nat
    BY <1>1, Before, LenProperties
  <1>6. Len(collector.rs) = Len(sources)
    BY <1>2, <1>4, <1>5
  <1>7. /\ \A j, k \in 1..Len(collector.rs) :
             collector.rs[j] = collector.rs[k] => j = k
        /\ \A k \in 1..Len(collector.rs) : collector.rs[k][2] = 1
    BY <1>2 DEF AccountInv
  <1> QED
    BY <1>1, <1>6, <1>7, AllOfThem DEF TInv

LEMMA MessageStep ==
  ASSUME TInv, form = "reduce", AccountInv, MessageInv, [Next]_vars
  PROVE  MessageInv'
PROOF
  <1>1. CASE UNCHANGED vars
    BY <1>1, SameMessages DEF vars, input
  <1>2. CASE Build
    BY <1>2, SameMessages DEF Build, input
  <1>3. CASE BuildFails
    <2>1. /\ UNCHANGED <<sources, sink>>
          /\ out' = <<Message(<<>>, "error")>>
      BY <1>3 DEF BuildFails, input
    <2>2. Message(<<>>, "error").kind # "value"
      BY DEF Message
    <2>3. \A k \in 1..Len(out') : out'[k].kind # "value"
      BY <2>1, <2>2
    <2> QED
      BY <2>1, <2>3 DEF MessageInv, Full
  <1>4. CASE Register
    BY <1>4, SameMessages DEF Register, input
  <1>5. CASE Registered
    <2>1. UNCHANGED <<sources, out>>
      BY <1>5 DEF Registered, input
    <2>2. CASE UNCHANGED sink
      BY <2>1, <2>2, SameMessages
    <2>3. CASE sink' = [sink EXCEPT !.ch = <<Message(<<>>, "error")>>,
                                    !.available = FALSE]
      <3>1. sink'.ch = <<Message(<<>>, "error")>>
        BY <2>3, Before DEF Sinks
      <3>2. Message(<<>>, "error").kind # "value"
        BY DEF Message
      <3>3. \A k \in 1..Len(sink'.ch) : sink'.ch[k].kind # "value"
        BY <3>1, <3>2
      <3> QED
        BY <2>1, <3>3 DEF MessageInv, Full
    <2> QED
      BY <1>5, <2>2, <2>3 DEF Registered
  <1>6. CASE Attach
    <2>1. sink'.ch = sink.ch
      BY <1>6, Before DEF Attach, Sinks
    <2> QED
      BY <1>6, <2>1, SameMessages DEF Attach, input
  <1>7. CASE Await
    BY <1>7 DEF Await
  <1>8. CASE SinkReceive
    <2>1. /\ sources' = sources
          /\ sink.ch # <<>>
          /\ out' = Append(out, Head(sink.ch))
      BY <1>8 DEF SinkReceive, input
    <2>2. sink'.ch = Tail(sink.ch)
      BY <1>8, Before DEF SinkReceive, Sinks
    <2>3. sink.ch \in Seq(Messages) /\ out \in Seq(Messages)
      BY Before DEF Sinks
    <2>4. /\ Head(sink.ch) = sink.ch[1] /\ Head(sink.ch) \in Messages
          /\ Len(sink.ch) \in Nat \ {0}
          /\ Len(Tail(sink.ch)) = Len(sink.ch) - 1
          /\ \A k \in 1..Len(Tail(sink.ch)) : Tail(sink.ch)[k] = sink.ch[k + 1]
      BY <2>1, <2>3, HeadTailProperties, LenProperties, EmptySeq
    <2>5. \A k \in 1..Len(sink'.ch) : sink'.ch[k].kind = "value" => Full(sink'.ch[k].of)
      <3> TAKE k \in 1..Len(sink'.ch)
      <3>1. k + 1 \in 1..Len(sink.ch) /\ sink'.ch[k] = sink.ch[k + 1]
        BY <2>2, <2>4
      <3> QED
        BY <3>1 DEF MessageInv
    <2>6. /\ Len(out) \in Nat /\ Len(out') = Len(out) + 1
          /\ \A k \in 1..(Len(out) + 1) :
               out'[k] = IF k <= Len(out) THEN out[k] ELSE sink.ch[1]
      BY <2>1, <2>3, <2>4
    <2>7. \A k \in 1..Len(out') : out'[k].kind = "value" => Full(out'[k].of)
      <3> TAKE k \in 1..Len(out')
      <3>1. CASE k <= Len(out)
        <4>1. k \in 1..Len(out) /\ out'[k] = out[k]
          BY <2>6, <3>1
        <4> QED
          BY <4>1 DEF MessageInv
      <3>2. CASE k > Len(out)
        <4>1. out'[k] = sink.ch[1] /\ 1 \in 1..Len(sink.ch)
          BY <2>4, <2>6, <3>2
        <4> QED
          BY <4>1 DEF MessageInv
      <3> QED
        BY <2>6, <3>1, <3>2
    <2> QED
      BY <2>1, <2>5, <2>7 DEF MessageInv, Full
  <1>9. CASE SinkFinish
    <2>1. UNCHANGED <<sources, out>>
      BY <1>9 DEF SinkFinish, input
    <2>2. sink'.ch = <<>>
      BY <1>9, Before DEF SinkFinish, Sinks
    <2>3. Len(sink'.ch) = 0
      BY <2>2, EmptySeq
    <2> QED
      BY <2>1, <2>3 DEF MessageInv, Full
  <1>10. CASE Collect
    BY <1>10, SameMessages DEF Collect, input
  <1>11. CASE Collected
    <2>1. /\ UNCHANGED <<sources, out>>
          /\ pipe.ch = <<>> /\ pipe.closed
          /\ sink' = [sink EXCEPT !.ch = <<Message(collector.rs, "value")>>,
                                  !.available = FALSE]
      BY <1>11 DEF Collected, input
    <2>2. sink'.ch = <<Message(collector.rs, "value")>>
      BY <2>1, Before DEF Sinks
    <2>3. Full(collector.rs)
      BY <2>1, AllCollected
    <2>4. Message(collector.rs, "value").of = collector.rs
      BY DEF Message
    <2>5. \A k \in 1..Len(sink'.ch) : Full(sink'.ch[k].of)
      BY <2>2, <2>3, <2>4
    <2> QED
      BY <2>1, <2>5 DEF MessageInv, Full
  <1>12. ASSUME NEW d \in Deliveries, Delivery(d)
         PROVE  MessageInv'
    <2>1. ReduceOnComplete(d)
      BY <1>12, NoSink
    <2> QED
      BY <2>1, SameMessages DEF ReduceOnComplete, input
  <1> QED
    BY <1>1, <1>2, <1>3, <1>4, <1>5, <1>6, <1>7, <1>8, <1>9, <1>10, <1>11, <1>12
       DEF Next, User

LEMMA ReduceInit ==
  ASSUME Init
  PROVE  AccountInv /\ MessageInv
PROOF
  <1>1. /\ phase = "build" /\ turn = 0 /\ out = <<>>
        /\ at = [d \in Deliveries |-> "none"]
        /\ pipe.ch = <<>> /\ ~pipe.closed /\ collector.rs = <<>> /\ sink.ch = <<>>
    BY DEF Init
  <1>2. Taken = <<>>
    BY <1>1, ConcatEmptySeq, EmptySeq DEF Taken
  <1>3. Len(Taken) = 0 /\ Len(out) = 0 /\ Len(sink.ch) = 0
    BY <1>1, <1>2, EmptySeq
  <1>4. AccountInv
    BY <1>1, <1>3 DEF AccountInv, Early
  <1>5. MessageInv
    BY <1>3 DEF MessageInv
  <1> QED
    BY <1>4, <1>5

LEMMA FormKept ==
  ASSUME [Next]_vars
  PROVE  form' = form
PROOF
  <1>1. CASE User
    BY <1>1 DEF User, Build, BuildFails, Register, Registered, Attach, Await, input
  <1>2. CASE SinkReceive \/ SinkFinish \/ Collect \/ Collected
    BY <1>2 DEF SinkReceive, SinkFinish, Collect, Collected, input
  <1>3. CASE \E d \in Deliveries : Delivery(d)
    BY <1>3 DEF Delivery, CombineHandle, MapHandle, MapComplete, SinkLock,
                SinkSend, ReduceOnComplete, AwaitHandle, input
  <1>4. CASE UNCHANGED vars
    BY <1>4 DEF vars, input
  <1> QED
    BY <1>1, <1>2, <1>3, <1>4 DEF Next

\* Types, the account of the members, and full values hold of every run.
THEOREM Invariance == Spec => []IInv
PROOF
  <1>1. Init => IInv
    BY TypeInit, ReduceInit DEF IInv
  <1>2. IInv /\ [Next]_vars => IInv'
    <2> SUFFICES ASSUME IInv, [Next]_vars
                 PROVE  IInv'
      OBVIOUS
    <2>1. TInv'
      BY TypeStep DEF IInv
    <2>2. form' = "reduce" => AccountInv' /\ MessageInv'
      BY FormKept, AccountStep, MessageStep DEF IInv
    <2> QED
      BY <2>1, <2>2 DEF IInv
  <1> QED
    BY <1>1, <1>2, PTL DEF Spec

\* Every variable keeps its type, whatever is built over whatever sources.
THEOREM TypeCorrect == Spec => []TypeOK
PROOF
  <1>1. TInv => TypeOK
    BY DEF TInv
  <1> QED
    BY <1>1, TypeInvariance, PTL

\* Reduce loses no member and takes none twice: the value of a reduced future,
\* in the sink or with the user, has one result of each of its sources.
THEOREM NoneLostNoneTwice == Spec => []Whole
PROOF
  <1>1. IInv => Whole
    <2> SUFFICES ASSUME IInv, form = "reduce",
                        NEW m \in Range(Passed), m.kind = "value"
                 PROVE  /\ Len(m.of) = Len(sources)
                        /\ \A i \in DOMAIN sources : <<i, 1>> \in Range(m.of)
      BY DEF Whole
    <2>1. MessageInv /\ out \in Seq(Messages) /\ sink.ch \in Seq(Messages)
      BY Before DEF IInv, Sinks
    <2>2. /\ Len(out) \in Nat /\ Len(sink.ch) \in Nat
          /\ DOMAIN Passed = 1..(Len(out) + Len(sink.ch))
          /\ \A k \in 1..(Len(out) + Len(sink.ch)) :
               Passed[k] = IF k <= Len(out) THEN out[k]
                                            ELSE sink.ch[k - Len(out)]
      BY <2>1, ConcatProperties, LenProperties DEF Passed
    <2>3. PICK k \in 1..(Len(out) + Len(sink.ch)) : m = Passed[k]
      BY <2>2 DEF Range
    <2>4. Full(m.of)
      <3>1. CASE k <= Len(out)
        BY <2>1, <2>2, <2>3, <3>1 DEF MessageInv
      <3>2. CASE k > Len(out)
        <4>1. k - Len(out) \in 1..Len(sink.ch) /\ m = sink.ch[k - Len(out)]
          BY <2>2, <2>3, <3>2
        <4> QED
          BY <2>1, <4>1 DEF MessageInv
      <3> QED
        BY <2>2, <3>1, <3>2
    <2> QED
      BY <2>4 DEF Full
  <1> QED
    BY <1>1, Invariance, PTL
-----------------------------------------------------------------------------
(* Streams: Combine and Map, through the sink.                             *)

\* All that the sink took, in order.
Flow == Passed \o sink.left
Carried(d) == \E k \in 1..Len(Flow) : Flow[k].of = <<d>>

\* The sink takes one message at a time, and none once its Handle has gone,
\* which it does only after an end.
SinkInv ==
  /\ collector.task = "none"
  /\ phase = "build" => turn = 0 /\ \A d \in Deliveries : at[d] = "none"
  /\ phase # "done" => sink.handle = "waiting"
  /\ sink.handle # "gone" => sink.left = <<>>
  /\ sink.handle = "gone" => sink.ch = <<>> /\ ~sink.available
  /\ sink.handle \in {"ending", "gone"} =>
       Len(out) > 0 /\ EndsWith(out[Len(out)])
  /\ \A d \in Deliveries :
       /\ at[d] # "none" => Brought(d)
       /\ at[d] = "send" =>
            /\ sink.locker /\ sink.available
            /\ \A e \in Deliveries : at[e] = "send" => e = d

\* What it took is what deliveries that are done brought, once each.
FlowInv ==
  /\ \A k \in 1..Len(Flow) : \E d \in Deliveries :
       Flow[k] = Message(<<d>>, result[d]) /\ at[d] = "done"
  /\ \A k, l \in 1..Len(Flow) : Flow[k].of = Flow[l].of => k = l

\* The sources whose end combined.Handle has not seen.
End(i) == <<i, Len(sources[i].results)>>
Ended(i) == Outcome(End(i)) = "canceled" /\ at[End(i)] # "none"
Open == {i \in 1..Len(sources) : ~Ended(i)}

Earlier(e, d) == e[1] = d[1] /\ e[2] < d[2]

\* Every source waits for its handler, and remains counts those that have not
\* ended.
OpenInv ==
  /\ apart = {}
  /\ \A d \in Deliveries :
       /\ at[d] \in {"none", "lock", "send", "done"}
       /\ at[d] # "none" => result[d] = Outcome(d)
       /\ at[d] # "none" =>
            \A e \in Deliveries : Earlier(e, d) => at[e] = "done"
  /\ phase # "build" => remains = Cardinality(Open)

Passing(d) == at[d] \in {"lock", "send"}
Ending(d) == Passing(d) /\ Outcome(d) = "canceled"

\* The end is passed on when all else is done.
EndInv ==
  /\ \A d \in Deliveries :
       /\ Passing(d) => sink.available
       /\ Ending(d) => Open = {} /\ \A e \in Deliveries : Ending(e) => e = d
  /\ ~sink.available =>
       \A d \in Deliveries : Brought(d) => at[d] = "done"

OrderInv ==
  /\ sink.left = <<>>
  /\ \A d \in Deliveries :
       at[d] = "done" /\ Outcome(d) # "canceled" => Carried(d)
  /\ \A k \in 1..Len(Flow) :
       Flow[k].kind = "canceled" => k = Len(Flow) /\ ~sink.available
  /\ \A k \in 1..Len(Flow), d, e \in Deliveries :
       Flow[k].of = <<d>> /\ Earlier(e, d) =>
         \E l \in 1..(k - 1) : Flow[l].of = <<e>>

MapInv ==
  /\ \A d \in Deliveries :
       /\ at[d] = "done" => Carried(d)
       /\ at[d] = "refused" => \E k \in 1..Len(out) : EndsWith(out[k])
  /\ ~sink.available => sink.handle = "gone" \/ (Once /\ Len(Flow) > 0)

Streams == form \in {"combine", "map"} /\ phase # "failed"

StreamInv ==
  Streams => /\ SinkInv /\ FlowInv
             /\ form = "combine" => OpenInv /\ EndInv /\ OrderInv
             /\ form = "map" => MapInv
-----------------------------------------------------------------------------
\* More of what the assumption says of the input.
LEMMA SourceFacts ==
  ASSUME TypeOK
  PROVE  /\ form \in {"map", "await"} => Len(sources) = 1
         /\ \A i \in 1..Len(sources) :
              /\ Len(sources[i].results) \in 1..MaxLength
              /\ \A j \in 1..(Len(sources[i].results) - 1) :
                   sources[i].results[j] # "canceled"
PROOF
  <1>1. PICK i \in Inputs : form = i.form /\ sources = i.sources
    BY DEF TypeOK
  <1>2. /\ sources \in Seq(Source)
        /\ form \in {"map", "await"} => Len(sources) = 1
        /\ \A k \in DOMAIN sources : IsSource(sources[k])
    BY <1>1, DeriveAssumption
  <1>3. \A k \in 1..Len(sources) : IsSource(sources[k])
    BY <1>2, LenProperties
  <1> QED BY <1>2, <1>3 DEF IsSource

LEMMA PairFacts ==
  ASSUME TypeOK
  PROVE  \A i \in 1..Len(sources), j \in 1..MaxLength :
           <<i, j>> \in Deliveries /\ <<i, j>>[1] = i /\ <<i, j>>[2] = j
PROOF
  BY InputFacts, LenProperties DEF Deliveries, Most

\* The end of a source is its last delivery, and no earlier one is an end.
LEMMA EndFacts ==
  ASSUME TypeOK
  PROVE  /\ \A i \in 1..Len(sources) :
              End(i) \in Deliveries /\ End(i)[1] = i /\ Brought(End(i))
         /\ \A d \in Deliveries : Brought(d) =>
              /\ d[1] \in 1..Len(sources)
              /\ d = End(d[1]) \/ (Earlier(d, End(d[1])) /\ Outcome(d) # "canceled")
         /\ \A d, e \in Deliveries :
              Brought(d) /\ Earlier(e, d) => Brought(e) /\ Outcome(e) # "canceled"
PROOF
  <1>1. ASSUME NEW i \in 1..Len(sources)
        PROVE  /\ Len(sources[i].results) \in 1..MaxLength
               /\ End(i) = <<i, Len(sources[i].results)>>
               /\ End(i) \in Deliveries /\ End(i)[1] = i /\ Brought(End(i))
               /\ End(i)[2] = Len(sources[i].results)
    BY SourceFacts, PairFacts, DeriveAssumption DEF End, Brought
  <1>2. ASSUME NEW d \in Deliveries
        PROVE  d[1] \in 1..Len(sources) /\ d[2] \in Nat \ {0} /\ d = <<d[1], d[2]>>
    BY DeliveryFacts
  <1>3. ASSUME NEW d \in Deliveries, Brought(d)
        PROVE  d = End(d[1]) \/ (Earlier(d, End(d[1])) /\ Outcome(d) # "canceled")
    <2> DEFINE n == Len(sources[d[1]].results)
    <2>1. n \in Nat /\ d[2] \in Nat \ {0} /\ d[2] <= n /\ End(d[1]) = <<d[1], n>>
          /\ End(d[1])[1] = d[1] /\ End(d[1])[2] = n
      BY <1>1, <1>2, <1>3, DeriveAssumption DEF Brought
    <2>2. CASE d[2] = n
      BY <1>2, <2>1, <2>2
    <2>3. CASE d[2] # n
      <3>1. d[2] \in 1..(n - 1)
        BY <2>1, <2>3
      <3> QED BY <1>2, <2>1, <3>1, SourceFacts DEF Earlier, Outcome
    <2> QED BY <2>2, <2>3
  <1>4. ASSUME NEW d \in Deliveries, NEW e \in Deliveries, Brought(d), Earlier(e, d)
        PROVE  Brought(e) /\ Outcome(e) # "canceled"
    <2> DEFINE n == Len(sources[d[1]].results)
    <2>1. /\ d[1] \in 1..Len(sources) /\ n \in Nat /\ e[1] = d[1]
          /\ d[2] \in Nat /\ e[2] \in Nat \ {0} /\ e[2] < d[2] /\ d[2] <= n
      BY <1>1, <1>2, <1>4, DeriveAssumption DEF Brought, Earlier
    <2>2. e[2] \in 1..(n - 1)
      BY <2>1
    <2> QED BY <2>1, <2>2, SourceFacts DEF Brought, Outcome
  <1> QED BY <1>1, <1>2, <1>3, <1>4

\* Map's source, when it is not a stream, has one delivery.
LEMMA OnlyOne ==
  ASSUME TypeOK, form = "map", Once,
         NEW d \in Deliveries, NEW e \in Deliveries, Brought(d), Brought(e)
  PROVE  d = e
PROOF
  <1>1. Len(sources) = 1 /\ sources[1].type # "stream"
    BY SourceFacts DEF Once, Is
  <1>2. Len(sources[1].results) = 1
    BY <1>1, InputFacts
  <1>3. /\ d = <<d[1], d[2]>> /\ d[1] \in 1..1 /\ d[2] \in Nat \ {0}
        /\ e = <<e[1], e[2]>> /\ e[1] \in 1..1 /\ e[2] \in Nat \ {0}
    BY <1>1, DeliveryFacts
  <1>4. d[1] = 1 /\ e[1] = 1
    BY <1>3
  <1>5. /\ d[2] <= Len(sources[d[1]].results)
        /\ e[2] <= Len(sources[e[1]].results)
    BY DEF Brought
  <1>6. d[2] <= 1 /\ e[2] <= 1
    BY <1>2, <1>4, <1>5
  <1>7. d[2] = 1 /\ e[2] = 1
    BY <1>3, <1>6
  <1> QED BY <1>3, <1>4, <1>7

LEMMA FlowAt ==
  ASSUME TInv
  PROVE  /\ out \in Seq(Messages) /\ sink.ch \in Seq(Messages)
         /\ sink.left \in Seq(Messages)
         /\ Passed \in Seq(Messages) /\ Flow \in Seq(Messages)
         /\ Len(out) \in Nat /\ Len(sink.ch) \in Nat /\ Len(Flow) \in Nat
         /\ Len(sink.left) \in Nat
         /\ Len(Passed) = Len(out) + Len(sink.ch)
         /\ Len(Flow) = Len(Passed) + Len(sink.left)
         /\ \A k \in 1..Len(Passed) : Flow[k] = Passed[k]
         /\ \A k \in 1..Len(out) : Flow[k] = out[k]
         /\ DOMAIN Passed = 1..Len(Passed) /\ DOMAIN Flow = 1..Len(Flow)
         /\ DOMAIN out = 1..Len(out)
PROOF
  <1>1. /\ out \in Seq(Messages) /\ sink.ch \in Seq(Messages)
        /\ sink.left \in Seq(Messages)
    BY Before DEF Sinks
  <1>2. /\ Passed \in Seq(Messages)
        /\ Len(out) \in Nat /\ Len(sink.ch) \in Nat
        /\ Len(Passed) = Len(out) + Len(sink.ch)
        /\ \A k \in 1..Len(out) : Passed[k] = out[k]
    BY <1>1, ConcatProperties, LenProperties DEF Passed
  <1>3. /\ Flow \in Seq(Messages) /\ Len(sink.left) \in Nat
        /\ Len(Flow) = Len(Passed) + Len(sink.left)
        /\ \A k \in 1..Len(Passed) : Flow[k] = Passed[k]
    <2> DEFINE p == Passed
               l == sink.left
    <2>1. p \in Seq(Messages) /\ l \in Seq(Messages) /\ Flow = p \o l
      BY <1>1, <1>2 DEF Flow
    <2> HIDE DEF p, l
    <2>2. /\ p \o l \in Seq(Messages) /\ Len(l) \in Nat /\ Len(p) \in Nat
          /\ Len(p \o l) = Len(p) + Len(l)
          /\ \A k \in 1..(Len(p) + Len(l)) :
               (p \o l)[k] = IF k <= Len(p) THEN p[k] ELSE l[k - Len(p)]
      BY <2>1, ConcatProperties, LenProperties
    <2>3. \A k \in 1..Len(p) : (p \o l)[k] = p[k]
      BY <2>2
    <2> QED BY <2>1, <2>2, <2>3 DEF p, l
  <1>4. \A k \in 1..Len(out) : k \in 1..Len(Passed)
    BY <1>2
  <1> QED BY <1>1, <1>2, <1>3, <1>4, LenProperties

-----------------------------------------------------------------------------
\* What d does when the handler has it: it goes on, or is done with.
Handled(d) ==
  /\ Calls(d)
  /\ \E r \in Outcomes, where \in {"pending", "lock", "done"} : Goes(d, r, where)
  /\ UNCHANGED <<phase, turn, sink, out, collector>>

\* The steps there are while Combine or Map has a sink.
LEMMA StreamSteps ==
  ASSUME TInv, Streams, SinkInv, [Next]_vars
  PROVE  /\ UNCHANGED <<form, sources>>
         /\ \/ Build \/ BuildFails \/ Register \/ Registered \/ Attach
            \/ SinkReceive \/ SinkFinish
            \/ \E d \in Deliveries :
                 \/ Handled(d) /\ (CombineHandle(d) \/ MapHandle(d))
                 \/ MapComplete(d) \/ SinkLock(d) \/ SinkSend(d)
            \/ UNCHANGED vars
PROOF
  <1>1. CASE User
    BY <1>1 DEF User, Streams, Build, BuildFails, Register, Registered, Attach,
                Await, input
  <1>2. CASE SinkReceive \/ SinkFinish
    BY <1>2 DEF SinkReceive, SinkFinish, input
  <1>3. CASE Collect \/ Collected
    BY <1>3 DEF Collect, Collected, SinkInv
  <1>4. ASSUME NEW d \in Deliveries, Delivery(d)
        PROVE  /\ UNCHANGED <<form, sources>>
               /\ \/ Handled(d) /\ (CombineHandle(d) \/ MapHandle(d))
                  \/ MapComplete(d) \/ SinkLock(d) \/ SinkSend(d)
    <2>1. CASE CombineHandle(d)
      <3>1. Outcome(d) \in Outcomes
        BY <2>1, CallsFacts DEF TInv, CombineHandle
      <3>2. Handled(d)
        BY <2>1, <3>1 DEF CombineHandle, Handled
      <3>3. UNCHANGED <<form, sources>>
        BY <2>1 DEF CombineHandle, input
      <3> QED BY <2>1, <3>2, <3>3
    <2>2. CASE MapHandle(d)
      <3>1. Outcome(d) \in Outcomes
        BY <2>2, CallsFacts DEF TInv, MapHandle
      <3>2. \E r \in Outcomes, where \in {"pending", "lock", "done"} :
              Goes(d, r, where)
        BY <2>2, <3>1 DEF MapHandle
      <3>3. Handled(d)
        BY <2>2, <3>2 DEF MapHandle, Handled, joints
      <3> QED BY <2>2, <3>3 DEF MapHandle, input
    <2>3. CASE MapComplete(d) \/ SinkLock(d) \/ SinkSend(d)
      BY <2>3 DEF MapComplete, SinkLock, SinkSend, input
    <2>4. CASE ReduceOnComplete(d) \/ AwaitHandle(d)
      BY <2>4 DEF ReduceOnComplete, AwaitHandle, Streams
    <2> QED BY <1>4, <2>1, <2>2, <2>3, <2>4 DEF Delivery
  <1>5. CASE UNCHANGED vars
    BY <1>5 DEF vars, input
  <1> QED BY <1>1, <1>2, <1>3, <1>4, <1>5 DEF Next

\* The sink's part of the steps that touch it.
LEMMA SinkFields ==
  ASSUME sink \in Sinks
  PROVE  /\ Attach => /\ sink'.ch = sink.ch /\ sink'.left = sink.left
                      /\ sink'.available = sink.available
                      /\ sink'.locker = sink.locker
                      /\ sink'.handle = "receiving"
         /\ SinkReceive =>
              /\ sink'.ch = Tail(sink.ch) /\ sink'.left = sink.left
              /\ sink'.available = sink.available
              /\ sink'.locker = sink.locker
              /\ sink'.handle = IF EndsWith(Head(sink.ch)) THEN "ending"
                                ELSE "receiving"
         /\ SinkFinish =>
              /\ sink'.ch = <<>> /\ sink'.left = sink.ch
              /\ ~sink'.available /\ sink'.handle = "gone"
              /\ sink'.locker = sink.locker
         /\ \A d \in Deliveries : SinkLock(d) =>
              /\ sink'.ch = sink.ch /\ sink'.left = sink.left
              /\ sink'.available = sink.available
              /\ sink'.handle = sink.handle
              /\ sink'.locker = sink.available
         /\ \A d \in Deliveries : SinkSend(d) =>
              /\ sink'.ch = Append(sink.ch, Message(<<d>>, result[d]))
              /\ sink'.left = sink.left /\ sink'.handle = sink.handle
              /\ sink'.available <=> ~(Once \/ Cancels(d))
              /\ ~sink'.locker
PROOF
  <1> USE DEF Sinks
  <1>1. ASSUME NEW d, SinkSend(d)
        PROVE  /\ sink'.ch = Append(sink.ch, Message(<<d>>, result[d]))
               /\ sink'.left = sink.left /\ sink'.handle = sink.handle
               /\ sink'.available <=> ~(Once \/ Cancels(d))
               /\ ~sink'.locker
    <2> DEFINE again == ~(Once \/ Cancels(d))
               more == Append(sink.ch, Message(<<d>>, result[d]))
    <2>1. sink' = [sink EXCEPT !.ch = more, !.available = again, !.locker = FALSE]
      BY <1>1 DEF SinkSend
    <2>2. again \in BOOLEAN
      OBVIOUS
    <2> HIDE DEF again, more
    <2>3. /\ sink'.ch = more /\ sink'.left = sink.left
          /\ sink'.handle = sink.handle /\ ~sink'.locker
          /\ sink'.available = again
      BY <2>1
    <2> QED BY <2>2, <2>3 DEF again, more
  <1>2. ASSUME NEW d, SinkLock(d)
        PROVE  /\ sink'.ch = sink.ch /\ sink'.left = sink.left
               /\ sink'.available = sink.available
               /\ sink'.handle = sink.handle
               /\ sink'.locker = sink.available
    BY <1>2 DEF SinkLock
  <1>3. ASSUME SinkReceive
        PROVE  /\ sink'.ch = Tail(sink.ch) /\ sink'.left = sink.left
               /\ sink'.available = sink.available
               /\ sink'.locker = sink.locker
               /\ sink'.handle = IF EndsWith(Head(sink.ch)) THEN "ending"
                                 ELSE "receiving"
    BY <1>3 DEF SinkReceive
  <1>4. ASSUME SinkFinish
        PROVE  /\ sink'.ch = <<>> /\ sink'.left = sink.ch
               /\ ~sink'.available /\ sink'.handle = "gone"
               /\ sink'.locker = sink.locker
    BY <1>4 DEF SinkFinish
  <1>5. ASSUME Attach
        PROVE  /\ sink'.ch = sink.ch /\ sink'.left = sink.left
               /\ sink'.available = sink.available
               /\ sink'.locker = sink.locker
               /\ sink'.handle = "receiving"
    BY <1>5 DEF Attach
  <1> QED BY <1>1, <1>2, <1>3, <1>4, <1>5

\* Who sends adds to the flow, and nobody else changes it.
LEMMA FlowSend ==
  ASSUME TInv, SinkInv, NEW d \in Deliveries, SinkSend(d), Flow \in Seq(Messages)
  PROVE  /\ Len(Flow') = Len(Flow) + 1
         /\ \A k \in 1..Len(Flow) : Flow'[k] = Flow[k]
         /\ Flow'[Len(Flow) + 1] = Message(<<d>>, result[d])
PROOF
  <1> DEFINE m == Message(<<d>>, result[d])
  <1>1. /\ out' = out /\ sink'.ch = Append(sink.ch, m)
        /\ sink.left = <<>> /\ sink'.left = <<>>
    BY SinkFields, Before DEF SinkSend, SinkInv
  <1>2. m \in Messages
    <2>1. result[d] \in Outcomes
      BY Before DEF SinkSend
    <2> QED BY <2>1, MessageType DEF TInv
  <1>3. /\ out \in Seq(Messages) /\ sink.ch \in Seq(Messages)
        /\ Append(sink.ch, m) \in Seq(Messages)
    <2>1. out \in Seq(Messages) /\ sink.ch \in Seq(Messages)
      BY FlowAt
    <2> HIDE DEF m
    <2> QED BY <1>2, <2>1
  <1>4. Flow = out \o sink.ch /\ Flow' = out \o Append(sink.ch, m)
    <2>1. out \o sink.ch \in Seq(Messages)
      BY <1>3, ConcatProperties
    <2>2. out \o Append(sink.ch, m) \in Seq(Messages)
      BY <1>3, ConcatProperties
    <2>3. Flow = (out \o sink.ch) \o <<>>
      BY <1>1 DEF Flow, Passed
    <2>4. Flow' = (out \o Append(sink.ch, m)) \o <<>>
      BY <1>1 DEF Flow, Passed
    <2> QED BY <2>1, <2>2, <2>3, <2>4, ConcatEmptySeq
  <1> DEFINE s == out
             t == sink.ch
  <1>5. Flow = s \o t /\ Flow' = s \o Append(t, m) /\ s \in Seq(Messages) /\ t \in Seq(Messages)
    BY <1>3, <1>4
  <1> HIDE DEF m, s, t
  <1>6. /\ Len(s \o Append(t, m)) = Len(s \o t) + 1
        /\ Len(s \o t) \in Nat
        /\ \A k \in 1..(Len(s \o t) + 1) :
             (s \o Append(t, m))[k] = IF k <= Len(s \o t) THEN (s \o t)[k] ELSE m
    BY <1>2, <1>5, Adds
  <1>7. /\ Len(Flow') = Len(Flow) + 1 /\ Len(Flow) \in Nat
        /\ \A k \in 1..(Len(Flow) + 1) :
             Flow'[k] = IF k <= Len(Flow) THEN Flow[k] ELSE m
    BY <1>5, <1>6
  <1> QED BY <1>7 DEF m

LEMMA FlowSame ==
  ASSUME TInv, SinkInv,
         \/ UNCHANGED <<sink, out>> \/ Attach \/ SinkReceive \/ SinkFinish
         \/ \E d \in Deliveries : SinkLock(d)
  PROVE  Flow' = Flow
PROOF
  <1>0. sink \in Sinks
    BY Before
  <1>1. ASSUME out' = out, sink'.ch = sink.ch, sink'.left = sink.left
        PROVE  Flow' = Flow
    BY <1>1 DEF Flow, Passed
  <1>2. CASE UNCHANGED <<sink, out>>
    BY <1>1, <1>2
  <1>3. CASE Attach
    BY <1>0, <1>1, <1>3, SinkFields DEF Attach
  <1>4. ASSUME NEW d \in Deliveries, SinkLock(d)
        PROVE  Flow' = Flow
    BY <1>0, <1>1, <1>4, SinkFields DEF SinkLock
  <1>5. CASE SinkReceive
    <2>1. /\ out' = Append(out, Head(sink.ch)) /\ sink.ch # <<>>
          /\ sink'.ch = Tail(sink.ch) /\ sink'.left = sink.left
      BY <1>0, <1>5, SinkFields DEF SinkReceive
    <2>2. Append(out, Head(sink.ch)) \o Tail(sink.ch) = out \o sink.ch
      BY <2>1, FlowAt, Moves
    <2> QED BY <2>1, <2>2 DEF Flow, Passed
  <1>6. CASE SinkFinish
    <2>1. /\ out' = out /\ sink.left = <<>>
          /\ sink'.ch = <<>> /\ sink'.left = sink.ch
      BY <1>0, <1>6, SinkFields DEF SinkFinish, SinkInv
    <2>2. out \in Seq(Messages) /\ Passed \in Seq(Messages)
      BY FlowAt
    <2>3. out \o <<>> = out /\ Passed \o <<>> = Passed
      BY <2>2, ConcatEmptySeq
    <2>4. Flow' = (out \o <<>>) \o sink.ch /\ Flow = Passed \o <<>>
      BY <2>1 DEF Flow, Passed
    <2> QED BY <2>3, <2>4 DEF Passed
  <1> QED BY <1>2, <1>3, <1>4, <1>5, <1>6

LEMMA SinkStep ==
  ASSUME TInv, Streams, SinkInv, [Next]_vars, phase' # "failed"
  PROVE  SinkInv'
PROOF
  <1>1. /\ sink \in Sinks
        /\ at \in [Deliveries -> Places]
    BY Before
  <1>2. UNCHANGED <<form, sources>>
    BY StreamSteps
  <1>3. Deliveries' = Deliveries /\ (\A d : Brought(d)' <=> Brought(d))
        /\ (\A m : EndsWith(m)' <=> EndsWith(m))
    BY <1>2 DEF Deliveries, Brought, EndsWith, Once, Is
  <1>4. Len(out) \in Nat /\ out \in Seq(Messages)
    BY FlowAt
  <1>5. CASE UNCHANGED vars \/ Build \/ Register \/ Registered
    <2>1. UNCHANGED <<at, sink, out>> /\ collector'.task = collector.task
          /\ (phase = "done" => phase' = "done")
          /\ (phase' = "build" => phase = "build" /\ turn' = turn)
      BY <1>5 DEF vars, calls, joints, Build, Register, Registered, Streams
    <2> QED BY <1>3, <2>1 DEF SinkInv
  <1>6. CASE Attach
    <2>1. /\ phase = "attach" /\ phase' = "done" /\ UNCHANGED <<at, out, collector>>
          /\ sink.handle = "waiting"
          /\ sink'.ch = sink.ch /\ sink'.left = sink.left
          /\ sink'.available = sink.available
          /\ sink'.locker = sink.locker
          /\ sink'.handle = "receiving"
      BY <1>1, <1>6, SinkFields DEF Attach, calls, joints, SinkInv
    <2> QED BY <1>3, <2>1 DEF SinkInv
  <1>7. CASE SinkReceive
    <2>1. /\ UNCHANGED <<phase, turn, at, collector>>
          /\ sink.handle = "receiving" /\ sink.ch # <<>>
          /\ out' = Append(out, Head(sink.ch))
          /\ sink'.ch = Tail(sink.ch) /\ sink'.left = sink.left
          /\ sink'.available = sink.available
          /\ sink'.locker = sink.locker
          /\ sink'.handle = IF EndsWith(Head(sink.ch)) THEN "ending"
                            ELSE "receiving"
      BY <1>1, <1>7, SinkFields DEF SinkReceive, calls, joints
    <2>2. Head(sink.ch) \in Messages
      BY <2>1, FlowAt, HeadTailProperties
    <2> DEFINE m == Head(sink.ch)
    <2>3. out' = Append(out, m) /\ m \in Messages
      BY <2>1, <2>2
    <2> HIDE DEF m
    <2>4. Len(out') = Len(out) + 1 /\ out'[Len(out) + 1] = m
      BY <1>4, <2>3
    <2>5. sink'.handle \in {"ending", "gone"} => EndsWith(m)
      BY <2>1 DEF m
    <2>6. sink'.handle \in {"ending", "receiving"}
      BY <2>1
    <2>7. phase' # "done" => sink'.handle = "waiting"
      BY <2>1 DEF SinkInv
    <2> QED BY <1>3, <1>4, <2>1, <2>4, <2>5, <2>6, <2>7 DEF SinkInv
  <1>8. CASE SinkFinish
    <2>1. /\ UNCHANGED <<phase, turn, at, out, collector>>
          /\ sink.handle = "ending" /\ ~sink.locker
          /\ sink'.ch = <<>> /\ sink'.left = sink.ch
          /\ ~sink'.available /\ sink'.handle = "gone"
          /\ sink'.locker = sink.locker
      BY <1>1, <1>8, SinkFields DEF SinkFinish, calls, joints
    <2> QED BY <1>3, <2>1 DEF SinkInv
  <1>9. ASSUME NEW d \in Deliveries, Handled(d) PROVE SinkInv'
    <2>1. /\ UNCHANGED <<phase, turn, sink, out, collector>>
          /\ \E w \in {"pending", "lock", "done"} : at' = [at EXCEPT ![d] = w]
          /\ d[1] <= turn /\ Brought(d)
      BY <1>9 DEF Handled, Goes, Calls, Brought
    <2>2. phase # "build"
      <3>1. d[1] \in Nat \ {0}
        BY DeliveryFacts, Before DEF TInv
      <3> QED BY <2>1, <3>1 DEF SinkInv
    <2> QED BY <1>1, <1>3, <2>1, <2>2 DEF SinkInv
  <1>10. ASSUME NEW d \in Deliveries, MapComplete(d) PROVE SinkInv'
    <2>1. /\ UNCHANGED <<phase, turn, sink, out, collector>>
          /\ at[d] = "pending" /\ at' = [at EXCEPT ![d] = "lock"]
      BY <1>10 DEF MapComplete, joints
    <2> QED BY <1>1, <1>3, <2>1 DEF SinkInv
  <1>11. ASSUME NEW d \in Deliveries, SinkLock(d) PROVE SinkInv'
    <2>1. /\ UNCHANGED <<phase, turn, out, collector>>
          /\ at[d] = "lock" /\ ~sink.locker
          /\ at' = [at EXCEPT ![d] = IF sink.available THEN "send" ELSE "refused"]
          /\ sink'.ch = sink.ch /\ sink'.left = sink.left
          /\ sink'.available = sink.available
          /\ sink'.handle = sink.handle
          /\ sink'.locker = sink.available
      BY <1>1, <1>11, SinkFields DEF SinkLock, joints
    <2> QED BY <1>1, <1>3, <2>1 DEF SinkInv
  <1>12. ASSUME NEW d \in Deliveries, SinkSend(d) PROVE SinkInv'
    <2>1. /\ UNCHANGED <<phase, turn, out, collector>>
          /\ at[d] = "send" /\ at' = [at EXCEPT ![d] = "done"]
          /\ sink'.left = sink.left /\ sink'.handle = sink.handle
      BY <1>1, <1>12, SinkFields DEF SinkSend, joints
    <2>2. sink.handle # "gone"
      BY <2>1 DEF SinkInv
    <2>3. \A e \in Deliveries : at'[e] # "send"
      BY <1>1, <2>1 DEF SinkInv
    <2>4. \A e \in Deliveries : at'[e] # "none" => Brought(e)
      BY <1>1, <2>1 DEF SinkInv
    <2>5. phase' # "build"
      BY <2>1 DEF SinkInv
    <2> QED BY <1>3, <2>1, <2>2, <2>3, <2>4, <2>5 DEF SinkInv
  <1> QED
    BY <1>5, <1>6, <1>7, <1>8, <1>9, <1>10, <1>11, <1>12, StreamSteps
       DEF BuildFails

\* What is done stays done.
LEMMA DoneKept ==
  ASSUME TInv, Streams, SinkInv, [Next]_vars, NEW d \in Deliveries, at[d] = "done"
  PROVE  at'[d] = "done" /\ result'[d] = result[d]
PROOF
  <1>1. at \in [Deliveries -> Places] /\ result \in [Deliveries -> Outcomes \cup {"none"}]
    BY Before
  <1>2. CASE UNCHANGED vars \/ Build \/ BuildFails \/ Register \/ Registered
             \/ Attach \/ SinkReceive \/ SinkFinish
    BY <1>2 DEF vars, calls, Build, BuildFails, Register, Registered, Attach,
                SinkReceive, SinkFinish
  <1>3. ASSUME NEW e \in Deliveries, Handled(e)
        PROVE  at'[d] = "done" /\ result'[d] = result[d]
    BY <1>1, <1>3 DEF Handled, Calls, Goes
  <1>4. ASSUME NEW e \in Deliveries, MapComplete(e) \/ SinkLock(e) \/ SinkSend(e)
        PROVE  at'[d] = "done" /\ result'[d] = result[d]
    BY <1>1, <1>4 DEF MapComplete, SinkLock, SinkSend
  <1> QED BY <1>2, <1>3, <1>4, StreamSteps

\* Every step keeps the flow, or sends into it.
LEMMA FlowSteps ==
  ASSUME TInv, Streams, SinkInv, [Next]_vars, phase' # "failed"
  PROVE  Flow' = Flow \/ \E d \in Deliveries : SinkSend(d)
PROOF
  <1>1. CASE UNCHANGED vars \/ Build \/ Register \/ Registered
    <2>1. UNCHANGED <<sink, out>>
      BY <1>1 DEF vars, Build, Register, Registered, Streams
    <2> QED BY <2>1, FlowSame
  <1>2. ASSUME NEW d \in Deliveries, Handled(d) \/ MapComplete(d)
        PROVE  Flow' = Flow
    BY <1>2, FlowSame DEF Handled, MapComplete
  <1> QED BY <1>1, <1>2, StreamSteps, FlowSame DEF BuildFails

LEMMA FlowStep ==
  ASSUME TInv, Streams, SinkInv, FlowInv, [Next]_vars, phase' # "failed"
  PROVE  FlowInv'
PROOF
  <1>1. Deliveries' = Deliveries
    BY StreamSteps DEF Deliveries
  <1>2. \A d \in Deliveries : at[d] = "done" =>
          at'[d] = "done" /\ result'[d] = result[d]
    BY DoneKept
  <1>3. CASE Flow' = Flow
    <2>1. ASSUME NEW k \in 1..Len(Flow)
          PROVE  \E d \in Deliveries :
                   Flow[k] = (Message(<<d>>, result[d]))' /\ at'[d] = "done"
      <3>1. PICK d \in Deliveries :
              Flow[k] = Message(<<d>>, result[d]) /\ at[d] = "done"
        BY DEF FlowInv
      <3> QED BY <1>2, <3>1
    <2> QED BY <1>1, <1>3, <2>1 DEF FlowInv
  <1>4. ASSUME NEW d \in Deliveries, SinkSend(d) PROVE FlowInv'
    <2>1. /\ Len(Flow) \in Nat /\ Len(Flow') = Len(Flow) + 1
          /\ \A k \in 1..Len(Flow) : Flow'[k] = Flow[k]
          /\ Flow'[Len(Flow) + 1] = Message(<<d>>, result[d])
      BY <1>4, FlowAt, FlowSend
    <2>2. /\ at[d] = "send" /\ at'[d] = "done" /\ result' = result
      BY <1>4, Before DEF SinkSend
    <2>3. ASSUME NEW k \in 1..Len(Flow')
          PROVE  \E e \in Deliveries :
                   Flow'[k] = Message(<<e>>, result'[e]) /\ at'[e] = "done"
      <3>1. CASE k = Len(Flow) + 1
        BY <2>1, <2>2, <3>1
      <3>2. CASE k \in 1..Len(Flow)
        <4>1. PICK e \in Deliveries :
                Flow[k] = Message(<<e>>, result[e]) /\ at[e] = "done"
          BY <3>2 DEF FlowInv
        <4> QED BY <1>2, <2>1, <3>2, <4>1
      <3> QED BY <2>1, <3>1, <3>2
    <2>4. ASSUME NEW k \in 1..Len(Flow)
          PROVE  Flow[k].of # <<d>>
      <3>1. PICK e \in Deliveries :
              Flow[k] = Message(<<e>>, result[e]) /\ at[e] = "done"
        BY DEF FlowInv
      <3>2. Flow[k].of = <<e>> /\ e # d
        BY <2>2, <3>1 DEF Message
      <3> QED BY <3>2
    <2>5. Flow'[Len(Flow) + 1].of = <<d>>
      BY <2>1 DEF Message
    <2>6. ASSUME NEW k \in 1..Len(Flow'), NEW l \in 1..Len(Flow'),
                 Flow'[k].of = Flow'[l].of
          PROVE  k = l
      <3>1. CASE k \in 1..Len(Flow) /\ l \in 1..Len(Flow)
        BY <2>1, <2>6, <3>1 DEF FlowInv
      <3>2. CASE k = Len(Flow) + 1 /\ l \in 1..Len(Flow)
        BY <2>1, <2>4, <2>5, <2>6, <3>2
      <3>3. CASE l = Len(Flow) + 1 /\ k \in 1..Len(Flow)
        BY <2>1, <2>4, <2>5, <2>6, <3>3
      <3> QED BY <2>1, <3>1, <3>2, <3>3
    <2> QED BY <1>1, <2>3, <2>6 DEF FlowInv
  <1> QED BY <1>3, <1>4, FlowSteps
-----------------------------------------------------------------------------
(* Combine.                                                                *)

\* The sources that have not ended, while at keeps what has not begun.
LEMMA OpenSame ==
  ASSUME TInv, UNCHANGED <<form, sources>>,
         \A d \in Deliveries : at'[d] = "none" <=> at[d] = "none"
  PROVE  Open' = Open
PROOF
  <1>1. \A i \in 1..Len(sources) : End(i) \in Deliveries
    BY EndFacts DEF TInv
  <1>2. \A i \in 1..Len(sources) : Ended(i)' <=> Ended(i)
    BY <1>1 DEF Ended, End, Outcome
  <1> QED BY <1>2 DEF Open

\* When the handler is called with d: a source that ends is counted out.
LEMMA OpenHandle ==
  ASSUME TInv, OpenInv, phase # "build", NEW d \in Deliveries, CombineHandle(d)
  PROVE  /\ remains' = Cardinality(Open')
         /\ Outcome(d) # "canceled" => Open' = Open
         /\ Outcome(d) = "canceled" =>
              Open # {} /\ (remains = 1 => Open' = {})
PROOF
  <1>1. /\ UNCHANGED <<form, sources>>
        /\ at[d] = "none" /\ Brought(d)
        /\ at' = [at EXCEPT ![d] = IF Passes(d) THEN "lock" ELSE "done"]
        /\ remains' = IF Outcome(d) = "canceled" THEN remains - 1 ELSE remains
    BY DEF CombineHandle, Calls, Brought, Goes, input
  <1>2. at \in [Deliveries -> Places]
    BY Before
  <1>3. at'[d] # "none" /\ \A e \in Deliveries : e # d => at'[e] = at[e]
    BY <1>1, <1>2
  <1>4. \A i \in 1..Len(sources) : End(i) \in Deliveries /\ End(i)[1] = i
    BY EndFacts DEF TInv
  <1>5. d[1] \in 1..Len(sources) /\ (Outcome(d) = "canceled" => d = End(d[1]))
    BY <1>1, EndFacts DEF TInv
  <1>6. remains = Cardinality(Open)
    BY DEF OpenInv
  <1>7. CASE Outcome(d) # "canceled"
    <2>1. ASSUME NEW i \in 1..Len(sources)
          PROVE  Ended(i)' <=> Ended(i)
      <3>1. CASE End(i) = d
        BY <1>1, <1>7, <3>1 DEF Ended, End, Outcome
      <3>2. CASE End(i) # d
        BY <1>1, <1>3, <1>4, <3>2 DEF Ended, End, Outcome
      <3> QED BY <3>1, <3>2
    <2>2. Open' = Open
      BY <1>1, <2>1 DEF Open
    <2> QED BY <1>1, <1>6, <1>7, <2>2
  <1>8. CASE Outcome(d) = "canceled"
    <2>1. d = End(d[1]) /\ d[1] \in Open
      BY <1>1, <1>5, <1>8 DEF Open, Ended
    <2>2. ASSUME NEW i \in 1..Len(sources)
          PROVE  Ended(i)' <=> (Ended(i) \/ i = d[1])
      <3>1. CASE i = d[1]
        BY <1>1, <1>3, <1>8, <2>1, <3>1 DEF Ended, End, Outcome
      <3>2. CASE i # d[1]
        <4>1. End(i) # d
          BY <1>4, <3>2
        <4> QED BY <1>1, <1>3, <1>4, <3>2, <4>1 DEF Ended, End, Outcome
      <3> QED BY <3>1, <3>2
    <2>3. Open' = Open \ {d[1]}
      BY <1>1, <2>2 DEF Open
    <2>4. IsFiniteSet(Open)
      <3>1. IsFiniteSet(1..Len(sources))
        BY Before, FS_Interval
      <3> QED BY <3>1, FS_Subset DEF Open
    <2>5. /\ IsFiniteSet(Open') /\ Cardinality(Open') = Cardinality(Open) - 1
      BY <2>1, <2>3, <2>4, FS_RemoveElement
    <2>6. remains = 1 => Open' = {}
      BY <1>6, <2>5, FS_EmptySet
    <2> QED BY <1>1, <1>6, <1>8, <2>1, <2>5, <2>6
  <1> QED BY <1>7, <1>8

\* The handler is called when the last delivery of the same source is done.
LEMMA PriorDone ==
  ASSUME TInv, OpenInv, NEW d \in Deliveries, Calls(d)
  PROVE  \A e \in Deliveries : Earlier(e, d) => at[e] = "done"
PROOF
  <1> SUFFICES ASSUME NEW e \in Deliveries, Earlier(e, d)
               PROVE  at[e] = "done"
    OBVIOUS
  <1> DEFINE p == <<d[1], d[2] - 1>>
  <1>1. /\ d[1] \in 1..Len(sources) /\ d[2] \in 1..MaxLength
        /\ e[2] \in Nat \ {0} /\ e[1] = d[1] /\ e[2] < d[2]
        /\ e = <<e[1], e[2]>>
    <2>1. d[2] <= Len(sources[d[1]].results)
      BY DEF Calls
    <2>2. /\ d[1] \in 1..Len(sources) /\ d[2] \in Nat \ {0}
          /\ e[2] \in Nat \ {0} /\ e = <<e[1], e[2]>>
      BY DeliveryFacts DEF TInv
    <2>3. Len(sources[d[1]].results) \in 1..MaxLength /\ MaxLength \in Nat
      BY <2>2, SourceFacts, DeriveAssumption DEF TInv
    <2> QED BY <2>1, <2>2, <2>3 DEF Earlier
  <1>2. d[2] > 1 /\ d[2] - 1 \in 1..MaxLength
    BY <1>1, DeriveAssumption
  <1>3. p \in Deliveries /\ p[1] = d[1] /\ p[2] = d[2] - 1
    BY <1>1, <1>2, PairFacts DEF TInv
  <1>4. at[p] = "done"
    BY <1>2, <1>3 DEF Calls, Returned, OpenInv
  <1>5. CASE e[2] = d[2] - 1
    BY <1>1, <1>4, <1>5
  <1>6. CASE e[2] # d[2] - 1
    <2>1. Earlier(e, p)
      BY <1>1, <1>2, <1>3, <1>6 DEF Earlier
    <2> QED BY <1>3, <1>4, <2>1 DEF OpenInv
  <1> QED BY <1>5, <1>6

LEMMA OpenStep ==
  ASSUME TInv, Streams, form = "combine", SinkInv, OpenInv, EndInv,
         [Next]_vars, phase' # "failed"
  PROVE  OpenInv'
PROOF
  <1>1. /\ UNCHANGED <<form, sources>> /\ at \in [Deliveries -> Places]
        /\ result \in [Deliveries -> Outcomes \cup {"none"}]
        /\ Len(sources) \in Nat \ {0}
    BY StreamSteps, Before, InputFacts DEF TInv
  <1>2. Deliveries' = Deliveries /\ (\A d : Outcome(d)' = Outcome(d))
        /\ (\A d, e : Earlier(e, d)' <=> Earlier(e, d))
    BY <1>1 DEF Deliveries, Outcome, Earlier
  <1>3. CASE UNCHANGED vars \/ Register \/ Registered \/ Attach
             \/ SinkReceive \/ SinkFinish
    <2>1. UNCHANGED <<at, result, apart, remains>>
          /\ (phase' # "build" => phase # "build")
      BY <1>3 DEF vars, calls, joints, Register, Registered, Attach, SinkReceive,
                  SinkFinish
    <2>2. Open' = Open
      BY <1>1, <2>1, OpenSame
    <2> QED BY <1>2, <2>1, <2>2 DEF OpenInv
  <1>4. CASE Build
    <2>1. /\ UNCHANGED <<at, result, apart>> /\ phase = "build"
          /\ remains' = Len(sources)
      BY <1>4 DEF Build, calls
    <2>2. Open' = Open
      BY <1>1, <2>1, OpenSame
    <2>3. \A i \in 1..Len(sources) : ~Ended(i)
      BY <2>1, EndFacts DEF TInv, SinkInv, Ended
    <2>4. Open = 1..Len(sources)
      BY <2>3 DEF Open
    <2>5. Cardinality(Open) = Len(sources)
      BY <1>1, <2>4, FS_Interval
    <2> QED BY <1>2, <2>1, <2>2, <2>5 DEF OpenInv
  <1>5. ASSUME NEW d \in Deliveries, CombineHandle(d) PROVE OpenInv'
    <2>1. /\ UNCHANGED <<phase, apart>> /\ Calls(d) /\ at[d] = "none"
          /\ d[1] <= turn
          /\ result' = [result EXCEPT ![d] = Outcome(d)]
          /\ at' = [at EXCEPT ![d] = IF Passes(d) THEN "lock" ELSE "done"]
      BY <1>5 DEF CombineHandle, Calls, Goes
    <2>2. phase # "build"
      <3>1. d[1] \in Nat \ {0}
        BY DeliveryFacts, Before DEF TInv
      <3> QED BY <2>1, <3>1 DEF SinkInv
    <2>3. remains' = Cardinality(Open')
      BY <1>5, <2>2, OpenHandle
    <2>4. \A e \in Deliveries : Earlier(e, d) => at[e] = "done"
      BY <2>1, PriorDone
    <2>5. \A e \in Deliveries : at[e] = "done" => at'[e] = "done"
      BY <1>1, <2>1
    <2>6. ASSUME NEW e \in Deliveries
          PROVE  /\ at'[e] \in {"none", "lock", "send", "done"}
                 /\ at'[e] # "none" => result'[e] = Outcome(e)
                 /\ at'[e] # "none" =>
                      \A f \in Deliveries : Earlier(f, e) => at'[f] = "done"
      <3>1. CASE e = d
        BY <1>1, <2>1, <2>4, <2>5, <3>1
      <3>2. CASE e # d
        <4>1. at'[e] = at[e] /\ result'[e] = result[e]
          BY <1>1, <2>1, <3>2
        <4> QED BY <2>5, <4>1 DEF OpenInv
      <3> QED BY <3>1, <3>2
    <2>7. apart' = {}
      BY <2>1 DEF OpenInv
    <2> QED BY <1>2, <2>3, <2>6, <2>7 DEF OpenInv
  <1>6. ASSUME NEW d \in Deliveries, SinkLock(d) \/ SinkSend(d) PROVE OpenInv'
    <2>1. UNCHANGED <<phase, result, apart, remains>> /\ at[d] # "done"
          /\ at[d] # "none"
          /\ \E w \in {"send", "done"} : at' = [at EXCEPT ![d] = w]
      <3>1. CASE SinkSend(d)
        BY <3>1 DEF SinkSend, joints
      <3>2. CASE SinkLock(d)
        <4>1. sink.available
          BY <3>2 DEF SinkLock, EndInv, Passing
        <4> QED BY <3>2, <4>1 DEF SinkLock, joints
      <3> QED BY <1>6, <3>1, <3>2
    <2>2. \A e \in Deliveries : at'[e] = "none" <=> at[e] = "none"
      BY <1>1, <2>1
    <2>3. Open' = Open
      BY <1>1, <2>2, OpenSame
    <2>4. \A e \in Deliveries : at[e] = "done" => at'[e] = "done"
      BY <1>1, <2>1
    <2>5. \A e \in Deliveries : at'[e] \in {"none", "lock", "send", "done"}
      BY <1>1, <2>1 DEF OpenInv
    <2> QED BY <1>2, <2>1, <2>2, <2>3, <2>4, <2>5 DEF OpenInv
  <1>7. ASSUME NEW d \in Deliveries, MapHandle(d) \/ MapComplete(d) PROVE FALSE
    BY <1>7 DEF MapHandle, MapComplete, OpenInv
  <1> QED BY <1>3, <1>4, <1>5, <1>6, <1>7, StreamSteps DEF BuildFails

\* When every source has ended and d is the end passed on, all else is done.
LEMMA ElseDone ==
  ASSUME TInv, SinkInv, OpenInv, EndInv, NEW d \in Deliveries, Ending(d),
         NEW e \in Deliveries, Brought(e), e # d
  PROVE  at[e] = "done"
PROOF
  <1>1. Open = {} /\ \A f \in Deliveries : Ending(f) => f = d
    BY DEF EndInv
  <1> DEFINE f == End(e[1])
  <1>2. /\ e[1] \in 1..Len(sources) /\ f \in Deliveries
        /\ e = f \/ Earlier(e, f)
    BY EndFacts DEF TInv
  <1>3. Outcome(f) = "canceled" /\ at[f] # "none"
    BY <1>1, <1>2 DEF Open, Ended
  <1> HIDE DEF f
  <1>4. CASE e = f
    <2>1. ~Ending(e)
      BY <1>1
    <2>2. at[e] \notin {"lock", "send"}
      BY <1>3, <1>4, <2>1 DEF Ending, Passing
    <2> QED BY <1>2, <1>3, <1>4, <2>2 DEF OpenInv
  <1>5. CASE Earlier(e, f)
    BY <1>2, <1>3, <1>5 DEF OpenInv
  <1> QED BY <1>2, <1>4, <1>5

LEMMA EndStep ==
  ASSUME TInv, Streams, form = "combine", SinkInv, OpenInv, EndInv, OrderInv,
         [Next]_vars, phase' # "failed"
  PROVE  EndInv'
PROOF
  <1>1. /\ UNCHANGED <<form, sources>> /\ at \in [Deliveries -> Places]
        /\ sink \in Sinks
    BY StreamSteps, Before
  <1>2. Deliveries' = Deliveries /\ (\A d : Outcome(d)' = Outcome(d))
        /\ (\A d : Brought(d)' <=> Brought(d))
    BY <1>1 DEF Deliveries, Outcome, Brought
  <1>3. ~Once
    BY DEF Once
  <1>4. CASE UNCHANGED vars \/ Build \/ Register \/ Registered \/ Attach
             \/ SinkReceive \/ SinkFinish
    <2>1. UNCHANGED at
      BY <1>4 DEF vars, calls, Build, Register, Registered, Attach, SinkReceive,
                  SinkFinish
    <2>2. Open' = Open
      BY <1>1, <2>1, OpenSame
    <2>3. sink'.available <=> sink.available
      <3>1. CASE UNCHANGED vars \/ Build \/ Register \/ Registered
        BY <3>1 DEF vars, Build, Register, Registered
      <3>2. CASE Attach \/ SinkReceive
        BY <1>1, <3>2, SinkFields
      <3>3. CASE SinkFinish
        <4>1. ~sink'.available /\ sink.handle = "ending"
          BY <1>1, <3>3, SinkFields DEF SinkFinish
        <4>2. Len(out) > 0 /\ EndsWith(out[Len(out)])
          BY <4>1 DEF SinkInv
        <4>3. Len(out) \in 1..Len(Flow) /\ Flow[Len(out)].kind = "canceled"
          <5>1. /\ Len(out) \in Nat /\ Len(sink.ch) \in Nat
                /\ Len(sink.left) \in Nat
                /\ Len(Flow) = Len(out) + Len(sink.ch) + Len(sink.left)
                /\ \A k \in 1..Len(out) : Flow[k] = out[k]
            BY FlowAt, LenProperties
          <5>2. out[Len(out)].kind = "canceled"
            BY <1>3, <4>2 DEF EndsWith
          <5> DEFINE n == Len(out)
                     a == Len(sink.ch)
                     b == Len(sink.left)
          <5>3. n \in Nat /\ n > 0 /\ a \in Nat /\ b \in Nat
                /\ Len(Flow) = n + a + b
            BY <4>2, <5>1
          <5> HIDE DEF n, a, b
          <5>4. n \in 1..n /\ n \in 1..Len(Flow)
            BY <5>3
          <5> QED BY <5>1, <5>2, <5>4 DEF n
        <4>4. ~sink.available
          BY <4>3 DEF OrderInv
        <4> QED BY <4>1, <4>4
      <3> QED BY <1>4, <3>1, <3>2, <3>3
    <2> QED BY <1>2, <2>1, <2>2, <2>3 DEF EndInv, Ending, Passing
  <1>5. ASSUME NEW d \in Deliveries, CombineHandle(d) PROVE EndInv'
    <2>1. /\ UNCHANGED sink /\ at[d] = "none" /\ d[1] <= turn /\ Brought(d)
          /\ at' = [at EXCEPT ![d] = IF Passes(d) THEN "lock" ELSE "done"]
      BY <1>5 DEF CombineHandle, Calls, Brought, Goes
    <2>2. sink.available
      BY <2>1 DEF EndInv
    <2>3. phase # "build"
      <3>1. d[1] \in Nat \ {0}
        BY DeliveryFacts, Before DEF TInv
      <3> QED BY <2>1, <3>1 DEF SinkInv
    <2>4. \A e \in Deliveries : e # d => (Ending(e)' <=> Ending(e))
      BY <1>1, <1>2, <2>1 DEF Ending, Passing
    <2>5. CASE Outcome(d) # "canceled"
      <3>1. Open' = Open
        BY <1>5, <2>3, <2>5, OpenHandle
      <3>2. ~Ending(d)'
        BY <1>2, <2>5 DEF Ending
      <3> QED BY <1>2, <2>1, <2>2, <2>4, <3>1, <3>2 DEF EndInv
    <2>6. CASE Outcome(d) = "canceled"
      <3>1. Open # {} /\ (remains = 1 => Open' = {})
        BY <1>5, <2>3, <2>6, OpenHandle
      <3>2. \A e \in Deliveries : ~Ending(e)
        BY <3>1 DEF EndInv
      <3>3. Ending(d)' => Open' = {}
        BY <1>1, <2>1, <2>6, <3>1 DEF Ending, Passing, Passes
      <3> QED BY <1>2, <2>1, <2>2, <2>4, <3>2, <3>3 DEF EndInv
    <2> QED BY <2>5, <2>6
  <1>6. ASSUME NEW d \in Deliveries, SinkLock(d) PROVE EndInv'
    <2>1. /\ at[d] = "lock" /\ sink'.available = sink.available
          /\ at' = [at EXCEPT ![d] = IF sink.available THEN "send" ELSE "refused"]
      BY <1>1, <1>6, SinkFields DEF SinkLock
    <2>2. sink.available
      BY <2>1 DEF EndInv, Passing
    <2>3. \A e \in Deliveries : /\ Passing(e)' <=> Passing(e)
                                /\ Ending(e)' <=> Ending(e)
      BY <1>1, <1>2, <2>1, <2>2 DEF Passing, Ending
    <2>4. Open' = Open
      BY <1>1, <2>1, <2>2, OpenSame
    <2> QED BY <1>2, <2>1, <2>2, <2>3, <2>4 DEF EndInv
  <1>7. ASSUME NEW d \in Deliveries, SinkSend(d) PROVE EndInv'
    <2>1. /\ at[d] = "send" /\ at' = [at EXCEPT ![d] = "done"]
          /\ sink'.available <=> ~Cancels(d)
      BY <1>1, <1>3, <1>7, SinkFields DEF SinkSend
    <2>2. Open' = Open
      BY <1>1, <2>1, OpenSame
    <2>3. \A e \in Deliveries : /\ Passing(e)' => e # d /\ Passing(e)
                                /\ Ending(e)' => e # d /\ Ending(e)
      BY <1>1, <1>2, <2>1 DEF Passing, Ending
    <2>4. Cancels(d) <=> Ending(d)
      BY <2>1 DEF Cancels, Ending, Passing, OpenInv
    <2>5. CASE ~Cancels(d)
      BY <1>2, <2>1, <2>2, <2>3, <2>5 DEF EndInv
    <2>6. CASE Cancels(d)
      <3>1. \A e \in Deliveries : Brought(e) /\ e # d => at[e] = "done"
        BY <2>4, <2>6, ElseDone
      <3>2. \A e \in Deliveries : Brought(e) => at'[e] = "done"
        BY <1>1, <2>1, <3>1
      <3>3. \A e \in Deliveries : ~Passing(e)'
        BY <2>3, <3>1 DEF Passing, SinkInv
      <3> QED BY <1>2, <3>2, <3>3 DEF EndInv, Ending
    <2> QED BY <2>5, <2>6
  <1>8. ASSUME NEW d \in Deliveries, MapHandle(d) \/ MapComplete(d) PROVE FALSE
    BY <1>8 DEF MapHandle, MapComplete, OpenInv
  <1> QED BY <1>4, <1>5, <1>6, <1>7, <1>8, StreamSteps DEF BuildFails

\* Handle's loop ends after the last message there is.
LEMMA NothingLeft ==
  ASSUME TInv, form = "combine", SinkInv, OrderInv, sink.handle = "ending"
  PROVE  sink.ch = <<>>
PROOF
  <1> DEFINE n == Len(out)
             a == Len(sink.ch)
             b == Len(sink.left)
  <1>1. /\ n \in Nat /\ a \in Nat /\ b \in Nat /\ Len(Flow) = n + a + b
        /\ \A k \in 1..n : Flow[k] = out[k]
        /\ sink.ch \in Seq(Messages)
    BY FlowAt, LenProperties
  <1>2. n > 0 /\ out[n].kind = "canceled"
    BY DEF SinkInv, EndsWith, Once
  <1> HIDE DEF n, a, b
  <1>3. n \in 1..n /\ n \in 1..Len(Flow)
    BY <1>1, <1>2
  <1>4. n = Len(Flow)
    BY <1>1, <1>2, <1>3 DEF OrderInv
  <1>5. a = 0
    BY <1>1, <1>4
  <1> QED BY <1>1, <1>5, EmptySeq DEF a

LEMMA OrderStep ==
  ASSUME TInv, Streams, form = "combine", SinkInv, FlowInv, OpenInv, EndInv,
         OrderInv, [Next]_vars, phase' # "failed"
  PROVE  OrderInv'
PROOF
  <1>1. /\ UNCHANGED <<form, sources>> /\ at \in [Deliveries -> Places]
        /\ sink \in Sinks /\ ~Once
    BY StreamSteps, Before DEF Once
  <1>2. Deliveries' = Deliveries /\ (\A d : Outcome(d)' = Outcome(d))
        /\ (\A d, e : Earlier(e, d)' <=> Earlier(e, d))
    BY <1>1 DEF Deliveries, Outcome, Earlier
  <1>3. ASSUME Flow' = Flow, sink'.left = <<>>,
               ~sink.available => ~sink'.available,
               \A d \in Deliveries : at'[d] = "done" =>
                 at[d] = "done" \/ Outcome(d) = "canceled"
        PROVE  OrderInv'
    <2>1. \A d \in Deliveries : Carried(d)' <=> Carried(d)
      BY <1>3 DEF Carried
    <2>2. \A d \in Deliveries :
            at'[d] = "done" /\ Outcome(d)' # "canceled" => Carried(d)'
      BY <1>2, <1>3, <2>1 DEF OrderInv
    <2>3. \A k \in 1..Len(Flow') :
            Flow'[k].kind = "canceled" => k = Len(Flow') /\ ~sink'.available
      BY <1>3 DEF OrderInv
    <2>4. \A k \in 1..Len(Flow'), d, e \in Deliveries :
            Flow'[k].of = <<d>> /\ Earlier(e, d)' =>
              \E l \in 1..(k - 1) : Flow'[l].of = <<e>>
      BY <1>2, <1>3 DEF OrderInv
    <2> QED BY <1>2, <1>3, <2>2, <2>3, <2>4 DEF OrderInv
  <1>4. CASE UNCHANGED vars \/ Build \/ Register \/ Registered
    BY <1>3, <1>4, FlowSame
       DEF vars, calls, Build, Register, Registered, OrderInv
  <1>5. CASE Attach \/ SinkReceive \/ SinkFinish
    <2>1. at' = at /\ Flow' = Flow
      BY <1>5, FlowSame DEF calls, Attach, SinkReceive, SinkFinish
    <2>2. sink'.left = <<>>
      <3>1. CASE Attach \/ SinkReceive
        BY <1>1, <3>1, SinkFields DEF OrderInv
      <3>2. CASE SinkFinish
        <4>1. sink.handle = "ending" /\ sink'.left = sink.ch
          BY <1>1, <3>2, SinkFields DEF SinkFinish
        <4> QED BY <4>1, NothingLeft
      <3> QED BY <1>5, <3>1, <3>2
    <2>3. ~sink.available => ~sink'.available
      BY <1>1, <1>5, SinkFields
    <2> QED BY <1>3, <2>1, <2>2, <2>3
  <1>6. ASSUME NEW d \in Deliveries, CombineHandle(d) PROVE OrderInv'
    <2>1. /\ UNCHANGED <<sink, out>>
          /\ at' = [at EXCEPT ![d] = IF Passes(d) THEN "lock" ELSE "done"]
      BY <1>6 DEF CombineHandle, Goes
    <2>2. ~Passes(d) => Outcome(d) = "canceled"
      BY DEF Passes
    <2>3. Flow' = Flow
      BY <2>1, FlowSame
    <2>4. \A e \in Deliveries : at'[e] = "done" =>
            at[e] = "done" \/ Outcome(e) = "canceled"
      BY <1>1, <2>1, <2>2
    <2> QED BY <1>3, <2>1, <2>3, <2>4 DEF OrderInv
  <1>7. ASSUME NEW d \in Deliveries, SinkLock(d) PROVE OrderInv'
    <2>1. /\ sink'.left = sink.left /\ sink'.available = sink.available
          /\ at' = [at EXCEPT ![d] = IF sink.available THEN "send" ELSE "refused"]
      BY <1>1, <1>7, SinkFields DEF SinkLock
    <2>2. Flow' = Flow
      BY <1>7, FlowSame
    <2>3. \A e \in Deliveries : at'[e] = "done" => at[e] = "done"
      BY <1>1, <2>1
    <2> QED BY <1>3, <2>1, <2>2, <2>3 DEF OrderInv
  <1>8. ASSUME NEW d \in Deliveries, SinkSend(d) PROVE OrderInv'
    <2>1. /\ Len(Flow) \in Nat /\ Len(Flow') = Len(Flow) + 1
          /\ \A k \in 1..Len(Flow) : Flow'[k] = Flow[k]
          /\ Flow'[Len(Flow) + 1] = Message(<<d>>, result[d])
      BY <1>8, FlowAt, FlowSend
    <2>2. /\ Flow'[Len(Flow) + 1].of = <<d>>
          /\ Flow'[Len(Flow) + 1].kind = Outcome(d)
          /\ at[d] = "send" /\ at' = [at EXCEPT ![d] = "done"]
          /\ sink'.left = <<>>
          /\ sink'.available <=> Outcome(d) # "canceled"
      <3>1. at[d] = "send" /\ at' = [at EXCEPT ![d] = "done"]
        BY <1>8 DEF SinkSend
      <3>2. result[d] = Outcome(d)
        BY <3>1 DEF OpenInv
      <3>3. sink'.left = <<>> /\ (sink'.available <=> ~Cancels(d))
        BY <1>1, <1>8, SinkFields DEF OrderInv
      <3>4. Flow'[Len(Flow) + 1].of = <<d>> /\ Flow'[Len(Flow) + 1].kind = result[d]
        BY <2>1 DEF Message
      <3> QED BY <3>1, <3>2, <3>3, <3>4 DEF Cancels
    <2>3. \A k \in 1..Len(Flow') : k \in 1..Len(Flow) \/ k = Len(Flow) + 1
      BY <2>1
    <2>4. \A k \in 1..Len(Flow) : k \in 1..Len(Flow')
      BY <2>1
    <2>5. \A e \in Deliveries : Carried(e) => Carried(e)'
      BY <2>1, <2>4 DEF Carried
    <2>6. Carried(d)'
      <3>1. Len(Flow) + 1 \in 1..Len(Flow')
        BY <2>1
      <3> QED BY <2>2, <3>1 DEF Carried
    <2>7. ASSUME NEW e \in Deliveries, at'[e] = "done", Outcome(e) # "canceled"
          PROVE  Carried(e)'
      BY <1>1, <2>2, <2>5, <2>6, <2>7 DEF OrderInv
    <2>8. ASSUME NEW k \in 1..Len(Flow'), Flow'[k].kind = "canceled"
          PROVE  k = Len(Flow') /\ ~sink'.available
      <3>1. sink.available
        BY <2>2 DEF SinkInv
      <3>2. k \notin 1..Len(Flow)
        BY <2>1, <2>8, <3>1 DEF OrderInv
      <3> QED BY <2>1, <2>2, <2>3, <2>8, <3>2
    <2>9. ASSUME NEW k \in 1..Len(Flow'), NEW e \in Deliveries,
                 NEW f \in Deliveries, Flow'[k].of = <<e>>, Earlier(f, e)
          PROVE  \E l \in 1..(k - 1) : Flow'[l].of = <<f>>
      <3>1. CASE k \in 1..Len(Flow)
        <4>1. PICK l \in 1..(k - 1) : Flow[l].of = <<f>>
          BY <2>1, <2>9, <3>1 DEF OrderInv
        <4>2. l \in 1..Len(Flow)
          BY <2>1, <3>1
        <4> QED BY <2>1, <4>1, <4>2
      <3>2. CASE k = Len(Flow) + 1
        <4>1. e = d
          <5>1. <<e>> = <<d>>
            BY <2>2, <2>9, <3>2
          <5>2. <<e>>[1] = <<d>>[1]
            BY <5>1
          <5> QED BY <5>2
        <4>2. at[f] = "done"
          BY <2>2, <2>9, <4>1 DEF OpenInv
        <4>3. Outcome(f) # "canceled"
          <5>1. Brought(d)
            BY <2>2 DEF SinkInv
          <5> QED BY <2>9, <4>1, <5>1, EndFacts DEF TInv
        <4>4. PICK l \in 1..Len(Flow) : Flow[l].of = <<f>>
          BY <4>2, <4>3 DEF OrderInv, Carried
        <4>5. l \in 1..(k - 1)
          BY <2>1, <3>2
        <4> QED BY <2>1, <4>4, <4>5
      <3> QED BY <2>3, <3>1, <3>2
    <2>a. \A e \in Deliveries :
            at'[e] = "done" /\ Outcome(e)' # "canceled" => Carried(e)'
      BY <1>2, <2>7
    <2>b. \A k \in 1..Len(Flow'), e, f \in Deliveries :
            Flow'[k].of = <<e>> /\ Earlier(f, e)' =>
              \E l \in 1..(k - 1) : Flow'[l].of = <<f>>
      BY <1>2, <2>9
    <2> QED BY <1>2, <2>2, <2>a, <2>8, <2>b DEF OrderInv
  <1>9. ASSUME NEW d \in Deliveries, MapHandle(d) \/ MapComplete(d) PROVE FALSE
    BY <1>9 DEF MapHandle, MapComplete, OpenInv
  <1> QED BY <1>4, <1>5, <1>6, <1>7, <1>8, <1>9, StreamSteps DEF BuildFails
-----------------------------------------------------------------------------
(* Map.                                                                    *)

LEMMA MapStep ==
  ASSUME TInv, Streams, form = "map", SinkInv, FlowInv, MapInv,
         [Next]_vars, phase' # "failed"
  PROVE  MapInv'
PROOF
  <1>1. /\ UNCHANGED <<form, sources>> /\ at \in [Deliveries -> Places]
        /\ sink \in Sinks
    BY StreamSteps, Before
  <1>2. Deliveries' = Deliveries /\ (Once' <=> Once)
        /\ (\A m : EndsWith(m)' <=> EndsWith(m))
    BY <1>1 DEF Deliveries, Once, Is, EndsWith
  <1>3. /\ out \in Seq(Messages) /\ Len(out) \in Nat /\ Len(Flow) \in Nat
    BY FlowAt
  <1>4. ASSUME Flow' = Flow, at' = at, out' = out,
               sink'.available <=> sink.available,
               sink.handle = "gone" => sink'.handle = "gone"
        PROVE  MapInv'
    <2>1. \A d \in Deliveries : Carried(d)' <=> Carried(d)
      BY <1>4 DEF Carried
    <2> QED BY <1>2, <1>4, <2>1 DEF MapInv
  <1>5. CASE UNCHANGED vars \/ Build \/ Register \/ Registered
    BY <1>4, <1>5, FlowSame DEF vars, calls, Build, Register, Registered
  <1>6. CASE Attach
    <2>1. /\ at' = at /\ out' = out /\ sink.handle = "waiting"
          /\ sink'.available = sink.available
      BY <1>1, <1>6, SinkFields DEF Attach, calls, SinkInv
    <2> QED BY <1>4, <1>6, <2>1, FlowSame
  <1>7. CASE SinkReceive
    <2>1. /\ at' = at /\ out' = Append(out, Head(sink.ch))
          /\ sink'.available = sink.available /\ sink.handle = "receiving"
          /\ Head(sink.ch) \in Messages
      BY <1>1, <1>7, SinkFields, FlowAt, HeadTailProperties DEF SinkReceive, calls
    <2> DEFINE m == Head(sink.ch)
    <2>2. out' = Append(out, m) /\ m \in Messages
      BY <2>1
    <2> HIDE DEF m
    <2>3. /\ Len(out') = Len(out) + 1
          /\ \A k \in 1..Len(out) : out'[k] = out[k] /\ k \in 1..Len(out')
      BY <1>3, <2>2
    <2>4. Flow' = Flow
      BY <1>7, FlowSame
    <2>5. \A d \in Deliveries : Carried(d)' <=> Carried(d)
      BY <2>4 DEF Carried
    <2>6. (\E k \in 1..Len(out) : EndsWith(out[k]))
            => (\E k \in 1..Len(out') : EndsWith(out'[k]))
      BY <2>3
    <2> QED BY <1>2, <2>1, <2>4, <2>5, <2>6 DEF MapInv
  <1>8. CASE SinkFinish
    <2>1. /\ at' = at /\ out' = out /\ sink'.handle = "gone"
      BY <1>1, <1>8, SinkFields DEF SinkFinish, calls
    <2>2. Flow' = Flow
      BY <1>8, FlowSame
    <2>3. \A d \in Deliveries : Carried(d)' <=> Carried(d)
      BY <2>2 DEF Carried
    <2> QED BY <1>2, <2>1, <2>2, <2>3 DEF MapInv
  <1>9. ASSUME NEW d \in Deliveries, MapHandle(d) \/ MapComplete(d)
        PROVE  MapInv'
    <2>1. /\ UNCHANGED <<sink, out>>
          /\ \E w \in {"lock", "pending"} : at' = [at EXCEPT ![d] = w]
      BY <1>9 DEF MapHandle, MapComplete, Goes
    <2>2. Flow' = Flow
      BY <2>1, FlowSame
    <2>3. \A e \in Deliveries : /\ Carried(e)' <=> Carried(e)
                                /\ at'[e] \in {"done", "refused"} => at'[e] = at[e]
      BY <1>1, <2>1, <2>2 DEF Carried
    <2> QED BY <1>2, <2>1, <2>2, <2>3 DEF MapInv
  <1>10. ASSUME NEW d \in Deliveries, SinkLock(d) PROVE MapInv'
    <2>1. /\ at[d] = "lock" /\ out' = out
          /\ at' = [at EXCEPT ![d] = IF sink.available THEN "send" ELSE "refused"]
          /\ sink'.available = sink.available
          /\ sink'.handle = sink.handle
      BY <1>1, <1>10, SinkFields DEF SinkLock
    <2>2. Flow' = Flow
      BY <1>10, FlowSame
    <2>3. ~sink.available => \E k \in 1..Len(out) : EndsWith(out[k])
      <3> SUFFICES ASSUME ~sink.available
                   PROVE  \E k \in 1..Len(out) : EndsWith(out[k])
        OBVIOUS
      <3>1. CASE sink.handle = "gone"
        <4>1. Len(out) > 0 /\ EndsWith(out[Len(out)])
          BY <3>1 DEF SinkInv
        <4>2. Len(out) \in 1..Len(out)
          BY <1>3, <4>1
        <4> QED BY <4>1, <4>2
      <3>2. CASE Once /\ Len(Flow) > 0
        <4>1. 1 \in 1..Len(Flow)
          BY <1>3, <3>2
        <4>2. PICK e \in Deliveries : at[e] = "done"
          BY <4>1 DEF FlowInv
        <4>3. Brought(e) /\ Brought(d)
          BY <2>1, <4>2 DEF SinkInv
        <4>4. e = d
          BY <3>2, <4>3, OnlyOne DEF TInv
        <4> QED BY <2>1, <4>2, <4>4
      <3> QED BY <3>1, <3>2 DEF MapInv
    <2>4. \A e \in Deliveries :
            /\ Carried(e)' <=> Carried(e)
            /\ at'[e] = "done" => at[e] = "done"
            /\ at'[e] = "refused" => at[e] = "refused" \/ ~sink.available
      BY <1>1, <2>1, <2>2 DEF Carried
    <2> QED BY <1>2, <2>1, <2>2, <2>3, <2>4 DEF MapInv
  <1>11. ASSUME NEW d \in Deliveries, SinkSend(d) PROVE MapInv'
    <2>1. /\ Len(Flow') = Len(Flow) + 1
          /\ \A k \in 1..Len(Flow) : Flow'[k] = Flow[k]
          /\ Flow'[Len(Flow) + 1] = Message(<<d>>, result[d])
      BY <1>11, FlowAt, FlowSend
    <2>2. /\ at' = [at EXCEPT ![d] = "done"] /\ out' = out
          /\ sink'.available <=> ~(Once \/ Cancels(d))
          /\ sink'.handle = sink.handle
      BY <1>1, <1>11, SinkFields DEF SinkSend
    <2>3. \A k \in 1..Len(Flow) : k \in 1..Len(Flow')
      BY <1>3, <2>1
    <2>4. \A e \in Deliveries : Carried(e) => Carried(e)'
      BY <2>1, <2>3 DEF Carried
    <2>5. Carried(d)'
      <3>1. Len(Flow) + 1 \in 1..Len(Flow') /\ Flow'[Len(Flow) + 1].of = <<d>>
        BY <1>3, <2>1 DEF Message
      <3> QED BY <3>1 DEF Carried
    <2>6. \A e \in Deliveries :
            /\ at'[e] = "done" => Carried(e)'
            /\ at'[e] = "refused" => at[e] = "refused"
      BY <1>1, <2>2, <2>4, <2>5 DEF MapInv
    <2>7. ~sink'.available => Once /\ Len(Flow') > 0
      BY <1>3, <2>1, <2>2 DEF Cancels
    <2> QED BY <1>2, <2>2, <2>6, <2>7 DEF MapInv
  <1>12. ASSUME NEW d \in Deliveries, CombineHandle(d) PROVE FALSE
    BY <1>12 DEF CombineHandle
  <1> QED
    BY <1>5, <1>6, <1>7, <1>8, <1>9, <1>10, <1>11, <1>12, StreamSteps DEF BuildFails
-----------------------------------------------------------------------------
LEMMA FailedKept ==
  ASSUME [Next]_vars, phase = "failed"
  PROVE  phase' = "failed"
PROOF
  <1>1. CASE User
    BY <1>1 DEF User, Build, BuildFails, Register, Registered, Attach, Await
  <1>2. CASE SinkReceive \/ SinkFinish \/ Collect \/ Collected
    BY <1>2 DEF SinkReceive, SinkFinish, Collect, Collected
  <1>3. CASE \E d \in Deliveries : Delivery(d)
    BY <1>3 DEF Delivery, CombineHandle, MapHandle, MapComplete, SinkLock,
                SinkSend, ReduceOnComplete, AwaitHandle
  <1>4. CASE UNCHANGED vars
    BY <1>4 DEF vars
  <1> QED BY <1>1, <1>2, <1>3, <1>4 DEF Next

LEMMA StreamInit ==
  ASSUME Init, TInv
  PROVE  StreamInv
PROOF
  <1>1. /\ phase = "build" /\ turn = 0 /\ out = <<>> /\ apart = {}
        /\ sink.ch = <<>> /\ sink.left = <<>> /\ sink.available
        /\ sink.handle = "waiting" /\ collector.task = "none"
        /\ \A d \in Deliveries : at[d] = "none"
    BY DEF Init
  <1>2. Len(Flow) = 0
    <2>1. Len(out) = 0 /\ Len(sink.ch) = 0 /\ Len(sink.left) = 0
      BY <1>1, EmptySeq
    <2>2. Len(Flow) = Len(out) + Len(sink.ch) + Len(sink.left)
      BY FlowAt
    <2> HIDE DEF Flow
    <2> QED BY <2>1, <2>2
  <1>3. SinkInv
    BY <1>1 DEF SinkInv
  <1>4. FlowInv
    BY <1>2 DEF FlowInv
  <1>5. OpenInv
    BY <1>1 DEF OpenInv
  <1>6. EndInv
    BY <1>1 DEF EndInv, Ending, Passing
  <1>7. OrderInv
    BY <1>1, <1>2 DEF OrderInv
  <1>8. MapInv
    BY <1>1 DEF MapInv
  <1> QED BY <1>3, <1>4, <1>5, <1>6, <1>7, <1>8 DEF StreamInv

\* What goes through the sink of Combine and Map, in every run.
THEOREM StreamInvariance == Spec => [](TInv /\ StreamInv)
PROOF
  <1>1. Init => TInv /\ StreamInv
    BY TypeInit, StreamInit
  <1>2. TInv /\ StreamInv /\ [Next]_vars => (TInv /\ StreamInv)'
    <2> SUFFICES ASSUME TInv, StreamInv, [Next]_vars
                 PROVE  TInv' /\ StreamInv'
      OBVIOUS
    <2>1. TInv'
      BY TypeStep
    <2>2. ASSUME Streams'
          PROVE  /\ SinkInv' /\ FlowInv'
                 /\ form' = "combine" => OpenInv' /\ EndInv' /\ OrderInv'
                 /\ form' = "map" => MapInv'
      <3>1. form' = form /\ Streams /\ phase' # "failed"
        BY <2>2, FormKept, FailedKept DEF Streams
      <3>2. /\ SinkInv /\ FlowInv
            /\ form = "combine" => OpenInv /\ EndInv /\ OrderInv
            /\ form = "map" => MapInv
        BY <3>1 DEF StreamInv
      <3> QED
        BY <3>1, <3>2, SinkStep, FlowStep, OpenStep, EndStep, OrderStep, MapStep
    <2> QED BY <2>1, <2>2 DEF StreamInv
  <1> QED BY <1>1, <1>2, PTL DEF Spec

LEMMA CarriedRange ==
  ASSUME TInv, NEW d, Carried(d), sink.left = <<>>
  PROVE  Carries(Passed, d)
PROOF
  <1>1. /\ Len(Flow) = Len(Passed) /\ DOMAIN Passed = 1..Len(Passed)
        /\ \A k \in 1..Len(Passed) : Flow[k] = Passed[k]
    <2>1. Len(sink.left) = 0 /\ Len(Passed) \in Nat
      BY EmptySeq, FlowAt, LenProperties
    <2>2. Len(Flow) = Len(Passed) + Len(sink.left)
      BY FlowAt
    <2>3. Len(Flow) = Len(Passed)
      BY <2>1, <2>2
    <2> QED BY <2>3, FlowAt
  <1> QED BY <1>1 DEF Carried, Carries, Range

\* What Map is told comes out once, and is lost only after an end came out,
\* whatever the source brings and whenever handle's futures complete.
THEOREM MappedOnce == Spec => []Mapped
PROOF
  <1>1. TInv /\ StreamInv => Mapped
    <2> SUFFICES ASSUME TInv, StreamInv, form = "map", phase # "failed"
                 PROVE
          /\ \A k, l \in DOMAIN Passed : Passed[k].of = Passed[l].of => k = l
          /\ \A d \in Deliveries :
               /\ at[d] = "done" => Carries(Passed \o sink.left, d)
               /\ at[d] = "refused" \/ Carries(sink.left, d) =>
                    \E m \in Range(out) : Once \/ m.kind = "canceled"
          /\ Once => Len(Passed \o sink.left) <= 1
      BY DEF Mapped
    <2>1. SinkInv /\ FlowInv /\ MapInv
      BY DEF StreamInv, Streams
    <2>2. /\ Len(out) \in Nat /\ Len(Passed) \in Nat /\ Len(Flow) \in Nat
          /\ Len(sink.left) \in Nat
          /\ Len(Flow) = Len(Passed) + Len(sink.left)
          /\ \A k \in 1..Len(Passed) : Flow[k] = Passed[k]
          /\ DOMAIN Passed = 1..Len(Passed) /\ DOMAIN Flow = 1..Len(Flow)
          /\ DOMAIN out = 1..Len(out)
      BY FlowAt, LenProperties
    <2>3. \A k, l \in DOMAIN Passed : Passed[k].of = Passed[l].of => k = l
      <3>1. \A k \in DOMAIN Passed : k \in 1..Len(Flow) /\ Flow[k] = Passed[k]
        BY <2>2
      <3> QED BY <2>1, <3>1 DEF FlowInv
    <2>4. ASSUME NEW d \in Deliveries, at[d] = "done"
          PROVE  Carries(Passed \o sink.left, d)
      BY <2>1, <2>2, <2>4 DEF MapInv, Carried, Carries, Range, Flow
    <2>5. ASSUME NEW d \in Deliveries,
                 at[d] = "refused" \/ Carries(sink.left, d)
          PROVE  \E m \in Range(out) : Once \/ m.kind = "canceled"
      <3>1. PICK k \in 1..Len(out) : EndsWith(out[k])
        <4>1. CASE at[d] = "refused"
          BY <2>1, <4>1 DEF MapInv
        <4>2. CASE Carries(sink.left, d)
          <5>1. sink.left # <<>>
            BY <4>2 DEF Carries, Range
          <5>2. Len(out) > 0 /\ EndsWith(out[Len(out)])
            BY <2>1, <5>1 DEF SinkInv
          <5>3. Len(out) \in 1..Len(out)
            BY <2>2, <5>2
          <5> QED BY <5>2, <5>3
        <4> QED BY <2>5, <4>1, <4>2
      <3> QED BY <2>2, <3>1 DEF EndsWith, Range
    <2>6. ASSUME Once, ~(Len(Flow) <= 1) PROVE FALSE
      <3>1. 1 \in 1..Len(Flow) /\ 2 \in 1..Len(Flow)
        BY <2>2, <2>6
      <3>2. PICK d \in Deliveries : Flow[1] = Message(<<d>>, result[d]) /\ at[d] = "done"
        BY <2>1, <3>1 DEF FlowInv
      <3>3. PICK e \in Deliveries : Flow[2] = Message(<<e>>, result[e]) /\ at[e] = "done"
        BY <2>1, <3>1 DEF FlowInv
      <3>4. d = e
        BY <2>1, <2>6, <3>2, <3>3, OnlyOne DEF TInv, SinkInv
      <3>5. Flow[1].of = Flow[2].of
        BY <3>2, <3>3, <3>4
      <3>6. \A k, l \in 1..Len(Flow) : Flow[k].of = Flow[l].of => k = l
        BY <2>1 DEF FlowInv
      <3> QED BY <3>1, <3>5, <3>6
    <2>7. Once => Len(Passed \o sink.left) <= 1
      BY <2>6 DEF Flow
    <2> QED BY <2>3, <2>4, <2>5, <2>7
  <1> QED BY <1>1, StreamInvariance, PTL
-----------------------------------------------------------------------------
(* Await.                                                                  *)

Length == Len(sources[1].results)

\* Deliveries that Await has returned, and that it can return.
Seen == Len(out) + Len(pipe.ch)

\* They are the first the source has, in order; its end closes the channel.
AwaitInv ==
  /\ apart = {} /\ phase # "failed"
  /\ collector.task = "none" /\ sink.handle = "waiting"
  /\ \A d \in Deliveries :
       /\ at[d] \in {"none", "done"}
       /\ d[2] <= Length /\ at[d] = "done" <=>
            d[2] <= Seen \/ (d[2] = Length /\ pipe.closed)
  /\ Seen <= Length /\ (phase # "done" => Len(out) < Length)
  /\ pipe.closed => Seen >= Length - 1 /\ Outcome(<<1, Length>>) = "canceled"
  /\ Len(pipe.ch) = 0 \/ pipe.ch = <<<<1, Len(out) + 1>>>>
  /\ \A j \in 1..Len(out) : out[j].kind = Outcome(<<1, j>>)

LEMMA AwaitFacts ==
  ASSUME TInv, form = "await"
  PROVE  /\ Length \in 1..MaxLength /\ MaxLength \in Nat
         /\ Len(out) \in Nat /\ out \in Seq(Messages)
         /\ pipe.ch \in Seq(Deliveries) /\ Len(pipe.ch) \in Nat
         /\ \A j \in 1..MaxLength : <<1, j>> \in Deliveries
         /\ \A d \in Deliveries : d[1] = 1 /\ d[2] \in 1..MaxLength /\ d = <<1, d[2]>>
         /\ \A j \in 1..(Length - 1) : Outcome(<<1, j>>) # "canceled"
PROOF
  <1>1. Len(sources) = 1 /\ 1 \in 1..Len(sources)
    BY SourceFacts DEF TInv
  <1>2. Length \in 1..MaxLength /\ MaxLength \in Nat
    BY <1>1, SourceFacts, DeriveAssumption DEF TInv, Length
  <1>3. pipe.ch \in Seq(Deliveries) /\ Len(pipe.ch) \in Nat
    BY Before, LenProperties DEF Pipes
  <1>4. \A j \in 1..MaxLength : <<1, j>> \in Deliveries
    BY <1>1, PairFacts DEF TInv
  <1>5. ASSUME NEW d \in Deliveries
        PROVE  d[1] = 1 /\ d[2] \in 1..MaxLength /\ d = <<1, d[2]>>
    <2>1. d[1] \in 1..Len(sources) /\ d = <<d[1], d[2]>>
      BY DeliveryFacts DEF TInv
    <2>2. d[2] \in 1..MaxLength
      BY DEF Deliveries, Most
    <2> QED BY <1>1, <2>1, <2>2
  <1>6. \A j \in 1..(Length - 1) : Outcome(<<1, j>>) # "canceled"
    BY <1>1, SourceFacts DEF TInv, Outcome, Length
  <1> QED BY <1>2, <1>3, <1>4, <1>5, <1>6, FlowAt

LEMMA AwaitSame ==
  ASSUME AwaitInv, UNCHANGED <<form, sources, at, apart, pipe, out>>,
         phase' # "failed", collector'.task = "none", sink'.handle = "waiting",
         phase = "done" => phase' = "done"
  PROVE  AwaitInv'
PROOF
  <1>1. Deliveries' = Deliveries /\ Length' = Length /\ Seen' = Seen
        /\ \A d : Outcome(d)' = Outcome(d)
    BY DEF Deliveries, Length, Seen, Outcome
  <1> QED BY <1>1 DEF AwaitInv

LEMMA AwaitStep ==
  ASSUME TInv, form = "await", AwaitInv, [Next]_vars
  PROVE  AwaitInv'
PROOF
  <1>1. CASE Build \/ Register \/ Registered \/ UNCHANGED vars
    BY <1>1, AwaitSame
       DEF Build, Register, Registered, vars, input, calls, joints, AwaitInv
  <1>2. CASE BuildFails \/ Attach \/ SinkReceive \/ SinkFinish \/ Collect \/ Collected
    BY <1>2 DEF BuildFails, Attach, SinkReceive, SinkFinish, Collect, Collected,
                AwaitInv
  <1>3. CASE Await
    <2>1. /\ phase = "attach"
          /\ UNCHANGED <<form, sources, at, apart, collector, sink>>
          /\ pipe' = [pipe EXCEPT !.ch = SubSeq(@, 2, Len(@))]
          /\ phase' = IF Len(out') = Length THEN "done" ELSE phase
      BY <1>3 DEF Await, input, calls, Length
    <2>2. pipe'.ch = SubSeq(pipe.ch, 2, Len(pipe.ch)) /\ pipe'.closed = pipe.closed
      BY <2>1, Before DEF Pipes
    <2>3. Len(out) < Length
      BY <2>1 DEF AwaitInv
    <2>4. Deliveries' = Deliveries /\ Length' = Length
          /\ \A d : Outcome(d)' = Outcome(d)
      BY <2>1 DEF Deliveries, Length, Outcome
    <2>5. \E m \in Messages : out' = Append(out, m)
                              /\ m.kind = Outcome(<<1, Len(out) + 1>>)
      <3>1. CASE pipe.ch # <<>>
        <4>1. pipe.ch = <<<<1, Len(out) + 1>>>>
          BY <3>1, AwaitFacts, EmptySeq DEF AwaitInv
        <4>2. Head(pipe.ch) = <<1, Len(out) + 1>> /\ Head(pipe.ch) = pipe.ch[1]
              /\ 1 \in 1..Len(pipe.ch)
          BY <4>1
        <4>3. Head(pipe.ch) \in Deliveries /\ Brought(Head(pipe.ch))
          BY <4>2, AwaitFacts, Before, ElementOfSeq
        <4>4. Outcome(Head(pipe.ch)) \in Outcomes
          BY <4>3, OutcomeType DEF TInv
        <4> DEFINE m == Message(<<Head(pipe.ch)>>, Outcome(Head(pipe.ch)))
        <4>5. m \in Messages /\ m.kind = Outcome(Head(pipe.ch))
          <5>1. m \in Messages
            BY <4>3, <4>4, MessageType DEF TInv
          <5> QED BY <5>1 DEF Message
        <4>6. out' = Append(out, m)
          BY <1>3, <3>1 DEF Await
        <4> QED BY <4>2, <4>5, <4>6
      <3>2. CASE pipe.ch = <<>>
        <4>1. pipe.closed /\ out' = Append(out, Message(<<>>, "canceled"))
          BY <1>3, <3>2 DEF Await
        <4>2. Len(pipe.ch) = 0
          BY <3>2, EmptySeq
        <4>3. Len(out) + 1 = Length /\ Outcome(<<1, Length>>) = "canceled"
          BY <2>3, <4>1, <4>2, AwaitFacts DEF AwaitInv, Seen
        <4>4. Message(<<>>, "canceled") \in Messages
              /\ Message(<<>>, "canceled").kind = "canceled"
          <5>1. Message(<<>>, "canceled") \in Messages
            BY MessageType DEF TInv, Outcomes
          <5> QED BY <5>1 DEF Message
        <4> QED BY <4>1, <4>3, <4>4
      <3> QED BY <3>1, <3>2
    <2>6. PICK m \in Messages : out' = Append(out, m)
                                /\ m.kind = Outcome(<<1, Len(out) + 1>>)
      BY <2>5
    <2>7. /\ Len(out') = Len(out) + 1 /\ out'[Len(out) + 1] = m
          /\ \A j \in 1..Len(out) : out'[j] = out[j]
      BY <2>6, AwaitFacts
    <2>8. \A j \in 1..Len(out') : out'[j].kind = Outcome(<<1, j>>)'
      <3> SUFFICES ASSUME NEW j \in 1..Len(out')
                   PROVE  out'[j].kind = Outcome(<<1, j>>)
        BY <2>4
      <3>1. CASE j = Len(out) + 1
        BY <2>6, <2>7, <3>1
      <3>2. CASE j # Len(out) + 1
        <4>1. j \in 1..Len(out)
          BY <2>7, <3>2, AwaitFacts
        <4> QED BY <2>7, <4>1 DEF AwaitInv
      <3> QED BY <3>1, <3>2
    <2>9. /\ Len(pipe'.ch) = 0
          /\ pipe.ch # <<>> => Len(pipe.ch) = 1
      <3>1. CASE pipe.ch = <<>>
        BY <2>2, <3>1
      <3>2. CASE pipe.ch # <<>>
        <4>1. pipe.ch = <<<<1, Len(out) + 1>>>>
          BY <3>2, AwaitFacts, EmptySeq DEF AwaitInv
        <4>2. Len(pipe.ch) = 1
          BY <4>1
        <4>3. Len(SubSeq(pipe.ch, 2, 1)) = 0
          BY <4>1
        <4> QED BY <2>2, <4>2, <4>3
      <3> QED BY <3>1, <3>2
    <2>10. Len(pipe.ch) = 0 => pipe.ch = <<>> /\ pipe.closed
      BY <1>3, AwaitFacts, EmptySeq DEF Await
    <2>11. /\ Len(pipe.ch) = 1 => Seen' = Seen
           /\ Len(pipe.ch) = 0 => Seen' = Seen + 1 /\ Seen + 1 = Length
      <3>1. Len(pipe.ch) = 0 => Len(out) + 1 = Length
        BY <2>3, <2>10, AwaitFacts DEF AwaitInv, Seen
      <3>2. /\ Seen = Len(out) + Len(pipe.ch) /\ Seen' = Len(out') + Len(pipe'.ch)
            /\ Len(out) \in Nat /\ Len(pipe.ch) \in Nat
        BY AwaitFacts DEF Seen
      <3>3. Len(out') = Len(out) + 1 /\ Len(pipe'.ch) = 0
        BY <2>7, <2>9
      <3>4. Seen' = Len(out) + 1
        BY <3>2, <3>3
      <3>5. CASE Len(pipe.ch) = 0
        BY <3>1, <3>2, <3>4, <3>5
      <3>6. CASE Len(pipe.ch) = 1
        BY <3>2, <3>4, <3>6
      <3> QED BY <3>5, <3>6
    <2>12. Len(pipe.ch) \in {0, 1}
      BY <2>9, EmptySeq, AwaitFacts
    <2>13. \A d \in Deliveries :
             /\ at'[d] \in {"none", "done"}
             /\ d[2] <= Length /\ at'[d] = "done" <=>
                  d[2] <= Seen' \/ (d[2] = Length /\ pipe'.closed)
      <3> SUFFICES ASSUME NEW d \in Deliveries
                   PROVE  d[2] <= Seen \/ (d[2] = Length /\ pipe.closed) <=>
                            d[2] <= Seen' \/ (d[2] = Length /\ pipe'.closed)
        BY <2>1 DEF AwaitInv
      <3>1. d[2] \in Nat /\ Seen \in Int /\ Length \in Int
        BY AwaitFacts DEF Seen
      <3> QED BY <2>2, <2>10, <2>11, <2>12, <3>1
    <2>14. Seen' <= Length /\ (pipe'.closed => Seen' >= Length - 1)
      <3>1. Seen \in Int /\ Length \in Int /\ Seen <= Length
            /\ (pipe.closed => Seen >= Length - 1)
        BY AwaitFacts DEF Seen, AwaitInv
      <3> QED BY <2>2, <2>11, <2>12, <3>1
    <2>15. phase' # "failed" /\ (phase' # "done" => Len(out') < Length)
      BY <2>1, <2>3, <2>7, AwaitFacts
    <2>16. pipe'.closed => Outcome(<<1, Length>>)' = "canceled"
      BY <2>2, <2>4 DEF AwaitInv
    <2> QED
      BY <2>1, <2>4, <2>8, <2>9, <2>13, <2>14, <2>15, <2>16 DEF AwaitInv
  <1>4. ASSUME NEW d \in Deliveries, AwaitHandle(d) PROVE AwaitInv'
    <2>1. /\ UNCHANGED <<form, sources, phase, apart, collector, sink, out>>
          /\ at[d] = "none" /\ d[2] <= Length
          /\ d[2] > 1 => Returned(<<d[1], d[2] - 1>>)
          /\ Shuts(d) \/ Len(pipe.ch) < 1
          /\ at' = [at EXCEPT ![d] = "done"]
          /\ pipe' = IF Shuts(d) THEN [pipe EXCEPT !.closed = TRUE]
                                 ELSE [pipe EXCEPT !.ch = Append(@, d)]
      BY <1>4, AwaitFacts DEF AwaitHandle, Calls, input, Length
    <2>2. Deliveries' = Deliveries /\ Length' = Length
          /\ \A e : Outcome(e)' = Outcome(e)
      BY <2>1 DEF Deliveries, Length, Outcome
    <2>3. d[2] \in 1..MaxLength /\ d = <<1, d[2]>> /\ d[1] = 1
      BY AwaitFacts
    <2>4. Seen \in Nat /\ Length \in Nat /\ Seen <= Length
      BY AwaitFacts DEF Seen, AwaitInv
    <2>5. d[2] = Seen + 1 /\ ~(d[2] = Length /\ pipe.closed)
      <3>1. ~(d[2] <= Seen) /\ ~(d[2] = Length /\ pipe.closed)
        BY <2>1 DEF AwaitInv
      <3>2. CASE d[2] = 1
        BY <2>3, <2>4, <3>1, <3>2
      <3>3. CASE d[2] > 1
        <4> DEFINE p == <<1, d[2] - 1>>
        <4>1. d[2] - 1 \in 1..MaxLength
          BY <2>3, <3>3, DeriveAssumption
        <4>2. p \in Deliveries /\ p[2] = d[2] - 1
          BY <4>1, AwaitFacts
        <4>3. at[p] = "done"
          BY <2>1, <2>3, <3>3, <4>2 DEF Returned, AwaitInv
        <4>4. p[2] <= Seen \/ p[2] = Length
          <5>1. p[2] <= Length
            BY <2>1, <2>3, <2>4, <4>2, DeriveAssumption
          <5> HIDE DEF p
          <5> QED BY <4>2, <4>3, <5>1 DEF AwaitInv
        <4> QED BY <2>1, <2>3, <2>4, <3>1, <4>2, <4>4
      <3> QED BY <2>3, <3>2, <3>3
    <2>6. at \in [Deliveries -> Places] /\ pipe \in Pipes
      BY Before
    <2>7. \A e \in Deliveries : /\ at'[e] \in {"none", "done"}
                                /\ at'[e] = "done" <=> at[e] = "done" \/ e[2] = d[2]
      BY <2>1, <2>3, <2>6, AwaitFacts DEF AwaitInv
    <2>8. Len(out) + 1 <= Seen + 1 /\ Seen = Len(out) + Len(pipe.ch)
      BY AwaitFacts DEF Seen
    <2>9. CASE Shuts(d)
      <3>1. pipe'.ch = pipe.ch /\ pipe'.closed
        BY <2>1, <2>6, <2>9 DEF Pipes
      <3>2. d[2] = Length /\ Outcome(<<1, Length>>) = "canceled"
        <4>1. Outcome(<<1, d[2]>>) = "canceled"
          BY <2>3, <2>9 DEF Shuts
        <4>2. d[2] \notin 1..(Length - 1)
          BY <4>1, AwaitFacts
        <4>3. d[2] = Length
          BY <2>1, <2>3, <2>4, <4>2
        <4> QED BY <4>1, <4>3
      <3>3. Seen' = Seen
        BY <2>1, <3>1 DEF Seen
      <3>4. \A e \in Deliveries :
              e[2] <= Length /\ at'[e] = "done" <=>
                e[2] <= Seen' \/ (e[2] = Length /\ pipe'.closed)
        BY <2>4, <2>5, <2>7, <3>1, <3>2, <3>3, AwaitFacts DEF AwaitInv
      <3>5. Seen' >= Length - 1
        BY <2>4, <2>5, <3>2, <3>3
      <3> QED
        BY <2>1, <2>2, <2>4, <2>7, <3>1, <3>2, <3>3, <3>4, <3>5 DEF AwaitInv
    <2>10. CASE ~Shuts(d)
      <3>1. pipe'.ch = Append(pipe.ch, d) /\ pipe'.closed = pipe.closed
            /\ Len(pipe.ch) < 1
        BY <2>1, <2>6, <2>10 DEF Pipes
      <3>2. Len(pipe.ch) = 0 /\ pipe.ch = <<>>
        BY <3>1, AwaitFacts, EmptySeq
      <3>3. pipe'.ch = <<d>> /\ Len(pipe'.ch) = 1
        BY <3>1, <3>2
      <3>4. Seen' = Seen + 1 /\ Seen = Len(out)
        <4>1. Seen = Len(out) + Len(pipe.ch) /\ Seen' = Len(out') + Len(pipe'.ch)
              /\ out' = out /\ Len(out) \in Nat
          BY <2>1, AwaitFacts DEF Seen
        <4> QED BY <3>2, <3>3, <4>1
      <3>5. pipe'.ch = <<<<1, Len(out) + 1>>>>
        BY <2>3, <2>5, <3>3, <3>4
      <3>6. ~pipe.closed
        <4>1. pipe.closed => Seen >= Length - 1
          BY DEF AwaitInv
        <4> QED BY <2>1, <2>4, <2>5, <4>1
      <3>7. \A e \in Deliveries :
              e[2] <= Length /\ at'[e] = "done" <=>
                e[2] <= Seen' \/ (e[2] = Length /\ pipe'.closed)
        <4> SUFFICES ASSUME NEW e \in Deliveries
                     PROVE  e[2] <= Length /\ (at[e] = "done" \/ e[2] = d[2])
                              <=> e[2] <= Seen + 1
          BY <2>7, <3>1, <3>4, <3>6
        <4>1. e[2] <= Length /\ at[e] = "done" <=> e[2] <= Seen
          BY <3>6 DEF AwaitInv
        <4>2. e[2] \in Nat /\ d[2] <= Length
          BY <2>1, AwaitFacts
        <4> QED BY <2>4, <2>5, <4>1, <4>2
      <3>8. Seen' <= Length
        BY <2>1, <2>4, <2>5, <3>4
      <3> QED
        BY <2>1, <2>2, <2>7, <3>1, <3>3, <3>5, <3>6, <3>7, <3>8 DEF AwaitInv
    <2> QED BY <2>9, <2>10
  <1>5. ASSUME NEW d \in Deliveries, Delivery(d) PROVE AwaitHandle(d)
    BY <1>5 DEF Delivery, CombineHandle, MapHandle, MapComplete, SinkLock,
                SinkSend, ReduceOnComplete, AwaitInv
  <1> QED BY <1>1, <1>2, <1>3, <1>4, <1>5 DEF Next, User

\* What Await after Await returns, in every run.
THEOREM AwaitInvariance == Spec => [](TInv /\ (form = "await" => AwaitInv))
PROOF
  <1>1. Init => TInv /\ (form = "await" => AwaitInv)
    <2> SUFFICES ASSUME Init, TInv, form = "await" PROVE AwaitInv
      BY TypeInit
    <2>1. /\ phase = "build" /\ out = <<>> /\ apart = {}
          /\ pipe.ch = <<>> /\ ~pipe.closed
          /\ sink.handle = "waiting" /\ collector.task = "none"
          /\ \A d \in Deliveries : at[d] = "none"
      BY DEF Init
    <2>2. Len(out) = 0 /\ Len(pipe.ch) = 0 /\ Seen = 0
      BY <2>1, EmptySeq DEF Seen
    <2>3. /\ Length \in Nat \ {0}
          /\ \A d \in Deliveries : d[2] \in Nat \ {0}
      BY AwaitFacts
    <2> QED BY <2>1, <2>2, <2>3 DEF AwaitInv
  <1>2. TInv /\ (form = "await" => AwaitInv) /\ [Next]_vars
          => (TInv /\ (form = "await" => AwaitInv))'
    BY TypeStep, FormKept, AwaitStep
  <1> QED BY <1>1, <1>2, PTL DEF Spec

\* A combined stream has everything its sources brought, once, of each source
\* in its order, and the one end after all of it; Await returns what the
\* source brought, whatever is built over whatever sources.
THEOREM NothingOvertaken == Spec => []InOrder
PROOF
  <1>1. TInv /\ StreamInv /\ form = "combine" /\ phase # "failed" =>
          /\ \A k \in DOMAIN Passed : \E d \in Deliveries :
               /\ Passed[k].of = <<d>> /\ Passed[k].kind = Outcome(d)
               /\ \A l \in 1..(k - 1) : Passed[l].of # <<d>>
               /\ \A j \in 1..(d[2] - 1) :
                    \E l \in 1..(k - 1) : Passed[l].of = <<<<d[1], j>>>>
          /\ \A d \in Deliveries :
               /\ at[d] # "refused"
               /\ at[d] = "done" /\ Outcome(d) # "canceled" => Carries(Passed, d)
    <2> SUFFICES ASSUME TInv, StreamInv, form = "combine", phase # "failed"
                 PROVE
          /\ \A k \in DOMAIN Passed : \E d \in Deliveries :
               /\ Passed[k].of = <<d>> /\ Passed[k].kind = Outcome(d)
               /\ \A l \in 1..(k - 1) : Passed[l].of # <<d>>
               /\ \A j \in 1..(d[2] - 1) :
                    \E l \in 1..(k - 1) : Passed[l].of = <<<<d[1], j>>>>
          /\ \A d \in Deliveries :
               /\ at[d] # "refused"
               /\ at[d] = "done" /\ Outcome(d) # "canceled" => Carries(Passed, d)
      OBVIOUS
    <2>1. SinkInv /\ FlowInv /\ OpenInv /\ OrderInv
      BY DEF StreamInv, Streams
    <2>2. /\ Len(Flow) \in Nat /\ Len(Flow) = Len(Passed)
          /\ DOMAIN Passed = 1..Len(Flow)
          /\ \A k \in 1..Len(Flow) : Flow[k] = Passed[k]
      <3>1. Len(sink.left) = 0
        BY <2>1, EmptySeq DEF OrderInv
      <3>2. Len(Passed) \in Nat /\ Len(Flow) = Len(Passed) + Len(sink.left)
            /\ DOMAIN Passed = 1..Len(Passed)
            /\ \A k \in 1..Len(Passed) : Flow[k] = Passed[k]
        BY FlowAt, LenProperties
      <3> QED BY <3>1, <3>2
    <2>3. ASSUME NEW k \in DOMAIN Passed
          PROVE  \E d \in Deliveries :
                   /\ Passed[k].of = <<d>> /\ Passed[k].kind = Outcome(d)
                   /\ \A l \in 1..(k - 1) : Passed[l].of # <<d>>
                   /\ \A j \in 1..(d[2] - 1) :
                        \E l \in 1..(k - 1) : Passed[l].of = <<<<d[1], j>>>>
      <3>1. k \in 1..Len(Flow) /\ Passed[k] = Flow[k]
        BY <2>2
      <3>2. PICK d \in Deliveries :
              Flow[k] = Message(<<d>>, result[d]) /\ at[d] = "done"
        BY <2>1, <3>1 DEF FlowInv
      <3>3. Flow[k].of = <<d>> /\ Flow[k].kind = Outcome(d)
        BY <2>1, <3>2 DEF Message, OpenInv
      <3>4. \A l \in 1..(k - 1) : l \in 1..Len(Flow) /\ Passed[l] = Flow[l] /\ l # k
        BY <2>2, <3>1
      <3>5. \A l \in 1..(k - 1) : Flow[l].of # <<d>>
        BY <2>1, <3>1, <3>3, <3>4 DEF FlowInv
      <3>6. ASSUME NEW j \in 1..(d[2] - 1)
            PROVE  \E l \in 1..(k - 1) : Flow[l].of = <<<<d[1], j>>>>
        <4> DEFINE e == <<d[1], j>>
        <4>1. d[1] \in 1..Len(sources) /\ d[2] \in 1..MaxLength
          BY DeliveryFacts DEF TInv, Deliveries, Most
        <4>2. j \in 1..MaxLength /\ j < d[2]
          BY <4>1, DeriveAssumption
        <4>3. e \in Deliveries /\ Earlier(e, d)
          BY <4>1, <4>2, PairFacts DEF TInv, Earlier
        <4> HIDE DEF e
        <4>4. \E l \in 1..(k - 1) : Flow[l].of = <<e>>
          BY <2>1, <3>1, <3>3, <4>3 DEF OrderInv
        <4> QED BY <4>4 DEF e
      <3> QED BY <3>1, <3>3, <3>4, <3>5, <3>6
    <2>4. ASSUME NEW d \in Deliveries
          PROVE  /\ at[d] # "refused"
                 /\ at[d] = "done" /\ Outcome(d) # "canceled" => Carries(Passed, d)
      BY <2>1, CarriedRange DEF OpenInv, OrderInv
    <2> QED BY <2>3, <2>4
  <1>2. TInv /\ AwaitInv /\ form = "await" =>
          \A j \in DOMAIN out : out[j].kind = Outcome(<<1, j>>)
    BY FlowAt DEF AwaitInv
  <1>3. TInv /\ StreamInv /\ (form = "await" => AwaitInv) => InOrder
    BY <1>1, <1>2 DEF InOrder
  <1> QED BY <1>3, StreamInvariance, AwaitInvariance, PTL
=============================================================================
