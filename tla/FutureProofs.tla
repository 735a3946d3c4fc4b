---------------------------- MODULE FutureProofs ----------------------------
(***************************************************************************)
(* Proofs about Future, for any promises, channels of any sizes and calls, *)
(* with and without deadlines, careful users or not: the types, the        *)
(* cleanness of the pooled channels, that a once promise is completed at   *)
(* most once, and that no message is lost, doubled or reordered.           *)
(*                                                                         *)
(* The argument is about who holds a channel.  Exclusive: one promise, or  *)
(* the pool.  PromiseInv follows a promise from Make to the end of Handle  *)
(* and says what its channel may hold at each point.  CallInv: whoever     *)
(* sends has the locker of a promise that is still available, and so       *)
(* Handle cannot have given the channel back.  HistoryInv relates what was *)
(* sent to what became of it.                                              *)
(***************************************************************************)
EXTENDS Future, SequenceTheorems, TLAPS

\* Handle, or Make before it, has the channel ...
Holding == {"making", "handler", "receive", "select", "finish", "release"}

\* ... and f.ch is it.
Attending == Holding \ {"release"}

Exclusive ==
  /\ \A p \in Promises : own[p] # Nil => own[p] \notin pool
  /\ \A p, q \in Promises : own[p] = own[q] /\ own[p] # Nil => p = q
  /\ \A c \in pool : buffer[c] = <<>> /\ handlers[c] = <<>> /\ ~hset[c]

\* A channel c whose promise is at t: the options' deadline, and at most one
\* handler, that is set from the registration on and taken before receive.
ChannelInv(c, t, s, d) ==
  /\ s = Size[c]
  /\ deadline[c] <=> d
  /\ Len(handlers[c]) <= 1
  /\ handlers[c] # <<>> => t = "handler" /\ hset[c]
  /\ t \in {"receive", "select", "finish", "release"} => hset[c]
  /\ t = "making" => buffer[c] = <<>> /\ ~hset[c]

PromiseInv(p) ==
  /\ own[p] # Nil <=> task[p] \in Holding
  /\ attached[p] <=> task[p] \in Attending
  /\ available[p] => task[p] \in Attending \cup {"failed"}
  /\ own[p] # Nil => ChannelInv(own[p], task[p], size[p], timed[p])

\* A call has a promise that was made.  One that sends is alone with it.
SendsAlone(k) ==
  /\ locker[target[k]] /\ available[target[k]]
  /\ \A j \in Calls : call[j] = "send" /\ target[j] = target[k] => j = k

CallInv(k) ==
  /\ call[k] # "start" =>
       kind[k] \in Kinds /\ target[k] \in Promises /\ Made(target[k])
  /\ call[k] = "send" => SendsAlone(k)

\* Conserved, one promise at a time.
Joined(g, s, l, b) == g \o s \o l \o b
ConservedAt(p) == sent[p] = Joined(got[p], spoilt[p], left[p], Buffered(p))

\* A message that the deadline or the end of Handle takes is behind all that
\* the handler got.
InTurn(p) ==
  /\ ~Made(p) => sent[p] = <<>> /\ got[p] = <<>>
  /\ spoilt[p] # <<>> => timed[p] /\ task[p] \in {"finish", "release", "gone"}
  /\ left[p] # <<>> => task[p] = "gone"

\* CompletedOnce, with why: a promise that is available has no Cancel behind
\* it nor, when it is a once promise, anything.
ClosedOnce(p) ==
  /\ size[p] = 1 => Len(sent[p]) <= 1
  /\ size[p] = 1 /\ available[p] => sent[p] = <<>>
  /\ \A i \in DOMAIN sent[p] :
       /\ call[sent[p][i]] = "true"
       /\ kind[sent[p][i]] = "cancel" => i = Len(sent[p]) /\ ~available[p]

HistoryInv(p) == ConservedAt(p) /\ InTurn(p) /\ ClosedOnce(p)

IInv ==
  /\ TypeOK
  /\ Exclusive
  /\ \A p \in Promises : PromiseInv(p) /\ HistoryInv(p)
  /\ \A k \in Calls : CallInv(k)
-----------------------------------------------------------------------------
(* Sequences: the four ways in which what was sent goes on its way.        *)

LEMMA HeadAndTail ==
  ASSUME NEW S, NEW q \in Seq(S), q # <<>>
  PROVE  /\ Head(q) \in S /\ Tail(q) \in Seq(S)
         /\ q = <<Head(q)>> \o Tail(q)
PROOF
  <1>1. Head(q) \in S /\ Tail(q) \in Seq(S)
    BY HeadTailProperties
  <1>2. q = <<Head(q)>> \o Tail(q)
    OBVIOUS
  <1> QED BY <1>1, <1>2

LEMMA Sends ==
  ASSUME NEW S, NEW g \in Seq(S), NEW s \in Seq(S), NEW l \in Seq(S),
         NEW b \in Seq(S), NEW e \in S
  PROVE  Append(Joined(g, s, l, b), e) = Joined(g, s, l, Append(b, e))
PROOF
  <1>1. PICK q \in Seq(S) : q = g \o s \o l
    <2>1. g \o s \in Seq(S)
      BY ConcatProperties
    <2> QED BY <2>1, ConcatProperties
  <1>2. q \o b \in Seq(S) /\ <<e>> \in Seq(S)
    BY ConcatProperties
  <1>3. Append(q \o b, e) = (q \o b) \o <<e>> /\ Append(b, e) = b \o <<e>>
    BY <1>2, AppendIsConcat
  <1>4. (q \o b) \o <<e>> = q \o (b \o <<e>>)
    BY <1>2, ConcatAssociative
  <1> QED BY <1>1, <1>3, <1>4 DEF Joined

LEMMA Delivers ==
  ASSUME NEW S, NEW g \in Seq(S), NEW b \in Seq(S), b # <<>>
  PROVE  Joined(g, <<>>, <<>>, b)
           = Joined(Append(g, Head(b)), <<>>, <<>>, Tail(b))
PROOF
  <1>1. PICK h \in Seq(S), r \in Seq(S) : h = <<Head(b)>> /\ r = Tail(b)
    <2>1. Tail(b) \in Seq(S) /\ <<Head(b)>> \in Seq(S)
      BY HeadAndTail
    <2> QED BY <2>1
  <1>2. b = h \o r /\ Append(g, Head(b)) = g \o h /\ g \o h \in Seq(S)
    BY <1>1, HeadAndTail, AppendIsConcat, ConcatProperties
  <1>3. g \o (h \o r) = (g \o h) \o r
    BY ConcatAssociative
  <1>4. \A q \in Seq(S) : q \o <<>> \o <<>> = q
    BY ConcatEmptySeq
  <1> QED BY <1>1, <1>2, <1>3, <1>4 DEF Joined

LEMMA Spoils ==
  ASSUME NEW S, NEW g \in Seq(S), NEW s \in Seq(S), NEW b \in Seq(S), b # <<>>
  PROVE  Joined(g, s, <<>>, b) = Joined(g, Append(s, Head(b)), <<>>, Tail(b))
PROOF
  <1>1. PICK h \in Seq(S), r \in Seq(S) : h = <<Head(b)>> /\ r = Tail(b)
    <2>1. Tail(b) \in Seq(S) /\ <<Head(b)>> \in Seq(S)
      BY HeadAndTail
    <2> QED BY <2>1
  <1>2. b = h \o r /\ Append(s, Head(b)) = s \o h /\ s \o h \in Seq(S)
    BY <1>1, HeadAndTail, AppendIsConcat, ConcatProperties
  <1>3. PICK q \in Seq(S) : q = g \o s
    BY ConcatProperties
  <1>4. q \o (h \o r) = (q \o h) \o r
    BY ConcatAssociative, SMTT(60)
  <1>5. q \o h = g \o (s \o h) /\ g \o (s \o h) \in Seq(S)
    BY <1>2, <1>3, ConcatAssociative, ConcatProperties
  <1>6. \A u \in Seq(S) : u \o <<>> = u
    BY ConcatEmptySeq
  <1>7. Joined(g, s, <<>>, b) = q \o (h \o r)
    BY <1>2, <1>3, <1>6 DEF Joined
  <1>8. Joined(g, s \o h, <<>>, r) = (q \o h) \o r
    BY <1>5, <1>6 DEF Joined
  <1> QED BY <1>1, <1>2, <1>4, <1>7, <1>8

LEMMA Leaves ==
  ASSUME NEW S, NEW g \in Seq(S), NEW s \in Seq(S), NEW b \in Seq(S)
  PROVE  Joined(g, s, <<>>, b) = Joined(g, s, b, <<>>)
PROOF
  <1>1. g \o s \in Seq(S) /\ (g \o s) \o b \in Seq(S)
    BY ConcatProperties
  <1>2. (g \o s) \o <<>> = g \o s /\ ((g \o s) \o b) \o <<>> = (g \o s) \o b
    BY <1>1, ConcatEmptySeq
  <1> QED BY <1>2 DEF Joined

\* A promise without any message.
LEMMA Nothing == Joined(<<>>, <<>>, <<>>, <<>>) = <<>>
PROOF
  BY DEF Joined
-----------------------------------------------------------------------------
(* Types.                                                                  *)

LEMMA Histories ==
  TypeOK => /\ sent \in [Promises -> Seq(Calls)]
            /\ got \in [Promises -> Seq(Calls)]
            /\ spoilt \in [Promises -> Seq(Calls)]
            /\ left \in [Promises -> Seq(Calls)]
PROOF
  BY DEF TypeOK

\* The channel of a promise whose Make or Handle has one.
LEMMA HasChannel ==
  ASSUME IInv, NEW p \in Promises, task[p] \in Holding
  PROVE  own[p] \in Channels /\ own[p] # Nil
PROOF
  BY DEF IInv, TypeOK, PromiseInv

LEMMA InitInvariant == Init => IInv
PROOF
  <1> SUFFICES ASSUME Init PROVE IInv
    OBVIOUS
  <1> USE FutureAssumption
  <1>1. TypeOK
    <2>1. <<>> \in Seq(Calls)
      BY EmptySeq
    <2> QED BY <2>1 DEF Init, TypeOK
  <1>2. Exclusive
    BY DEF Init, Exclusive
  <1>3. ASSUME NEW p \in Promises PROVE PromiseInv(p) /\ HistoryInv(p)
    <2>1. PromiseInv(p)
      BY DEF Init, PromiseInv, Holding, Attending
    <2>2. Len(<<>>) = 0 /\ DOMAIN <<>> = {}
      OBVIOUS
    <2>3. /\ sent[p] = <<>> /\ got[p] = <<>> /\ spoilt[p] = <<>>
          /\ left[p] = <<>> /\ Buffered(p) = <<>>
      BY DEF Init, Buffered
    <2> QED BY <2>1, <2>2, <2>3, Nothing
            DEF Init, HistoryInv, ConservedAt, InTurn, ClosedOnce, Made
  <1>4. \A k \in Calls : CallInv(k)
    BY DEF Init, CallInv
  <1> QED BY <1>1, <1>2, <1>3, <1>4 DEF IInv
\* A call that has not returned is about a promise Make returned, which one
\* that found f.ch still has a channel.
LEMMA Calling ==
  ASSUME IInv, NEW k \in Calls, call[k] # "start"
  PROVE  target[k] \in Promises /\ kind[k] \in Kinds /\ Made(target[k])
PROOF
  BY DEF IInv, CallInv

LEMMA Sending ==
  ASSUME IInv, NEW k \in Calls,
         \/ call[k] = "send"
         \/ call[k] = "lock" /\ attached[target[k]]
  PROVE  /\ target[k] \in Promises /\ attached[target[k]]
         /\ task[target[k]] \in Attending \ {"making"}
         /\ own[target[k]] \in Channels /\ own[target[k]] # Nil
PROOF
  <1>1. target[k] \in Promises /\ Made(target[k])
    BY Calling
  <1>2. PromiseInv(target[k])
    BY <1>1 DEF IInv
  <1>3. call[k] = "send" => available[target[k]]
    BY DEF IInv, CallInv, SendsAlone
  <1>4. task[target[k]] \in Attending \ {"making"} /\ attached[target[k]]
    BY <1>1, <1>2, <1>3 DEF PromiseInv, Made, Attending, Holding
  <1>5. own[target[k]] \in Channels /\ own[target[k]] # Nil
    BY <1>1, <1>4, HasChannel DEF Attending
  <1> QED BY <1>1, <1>4, <1>5

LEMMA TypeStep == IInv /\ [Next]_vars => TypeOK'
PROOF
  <1> SUFFICES ASSUME IInv, [Next]_vars PROVE TypeOK'
    OBVIOUS
  <1> USE DEF channelVars, optionVars, promiseVars, clockVars, callVars,
              historyVars
  <1>1. TypeOK
    BY DEF IInv
  <1>2. ASSUME NEW p \in Promises, MakeAcquire(p) PROVE TypeOK'
    <2>1. PICK c \in Channels, d \in BOOLEAN :
            /\ Acquire(c)
            /\ deadline' = [deadline EXCEPT ![c] = d]
            /\ own' = [own EXCEPT ![p] = c]
            /\ size' = [size EXCEPT ![p] = Size[c]]
            /\ timed' = [timed EXCEPT ![p] = d]
      BY <1>2 DEF MakeAcquire, NewDeadline
    <2>2. Size[c] \in Nat
      BY FutureAssumption
    <2> QED BY <1>1, <1>2, <2>1, <2>2 DEF TypeOK, MakeAcquire, Goto, Acquire
  <1>3. ASSUME NEW p \in Promises, MakeFail(p) PROVE TypeOK'
    <2>1. own[p] \in Channels
      BY <1>3, HasChannel DEF MakeFail, Goto, Holding
    <2> QED BY <1>1, <1>3, <2>1 DEF TypeOK, MakeFail, Goto, GiveBack
  <1>4. ASSUME NEW p \in Promises, MakeReturn(p) PROVE TypeOK'
    BY <1>1, <1>4 DEF TypeOK, MakeReturn, Goto
  <1>5. ASSUME NEW p \in Promises, TakeHandler(p) PROVE TypeOK'
    <2>1. own[p] \in Channels
      BY <1>5, HasChannel DEF TakeHandler, Goto, Holding
    <2>2. handlers[own[p]] \in Seq(Calls) /\ handlers[own[p]] # <<>>
      BY <1>1, <1>5, <2>1 DEF TypeOK, TakeHandler
    <2>3. /\ Head(handlers[own[p]]) \in Calls
          /\ Tail(handlers[own[p]]) \in Seq(Calls)
      BY <2>2, HeadTailProperties
    <2> QED BY <1>1, <1>5, <2>1, <2>3 DEF TypeOK, TakeHandler, Goto
  <1>6. ASSUME NEW p \in Promises, Receive(p) PROVE TypeOK'
    BY <1>1, <1>6 DEF TypeOK, Receive, Goto
  <1>7. ASSUME NEW p \in Promises, Expired(p) PROVE TypeOK'
    BY <1>1, <1>7 DEF TypeOK, Expired, Goto
  <1>8. ASSUME NEW p \in Promises, SelectMessage(p) PROVE TypeOK'
    <2>1. own[p] \in Channels
      BY <1>8, HasChannel DEF SelectMessage, Goto, Holding
    <2>2. buffer[own[p]] \in Seq(Calls) /\ buffer[own[p]] # <<>>
      BY <1>1, <1>8, <2>1 DEF TypeOK, SelectMessage
    <2>3. /\ Head(buffer[own[p]]) \in Calls
          /\ Tail(buffer[own[p]]) \in Seq(Calls)
      BY <2>2, HeadTailProperties
    <2> QED BY <1>1, <1>8, <2>1, <2>3 DEF TypeOK, SelectMessage, Goto
  <1>9. ASSUME NEW p \in Promises, SelectTimed(p) PROVE TypeOK'
    <2>1. own[p] \in Channels
      BY <1>9, HasChannel DEF SelectTimed, Goto, Holding
    <2>2. buffer[own[p]] \in Seq(Calls) /\ buffer[own[p]] # <<>>
      BY <1>1, <1>9, <2>1 DEF TypeOK, SelectTimed
    <2>3. /\ Head(buffer[own[p]]) \in Calls
          /\ Tail(buffer[own[p]]) \in Seq(Calls)
      BY <2>2, HeadTailProperties
    <2> QED BY <1>1, <1>9, <2>1, <2>3 DEF TypeOK, SelectTimed, Goto
  <1>10. ASSUME NEW p \in Promises, SelectTimer(p) PROVE TypeOK'
    BY <1>1, <1>10 DEF TypeOK, SelectTimer, Goto
  <1>11. ASSUME NEW p \in Promises, SelectContext(p) PROVE TypeOK'
    BY <1>1, <1>11 DEF TypeOK, SelectContext, Goto
  <1>12. ASSUME NEW p \in Promises, Finish(p) PROVE TypeOK'
    BY <1>1, <1>12 DEF TypeOK, Finish, Goto
  <1>13. ASSUME NEW p \in Promises, Release(p) PROVE TypeOK'
    <2>1. own[p] \in Channels
      BY <1>13, HasChannel DEF Release, Goto, Holding
    <2> QED BY <1>1, <1>13, <2>1 DEF TypeOK, Release, Goto, GiveBack
  <1>14. ASSUME NEW p \in Promises, DeadlinePasses(p) PROVE TypeOK'
    BY <1>1, <1>14 DEF TypeOK, DeadlinePasses, Goto
  <1>15. ASSUME NEW p \in Promises, ContextDone(p) PROVE TypeOK'
    BY <1>1, <1>15 DEF TypeOK, ContextDone, Goto
  <1>16. ASSUME NEW k \in Calls, SendLock(k) PROVE TypeOK'
    BY <1>1, <1>16 DEF TypeOK, SendLock, Returned
  <1>17. ASSUME NEW k \in Calls, SendRefused(k) PROVE TypeOK'
    BY <1>1, <1>17 DEF TypeOK, SendRefused, Returned
  <1>18. ASSUME NEW k \in Calls, Send(k) PROVE TypeOK'
    <2>1. target[k] \in Promises /\ own[target[k]] \in Channels
      BY <1>18, Sending DEF Send
    <2>2. StaysAvailable(k) \in BOOLEAN
      BY DEF StaysAvailable
    <2> HIDE DEF StaysAvailable
    <2>3. Append(buffer[own[target[k]]], k) \in Seq(Calls)
      BY <1>1, <2>1 DEF TypeOK
    <2>4. Append(sent[target[k]], k) \in Seq(Calls)
      BY <1>1, <2>1, Histories
    <2> QED BY <1>1, <1>18, <2>1, <2>2, <2>3, <2>4 DEF TypeOK, Send, Returned
  <1>19. ASSUME NEW k \in Calls, Register(k) PROVE TypeOK'
    <2>1. target[k] \in Promises /\ own[target[k]] \in Channels
      BY <1>19, Sending DEF Register
    <2> QED BY <1>1, <1>19, <2>1 DEF TypeOK, Register, Returned
  <1>20. ASSUME NEW k \in Calls, RegisterTwice(k) PROVE TypeOK'
    BY <1>1, <1>20 DEF TypeOK, RegisterTwice, Returned
  <1>21. ASSUME NEW k \in Calls, RegisterLate(k) PROVE TypeOK'
    BY <1>1, <1>21 DEF TypeOK, RegisterLate, Returned
  <1>22. ASSUME NEW k \in Calls, NEW p \in Promises, Call(k, p) PROVE TypeOK'
    <2>1. PICK m \in Kinds : kind' = [kind EXCEPT ![k] = m]
      BY <1>22, FutureAssumption DEF Call
    <2> QED BY <1>1, <1>22, <2>1 DEF TypeOK, Call
  <1>23. ASSUME UNCHANGED vars PROVE TypeOK'
    BY <1>1, <1>23 DEF TypeOK, vars
  <1> QED
    BY <1>2, <1>3, <1>4, <1>5, <1>6, <1>7, <1>8, <1>9, <1>10, <1>11, <1>12, <1>13,
       <1>14, <1>15, <1>16, <1>17, <1>18, <1>19, <1>20, <1>21, <1>22, <1>23
          DEF Next, MakeStep, HandleStep, CallStep
-----------------------------------------------------------------------------
(* The holders of the channels.                                            *)

\* A channel is changed by the promise that holds it.
LEMMA ExclusiveFrame ==
  ASSUME IInv, NEW p \in Promises, task[p] \in Holding,
         pool' = pool, own' = own,
         \A c \in Channels \ {own[p]} :
           /\ buffer'[c] = buffer[c] /\ handlers'[c] = handlers[c]
           /\ hset'[c] = hset[c]
  PROVE  Exclusive'
PROOF
  <1>1. Exclusive /\ own[p] \notin pool /\ pool \subseteq Channels
    BY HasChannel DEF IInv, Exclusive, TypeOK
  <1> QED BY <1>1 DEF Exclusive

LEMMA ExclusiveStep == IInv /\ [Next]_vars => Exclusive'
PROOF
  <1> SUFFICES ASSUME IInv, [Next]_vars PROVE Exclusive'
    OBVIOUS
  <1> USE DEF channelVars, optionVars, promiseVars, clockVars, callVars,
              historyVars
  <1>1. TypeOK /\ Exclusive
    BY DEF IInv
  <1>2. ASSUME UNCHANGED <<pool, buffer, handlers, hset, own>>
        PROVE  Exclusive'
    BY <1>1, <1>2 DEF Exclusive
  <1>3. ASSUME NEW p \in Promises, MakeAcquire(p) PROVE Exclusive'
    <2>1. PICK c \in Channels :
            c \in pool /\ pool' = pool \ {c} /\ own' = [own EXCEPT ![p] = c]
      BY <1>3 DEF MakeAcquire, Acquire
    <2>2. own'[p] = c /\ \A q \in Promises : q # p => own'[q] = own[q]
      BY <1>1, <2>1 DEF TypeOK
    <2>3. \A q \in Promises : own[q] # c
      BY <1>1, <2>1, FutureAssumption DEF Exclusive
    <2>4. UNCHANGED <<buffer, handlers, hset>>
      BY <1>3 DEF MakeAcquire
    <2> QED BY <1>1, <2>1, <2>2, <2>3, <2>4 DEF Exclusive
  <1>4. ASSUME NEW p \in Promises, MakeFail(p) PROVE Exclusive'
    <2>1. /\ own[p] \in Channels /\ own[p] # Nil
          /\ buffer[own[p]] = <<>> /\ handlers[own[p]] = <<>>
      BY <1>4, HasChannel
         DEF MakeFail, Goto, Holding, IInv, PromiseInv, ChannelInv
    <2>2. own'[p] = Nil /\ \A q \in Promises : q # p => own'[q] = own[q]
      BY <1>1, <1>4 DEF TypeOK, MakeFail
    <2>3. pool' = pool \cup {own[p]} /\ buffer' = buffer /\ handlers' = handlers
          /\ hset' = [hset EXCEPT ![own[p]] = FALSE]
      BY <1>4 DEF MakeFail, GiveBack
    <2>4. \A c \in pool' : buffer'[c] = <<>> /\ handlers'[c] = <<>> /\ ~hset'[c]
      BY <1>1, <2>1, <2>3 DEF TypeOK, Exclusive
    <2> QED BY <1>1, <2>1, <2>2, <2>3, <2>4 DEF Exclusive
  <1>5. ASSUME NEW p \in Promises, Release(p) PROVE Exclusive'
    <2>1. /\ own[p] \in Channels /\ own[p] # Nil
          /\ handlers[own[p]] = <<>>
      BY <1>5, HasChannel
         DEF Release, Goto, Holding, IInv, PromiseInv, ChannelInv
    <2>2. own'[p] = Nil /\ \A q \in Promises : q # p => own'[q] = own[q]
      BY <1>1, <1>5 DEF TypeOK, Release
    <2>3. /\ pool' = pool \cup {own[p]} /\ handlers' = handlers
          /\ buffer' = [buffer EXCEPT ![own[p]] = <<>>]
          /\ hset' = [hset EXCEPT ![own[p]] = FALSE]
      BY <1>5 DEF Release, GiveBack
    <2>4. \A c \in pool' : buffer'[c] = <<>> /\ handlers'[c] = <<>> /\ ~hset'[c]
      BY <1>1, <2>1, <2>3 DEF TypeOK, Exclusive
    <2> QED BY <1>1, <2>1, <2>2, <2>3, <2>4 DEF Exclusive
  <1>6. ASSUME NEW p \in Promises,
               TakeHandler(p) \/ SelectMessage(p) \/ SelectTimed(p)
        PROVE  Exclusive'
    <2>1. task[p] \in Holding
      BY <1>6 DEF TakeHandler, SelectMessage, SelectTimed, Goto, Holding
    <2>2. /\ pool' = pool /\ own' = own /\ hset' = hset
          /\ \A c \in Channels \ {own[p]} :
               buffer'[c] = buffer[c] /\ handlers'[c] = handlers[c]
      BY <1>1, <1>6 DEF TakeHandler, SelectMessage, SelectTimed, TypeOK
    <2> QED BY <2>1, <2>2, ExclusiveFrame
  <1>7. ASSUME NEW k \in Calls, Send(k) \/ Register(k) PROVE Exclusive'
    <2>1. target[k] \in Promises /\ task[target[k]] \in Holding
      BY <1>7, Sending DEF Send, Register, Attending
    <2>2. /\ pool' = pool /\ own' = own
          /\ \A c \in Channels \ {own[target[k]]} :
               /\ buffer'[c] = buffer[c] /\ handlers'[c] = handlers[c]
               /\ hset'[c] = hset[c]
      BY <1>1, <1>7 DEF Send, Register, TypeOK
    <2> QED BY <2>1, <2>2, ExclusiveFrame
  <1>8. ASSUME NEW p \in Promises,
               \/ MakeReturn(p) \/ Receive(p) \/ Expired(p) \/ SelectTimer(p)
               \/ SelectContext(p) \/ Finish(p)
               \/ DeadlinePasses(p) \/ ContextDone(p)
        PROVE  Exclusive'
    BY <1>2, <1>8 DEF MakeReturn, Receive, Expired, SelectTimer,
       SelectContext, Finish, DeadlinePasses, ContextDone
  <1>9. ASSUME NEW k \in Calls,
               \/ SendLock(k) \/ SendRefused(k)
               \/ RegisterTwice(k) \/ RegisterLate(k)
               \/ \E p \in Promises : Call(k, p)
        PROVE  Exclusive'
    BY <1>2, <1>9 DEF SendLock, SendRefused, RegisterTwice, RegisterLate, Call
  <1>10. ASSUME UNCHANGED vars PROVE Exclusive'
    BY <1>2, <1>10 DEF vars
  <1> QED BY <1>3, <1>4, <1>5, <1>6, <1>7, <1>8, <1>9, <1>10
          DEF Next, MakeStep, HandleStep, CallStep
-----------------------------------------------------------------------------
(* A promise and its channel, step by step.                                *)

\* The step leaves q, its channel and its histories alone.
Untouched(q) ==
  /\ own'[q] = own[q] /\ size'[q] = size[q] /\ timed'[q] = timed[q]
  /\ attached'[q] = attached[q] /\ available'[q] = available[q]
  /\ task'[q] = task[q]
  /\ own[q] # Nil =>
       /\ buffer'[own[q]] = buffer[own[q]]
       /\ handlers'[own[q]] = handlers[own[q]]
       /\ hset'[own[q]] = hset[own[q]]
       /\ deadline'[own[q]] = deadline[own[q]]
  /\ sent'[q] = sent[q] /\ got'[q] = got[q]
  /\ spoilt'[q] = spoilt[q] /\ left'[q] = left[q]

\* The steps that are about p ...
StepOf(p) ==
  \/ MakeAcquire(p) \/ MakeStep(p) \/ HandleStep(p)
  \/ DeadlinePasses(p) \/ ContextDone(p)

\* ... and those of a call of p.
CallOf(k, p) == target[k] = p /\ call[k] # "start" /\ CallStep(k)

LEMMA CallsOnly ==
  ASSUME NEW k \in Calls, CallStep(k)
  PROVE  call[k] # "start"
PROOF
  BY DEF CallStep, SendLock, SendRefused, Send, Register, RegisterTwice,
         RegisterLate

\* What is not at p is left alone by a step of p: no two promises have the
\* same channel, and what comes out of the pool nobody has.
LEMMA OthersUntouched ==
  ASSUME IInv, NEW p \in Promises, StepOf(p) \/ \E k \in Calls : CallOf(k, p),
         NEW q \in Promises, q # p
  PROVE  Untouched(q)
PROOF
  <1> USE DEF channelVars, optionVars, promiseVars, clockVars, callVars,
              historyVars
  <1>1. TypeOK /\ Exclusive
    BY DEF IInv
  <1>2. own[q] # Nil
          => own[q] \in Channels /\ own[q] # own[p] /\ own[q] \notin pool
    BY <1>1 DEF TypeOK, Exclusive
  <1>3. CASE MakeAcquire(p)
    <2>1. PICK c \in Channels, d \in BOOLEAN :
            /\ c \in pool
            /\ deadline' = [deadline EXCEPT ![c] = d]
            /\ own' = [own EXCEPT ![p] = c]
            /\ size' = [size EXCEPT ![p] = Size[c]]
            /\ timed' = [timed EXCEPT ![p] = d]
      BY <1>3 DEF MakeAcquire, NewDeadline, Acquire
    <2> QED BY <1>1, <1>2, <1>3, <2>1 DEF TypeOK, MakeAcquire, Goto, Untouched
  <1>4. CASE MakeStep(p)
    BY <1>1, <1>2, <1>4
       DEF TypeOK, MakeStep, MakeFail, MakeReturn, Goto, GiveBack, Untouched
  <1>5. CASE TakeHandler(p) \/ Receive(p) \/ Expired(p) \/ SelectTimer(p)
             \/ SelectContext(p) \/ Finish(p)
    BY <1>1, <1>2, <1>5
       DEF TypeOK, TakeHandler, Receive, Expired, SelectTimer, SelectContext,
           Finish, Goto, Untouched
  <1>6. CASE SelectMessage(p) \/ SelectTimed(p)
    BY <1>1, <1>2, <1>6, Histories
       DEF TypeOK, SelectMessage, SelectTimed, Goto, Untouched
  <1>7. CASE Release(p)
    BY <1>1, <1>2, <1>7, Histories
       DEF TypeOK, Release, GiveBack, Goto, Untouched
  <1>8. CASE DeadlinePasses(p) \/ ContextDone(p)
    BY <1>8 DEF DeadlinePasses, ContextDone, Untouched
  <1>9. CASE \E k \in Calls : CallOf(k, p)
    <2>1. PICK k \in Calls : target[k] = p /\ CallStep(k)
      BY <1>9 DEF CallOf
    <2>2. CASE Send(k)
      BY <1>1, <1>2, <2>1, <2>2, Histories DEF TypeOK, Send, Untouched
    <2>3. CASE Register(k)
      BY <1>1, <1>2, <2>1, <2>3 DEF TypeOK, Register, Untouched
    <2>4. CASE \/ SendLock(k) \/ SendRefused(k)
               \/ RegisterTwice(k) \/ RegisterLate(k)
      BY <2>4 DEF SendLock, SendRefused, RegisterTwice, RegisterLate, Untouched
    <2> QED BY <2>1, <2>2, <2>3, <2>4 DEF CallStep
  <1> QED BY <1>3, <1>4, <1>5, <1>6, <1>7, <1>8, <1>9 DEF StepOf, HandleStep

\* Steps that touch no promise at all.
LEMMA AllUntouched ==
  ASSUME \/ \E k \in Calls, p \in Promises : Call(k, p)
         \/ UNCHANGED vars,
         NEW q \in Promises
  PROVE  Untouched(q)
PROOF
  BY DEF Call, vars, channelVars, promiseVars, optionVars, historyVars,
         Untouched

LEMMA PromiseFrame ==
  ASSUME NEW q \in Promises, PromiseInv(q), Untouched(q)
  PROVE  PromiseInv(q)'
PROOF
  BY DEF PromiseInv, ChannelInv, Untouched

LEMMA PromiseOwn ==
  ASSUME IInv, NEW p \in Promises, StepOf(p)
  PROVE  PromiseInv(p)'
PROOF
  <1> USE DEF channelVars, optionVars, promiseVars, clockVars, callVars,
              historyVars
  <1>1. TypeOK /\ Exclusive /\ PromiseInv(p)
    BY DEF IInv
  <1>2. task[p] \in Holding =>
          /\ own[p] \in Channels /\ own[p] # Nil
          /\ ChannelInv(own[p], task[p], size[p], timed[p])
    BY <1>1, HasChannel DEF PromiseInv
  <1>3. CASE MakeAcquire(p)
    <2>1. PICK c \in Channels, d \in BOOLEAN :
            /\ c \in pool
            /\ deadline' = [deadline EXCEPT ![c] = d]
            /\ own' = [own EXCEPT ![p] = c]
            /\ size' = [size EXCEPT ![p] = Size[c]]
            /\ timed' = [timed EXCEPT ![p] = d]
      BY <1>3 DEF MakeAcquire, NewDeadline, Acquire
    <2>2. buffer[c] = <<>> /\ handlers[c] = <<>> /\ ~hset[c] /\ c # Nil
      BY <1>1, <2>1, FutureAssumption DEF Exclusive
    <2>3. /\ own'[p] = c /\ size'[p] = Size[c] /\ (timed'[p] <=> d)
          /\ (deadline'[c] <=> d) /\ task'[p] = "making"
          /\ attached'[p] /\ buffer' = buffer /\ handlers' = handlers
          /\ hset' = hset
      BY <1>1, <1>3, <2>1 DEF TypeOK, MakeAcquire, Goto
    <2> QED BY <2>2, <2>3 DEF PromiseInv, ChannelInv, Holding, Attending
  <1>4. CASE MakeFail(p)
    BY <1>1, <1>4 DEF TypeOK, MakeFail, Goto, PromiseInv, Holding, Attending
  <1>5. CASE MakeReturn(p)
    BY <1>1, <1>2, <1>5
       DEF TypeOK, MakeReturn, Goto, PromiseInv, ChannelInv, Holding, Attending
  <1>6. CASE TakeHandler(p)
    <2>1. /\ handlers[own[p]] \in Seq(Calls) /\ handlers[own[p]] # <<>>
          /\ Len(handlers[own[p]]) <= 1 /\ hset[own[p]]
      BY <1>1, <1>2, <1>6
         DEF TakeHandler, Goto, Holding, TypeOK, ChannelInv
    <2>2. Tail(handlers[own[p]]) = <<>>
      BY <2>1
    <2>3. /\ handlers'[own[p]] = <<>> /\ hset' = hset
          /\ task[p] = "handler" /\ task'[p] = "receive"
      BY <1>1, <1>2, <1>6, <2>2 DEF TakeHandler, Goto, Holding, TypeOK
    <2> QED BY <1>1, <1>2, <1>6, <2>1, <2>3
            DEF TakeHandler, PromiseInv, ChannelInv, Holding, Attending
  <1>7. CASE Receive(p) \/ Expired(p) \/ SelectTimer(p) \/ SelectContext(p)
    <2>1. /\ task[p] \in {"receive", "select"}
          /\ task'[p] \in {"receive", "select", "finish"}
          /\ UNCHANGED <<channelVars, promiseVars>>
      BY <1>1, <1>7
         DEF TypeOK, Receive, Expired, SelectTimer, SelectContext, Goto
    <2> QED BY <1>1, <1>2, <2>1 DEF PromiseInv, ChannelInv, Holding, Attending
  <1>8. CASE SelectMessage(p) \/ SelectTimed(p)
    <2>1. /\ task[p] = "select" /\ task'[p] \in {"receive", "finish"}
          /\ UNCHANGED <<handlers, hset, deadline, promiseVars>>
      BY <1>1, <1>8 DEF TypeOK, SelectMessage, SelectTimed, Goto
    <2> QED BY <1>1, <1>2, <2>1 DEF PromiseInv, ChannelInv, Holding, Attending
  <1>9. CASE Finish(p)
    BY <1>1, <1>2, <1>9
       DEF TypeOK, Finish, Goto, PromiseInv, ChannelInv, Holding, Attending
  <1>10. CASE Release(p)
    BY <1>1, <1>10
       DEF TypeOK, Release, Goto, PromiseInv, Holding, Attending
  <1>11. CASE DeadlinePasses(p) \/ ContextDone(p)
    <2>1. Untouched(p)
      BY <1>11 DEF DeadlinePasses, ContextDone, Untouched
    <2> QED BY <1>1, <2>1, PromiseFrame
  <1> QED BY <1>3, <1>4, <1>5, <1>6, <1>7, <1>8, <1>9, <1>10, <1>11
          DEF StepOf, MakeStep, HandleStep

LEMMA PromiseCalled ==
  ASSUME IInv, NEW p \in Promises, NEW k \in Calls, CallOf(k, p)
  PROVE  PromiseInv(p)'
PROOF
  <1> USE DEF channelVars, optionVars, promiseVars, clockVars, callVars,
              historyVars
  <1>1. target[k] = p
    BY DEF CallOf
  <1>2. TypeOK /\ PromiseInv(p)
    BY DEF IInv
  <1>3. CASE Send(k)
    <2>1. task[p] \in Attending \ {"making"} /\ own[p] \in Channels
      BY <1>1, <1>3, Sending DEF Send
    <2> QED BY <1>1, <1>2, <1>3, <2>1
            DEF TypeOK, Send, PromiseInv, ChannelInv, Attending
  <1>4. CASE Register(k)
    <2>1. task[p] = "handler" /\ own[p] \in Channels
      BY <1>1, <1>2, <1>4, Sending
         DEF Register, PromiseInv, ChannelInv, Attending, Holding
    <2>2. handlers[own[p]] \in Seq(Calls) /\ Len(handlers[own[p]]) < 1
      BY <1>1, <1>2, <1>4, <2>1 DEF TypeOK, Register
    <2>3. Len(Append(handlers[own[p]], k)) <= 1
      BY <2>2
    <2>4. /\ handlers'[own[p]] = Append(handlers[own[p]], k)
          /\ hset'[own[p]]
      BY <1>1, <1>2, <1>4, <2>1 DEF TypeOK, Register
    <2>5. UNCHANGED <<promiseVars, task, buffer, deadline>>
      BY <1>4 DEF Register
    <2>6. ChannelInv(own[p], task[p], size[p], timed[p])'
      BY <1>2, <2>1, <2>3, <2>4, <2>5
         DEF PromiseInv, ChannelInv, Holding
    <2> QED BY <1>2, <2>5, <2>6 DEF PromiseInv
  <1>5. CASE \/ SendLock(k) \/ SendRefused(k)
             \/ RegisterTwice(k) \/ RegisterLate(k)
    <2>1. Untouched(p)
      BY <1>5 DEF SendLock, SendRefused, RegisterTwice, RegisterLate, Untouched
    <2> QED BY <1>2, <2>1, PromiseFrame
  <1> QED BY <1>3, <1>4, <1>5 DEF CallOf, CallStep

LEMMA PromiseStep ==
  ASSUME IInv, [Next]_vars, NEW q \in Promises
  PROVE  PromiseInv(q)'
PROOF
  <1>1. PromiseInv(q)
    BY DEF IInv
  <1>2. ASSUME NEW p \in Promises, StepOf(p) PROVE PromiseInv(q)'
    BY <1>1, <1>2, PromiseOwn, OthersUntouched, PromiseFrame
  <1>3. ASSUME NEW k \in Calls, CallStep(k) PROVE PromiseInv(q)'
    <2>1. PICK p \in Promises : CallOf(k, p)
      BY <1>3, CallsOnly, Calling DEF CallOf
    <2>2. CASE q = p
      BY <2>1, <2>2, PromiseCalled
    <2>3. CASE q # p
      BY <1>1, <2>1, <2>3, OthersUntouched, PromiseFrame
    <2> QED BY <2>2, <2>3
  <1>4. ASSUME \/ \E k \in Calls, p \in Promises : Call(k, p)
               \/ UNCHANGED vars
        PROVE  PromiseInv(q)'
    BY <1>1, <1>4, AllUntouched, PromiseFrame
  <1> QED BY <1>2, <1>3, <1>4 DEF Next, StepOf
-----------------------------------------------------------------------------
(* Calls: what Make returned stays made, and only a call without a promise *)
(* gets one.                                                               *)

LEMMA MadeStays ==
  ASSUME IInv, [Next]_vars, NEW q \in Promises, Made(q)
  PROVE  Made(q)'
PROOF
  <1>1. ASSUME NEW p \in Promises, StepOf(p) PROVE Made(q)'
    <2>1. CASE q # p
      BY <1>1, <2>1, OthersUntouched DEF Untouched, Made
    <2>2. CASE q = p
      <3>1. TypeOK
        BY DEF IInv
      <3> QED BY <1>1, <2>2, <3>1
              DEF TypeOK, StepOf, MakeAcquire, MakeStep, MakeFail, MakeReturn,
                  HandleStep, TakeHandler, Receive, Expired, SelectMessage,
                  SelectTimed, SelectTimer, SelectContext, Finish, Release,
                  DeadlinePasses, ContextDone, Goto, Made
    <2> QED BY <2>1, <2>2
  <1>2. ASSUME NEW k \in Calls, CallStep(k) PROVE task' = task
    BY <1>2 DEF CallStep, SendLock, SendRefused, Send, Register,
                RegisterTwice, RegisterLate
  <1>3. ASSUME \/ \E k \in Calls, p \in Promises : Call(k, p)
               \/ UNCHANGED vars
        PROVE  task' = task
    BY <1>3 DEF Call, vars
  <1> QED BY <1>1, <1>2, <1>3 DEF Next, StepOf, Made

LEMMA CallsKept ==
  ASSUME IInv, [Next]_vars, NEW k \in Calls, call[k] # "start"
  PROVE  /\ kind'[k] = kind[k] /\ target'[k] = target[k]
         /\ call'[k] # "start"
         /\ call[k] = "true" => call'[k] = "true"
PROOF
  <1>1. TypeOK
    BY DEF IInv
  <1>2. ASSUME NEW p \in Promises, StepOf(p) PROVE UNCHANGED callVars
    BY <1>2 DEF StepOf, MakeAcquire, MakeStep, MakeFail, MakeReturn,
                HandleStep, TakeHandler, Receive, Expired, SelectMessage,
                SelectTimed, SelectTimer, SelectContext, Finish, Release,
                DeadlinePasses, ContextDone, callVars
  <1>3. ASSUME NEW j \in Calls, CallStep(j)
        PROVE  /\ UNCHANGED <<kind, target>> /\ call[j] \in {"lock", "send"}
               /\ \E r \in {"send", "panic"} \cup Returned :
                    call' = [call EXCEPT ![j] = r]
    BY <1>3 DEF CallStep, SendLock, SendRefused, Send, Register,
                RegisterTwice, RegisterLate, Returned
  <1>4. ASSUME NEW j \in Calls, NEW p \in Promises, Call(j, p)
        PROVE  /\ kind'[k] = kind[k] /\ target'[k] = target[k]
               /\ call'[k] = call[k]
    BY <1>1, <1>4 DEF Call, TypeOK
  <1>5. ASSUME UNCHANGED vars PROVE UNCHANGED callVars
    BY <1>5 DEF vars
  <1> QED BY <1>1, <1>2, <1>3, <1>4, <1>5
          DEF Next, StepOf, callVars, TypeOK, Returned

LEMMA CallInvStep ==
  ASSUME IInv, [Next]_vars, NEW k \in Calls
  PROVE  CallInv(k)'
PROOF
  <1>1. TypeOK /\ CallInv(k)
    BY DEF IInv
  <1>2. call'[k] # "start" =>
          kind'[k] \in Kinds /\ target'[k] \in Promises /\ Made(target[k])'
    <2>1. CASE call[k] # "start"
      <3>1. target[k] \in Promises /\ kind[k] \in Kinds /\ Made(target[k])
        BY <2>1, Calling
      <3>2. kind'[k] = kind[k] /\ target'[k] = target[k]
        BY <2>1, CallsKept
      <3>3. PICK p \in Promises : p = target[k]
        BY <3>1
      <3>4. Made(p)'
        BY <3>1, <3>3, MadeStays
      <3> QED BY <3>1, <3>2, <3>3, <3>4 DEF Made
    <2>2. CASE call[k] = "start"
      <3>1. ASSUME NEW p \in Promises, StepOf(p) PROVE UNCHANGED callVars
        BY <3>1 DEF StepOf, MakeAcquire, MakeStep, MakeFail, MakeReturn,
                    HandleStep, TakeHandler, Receive, Expired, SelectMessage,
                    SelectTimed, SelectTimer, SelectContext, Finish, Release,
                    DeadlinePasses, ContextDone, callVars
      <3>2. ASSUME NEW j \in Calls, CallStep(j)
            PROVE  j # k /\ \E r \in {"send", "panic"} \cup Returned :
                              call' = [call EXCEPT ![j] = r]
        BY <2>2, <3>2 DEF CallStep, SendLock, SendRefused, Send, Register,
                          RegisterTwice, RegisterLate, Returned
      <3>3. ASSUME NEW j \in Calls, NEW p \in Promises, Call(j, p), j # k
            PROVE  call'[k] = call[k]
        BY <1>1, <3>3 DEF Call, TypeOK
      <3>4. ASSUME NEW p \in Promises, Call(k, p)
            PROVE  /\ kind'[k] \in Kinds /\ target'[k] = p
                   /\ Made(p) /\ task' = task
        <4>1. PICK m \in Kinds : kind' = [kind EXCEPT ![k] = m]
          BY <3>4, FutureAssumption DEF Call
        <4> QED BY <1>1, <3>4, <4>1 DEF Call, TypeOK
      <3>5. ASSUME UNCHANGED vars PROVE UNCHANGED callVars
        BY <3>5 DEF vars
      <3> QED BY <1>1, <2>2, <3>1, <3>2, <3>3, <3>4, <3>5
              DEF Next, StepOf, callVars, TypeOK, Made
    <2> QED BY <2>1, <2>2
  <1>3. call'[k] = "send" => SendsAlone(k)'
    <2> DEFINE Others == \A i \in Calls : call[i] = "send" => SendsAlone(i)
    <2>1. Others
      BY DEF IInv, CallInv, SendsAlone
    <2>2. ASSUME NEW p \in Promises, StepOf(p), call'[k] = "send"
          PROVE  SendsAlone(k)'
      <3>1. /\ UNCHANGED <<callVars, locker>>
            /\ \/ UNCHANGED available
               \/ available' = [available EXCEPT ![p] = TRUE]
               \/ LockFree(p) /\ available' = [available EXCEPT ![p] = FALSE]
        BY <2>2 DEF StepOf, MakeAcquire, MakeStep, MakeFail, MakeReturn,
                    HandleStep, TakeHandler, Receive, Expired, SelectMessage,
                    SelectTimed, SelectTimer, SelectContext, Finish, Release,
                    DeadlinePasses, ContextDone, callVars, promiseVars
      <3>2. call[k] = "send" /\ target[k] \in Promises /\ SendsAlone(k)
        BY <2>1, <2>2, <3>1, Calling DEF callVars
      <3> QED BY <1>1, <3>1, <3>2 DEF callVars, TypeOK, SendsAlone, LockFree
    <2>3. ASSUME NEW j \in Calls, SendLock(j), call'[k] = "send"
          PROVE  SendsAlone(k)'
      <3>1. target[j] \in Promises
        BY <2>3, Calling DEF SendLock
      <3>2. \A i \in Calls : call[i] = "send" => target[i] # target[j]
        BY <2>1, <2>3 DEF SendLock, LockFree, SendsAlone
      <3>3. /\ call' = [call EXCEPT ![j] = "send"]
            /\ locker' = [locker EXCEPT ![target[j]] = TRUE]
            /\ UNCHANGED <<target, available>> /\ available[target[j]]
        BY <2>3 DEF SendLock, promiseVars
      <3>4. CASE k = j
        BY <1>1, <3>1, <3>2, <3>3, <3>4 DEF TypeOK, SendsAlone
      <3>5. CASE k # j
        <4>1. call[k] = "send" /\ target[k] \in Promises /\ SendsAlone(k)
          BY <1>1, <2>1, <2>3, <3>3, <3>5, Calling DEF TypeOK
        <4> QED BY <1>1, <3>1, <3>2, <3>3, <3>5, <4>1 DEF TypeOK, SendsAlone
      <3> QED BY <3>4, <3>5
    <2>4. ASSUME NEW j \in Calls, Send(j), call'[k] = "send"
          PROVE  SendsAlone(k)'
      <3>1. target[j] \in Promises /\ call[j] = "send"
        BY <2>4, Calling DEF Send
      <3>2. /\ call' = [call EXCEPT ![j] = "true"]
            /\ locker' = [locker EXCEPT ![target[j]] = FALSE]
            /\ available' = [available EXCEPT ![target[j]] = StaysAvailable(j)]
            /\ target' = target
        BY <2>4 DEF Send
      <3>3. /\ k # j /\ call[k] = "send"
            /\ target[k] \in Promises /\ SendsAlone(k)
        BY <1>1, <2>1, <2>4, <3>2, Calling DEF TypeOK
      <3>4. target[k] # target[j]
        BY <2>1, <3>1, <3>3 DEF SendsAlone
      <3> QED BY <1>1, <3>1, <3>2, <3>3, <3>4 DEF TypeOK, SendsAlone
    <2>5. ASSUME NEW j \in Calls,
                 \/ SendRefused(j) \/ Register(j) \/ RegisterTwice(j)
                 \/ RegisterLate(j) \/ \E p \in Promises : Call(j, p),
                 call'[k] = "send"
          PROVE  SendsAlone(k)'
      <3>1. /\ call[j] # "send" /\ call'[j] # "send"
            /\ \A i \in Calls \ {j} : call'[i] = call[i] /\ target'[i] = target[i]
            /\ UNCHANGED <<locker, available>>
        BY <1>1, <2>5
           DEF TypeOK, SendRefused, Register, RegisterTwice, RegisterLate, Call,
               promiseVars
      <3>2. k # j /\ call[k] = "send" /\ SendsAlone(k)
        BY <2>1, <2>5, <3>1
      <3> QED BY <3>1, <3>2 DEF SendsAlone
    <2>6. ASSUME UNCHANGED vars, call'[k] = "send" PROVE SendsAlone(k)'
      BY <2>1, <2>6 DEF vars, callVars, promiseVars, SendsAlone
    <2> QED BY <2>2, <2>3, <2>4, <2>5, <2>6 DEF Next, StepOf, CallStep
  <1> QED BY <1>2, <1>3 DEF CallInv, SendsAlone
-----------------------------------------------------------------------------
(* Histories.                                                              *)

LEMMA HistoryFrame ==
  ASSUME IInv, [Next]_vars, NEW q \in Promises, Untouched(q)
  PROVE  HistoryInv(q)'
PROOF
  <1>1. HistoryInv(q) /\ TypeOK
    BY DEF IInv
  <1>2. ConservedAt(q)' /\ InTurn(q)'
    BY <1>1 DEF Untouched, HistoryInv, ConservedAt, InTurn, Buffered, Made
  <1>3. \A i \in DOMAIN sent[q] : sent[q][i] \in Calls
    BY <1>1, Histories, ElementOfSeq, LenProperties
  <1>4. \A i \in DOMAIN sent[q] :
          /\ kind'[sent[q][i]] = kind[sent[q][i]]
          /\ call'[sent[q][i]] = "true"
    BY <1>1, <1>3, CallsKept DEF HistoryInv, ClosedOnce
  <1>5. ClosedOnce(q)'
    BY <1>1, <1>4 DEF Untouched, HistoryInv, ClosedOnce
  <1> QED BY <1>2, <1>5 DEF HistoryInv

\* The same for a step that only moves Handle on, or moves messages.
LEMMA ClosedFrame ==
  ASSUME IInv, [Next]_vars, NEW q \in Promises,
         sent'[q] = sent[q], size'[q] = size[q], available'[q] => available[q]
  PROVE  ClosedOnce(q)'
PROOF
  <1>1. ClosedOnce(q) /\ TypeOK
    BY DEF IInv, HistoryInv
  <1>2. \A i \in DOMAIN sent[q] : sent[q][i] \in Calls
    BY <1>1, Histories, ElementOfSeq, LenProperties
  <1>3. \A i \in DOMAIN sent[q] :
          /\ kind'[sent[q][i]] = kind[sent[q][i]]
          /\ call'[sent[q][i]] = "true"
    BY <1>1, <1>2, CallsKept DEF ClosedOnce
  <1> QED BY <1>1, <1>3 DEF ClosedOnce

LEMMA HistoryOwn ==
  ASSUME IInv, [Next]_vars, NEW p \in Promises, StepOf(p)
  PROVE  HistoryInv(p)'
PROOF
  <1> USE DEF channelVars, optionVars, promiseVars, clockVars, callVars,
              historyVars
  <1>1. TypeOK /\ Exclusive /\ HistoryInv(p)
    BY DEF IInv
  <1>2. /\ sent[p] \in Seq(Calls) /\ got[p] \in Seq(Calls)
        /\ spoilt[p] \in Seq(Calls) /\ left[p] \in Seq(Calls)
    BY <1>1, Histories
  <1>3. task[p] \in Holding =>
          /\ own[p] \in Channels /\ own[p] # Nil
          /\ Buffered(p) = buffer[own[p]] /\ buffer[own[p]] \in Seq(Calls)
          /\ ChannelInv(own[p], task[p], size[p], timed[p])
    BY <1>1, HasChannel DEF Buffered, TypeOK, IInv, PromiseInv
  <1>4. CASE MakeAcquire(p)
    <2>1. PICK c \in Channels, d \in BOOLEAN :
            /\ c \in pool /\ own' = [own EXCEPT ![p] = c]
            /\ size' = [size EXCEPT ![p] = Size[c]]
      BY <1>4 DEF MakeAcquire, Acquire
    <2>2. /\ sent[p] = <<>> /\ got[p] = <<>> /\ spoilt[p] = <<>>
          /\ left[p] = <<>> /\ buffer[c] = <<>> /\ c # Nil
      BY <1>1, <1>4, <2>1, FutureAssumption
         DEF MakeAcquire, Goto, HistoryInv, InTurn, Made, Exclusive
    <2>3. /\ own'[p] = c /\ task'[p] = "making"
          /\ UNCHANGED <<buffer, historyVars>>
      BY <1>1, <1>4, <2>1 DEF TypeOK, MakeAcquire, Goto
    <2>4. /\ sent'[p] = <<>> /\ got'[p] = <<>> /\ spoilt'[p] = <<>>
          /\ left'[p] = <<>> /\ Buffered(p)' = <<>>
      BY <2>2, <2>3 DEF Buffered
    <2>5. Len(<<>>) = 0 /\ DOMAIN <<>> = {}
      OBVIOUS
    <2> QED BY <2>3, <2>4, <2>5, Nothing
            DEF HistoryInv, ConservedAt, InTurn, ClosedOnce, Made
  <1>5. CASE MakeFail(p)
    <2>1. /\ buffer[own[p]] = <<>> /\ own'[p] = Nil /\ task'[p] = "failed"
          /\ task[p] = "making" /\ UNCHANGED <<available, size, historyVars>>
      BY <1>1, <1>3, <1>5 DEF MakeFail, Goto, TypeOK, Holding, ChannelInv
    <2>2. ConservedAt(p)'
      BY <1>1, <1>3, <2>1 DEF HistoryInv, ConservedAt, Buffered, Holding
    <2>3. InTurn(p)'
      BY <1>1, <2>1 DEF HistoryInv, InTurn, Made
    <2> QED BY <2>1, <2>2, <2>3, ClosedFrame DEF HistoryInv
  <1>6. CASE \/ MakeReturn(p) \/ TakeHandler(p) \/ Receive(p) \/ Expired(p)
             \/ SelectTimer(p) \/ SelectContext(p) \/ Finish(p)
    <2>1. /\ task[p] \in Holding \ {"release"}
          /\ task'[p] \in Holding
          /\ task[p] = "finish" => task'[p] = "release"
          /\ Made(p)'
      BY <1>1, <1>6
         DEF TypeOK, MakeReturn, TakeHandler, Receive, Expired, SelectTimer,
             SelectContext, Finish, Goto, Holding, Made
    <2>2. UNCHANGED <<own, size, timed, buffer, historyVars>>
      BY <1>6 DEF MakeReturn, TakeHandler, Receive, Expired, SelectTimer,
                  SelectContext, Finish
    <2>3. available'[p] => available[p]
      BY <1>1, <1>6 DEF TypeOK, MakeReturn, TakeHandler, Receive, Expired,
                  SelectTimer, SelectContext, Finish
    <2>4. ConservedAt(p)'
      BY <1>1, <2>2 DEF HistoryInv, ConservedAt, Buffered
    <2>5. InTurn(p)'
      BY <1>1, <2>1, <2>2 DEF HistoryInv, InTurn, Holding
    <2> QED BY <2>2, <2>3, <2>4, <2>5, ClosedFrame DEF HistoryInv
  <1>7. CASE SelectMessage(p)
    <2>1. /\ task[p] = "select" /\ buffer[own[p]] # <<>>
          /\ own[p] \in Channels /\ buffer[own[p]] \in Seq(Calls)
      BY <1>3, <1>7 DEF SelectMessage, Holding
    <2>2. /\ buffer'[own[p]] = Tail(buffer[own[p]])
          /\ got'[p] = Append(got[p], Head(buffer[own[p]]))
          /\ task'[p] \in {"receive", "finish"}
          /\ UNCHANGED <<own, size, timed, available, sent, spoilt, left>>
      BY <1>1, <1>7, <2>1, Histories DEF SelectMessage, Goto, TypeOK
    <2>3. spoilt[p] = <<>> /\ left[p] = <<>>
      BY <1>1, <2>1 DEF HistoryInv, InTurn
    <2>4. ConservedAt(p)'
      <3>1. sent[p] = Joined(got[p], <<>>, <<>>, buffer[own[p]])
        BY <1>1, <1>3, <2>1, <2>3 DEF HistoryInv, ConservedAt, Holding
      <3>2. Buffered(p)' = Tail(buffer[own[p]])
        BY <1>3, <2>1, <2>2 DEF Buffered, Holding
      <3>3. sent[p] = Joined(got'[p], <<>>, <<>>, Tail(buffer[own[p]]))
        BY <1>2, <2>1, <2>2, <3>1, Delivers
      <3> QED BY <2>2, <2>3, <3>2, <3>3 DEF ConservedAt
    <2>5. InTurn(p)'
      BY <2>2, <2>3 DEF InTurn, Made
    <2> QED BY <2>2, <2>4, <2>5, ClosedFrame DEF HistoryInv
  <1>8. CASE SelectTimed(p)
    <2>1. /\ task[p] = "select" /\ buffer[own[p]] # <<>> /\ timed[p]
          /\ own[p] \in Channels /\ buffer[own[p]] \in Seq(Calls)
      BY <1>3, <1>8 DEF SelectTimed, Goto, Holding, ChannelInv
    <2>2. /\ buffer'[own[p]] = Tail(buffer[own[p]])
          /\ spoilt'[p] = Append(spoilt[p], Head(buffer[own[p]]))
          /\ task'[p] = "finish"
          /\ UNCHANGED <<own, size, timed, available, sent, got, left>>
      BY <1>1, <1>8, <2>1, Histories DEF SelectTimed, Goto, TypeOK
    <2>3. left[p] = <<>>
      BY <1>1, <2>1 DEF HistoryInv, InTurn
    <2>4. ConservedAt(p)'
      <3>1. sent[p] = Joined(got[p], spoilt[p], <<>>, buffer[own[p]])
        BY <1>1, <1>3, <2>1, <2>3 DEF HistoryInv, ConservedAt, Holding
      <3>2. Buffered(p)' = Tail(buffer[own[p]])
        BY <1>3, <2>1, <2>2 DEF Buffered, Holding
      <3>3. sent[p] = Joined(got[p], spoilt'[p], <<>>, Tail(buffer[own[p]]))
        BY <1>2, <2>1, <2>2, <3>1, Spoils
      <3> QED BY <2>2, <2>3, <3>2, <3>3 DEF ConservedAt
    <2>5. InTurn(p)'
      BY <2>1, <2>2, <2>3 DEF InTurn, Made
    <2> QED BY <2>2, <2>4, <2>5, ClosedFrame DEF HistoryInv
  <1>9. CASE Release(p)
    <2>1. /\ task[p] = "release"
          /\ own[p] \in Channels /\ buffer[own[p]] \in Seq(Calls)
      BY <1>3, <1>9 DEF Release, Goto, Holding
    <2>2. /\ own'[p] = Nil /\ left'[p] = buffer[own[p]] /\ task'[p] = "gone"
          /\ UNCHANGED <<size, timed, available, sent, got, spoilt>>
      BY <1>1, <1>9, <2>1, Histories DEF Release, Goto, TypeOK
    <2>3. left[p] = <<>>
      BY <1>1, <2>1 DEF HistoryInv, InTurn
    <2>4. ConservedAt(p)'
      <3>1. sent[p] = Joined(got[p], spoilt[p], <<>>, buffer[own[p]])
        BY <1>1, <1>3, <2>1, <2>3 DEF HistoryInv, ConservedAt, Holding
      <3>2. sent[p] = Joined(got[p], spoilt[p], buffer[own[p]], <<>>)
        BY <1>2, <2>1, <3>1, Leaves
      <3> QED BY <2>2, <3>2 DEF ConservedAt, Buffered
    <2>5. InTurn(p)'
      BY <1>1, <2>1, <2>2 DEF HistoryInv, InTurn, Made
    <2> QED BY <2>2, <2>4, <2>5, ClosedFrame DEF HistoryInv
  <1>10. CASE DeadlinePasses(p) \/ ContextDone(p)
    <2>1. Untouched(p)
      BY <1>10 DEF DeadlinePasses, ContextDone, Untouched
    <2> QED BY <2>1, HistoryFrame
  <1> QED BY <1>4, <1>5, <1>6, <1>7, <1>8, <1>9, <1>10
          DEF StepOf, MakeStep, HandleStep

LEMMA HistorySent ==
  ASSUME IInv, [Next]_vars, NEW p \in Promises, NEW k \in Calls,
         target[k] = p, Send(k)
  PROVE  HistoryInv(p)'
PROOF
  <1>1. TypeOK /\ PromiseInv(p) /\ HistoryInv(p)
    BY DEF IInv
  <1>2. /\ task[p] \in Attending \ {"making"} /\ available[p]
        /\ own[p] \in Channels /\ own[p] # Nil /\ size[p] = Size[own[p]]
        /\ Made(p)
    BY <1>1, Sending, Calling
       DEF Send, IInv, CallInv, SendsAlone, PromiseInv, ChannelInv
  <1>3. /\ sent[p] \in Seq(Calls) /\ got[p] \in Seq(Calls)
        /\ spoilt[p] \in Seq(Calls) /\ left[p] \in Seq(Calls)
        /\ buffer[own[p]] \in Seq(Calls)
    BY <1>1, <1>2, Histories DEF TypeOK
  <1>4. /\ buffer'[own[p]] = Append(buffer[own[p]], k)
        /\ sent'[p] = Append(sent[p], k)
        /\ call'[k] = "true" /\ kind' = kind
        /\ \A j \in Calls \ {k} : call'[j] = call[j]
        /\ UNCHANGED <<own, size, timed, task, got, spoilt, left>>
    BY <1>1, <1>2, Histories DEF Send, TypeOK, optionVars
  <1>5. available'[p] <=> ~IsOnce(own[p]) /\ kind[k] # "cancel"
    BY <1>1, <1>2 DEF Send, StaysAvailable, TypeOK
  <1>6. ConservedAt(p)'
    <2>1. sent[p] = Joined(got[p], spoilt[p], left[p], buffer[own[p]])
      BY <1>1, <1>2 DEF HistoryInv, ConservedAt, Buffered
    <2>2. Append(sent[p], k)
            = Joined(got[p], spoilt[p], left[p], Append(buffer[own[p]], k))
      <3>1. PICK g \in Seq(Calls), s \in Seq(Calls), l \in Seq(Calls),
                 b \in Seq(Calls) :
              g = got[p] /\ s = spoilt[p] /\ l = left[p] /\ b = buffer[own[p]]
        BY <1>3
      <3>2. Append(Joined(g, s, l, b), k) = Joined(g, s, l, Append(b, k))
        BY Sends, SMTT(60)
      <3> QED BY <2>1, <3>1, <3>2
    <2>3. Buffered(p)' = Append(buffer[own[p]], k)
      BY <1>2, <1>4 DEF Buffered
    <2> QED BY <1>4, <2>2, <2>3 DEF ConservedAt
  <1>7. InTurn(p)'
    BY <1>1, <1>2, <1>4 DEF HistoryInv, InTurn, Made
  <1>8. ClosedOnce(p)'
    <2>1. /\ Len(sent'[p]) = Len(sent[p]) + 1 /\ DOMAIN sent'[p] = 1..(Len(sent[p]) + 1)
          /\ \A i \in 1..Len(sent[p]) : sent'[p][i] = sent[p][i]
          /\ sent'[p][Len(sent[p]) + 1] = k
          /\ DOMAIN sent[p] = 1..Len(sent[p]) /\ Len(sent[p]) \in Nat
      BY <1>3, <1>4, AppendProperties, LenProperties
    <2>2. size'[p] = 1 => Len(sent'[p]) <= 1 /\ ~available'[p]
      BY <1>1, <1>2, <1>4, <1>5, <2>1 DEF HistoryInv, ClosedOnce, IsOnce
    <2>3. ASSUME NEW i \in 1..Len(sent[p])
          PROVE  call'[sent'[p][i]] = "true" /\ kind'[sent'[p][i]] # "cancel"
      <3>1. sent[p][i] \in Calls /\ call[sent[p][i]] = "true"
            /\ kind[sent[p][i]] # "cancel" /\ sent'[p][i] = sent[p][i]
        BY <1>1, <1>2, <1>3, <2>1, ElementOfSeq DEF HistoryInv, ClosedOnce
      <3> QED BY <1>4, <3>1
    <2>4. ASSUME NEW i \in DOMAIN sent'[p]
          PROVE  /\ call'[sent'[p][i]] = "true"
                 /\ kind'[sent'[p][i]] = "cancel" =>
                      i = Len(sent'[p]) /\ ~available'[p]
      <3>1. i \in 1..Len(sent[p]) \/ i = Len(sent[p]) + 1
        BY <2>1
      <3> QED BY <1>4, <1>5, <2>1, <2>3, <3>1
    <2> QED BY <2>2, <2>4 DEF ClosedOnce
  <1> QED BY <1>6, <1>7, <1>8 DEF HistoryInv

LEMMA HistoryStep ==
  ASSUME IInv, [Next]_vars, NEW q \in Promises
  PROVE  HistoryInv(q)'
PROOF
  <1>1. ASSUME NEW p \in Promises, StepOf(p) PROVE HistoryInv(q)'
    BY <1>1, HistoryOwn, OthersUntouched, HistoryFrame
  <1>2. ASSUME NEW k \in Calls, CallStep(k) PROVE HistoryInv(q)'
    <2>1. PICK p \in Promises : CallOf(k, p)
      BY <1>2, CallsOnly, Calling DEF CallOf
    <2>2. CASE q # p
      BY <2>1, <2>2, OthersUntouched, HistoryFrame
    <2>3. CASE q = p /\ Send(k)
      BY <2>1, <2>3, HistorySent DEF CallOf
    <2>4. CASE q = p /\ ~Send(k)
      <3>1. CASE Register(k)
        <4>1. TypeOK /\ HistoryInv(q)
          BY DEF IInv
        <4>2. UNCHANGED <<own, size, timed, available, task, buffer, sent, got,
                          spoilt, left>>
          BY <3>1 DEF Register, promiseVars, optionVars, historyVars
        <4>3. ConservedAt(q)' /\ InTurn(q)'
          BY <4>1, <4>2 DEF HistoryInv, ConservedAt, InTurn, Buffered, Made
        <4> QED BY <4>2, <4>3, ClosedFrame DEF HistoryInv
      <3>2. CASE \/ SendLock(k) \/ SendRefused(k)
                 \/ RegisterTwice(k) \/ RegisterLate(k)
        <4>1. Untouched(q)
          BY <3>2 DEF SendLock, SendRefused, RegisterTwice, RegisterLate, Untouched,
                      channelVars, optionVars, promiseVars, historyVars
        <4> QED BY <4>1, HistoryFrame
      <3> QED BY <1>2, <2>4, <3>1, <3>2 DEF CallStep
    <2> QED BY <2>2, <2>3, <2>4
  <1>3. ASSUME \/ \E k \in Calls, p \in Promises : Call(k, p)
               \/ UNCHANGED vars
        PROVE  HistoryInv(q)'
    BY <1>3, AllUntouched, HistoryFrame
  <1> QED BY <1>1, <1>2, <1>3 DEF Next, StepOf
-----------------------------------------------------------------------------
(* The theorems.                                                           *)

LEMMA Invariance == Spec => []IInv
PROOF
  <1>1. Init => IInv
    BY InitInvariant
  <1>2. IInv /\ [Next]_vars => IInv'
    BY TypeStep, ExclusiveStep, PromiseStep, CallInvStep, HistoryStep DEF IInv
  <1> QED BY <1>1, <1>2, PTL DEF Spec

\* Every variable of the promises and their channels has its type.
THEOREM TypeCorrect == Spec => []TypeOK
PROOF
  <1>1. IInv => TypeOK
    BY DEF IInv
  <1> QED BY <1>1, Invariance, PTL

\* Whatever races, no message that a promise accepted is lost, doubled,
\* reordered or delivered to another promise: channel.send and receive, the
\* section at the end of Handle and the draining of its channel.
THEOREM Conservation == Spec => []Conserved
PROOF
  <1>1. IInv => Conserved
    BY DEF IInv, HistoryInv, ConservedAt, Joined, Conserved
  <1> QED BY <1>1, Invariance, PTL

\* acquireChannel gets a channel as releaseChannel should leave it, although
\* that only resets hset: the rest is clean because of when it is called.
THEOREM CleanPool == Spec => []PoolClean
PROOF
  <1>1. IInv => PoolClean
    <2> SUFFICES ASSUME IInv PROVE PoolClean
      OBVIOUS
    <2>1. \A p \in Promises : own[p] \notin pool
      BY FutureAssumption DEF IInv, TypeOK, Exclusive
    <2> QED BY <2>1 DEF IInv, Exclusive, HistoryInv, InTurn, PoolClean
  <1> QED BY <1>1, Invariance, PTL

\* A once promise is completed or canceled at most once, and no promise
\* accepts anything after Cancel.
THEOREM CompletesOnce == Spec => []CompletedOnce
PROOF
  <1>1. IInv => CompletedOnce
    BY DEF IInv, HistoryInv, ClosedOnce, CompletedOnce
  <1> QED BY <1>1, Invariance, PTL
=============================================================================
