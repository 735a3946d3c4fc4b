------------------------------- MODULE Derive -------------------------------
(***************************************************************************)
(* The futures made of other futures: Combine (combine.go), Map (map.go),  *)
(* Reduce (reduce.go), AwaitableFuture (await.go), and the immediate       *)
(* futures that they take and return (immediately.go).                     *)
(*                                                                         *)
(* A user builds one of them over some sources and then asks it for what   *)
(* comes out.  A source is what module Future shows a future to be: it     *)
(* calls its handler with one result after the other, on a goroutine of    *)
(* its own; with Canceled it stops.  An immediate future calls it inside   *)
(* OnComplete.  The promise that Combine, Map and Reduce make, called the  *)
(* sink here, is that of module Future, too, without deadlines and without *)
(* contexts that end.                                                      *)
(*                                                                         *)
(* A delivery <<i, j>> is the call of the handler by source i with its     *)
(* j-th result.                                                            *)
(***************************************************************************)
EXTENDS Integers, Sequences, FiniteSets, SequencesExt

CONSTANTS
  Inputs,     \* what is built over what: records [form, sources]
  MaxSources, \* nothing is built over more sources
  MaxLength,  \* no source has more results
  Cap         \* defaultStreamChannelSize, rounded up: cap(ch.ch) of a stream

Forms == {"combine", "map", "reduce", "await"}
Types == {"once", "stream", "immediate"}
Outcomes == {"value", "error", "canceled"}

\* A source: does a promise of Make stand behind it, and what will it bring?
Source == [type : Types, results : Seq(Outcomes)]

IsSource(s) ==
  /\ s \in Source
  /\ Len(s.results) \in 1..MaxLength
  /\ s.type # "stream" => Len(s.results) = 1
  /\ \A j \in 1..(Len(s.results) - 1) : s.results[j] # "canceled"

ASSUME DeriveAssumption ==
  /\ {MaxLength, MaxSources} \subseteq Nat \ {0}
  /\ Cap \in Nat \ {0, 1}
  /\ \A input \in Inputs :
       /\ input.form \in Forms
       /\ input.sources \in Seq(Source) /\ Len(input.sources) \in 1..MaxSources
       /\ input.form \in {"map", "await"} => Len(input.sources) = 1
       /\ \A i \in DOMAIN input.sources : IsSource(input.sources[i])

VARIABLES
  form,      \* what is built
  sources,   \* over which sources
  phase,     \* where the user is
  turn,      \* how many sources have the handler
  at,        \* at[d]: where delivery d is
  result,    \* result[d]: what it will complete the sink with
  apart,     \* deliveries that a future of Map's handle goes on with
  remains,   \* combined.remains, reducer.remains
  pipe,      \* reducer.ch, awaitableFuture.ch: what is in it, is it closed?
  collector, \* reducer.Handle: where it is and what it has collected
  sink,      \* the sink: its messages, may it be completed, is its locker
             \* held, where is its Handle, and what was left in the end?
  out        \* what the user was given, in order

input == <<form, sources>>
calls == <<at, result, apart>>
joints == <<remains, pipe, collector>>
vars == <<input, phase, turn, calls, joints, sink, out>>

Most == 1..MaxLength
Deliveries == {<<i, j>> : i \in DOMAIN sources, j \in Most}
Outcome(d) == sources[d[1]].results[d[2]]
Is(type, i) == sources[i].type = type
Message(of, kind) == [of |-> of, kind |-> kind]
Messages == [of : Seq(Nat \X Nat), kind : Outcomes]

Init ==
  /\ \E i \in Inputs : form = i.form /\ sources = i.sources
  /\ phase = "build" /\ turn = 0
  /\ at = [d \in Deliveries |-> "none"]
  /\ result = [d \in Deliveries |-> "none"]
  /\ apart = {}
  /\ remains = 0 /\ pipe = [ch |-> <<>>, closed |-> FALSE]
  /\ collector = [task |-> "none", rs |-> <<>>]
  /\ sink = [ch |-> <<>>, available |-> TRUE, locker |-> FALSE,
             handle |-> "waiting", left |-> <<>>]
  /\ out = <<>>

TypeOK ==
  /\ \E i \in Inputs : form = i.form /\ sources = i.sources
  /\ phase \in {"build", "register", "attach", "done", "failed"}
  /\ turn \in 0..Len(sources)
  /\ at \in [Deliveries -> {"none", "pending", "lock", "send", "done",
                            "refused"}]
  /\ result \in [Deliveries -> Outcomes \cup {"none"}]
  /\ apart \subseteq Deliveries
  /\ remains \in Int
  /\ pipe \in [ch : Seq(Deliveries), closed : BOOLEAN]
  /\ collector \in [task : {"none", "running", "done"}, rs : Seq(Deliveries)]
  /\ sink \in [ch : Seq(Messages), available : BOOLEAN, locker : BOOLEAN,
               handle : {"waiting", "receiving", "ending", "gone"},
               left : Seq(Messages)]
  /\ out \in Seq(Messages)
-----------------------------------------------------------------------------
(* The sink: Make, WithStream for what is or may be a stream.              *)

Once == form = "reduce" \/ (form = "map" /\ ~Is("stream", 1))
Room == IF Once THEN 1 ELSE Cap

\* Complete or Cancel takes the locker ...
SinkLock(d) ==
  /\ at[d] = "lock"
  /\ ~sink.locker
  /\ sink' = [sink EXCEPT !.locker = sink.available]
  /\ at' = [at EXCEPT ![d] = IF sink.available THEN "send" ELSE "refused"]
  /\ UNCHANGED <<input, phase, turn, result, apart, joints, out>>

\* ... and holds it until the message is in the channel.  Combine ends with
\* Cancel, Map with Fail, which leaves a stream available.
Cancels(d) == form = "combine" /\ result[d] = "canceled"

SinkSend(d) ==
  /\ at[d] = "send"
  /\ Len(sink.ch) < Room
  /\ sink' = [sink EXCEPT !.ch = Append(@, Message(<<d>>, result[d])),
                          !.available = ~(Once \/ Cancels(d)),
                          !.locker = FALSE]
  /\ at' = [at EXCEPT ![d] = "done"]
  /\ UNCHANGED <<input, phase, turn, result, apart, joints, out>>

\* Handle gives the user's handler the next message.  (With EndsWithError it
\* leaves its loop with any error.)
EndsWithError(m) == Once \/ m.kind # "value"
EndsWith(m) == Once \/ m.kind = "canceled"

SinkReceive ==
  /\ sink.handle = "receiving"
  /\ sink.ch # <<>>
  /\ out' = Append(out, Head(sink.ch))
  /\ sink' = [sink EXCEPT
       !.ch = Tail(@),
       !.handle = IF EndsWith(Head(sink.ch)) THEN "ending" ELSE "receiving"]
  /\ UNCHANGED <<input, phase, turn, calls, joints>>

\* Its loop has ended: nothing is accepted, and what is left unhandled.
SinkFinish ==
  /\ sink.handle = "ending"
  /\ ~sink.locker
  /\ sink' = [sink EXCEPT !.handle = "gone", !.available = FALSE,
                          !.left = sink.ch, !.ch = <<>>]
  /\ UNCHANGED <<input, phase, turn, calls, joints, out>>
-----------------------------------------------------------------------------
(* Building.                                                               *)

\* StreamMode() of the sources that have one.
Accepted ==
  CASE form = "combine" -> \A i \in DOMAIN sources : ~Is("once", i)
    [] form = "reduce" -> \A i \in DOMAIN sources : ~Is("stream", i)
    [] OTHER -> TRUE

Build ==
  /\ phase = "build"
  /\ Accepted
  /\ phase' = "register"
  /\ remains' = Len(sources)
  /\ UNCHANGED <<input, turn, calls, pipe, collector, sink, out>>

\* The sources are of the wrong sort, or Make returns an error: the user has
\* a future that is FailedImmediately.
BuildFails ==
  /\ phase = "build"
  /\ form # "await"
  /\ phase' = "failed"
  /\ out' = <<Message(<<>>, "error")>>
  /\ UNCHANGED <<input, turn, calls, joints, sink>>

\* Has the handler returned?
Returned(d) == at[d] \in {"done", "refused"} \/ d \in apart
ImmediateReturned(i) == i > 0 /\ Is("immediate", i) => Returned(<<i, 1>>)

\* OnComplete of the next source, which returns at once unless the source is
\* immediate.
Register ==
  /\ phase = "register"
  /\ turn < Len(sources)
  /\ ImmediateReturned(turn)
  /\ turn' = turn + 1
  /\ UNCHANGED <<input, phase, calls, joints, sink, out>>

\* All have it: Combine goes on to the sink, Map and AwaitableFuture return,
\* and Reduce has rxp.Execute run the collector, or fails.
Registered ==
  /\ phase = "register"
  /\ turn = Len(sources)
  /\ ImmediateReturned(turn)
  /\ phase' = "attach"
  /\ \/ form # "reduce" /\ UNCHANGED <<collector, sink>>
     \/ /\ form = "reduce"
        /\ collector' = [collector EXCEPT !.task = "running"]
        /\ UNCHANGED sink
     \/ /\ form = "reduce"
        /\ sink' = [sink EXCEPT !.ch = <<Message(<<>>, "error")>>,
                                !.available = FALSE]
        /\ UNCHANGED collector
  /\ UNCHANGED <<input, turn, calls, remains, pipe, out>>

\* OnComplete of the sink.
Attach ==
  /\ phase = "attach"
  /\ form # "await"
  /\ ~sink.locker
  /\ phase' = "done"
  /\ sink' = [sink EXCEPT !.handle = "receiving"]
  /\ UNCHANGED <<input, turn, calls, joints, out>>

\* Await, once for every result.
Await ==
  /\ phase = "attach"
  /\ form = "await"
  /\ \/ /\ pipe.ch # <<>>
        /\ out' = Append(out, Message(<<Head(pipe.ch)>>, Outcome(Head(pipe.ch))))
     \/ /\ pipe.ch = <<>> /\ pipe.closed
        /\ out' = Append(out, Message(<<>>, "canceled"))
  /\ pipe' = [pipe EXCEPT !.ch = SubSeq(@, 2, Len(@))]
  /\ phase' = IF Len(out') = Len(sources[1].results) THEN "done" ELSE phase
  /\ UNCHANGED <<input, turn, calls, remains, collector, sink>>

User == Build \/ BuildFails \/ Register \/ Registered \/ Attach \/ Await
-----------------------------------------------------------------------------
(* The handlers.                                                           *)

\* Source d[1] calls its handler with its next result.
Calls(d) ==
  /\ phase # "failed"
  /\ d[1] <= turn
  /\ d[2] <= Len(sources[d[1]].results)
  /\ at[d] = "none"
  /\ d[2] > 1 => Returned(<<d[1], d[2] - 1>>)

Goes(d, r, where) ==
  result' = [result EXCEPT ![d] = r] /\ at' = [at EXCEPT ![d] = where]

\* combined.Handle: of the Canceled of the sources, the last is passed on.
\* (PassesFirst passes on the first.)
PassesFirst(d) == Outcome(d) # "canceled" \/ remains = Len(sources)
Passes(d) == Outcome(d) # "canceled" \/ remains = 1

CombineHandle(d) ==
  /\ form = "combine"
  /\ Calls(d)
  /\ Goes(d, Outcome(d), IF Passes(d) THEN "lock" ELSE "done")
  /\ remains' = IF Outcome(d) = "canceled" THEN remains - 1 ELSE remains
  /\ UNCHANGED <<input, phase, turn, apart, pipe, collector, sink, out>>

\* The function Map gives its source: an error fails the sink, a value goes
\* to handle, whose future completes the sink with r, at once (now) or later.
MapHandle(d) ==
  /\ form = "map"
  /\ Calls(d)
  /\ \/ /\ Outcome(d) # "value"
        /\ Goes(d, Outcome(d), "lock") /\ UNCHANGED apart
     \/ \E r \in Outcomes, now \in BOOLEAN :
          /\ Outcome(d) = "value"
          /\ Goes(d, r, IF now THEN "lock" ELSE "pending")
          /\ apart' = IF now THEN apart ELSE apart \cup {d}
  /\ UNCHANGED <<input, phase, turn, joints, sink, out>>

\* The handler of that future, called by its own goroutine, with one result: a
\* future of handle's that is a stream and has several is not modelled.
MapComplete(d) ==
  /\ at[d] = "pending"
  /\ at' = [at EXCEPT ![d] = "lock"]
  /\ UNCHANGED <<input, phase, turn, result, apart, joints, sink, out>>

\* reducer.OnComplete, under its locker; a send on the closed channel would
\* be the end of it.  There is room for one result of each member.
CloseEarly == remains <= 2
CloseLate == remains = 0
Close == remains = 1

ReduceOnComplete(d) ==
  /\ form = "reduce"
  /\ Calls(d)
  /\ ~pipe.closed /\ Len(pipe.ch) < Len(sources)
  /\ at' = [at EXCEPT ![d] = "done"]
  /\ pipe' = [ch |-> Append(pipe.ch, d), closed |-> Close]
  /\ remains' = remains - 1
  /\ UNCHANGED <<input, phase, turn, result, apart, collector, sink, out>>

\* reducer.Handle collects until the channel is closed and empty.
Collect ==
  /\ collector.task = "running"
  /\ pipe.ch # <<>>
  /\ collector' = [collector EXCEPT !.rs = Append(@, Head(pipe.ch))]
  /\ pipe' = [pipe EXCEPT !.ch = Tail(@)]
  /\ UNCHANGED <<input, phase, turn, calls, remains, sink, out>>

Collected ==
  /\ collector.task = "running"
  /\ pipe.ch = <<>> /\ pipe.closed
  /\ collector' = [collector EXCEPT !.task = "done"]
  /\ sink' = [sink EXCEPT !.ch = <<Message(collector.rs, "value")>>,
                          !.available = FALSE]
  /\ UNCHANGED <<input, phase, turn, calls, remains, pipe, out>>

\* awaitableFuture.handle, which waits for room in a channel of one.  (With
\* ShutsAnyError every error closes it.)
ShutsAnyError(d) == Outcome(d) # "value"
Shuts(d) == Outcome(d) = "canceled"

AwaitHandle(d) ==
  /\ form = "await"
  /\ Calls(d)
  /\ Shuts(d) \/ Len(pipe.ch) < 1
  /\ at' = [at EXCEPT ![d] = "done"]
  /\ pipe' = IF Shuts(d) THEN [pipe EXCEPT !.closed = TRUE]
                         ELSE [pipe EXCEPT !.ch = Append(@, d)]
  /\ UNCHANGED <<input, phase, turn, result, apart, remains, collector, sink,
                 out>>

Delivery(d) ==
  \/ CombineHandle(d) \/ MapHandle(d) \/ MapComplete(d) \/ SinkLock(d)
  \/ SinkSend(d) \/ ReduceOnComplete(d) \/ AwaitHandle(d)

Next ==
  \/ User \/ SinkReceive \/ SinkFinish \/ Collect \/ Collected
  \/ \E d \in Deliveries : Delivery(d)

Spec == Init /\ [][Next]_vars

\* The goroutines of the user, the sources, the sink and the collector run,
\* the sources bring their results, and handle's futures complete.
Fairness ==
  /\ WF_vars(User) /\ WF_vars(SinkReceive \/ SinkFinish)
  /\ WF_vars(Collect \/ Collected)
  /\ \A i \in 1..MaxSources, j \in Most :
       WF_vars(<<i, j>> \in Deliveries /\ Delivery(<<i, j>>))

FairSpec == Spec /\ Fairness
-----------------------------------------------------------------------------
(* Safety.                                                                 *)

Carries(messages, d) == \E m \in Range(messages) : m.of = <<d>>
Passed == out \o sink.ch

\* Nothing of a stream is lost, repeated or overtaken on the way.  What comes
\* out of a combined stream is, of each source, everything it brought, in its
\* order, up to the end that is announced when no source is left; what Await
\* after Await returns is what the source brought, its end as Canceled.
InOrder ==
  /\ form = "combine" /\ phase # "failed" =>
       /\ \A k \in DOMAIN Passed : \E d \in Deliveries :
            /\ Passed[k].of = <<d>> /\ Passed[k].kind = Outcome(d)
            /\ \A l \in 1..(k - 1) : Passed[l].of # <<d>>
            /\ \A j \in 1..(d[2] - 1) :
                 \E l \in 1..(k - 1) : Passed[l].of = <<<<d[1], j>>>>
       /\ \A d \in Deliveries :
            /\ at[d] # "refused"
            /\ at[d] = "done" /\ Outcome(d) # "canceled" => Carries(Passed, d)
  /\ form = "await" => \A j \in DOMAIN out : out[j].kind = Outcome(<<1, j>>)

\* Reduce loses no member and takes none twice: the one value of the reduced
\* future holds one result of each.
Whole ==
  form = "reduce" => \A m \in Range(Passed) : m.kind = "value" =>
    /\ Len(m.of) = Len(sources)
    /\ \A i \in DOMAIN sources : <<i, 1>> \in Range(m.of)

\* What Map is told by handle's futures, or by its source, comes out once, in
\* whatever order; it is lost only after an end came out.
Mapped ==
  form = "map" /\ phase # "failed" =>
    /\ \A k, l \in DOMAIN Passed : Passed[k].of = Passed[l].of => k = l
    /\ \A d \in Deliveries :
         /\ at[d] = "done" => Carries(Passed \o sink.left, d)
         /\ at[d] = "refused" \/ Carries(sink.left, d) =>
              \E m \in Range(out) : Once \/ m.kind = "canceled"
    /\ Once => Len(Passed \o sink.left) <= 1

-----------------------------------------------------------------------------
(* Liveness.                                                               *)

\* Is there an answer, or an end, to wait for?
Ends ==
  CASE form = "combine" -> \A i \in DOMAIN sources :
                             Last(sources[i].results) = "canceled"
    [] form = "map" -> Once \/ Last(sources[1].results) = "canceled"
    [] OTHER -> TRUE

\* A delivery waits for room in the sink's channel with the sink's locker, and
\* the sink's Handle will make none: it has no handler yet, which OnComplete
\* cannot bring without the locker, or it has left its loop and waits for the
\* locker itself.
Blocked ==
  /\ \E d \in Deliveries : at[d] = "send"
  /\ Len(sink.ch) = Room
  /\ sink.handle \in {"waiting", "ending"}

\* A once future that is derived gets its answer and a stream its end, after
\* which the sink has given back its goroutine, and every Await returns; unless
\* a stream of Combine or Map brings more than the sink has room for at the
\* wrong time (combine.go:50, map.go:29): before the sink has its handler, or
\* out of handle's futures after a Canceled has ended Map's sink.
Answered ==
  phase = "register" /\ Ends
    ~> \/ phase = "done" /\ (form = "await" \/ sink.handle = "gone")
       \/ form \in {"combine", "map"} /\ Blocked
-----------------------------------------------------------------------------
(* What the documentation says and the code does not do.                   *)

\* future.go: OnComplete does not block.
OnCompleteReturns == phase = "register" ~> phase = "done"

=============================================================================
