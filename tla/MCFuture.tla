------------------------------ MODULE MCFuture ------------------------------
(* Future on small instances.                                              *)
EXTENDS Future

CONSTANTS c1, k1, k2, k3

AnyMethod == [k \in Calls |-> Kinds]

\* A handler, calls that may end the promise one way or another, and enough
\* completions to fill the channel of a stream behind them and wait for room.
\* No call has to be made.
Overfilled ==
  [k \in Calls |-> CASE k = k1 -> {"handler"}
                     [] k = k2 -> Kinds \ {"complete"}
                     [] k = k3 -> Kinds \ {"handler"}
                     [] OTHER -> {"complete"}]

\* c1 is for once promises, the other channels are for streams of two.
Mixed == [c \in Channels |-> IF c = c1 THEN 1 ELSE 2]

\* Calls and promises are interchangeable.
Interchangeable == Permutations(Calls) \cup Permutations(Promises)
=============================================================================
