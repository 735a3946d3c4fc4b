------------------------------ MODULE MCDerive ------------------------------
(* Sources with all the results of up to MaxLength, in every combination.   *)
EXTENDS Derive

Of(t, results) == [type |-> t, results |-> results]
Single == {Of(t, <<r>>) : t \in {"once", "immediate"}, r \in Outcomes}

\* Streams that end after up to n results, and one that goes on.
Streams(n) ==
  {Of("stream", s \o <<"canceled">>) :
     s \in UNION {[1..k -> {"value", "error"}] : k \in 0..n}}
  \cup {Of("stream", <<"value">>)}

Over(f, n, S) == {[form |-> f, sources |-> s] : s \in [1..n -> S]}

MCInputs ==
  Over("map", 1, Single \cup Streams(3))
  \cup Over("await", 1, Single \cup Streams(3))
  \cup Over("reduce", 3, Single)
  \cup Over("reduce", 2, {Of("stream", <<"canceled">>),
                          Of("once", <<"value">>)})
  \cup Over("combine", 2, Single \cup Streams(2))
  \cup Over("combine", 3, {Of("stream", <<"canceled">>),
                           Of("stream", <<"value", "canceled">>),
                           Of("stream", <<"error", "value", "canceled">>)})

\* Two streams, each with a message more than the sink has room for.
FullInputs == Over("combine", 2, {Of("stream", <<"value", "value">>)})
=============================================================================
