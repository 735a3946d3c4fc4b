------------------------------- MODULE MCMake -------------------------------
(* Up to three options for the waiting; sizes around the powers of two.     *)
EXTENDS Make

O(with, arg) == [with |-> with, arg |-> arg]

Waiting ==
  {O("Wait", 0), O("WaitTimeout", 0), O("WaitTimeout", 3), O("Deadline", 0),
   O("Deadline", 2), O("Deadline", 5), O("Timeout", 1), O("Timeout", 2)}

MCCalls ==
  UNION {[1..n -> Waiting] : n \in 0..3}
  \cup {<<O("StreamAndSize", n)>> : 
       n \in 0..20 \cup {2^k + d : k \in 5..13, d \in -1..1}}
=============================================================================
