------------------------------ MODULE MCAlone ------------------------------
(* Alone on small instances.                                               *)
EXTENDS Alone

CONSTANTS t1, t2, t3, t4

\* The calls t2 and t4 are made by the Handle of t1 and t3, which are handed
\* over from outside: as many as there may be goroutines.
NestedCalls ==
  [t \in Tasks |-> CASE t = t2 -> t1 [] t = t4 -> t3 [] OTHER -> Nil]
=============================================================================
