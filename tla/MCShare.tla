------------------------------ MODULE MCShare ------------------------------
(* Share on small instances.                                               *)
EXTENDS Share, TLC

CONSTANTS t1, t2

\* No call is made by a task.
FreeCalls == [t \in Tasks |-> Nil]

\* The call t2 is made by t1's Handle, the others are made from outside.
NestedCall == [t \in Tasks |-> IF t = t2 THEN t1 ELSE Nil]

\* Calls, submitters and Close calls are interchangeable.
Interchangeable ==
  Permutations(Tasks) \cup Permutations(Submitters) \cup Permutations(Closers)
=============================================================================
