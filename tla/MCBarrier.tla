----------------------------- MODULE MCBarrier -----------------------------
(* Barrier on small instances.                                             *)
EXTENDS Barrier
=============================================================================
