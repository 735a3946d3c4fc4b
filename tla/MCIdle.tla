------------------------------- MODULE MCIdle -------------------------------
(* Idle on small instances.                                                *)
EXTENDS Idle
=============================================================================
