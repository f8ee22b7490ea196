------------------------------ MODULE MCOsaQue ------------------------------
(* Instances of OsaQue for TLC.  The reply of a call is part of the state, *)
(* so two values and a ring of two slots already give every wrap position  *)
(* with every mix of blocked and woken callers of three threads.  There is *)
(* no symmetry: the run checks liveness.                                   *)
EXTENDS OsaQue
=============================================================================
