----------------------------- MODULE MCOsaEvent -----------------------------
(* Instances of OsaEvent for TLC, for the two runs that find a waiter      *)
(* asleep or unanswered.                                                   *)
EXTENDS OsaEvent
=============================================================================
