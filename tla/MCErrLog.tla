------------------------------ MODULE MCErrLog ------------------------------
(* Instances of ErrLog for TLC: a file holds two units, a result takes one *)
(* or two, or claims three and is refused.                                 *)
EXTENDS ErrLog
=============================================================================
