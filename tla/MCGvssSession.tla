---------------------------- MODULE MCGvssSession ----------------------------
(* Instances of GvssSession for TLC: both server threads.  Six descriptors *)
(* are stdin, a listening socket and a connection of each thread, and a    *)
(* file that something else opens and closes.                              *)
EXTENDS GvssSession
=============================================================================
