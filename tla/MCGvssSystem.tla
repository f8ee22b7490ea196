---------------------------- MODULE MCGvssSystem ----------------------------
(***************************************************************************)
(* Instances of GvssSystem for TLC.  With ResultSize 1 and MaxResultSize 2 *)
(* the results at the offsets 0 and 1 pass the size test, the latter at    *)
(* its boundary, and those at offset 2 do not.                             *)
(***************************************************************************)
EXTENDS GvssSystem

(* Values for MaxSessions.  The threads share the semaphore hndl and the   *)
(* messages, not their frames, and a thread uses both whether it has a     *)
(* peer or not: it switches its target on and off again, and leaves.  So   *)
(* one of them has sessions and the other comes and goes without a peer,   *)
(* but for the ctrl-c that finds both at work.                             *)
OneEach == [t \in Targets |-> 1]
OnlyPlc == [OneEach EXCEPT !["CLIENT"] = 0]
OnlyClient == [OneEach EXCEPT !["PLC"] = 0]
PlcReconnects == [OnlyPlc EXCEPT !["PLC"] = 2]
=============================================================================
