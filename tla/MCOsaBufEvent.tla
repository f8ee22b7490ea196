--------------------------- MODULE MCOsaBufEvent ---------------------------
(* The buffer exchange and the event flags, each by itself: active says    *)
(* which of them runs.  Two flags give masks that overlap, that contain    *)
(* one another and that have nothing in common.                            *)
EXTENDS OsaBuf, OsaEvent, TLC

VARIABLE active

BothInit == active \in {"buf", "event"} /\ Init /\ EventInit
BothNext ==
    /\ UNCHANGED active
    /\ \/ active = "buf" /\ Next /\ UNCHANGED eventVars
       \/ active = "event" /\ EventNext /\ UNCHANGED vars
BothSpec == BothInit /\ [][BothNext]_<<vars, eventVars, active>>

Symmetry == Permutations(Writers) \cup Permutations(Readers)
            \cup Permutations(Waiters) \cup Permutations(Flags)
=============================================================================
