---------------------------- MODULE ResultChannel ----------------------------
(***************************************************************************)
(* What the application promises the peer of one target: a bounded, lossy  *)
(* channel that keeps the order.  Results enter it in the order they were  *)
(* produced, at most Capacity of them wait, one at a time is on its way,   *)
(* and each is delivered at most once; any of them may be dropped.         *)
(***************************************************************************)
EXTENDS Naturals, Sequences

CONSTANT Capacity

VARIABLES pending,     \* the waiting results, oldest first
          inHand,      \* the result on its way to the peer, 0 if none
          delivered    \* the results the peer was sent

vars == <<pending, inHand, delivered>>

Init == /\ pending = <<>>
        /\ inHand = 0
        /\ delivered = <<>>

(* A result may enter only after every result that entered before it. *)
Publish(r) ==
    /\ Len(pending) < Capacity
    /\ \A i \in DOMAIN pending : pending[i] < r
    /\ inHand < r
    /\ \A i \in DOMAIN delivered : delivered[i] < r
    /\ pending' = Append(pending, r)
    /\ UNCHANGED <<inHand, delivered>>

Take ==
    /\ inHand = 0
    /\ pending # <<>>
    /\ inHand' = Head(pending)
    /\ pending' = Tail(pending)
    /\ UNCHANGED delivered

Deliver ==
    /\ inHand # 0
    /\ delivered' = Append(delivered, inHand)
    /\ inHand' = 0
    /\ UNCHANGED pending

Drop ==
    /\ inHand # 0
    /\ inHand' = 0
    /\ UNCHANGED <<pending, delivered>>

(* Only the newest pending result can be the one that enters.  *)
Enter == pending' # <<>> /\ Publish(pending'[Len(pending')])

Next == Enter \/ Take \/ Deliver \/ Drop

Spec == Init /\ [][Next]_vars
=============================================================================
