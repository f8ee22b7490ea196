---------------------------- MODULE BoundedFifo ----------------------------
(***************************************************************************)
(* What a queue of the library promises its callers: a first-in first-out  *)
(* buffer of at most Capacity values.  A call takes effect in one step and *)
(* the step fixes the reply the caller gets.  A put is refused only when   *)
(* the buffer is full, a get only when it is empty.                        *)
(***************************************************************************)
EXTENDS Naturals, Sequences

CONSTANTS Threads,    \* the callers
          Values,     \* what is put into the queue
          Capacity,   \* the largest number of queued values
          NoValue     \* the content of an output argument never written

VARIABLES items,      \* the queued values, oldest first
          reply       \* reply[t]: how the last call of t ended

vars == <<items, reply>>

Reply(op, ok, v) == [op |-> op, ok |-> ok, value |-> v]

Replies == [op : {"none", "put", "get"}, ok : BOOLEAN,
            value : Values \cup {NoValue}]

Init == /\ items = <<>>
        /\ reply = [t \in Threads |-> Reply("none", FALSE, NoValue)]

PutAccepted(t, v) ==
    /\ Len(items) < Capacity
    /\ items' = Append(items, v)
    /\ reply' = [reply EXCEPT ![t] = Reply("put", TRUE, v)]

PutRefused(t, v) ==
    /\ Len(items) = Capacity
    /\ reply' = [reply EXCEPT ![t] = Reply("put", FALSE, v)]
    /\ UNCHANGED items

GetAnswered(t) ==
    /\ items # <<>>
    /\ items' = Tail(items)
    /\ reply' = [reply EXCEPT ![t] = Reply("get", TRUE, Head(items))]

GetRefused(t) ==
    /\ items = <<>>
    /\ reply' = [reply EXCEPT ![t] = Reply("get", FALSE, NoValue)]
    /\ UNCHANGED items

Next == \E t \in Threads :
           \/ \E v \in Values : PutAccepted(t, v) \/ PutRefused(t, v)
           \/ GetAnswered(t)
           \/ GetRefused(t)

Spec == Init /\ [][Next]_vars
=============================================================================
