------------------------------- MODULE OsaBuf -------------------------------
(***************************************************************************)
(* The buffer exchange of interface/src/osa_buf.c: numBuf buffers go round *)
(* between writers and readers through an empty and a full queue, which    *)
(* are OsaQue's.  A thread either gets and puts, or switches: it gets the  *)
(* next buffer and, only if there is one, puts the one it held.  A switch  *)
(* is two steps, for each takes the lock of a different queue.             *)
(***************************************************************************)
EXTENDS Naturals, Sequences, FiniteSets

CONSTANTS Writers,     \* the threads that fill buffers
          Readers,     \* the threads that use them
          NumBuf,      \* bufInit->numBuf
          MaxStamp     \* bound: how often buffers are filled

ASSUME BufAssumption ==
    /\ IsFiniteSet(Writers) /\ IsFiniteSet(Readers)
    /\ Writers \cap Readers = {}
    /\ NumBuf \in Nat \ {0} /\ MaxStamp \in Nat

Threads == Writers \cup Readers
Bufs == 1 .. NumBuf    \* the code counts from 0
Invalid == 0           \* OSA_BUF_ID_INVALID

VARIABLES emptyQue, fullQue,
          bufId,       \* bufId[t]: the buffer t works on
          newBufId,    \* newBufId[t]: in a switch, the buffer it just got
          stamp,       \* stamp[b]: the fill that b holds, 0 for none
          fills        \* the fills so far

vars == <<emptyQue, fullQue, bufId, newBufId, stamp, fills>>

(* OSA_bufCreate *)
Init ==
    /\ emptyQue = [i \in Bufs |-> i]
    /\ fullQue = <<>>
    /\ bufId = [t \in Threads |-> Invalid]
    /\ newBufId = [t \in Threads |-> Invalid]
    /\ stamp = [b \in Bufs |-> 0]
    /\ fills = 0

HasRoom(q) == Len(q) < NumBuf
Free(t) == newBufId[t] = Invalid

(* The writer works on its buffer, as often as it likes. *)
Fill(t) ==
    /\ Free(t)
    /\ bufId[t] # Invalid
    /\ fills < MaxStamp
    /\ fills' = fills + 1
    /\ stamp' = [stamp EXCEPT ![bufId[t]] = fills']
    /\ UNCHANGED <<emptyQue, fullQue, bufId, newBufId>>

(* OSA_bufGetEmpty and OSA_bufGetFull; without a buffer they fail, leaving *)
(* the caller with OSA_BUF_ID_INVALID, or wait.                            *)
GetEmpty(t) ==
    /\ Free(t)
    /\ bufId[t] = Invalid
    /\ emptyQue # <<>>
    /\ bufId' = [bufId EXCEPT ![t] = Head(emptyQue)]
    /\ emptyQue' = Tail(emptyQue)
    /\ UNCHANGED <<fullQue, newBufId, stamp, fills>>

GetFull(t) ==
    /\ Free(t)
    /\ bufId[t] = Invalid
    /\ fullQue # <<>>
    /\ bufId' = [bufId EXCEPT ![t] = Head(fullQue)]
    /\ fullQue' = Tail(fullQue)
    /\ UNCHANGED <<emptyQue, newBufId, stamp, fills>>

(* OSA_bufPutFull and OSA_bufPutEmpty wait for room; an invalid buffer is  *)
(* refused.  The caller is done with the buffer.                           *)
PutFull(t) ==
    /\ Free(t)
    /\ bufId[t] # Invalid
    /\ HasRoom(fullQue)
    /\ fullQue' = Append(fullQue, bufId[t])
    /\ bufId' = [bufId EXCEPT ![t] = Invalid]
    /\ UNCHANGED <<emptyQue, newBufId, stamp, fills>>

PutEmpty(t) ==
    /\ Free(t)
    /\ bufId[t] # Invalid
    /\ HasRoom(emptyQue)
    /\ emptyQue' = Append(emptyQue, bufId[t])
    /\ bufId' = [bufId EXCEPT ![t] = Invalid]
    /\ UNCHANGED <<fullQue, newBufId, stamp, fills>>

(* OSA_bufSwitchFull and OSA_bufSwitchEmpty up to the test of *bufId: the  *)
(* get never waits.  When it fails the caller keeps its buffer.  (A caller *)
(* without a buffer has none to put: it gets.)                             *)
SwitchFullGet(t) ==
    /\ Free(t)
    /\ bufId[t] # Invalid
    /\ emptyQue # <<>>
    /\ newBufId' = [newBufId EXCEPT ![t] = Head(emptyQue)]
    /\ emptyQue' = Tail(emptyQue)
    /\ UNCHANGED <<fullQue, bufId, stamp, fills>>

SwitchEmptyGet(t) ==
    /\ Free(t)
    /\ bufId[t] # Invalid
    /\ fullQue # <<>>
    /\ newBufId' = [newBufId EXCEPT ![t] = Head(fullQue)]
    /\ fullQue' = Tail(fullQue)
    /\ UNCHANGED <<emptyQue, bufId, stamp, fills>>

(* Variant of SwitchFullPut: the caller keeps the old buffer, too. *)
SwitchFullKept(t) ==
    /\ ~Free(t)
    /\ HasRoom(fullQue)
    /\ fullQue' = Append(fullQue, bufId[t])
    /\ newBufId' = [newBufId EXCEPT ![t] = Invalid]
    /\ UNCHANGED <<emptyQue, bufId, stamp, fills>>

(* The rest of a switch: the old buffer is put, which waits for room, and  *)
(* the caller goes on with the new one.                                    *)
SwitchFullPut(t) ==
    /\ ~Free(t)
    /\ HasRoom(fullQue)
    /\ fullQue' = Append(fullQue, bufId[t])
    /\ bufId' = [bufId EXCEPT ![t] = newBufId[t]]
    /\ newBufId' = [newBufId EXCEPT ![t] = Invalid]
    /\ UNCHANGED <<emptyQue, stamp, fills>>

SwitchEmptyPut(t) ==
    /\ ~Free(t)
    /\ HasRoom(emptyQue)
    /\ emptyQue' = Append(emptyQue, bufId[t])
    /\ bufId' = [bufId EXCEPT ![t] = newBufId[t]]
    /\ newBufId' = [newBufId EXCEPT ![t] = Invalid]
    /\ UNCHANGED <<fullQue, stamp, fills>>

Write(t) == \/ Fill(t) \/ GetEmpty(t) \/ PutFull(t)
            \/ SwitchFullGet(t) \/ SwitchFullPut(t)
Read(t) == \/ GetFull(t) \/ PutEmpty(t) \/ SwitchEmptyGet(t) \/ SwitchEmptyPut(t)

Next == (\E t \in Writers : Write(t)) \/ (\E t \in Readers : Read(t))

Spec == Init /\ [][Next]_vars
-----------------------------------------------------------------------------
(* Every buffer is in exactly one place: a queue, or the hand of a thread. *)
Places(b) == Cardinality({i \in DOMAIN emptyQue : emptyQue[i] = b})
           + Cardinality({i \in DOMAIN fullQue : fullQue[i] = b})
           + Cardinality({t \in Threads : bufId[t] = b})
           + Cardinality({t \in Threads : newBufId[t] = b})
BuffersOnce == \A b \in Bufs : Places(b) = 1

(* The second half of a switch and every put find room: a thread that asks *)
(* not to wait is never made to by the put.                                *)
PutsFindRoom ==
    (\E t \in Threads : bufId[t] # Invalid) => HasRoom(fullQue) /\ HasRoom(emptyQue)

(* What is queued or in a reader's hand is not written to. *)
ReaderUndisturbed ==
    [][\A b \in Bufs :
          (\/ \E i \in DOMAIN fullQue : fullQue[i] = b
           \/ \E t \in Readers : b \in {bufId[t], newBufId[t]})
              => stamp'[b] = stamp[b]]_vars
=============================================================================
