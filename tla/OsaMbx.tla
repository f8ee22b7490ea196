------------------------------- MODULE OsaMbx -------------------------------
(***************************************************************************)
(* Tasks and their mailboxes: interface/src/osa_mbx.c and osa_tsk.c over   *)
(* the message queues of osa_msgq.c.  A task has one thread and two        *)
(* queues: rcv for the messages sent to it, ack for its own messages that  *)
(* come back answered.  The queues are rings like OsaQue's and are taken   *)
(* as the bounded sequences OsaQue implements.                             *)
(*                                                                         *)
(* A message is a block of memory that travels: sent, handled, and either  *)
(* freed by the receiver or sent back and freed by the sender.  Its        *)
(* parameter may be a block of memory too (OSA_MBX_FREE_PRM).  An address  *)
(* that was freed may be allocated again at once.                          *)
(***************************************************************************)
EXTENDS Naturals, Sequences, FiniteSets, SequencesExt

CONSTANTS Tasks,
          SendsTo,     \* SendsTo[t]: the tasks t sends messages to
          Ids,         \* addresses of messages
          Prms,        \* addresses of parameters
          QueLen,      \* OSA_MSGQ_LEN_MAX
          AckValues,   \* what handlers answer; 0 is OSA_SOK
          MaxCalls     \* bound: the calls each task makes

None == 0              \* NULL

ASSUME MbxAssumption ==
    /\ SendsTo \in [Tasks -> SUBSET Tasks]
    /\ IsFiniteSet(Tasks) /\ None \notin Tasks \cup Ids \cup Prms
    /\ QueLen \in Nat \ {0} /\ MaxCalls \in Nat
    /\ 0 \in AckValues /\ AckValues \subseteq Nat

VARIABLES rcv, ack,    \* rcvMbx and ackMbx of each task
          heap,        \* heap[m]: the message at address m, or Freed
          prmLive,     \* the allocated parameters
          mbxPc,       \* mbxPc[t]: "ready", or where t is in its call
          cur,         \* cur[t]: the message fncMain handles, or None
          call,        \* call[t]: the call t is in, or was in last
          calls        \* calls[t]: how many calls t made

mbxVars == <<rcv, ack, heap, prmLive, mbxPc, cur, call, calls>>

Freed == [from |-> None, wait |-> FALSE, prm |-> None, status |-> 0]
Message(t, wait, prm) == [from |-> t, wait |-> wait, prm |-> prm, status |-> 0]

(* to: who is still to be sent the message; sent: the messages whose       *)
(* answers are to come (only addresses are compared); prm: what is freed.  *)
Call(kind, to, wait, prm) ==
    [kind |-> kind, to |-> to, wait |-> wait, prm |-> prm, sent |-> {}, ret |-> 0]

MbxInit ==
    /\ rcv = [t \in Tasks |-> <<>>]
    /\ ack = [t \in Tasks |-> <<>>]
    /\ heap = [m \in Ids |-> Freed]
    /\ prmLive = {}
    /\ mbxPc = [t \in Tasks |-> "ready"]
    /\ cur = [t \in Tasks |-> None]
    /\ call = [t \in Tasks |-> Call("send", <<>>, FALSE, None)]
    /\ calls = [t \in Tasks |-> 0]

QueHasRoom(q) == Len(q) < QueLen
-----------------------------------------------------------------------------
(* OSA_mbxSendMsg begins: one receiver, a parameter of the caller's or one *)
(* to be freed.  OSA_mbxBroadcastMsg begins: it refuses a parameter to be  *)
(* freed unless it waits for the answers or has one receiver.              *)
Begin(t, c) ==
    /\ mbxPc[t] = "ready"
    /\ calls[t] < MaxCalls
    /\ calls' = [calls EXCEPT ![t] = @ + 1]
    /\ mbxPc' = [mbxPc EXCEPT ![t] = "send"]
    /\ call' = [call EXCEPT ![t] = c]
    /\ prmLive' = prmLive \cup ({c.prm} \ {None})
    /\ UNCHANGED <<rcv, ack, heap, cur>>

FreshPrms == (Prms \ prmLive) \cup {None}

SendMsg(t) ==
    \E u \in SendsTo[t], wait \in BOOLEAN, prm \in FreshPrms :
        Begin(t, Call("send", <<u>>, wait, prm))

BroadcastMsg(t) ==
    \E to \in SetToSeqs(SendsTo[t]), wait \in BOOLEAN, prm \in FreshPrms :
        /\ to # <<>>
        /\ prm # None => wait \/ Len(to) = 1
        /\ Begin(t, Call("broadcast", to, wait, prm))

(* OSA_msgqSendMsg to the next receiver: allocate, and put, waiting for    *)
(* room.  The code allocates before it waits; until the put nobody else    *)
(* has the new address and the sender, who neither gives up nor frees it,  *)
(* goes on with nothing but the put, so both are one step at the put.  (An *)
(* address a blocked sender holds is one the others have not: the bound    *)
(* Ids is that of the messages in queues and hands.)  After the last one   *)
(* the caller waits for the answers, if it wants them, or returns.         *)
SendNext(t) ==
    LET c == call[t]
        u == Head(c.to)
    IN /\ mbxPc[t] = "send"
       /\ QueHasRoom(rcv[u])
       /\ \E m \in {i \in Ids : heap[i] = Freed} :
             /\ heap' = [heap EXCEPT ![m] = Message(t, c.wait, c.prm)]
             /\ rcv' = [rcv EXCEPT ![u] = Append(@, m)]
             /\ call' = [call EXCEPT ![t] =
                    [c EXCEPT !.to = Tail(@),
                              !.sent = IF c.wait THEN @ \cup {m} ELSE @]]
       /\ mbxPc' = [mbxPc EXCEPT ![t] = IF Len(c.to) > 1 THEN "send"
                                  ELSE IF c.wait THEN "ackwait" ELSE "ready"]
       /\ UNCHANGED <<ack, prmLive, cur, calls>>

(* The blocks a call to OSA_mbxFreeMsg frees. *)
FreeMsg(m) ==
    /\ heap' = [heap EXCEPT ![m] = Freed]
    /\ prmLive' = prmLive \ {heap[m].prm}

(* Variant of RecvAck that takes any answer for its own. *)
RecvAckAny(t) ==
    /\ mbxPc[t] = "ackwait"
    /\ ack[t] # <<>>
    /\ FreeMsg(Head(ack[t]))
    /\ call' = [call EXCEPT ![t].ret = heap[Head(ack[t])].status]
    /\ mbxPc' = [mbxPc EXCEPT ![t] = "ready"]
    /\ ack' = [ack EXCEPT ![t] = Tail(@)]
    /\ UNCHANGED <<rcv, cur, calls>>

(* Variant of RecvAck whose broadcast keeps the last status. *)
RecvAckLast(t) ==
    /\ mbxPc[t] = "ackwait"
    /\ ack[t] # <<>>
    /\ LET m == Head(ack[t])
           left == call[t].sent \ {m}
       IN /\ heap' = [heap EXCEPT ![m] = Freed]
          /\ prmLive' = IF left = {} THEN prmLive \ {call[t].prm} ELSE prmLive
          /\ call' = [call EXCEPT ![t].sent = left, ![t].ret = heap[m].status]
          /\ mbxPc' = IF left = {} THEN [mbxPc EXCEPT ![t] = "ready"] ELSE mbxPc
    /\ ack' = [ack EXCEPT ![t] = Tail(@)]
    /\ UNCHANGED <<rcv, cur, calls>>

(* A pass of the loops that wait for the answers.  An answer to some older *)
(* message is freed and otherwise ignored.  A broadcast keeps the first    *)
(* status that is not OSA_SOK, and frees its parameter with the last       *)
(* answer; a send frees it with the message.                               *)
RecvAck(t) ==
    /\ mbxPc[t] = "ackwait"
    /\ ack[t] # <<>>
    /\ LET m == Head(ack[t])
           c == call[t]
           known == m \in c.sent
           left == c.sent \ {m}
       IN /\ IF known /\ c.kind = "broadcast"
             THEN /\ heap' = [heap EXCEPT ![m] = Freed]
                  /\ prmLive' = IF left = {} THEN prmLive \ {c.prm} ELSE prmLive
             ELSE FreeMsg(m)
          /\ call' = [call EXCEPT ![t] =
                 [c EXCEPT !.sent = left,
                           !.ret = IF known /\ @ = 0 THEN heap[m].status ELSE @]]
          /\ mbxPc' = IF left = {} THEN [mbxPc EXCEPT ![t] = "ready"] ELSE mbxPc
    /\ ack' = [ack EXCEPT ![t] = Tail(@)]
    /\ UNCHANGED <<rcv, cur, calls>>
-----------------------------------------------------------------------------
(* OSA_tskThrMain: the next message goes to fncMain.  (OSA_mbxWaitCmd is   *)
(* this step and Handled(t, 0), over and over.)                            *)
WaitMsg(t) ==
    /\ mbxPc[t] = "ready"
    /\ cur[t] = None
    /\ rcv[t] # <<>>
    /\ cur' = [cur EXCEPT ![t] = Head(rcv[t])]
    /\ rcv' = [rcv EXCEPT ![t] = Tail(@)]
    /\ UNCHANGED <<ack, heap, prmLive, mbxPc, call, calls>>

(* Variants of AckOrFreeMsg: the message is freed whoever waits for it, or *)
(* freed after it was sent back.                                           *)
AckOrFreeMsgFrees(m, v) == FreeMsg(m) /\ UNCHANGED ack

AckAndFreeMsg(m, v) ==
    IF heap[m].wait
    THEN /\ QueHasRoom(ack[heap[m].from])
         /\ heap' = [heap EXCEPT ![m] = Freed]
         /\ ack' = [ack EXCEPT ![heap[m].from] = Append(@, m)]
         /\ UNCHANGED prmLive
    ELSE FreeMsg(m) /\ UNCHANGED ack

(* OSA_mbxAckOrFreeMsg: back to the sender, waiting for room, or freed. *)
AckOrFreeMsg(m, v) ==
    IF heap[m].wait
    THEN /\ QueHasRoom(ack[heap[m].from])
         /\ heap' = [heap EXCEPT ![m].status = v]
         /\ ack' = [ack EXCEPT ![heap[m].from] = Append(@, m)]
         /\ UNCHANGED prmLive
    ELSE FreeMsg(m) /\ UNCHANGED ack

(* fncMain is done with its message; it may have sent others meanwhile. *)
Handled(t, v) ==
    /\ mbxPc[t] = "ready"
    /\ cur[t] # None
    /\ AckOrFreeMsg(cur[t], v)
    /\ cur' = [cur EXCEPT ![t] = None]
    /\ UNCHANGED <<rcv, mbxPc, call, calls>>

(* OSA_mbxFlush: every received message is answered or freed, then every   *)
(* answer is freed.                                                        *)
Flush(t) ==
    /\ mbxPc[t] = "ready"
    /\ calls[t] < MaxCalls
    /\ calls' = [calls EXCEPT ![t] = @ + 1]
    /\ mbxPc' = [mbxPc EXCEPT ![t] = "flush"]
    /\ UNCHANGED <<rcv, ack, heap, prmLive, cur, call>>

FlushNext(t) ==
    /\ mbxPc[t] = "flush"
    /\ IF rcv[t] # <<>>
       THEN /\ AckOrFreeMsg(Head(rcv[t]), 0)
            /\ rcv' = [rcv EXCEPT ![t] = Tail(@)]
            /\ UNCHANGED mbxPc
       ELSE /\ mbxPc' = [mbxPc EXCEPT ![t] = "flushAck"]
            /\ UNCHANGED <<rcv, ack, heap, prmLive>>
    /\ UNCHANGED <<cur, call, calls>>

FlushAckNext(t) ==
    /\ mbxPc[t] = "flushAck"
    /\ IF ack[t] # <<>>
       THEN /\ FreeMsg(Head(ack[t]))
            /\ ack' = [ack EXCEPT ![t] = Tail(@)]
            /\ UNCHANGED mbxPc
       ELSE /\ mbxPc' = [mbxPc EXCEPT ![t] = "ready"]
            /\ UNCHANGED <<ack, heap, prmLive>>
    /\ UNCHANGED <<rcv, cur, call, calls>>
-----------------------------------------------------------------------------
(* What a task must do, and what it may do. *)
Continue(t) == \/ SendNext(t) \/ RecvAck(t) \/ FlushNext(t) \/ FlushAckNext(t)
               \/ WaitMsg(t) \/ \E v \in AckValues : Handled(t, v)
Choose(t) == SendMsg(t) \/ BroadcastMsg(t) \/ Flush(t)

MbxNext == \E t \in Tasks : Continue(t) \/ Choose(t)

MbxSpec == MbxInit /\ [][MbxNext]_mbxVars
MbxFairSpec == MbxSpec /\ \A t \in Tasks : WF_mbxVars(Continue(t))
-----------------------------------------------------------------------------
Live == {m \in Ids : heap[m] # Freed}

(* Types, and no queue beyond its length. *)
MbxTypeOK ==
    /\ \A q \in {rcv, ack}, t \in Tasks :
          q[t] \in Seq(Ids) /\ Len(q[t]) <= QueLen
    /\ \A m \in Live :
          heap[m] \in [from : Tasks, wait : BOOLEAN, prm : Prms \cup {None},
                      status : AckValues]
    /\ prmLive \subseteq Prms
    /\ mbxPc \in [Tasks -> {"ready", "send", "ackwait", "flush", "flushAck"}]
    /\ cur \in [Tasks -> Ids \cup {None}]
    /\ calls \in [Tasks -> 0 .. MaxCalls]

(* No message is lost, freed twice or used after it was freed: what is     *)
(* allocated is in one place, and what is freed in none.                   *)
QueuePlaces(q, m) ==
    {p \in Tasks \X (1 .. QueLen) : p[2] \in DOMAIN q[p[1]] /\ q[p[1]][p[2]] = m}
MessagePlaces(m) ==
    Cardinality({t \in Tasks : cur[t] = m})
    + Cardinality(QueuePlaces(rcv, m)) + Cardinality(QueuePlaces(ack, m))
MessagesOnce == \A m \in Ids : MessagePlaces(m) = IF m \in Live THEN 1 ELSE 0

(* A parameter lives as long as a message points to it, which a broadcast's*)
(* do together, and no longer than the last of them or the call.           *)
PrmsOwned ==
    /\ \A m \in Live : heap[m].prm \in prmLive \cup {None}
    /\ \A p \in prmLive :
          \/ \E m \in Live : heap[m].prm = p
          \/ \E t \in Tasks : mbxPc[t] \in {"send", "ackwait"} /\ call[t].prm = p

(* Messages and parameters are both freed once, by the right task, and no  *)
(* queue holds more than it has room for.                                  *)
HeapOwned == MbxTypeOK /\ MessagesOnce /\ PrmsOwned

(* A task that uses its mailbox alone never gets an answer it does not     *)
(* wait for: the branch for "some old message" is dead, and so is the      *)
(* second loop of a flush.                                                 *)
AnswersExpected ==
    \A t \in Tasks : \A i \in DOMAIN ack[t] :
        mbxPc[t] \in {"send", "ackwait"} /\ ack[t][i] \in call[t].sent

(* If no two tasks wait for each other every call returns. *)
CallsReturn == \A t \in Tasks : mbxPc[t] # "ready" ~> mbxPc[t] = "ready"

(* A handler's failure is what the caller's call returns, whichever of     *)
(* a broadcast's receivers failed and in whatever order they answered.     *)
FailureReported ==
    \A t \in Tasks :
        (\E m \in Live : heap[m].from = t /\ heap[m].status # 0)
            ~> (mbxPc[t] = "ready" /\ call[t].ret # 0)
=============================================================================
