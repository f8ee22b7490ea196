------------------------------- MODULE AlgObj -------------------------------
(***************************************************************************)
(* The object the threads of the application share (AlgObj, src/main.h)    *)
(* and the operations on it that the server threads call (src/main.c).     *)
(*                                                                         *)
(* For each target, the PLC and the client, NumFrames result frames go     *)
(* round between a free and a full queue.  The queues are those of OsaQue, *)
(* seen as what that module shows them to be: bounded sequences.  The      *)
(* semaphore hndl guards the two target flags.  The SysV message queue is  *)
(* split by message type into the messages for the application (Des =      *)
(* MSG1) and those for the algorithm (Des = MSG3).                         *)
(*                                                                         *)
(* A result is a number, in the order the algorithm produced them; 0 is    *)
(* the content of memory no result was written to.  A slot is the offset   *)
(* in the shared memory at which the algorithm stores a result.            *)
(***************************************************************************)
EXTENDS Naturals, Sequences, FiniteSets

CONSTANTS NumFrames,      \* MAX_QUE_NUM
          Slots,          \* the offsets the algorithm uses
          ResultSize,     \* msgbuf.size
          MaxResultSize   \* MAX_RESULT_SIZE

ASSUME NumFramesAssumption == NumFrames \in Nat \ {0}
ASSUME SlotsAssumption == Slots \subseteq Nat /\ IsFiniteSet(Slots)
ASSUME SizeAssumption == ResultSize \in Nat /\ MaxResultSize \in Nat

Targets == {"PLC", "CLIENT"}
Frames == 1 .. NumFrames

VARIABLES sem,        \* hndl.count: 1 free, 0 taken
          target,     \* PlcTarget and ClientTarget
          freeQue,    \* ResultFreeQue and ClientFreeQue
          fullQue,    \* ResultFullQue and ClientFullQue
          content,    \* result[] and client[]: what each frame's data holds
          toServer,   \* messages of type MSG1, oldest first
          toAlg,      \* messages of type MSG3, oldest first
          shm         \* the shared memory, by slot

objVars == <<sem, target, freeQue, fullQue, content>>
ipcVars == <<toServer, toAlg, shm>>

Commands == {"START", "STOP", "RESULT", "DELETE"}
Senders == {"NONE", "MSG1", "MSG3"}

(* ALGAPP_MSG_BUF without Des, which is the queue the message stands in.   *)
Message(cmd, src, id, slot) ==
    [cmd |-> cmd, src |-> src, id |-> id, slot |-> slot]

(* The messages that carry no result. *)
Command(cmd, src) == Message(cmd, src, 0, 0)

Messages ==
    [cmd : Commands \ {"RESULT"}, src : Senders, id : {0}, slot : {0}]
    \cup [cmd : {"RESULT"}, src : Senders, id : Nat, slot : Slots]

(* The answer to a message: Des = src, and src = MSG1. *)
AnswerTo(m) == Message(m.cmd, "MSG1", m.id, m.slot)

(* SetEnv: the semaphore is free, every frame of each target is in its     *)
(* free queue, and nobody wants results yet.                               *)
SetEnv ==
    /\ sem = 1
    /\ target = [t \in Targets |-> FALSE]
    /\ freeQue = [t \in Targets |-> [i \in Frames |-> i]]
    /\ fullQue = [t \in Targets |-> <<>>]
    /\ content = [t \in Targets |-> [f \in Frames |-> 0]]
    /\ toServer = <<>>
    /\ toAlg = <<>>
    /\ shm = [s \in Slots |-> 0]

(* Variant of AppClient_Enter that goes on without the semaphore. *)
AppClient_EnterAnyway == UNCHANGED sem

(* AppClient_On and AppClient_Off wait for the semaphore, ... *)
AppClient_Enter ==
    /\ sem = 1
    /\ sem' = 0

(* ... set the flag of the target and give the semaphore back.  The one    *)
(* variant forgets that.                                                   *)
AppClient_OnKept(t) ==
    /\ target' = [target EXCEPT ![t] = TRUE]
    /\ UNCHANGED sem

AppClient_On(t) ==
    /\ target' = [target EXCEPT ![t] = TRUE]
    /\ sem' = 1

AppClient_Off(t) ==
    /\ target' = [target EXCEPT ![t] = FALSE]
    /\ sem' = 1

(* AppClient_Start and AppClient_Quit: msgsnd to the algorithm. *)
AppClient_Start == toAlg' = Append(toAlg, Command("START", "MSG1"))
AppClient_Quit == toAlg' = Append(toAlg, Command("DELETE", "MSG1"))

(* The queue operations as the application uses them: a get that never     *)
(* waits, and a put (guarded where the caller waits for room).             *)
HasRoom(q) == Len(q) < NumFrames
PutBack(ques, t, f) == [ques EXCEPT ![t] = Append(@, f)]
RemoveOldest(ques, t) == [ques EXCEPT ![t] = Tail(@)]

(* The size test of both copies: it adds the offset in the shared memory   *)
(* to the size although the copy starts at the frame's first byte.         *)
Fits(slot) == ResultSize + slot <= MaxResultSize

(* The types of the shared variables. *)
ObjTypeOK ==
    /\ sem \in {0, 1}
    /\ target \in [Targets -> BOOLEAN]
    /\ freeQue \in [Targets -> Seq(Frames)]
    /\ fullQue \in [Targets -> Seq(Frames)]
    /\ content \in [Targets -> [Frames -> Nat]]
    /\ toServer \in Seq(Messages)
    /\ toAlg \in Seq(Messages)
    /\ shm \in [Slots -> Nat]
=============================================================================
