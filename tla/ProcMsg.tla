------------------------------- MODULE ProcMsg -------------------------------
(***************************************************************************)
(* The main thread: ProcMsgTread of src/main.c and the end of main().      *)
(*                                                                         *)
(* It takes each message for the application, copies an announced result   *)
(* from the shared memory to a free frame of every target that is on, and  *)
(* answers the sender.  One action per step between two calls that another *)
(* thread or process can observe.                                          *)
(***************************************************************************)
EXTENDS AlgObj

CONSTANT MaxErrors        \* the 3 of "eCount > 3"

ASSUME MaxErrorsAssumption == MaxErrors \in Nat

VARIABLES msgPc,      \* where the thread stands
          msg,        \* msgbuf
          pData,      \* pObj->pData
          stage,      \* the target being served
          msgFrame,   \* pEmptyFrame while this thread owns it, else 0
          eCount,     \* consecutive failures of OSA_Msg_Rsv
          isQuit,     \* the loop's flag
          lost,       \* frames of each target dropped by the size test
          logQuit     \* gLogDeamonQuit

localVars == <<msgPc, msg, pData, stage, msgFrame, eCount, isQuit, lost>>
procVars == <<localVars, logQuit>>

MsgPcs == {"start", "recv", "read", "closelog", "lock", "get", "copy", "put", "unlock",
           "reply", "exit", "join", "done"}

ProcInit ==
    /\ msgPc = "start"
    /\ msg = Command("START", "NONE")
    /\ pData = 0
    /\ stage = "PLC"
    /\ msgFrame = 0
    /\ eCount = 0
    /\ isQuit = FALSE
    /\ lost = [t \in Targets |-> 0]
    /\ logQuit = FALSE

Start ==
    /\ msgPc = "start"
    /\ AppClient_Start
    /\ msgPc' = "recv"
    /\ UNCHANGED <<objVars, toServer, shm, msg, pData, stage, msgFrame,
                   eCount, isQuit, lost, logQuit>>

(* Variant of Receive that answers the message before it is dealt with. *)
ReceiveAnsweredEarly ==
    /\ msgPc = "recv"
    /\ toServer # <<>>
    /\ toServer' = Tail(toServer)
    /\ msg' = Head(toServer)
    /\ toAlg' = Append(toAlg, AnswerTo(msg'))
    /\ msgPc' = IF msg'.cmd = "RESULT" THEN "read" ELSE "reply"
    /\ isQuit' = (msg'.cmd = "DELETE")
    /\ eCount' = 0
    /\ UNCHANGED <<objVars, shm, pData, stage, msgFrame, lost, logQuit>>

(* OSA_Msg_Rsv returns a message, and the switch selects what to do. *)
Receive ==
    /\ msgPc = "recv"
    /\ toServer # <<>>
    /\ toServer' = Tail(toServer)
    /\ msg' = Head(toServer)
    /\ msgPc' = IF msg'.cmd = "RESULT" THEN "read" ELSE "reply"
    /\ isQuit' = (msg'.cmd = "DELETE")
    /\ eCount' = 0
    /\ UNCHANGED <<objVars, toAlg, shm, pData, stage, msgFrame, lost, logQuit>>

(* OSA_Msg_Rsv fails (a signal interrupts it): the queue is opened again,  *)
(* or the loop ends after too many failures in a row.                      *)
ReceiveFails ==
    /\ msgPc = "recv"
    /\ isQuit' = (eCount > MaxErrors)
    /\ msgPc' = IF eCount > MaxErrors THEN "exit" ELSE "recv"
    /\ eCount' = eCount + 1
    /\ UNCHANGED <<objVars, ipcVars, msg, pData, stage, msgFrame, lost, logQuit>>

(* OSA_ShareMemRead, before the semaphore is taken; then, if it is asked   *)
(* for, the save of the result.  ErrLog has the save step by step: what    *)
(* matters here is that one which fills its file goes on to close it, and  *)
(* that this waits for the log's semaphore.                                *)
ReadResult ==
    /\ msgPc = "read"
    /\ pData' = shm[msg.slot]
    /\ msgPc' \in {"lock", "closelog"}
    /\ UNCHANGED <<objVars, ipcVars, msg, stage, msgFrame, eCount, isQuit,
                   lost, logQuit>>

TakeSem ==
    /\ msgPc = "lock"
    /\ AppClient_Enter
    /\ stage' = "PLC"
    /\ msgPc' = "get"
    /\ UNCHANGED <<target, freeQue, fullQue, content, ipcVars, msg, pData,
                   msgFrame, eCount, isQuit, lost, logQuit>>

(* This target is done: on to the client, or to the semaphore's release. *)
NextTarget ==
    /\ msgFrame' = 0
    /\ IF stage = "PLC"
       THEN stage' = "CLIENT" /\ msgPc' = "get"
       ELSE msgPc' = "unlock" /\ UNCHANGED stage

(* The target is off, or has no free frame: the result is not for it. *)
SkipTarget ==
    /\ msgPc = "get"
    /\ ~target[stage] \/ freeQue[stage] = <<>>
    /\ NextTarget
    /\ UNCHANGED <<objVars, ipcVars, msg, pData, eCount, isQuit, lost, logQuit>>

GetFreeFrame ==
    /\ msgPc = "get"
    /\ target[stage]
    /\ freeQue[stage] # <<>>
    /\ msgFrame' = Head(freeQue[stage])
    /\ freeQue' = RemoveOldest(freeQue, stage)
    /\ msgPc' = "copy"
    /\ UNCHANGED <<sem, target, fullQue, content, ipcVars, msg, pData, stage,
                   eCount, isQuit, lost, logQuit>>

CopyResult ==
    /\ msgPc = "copy"
    /\ Fits(msg.slot)
    /\ content' = [content EXCEPT ![stage][msgFrame] = pData]
    /\ msgPc' = "put"
    /\ UNCHANGED <<sem, target, freeQue, fullQue, ipcVars, msg, pData, stage,
                   msgFrame, eCount, isQuit, lost, logQuit>>

(* The size test fails: the frame goes to no queue and is never seen again.*)
DropFrame ==
    /\ msgPc = "copy"
    /\ ~Fits(msg.slot)
    /\ lost' = [lost EXCEPT ![stage] = @ + 1]
    /\ NextTarget
    /\ UNCHANGED <<objVars, ipcVars, msg, pData, eCount, isQuit, logQuit>>

(* Variant of PutFullFrame that does not look at the status of the put. *)
PutFullFrameUnchecked ==
    /\ msgPc = "put"
    /\ fullQue' = PutBack(fullQue, stage, msgFrame)
    /\ freeQue' = PutBack(freeQue, stage, msgFrame)
    /\ NextTarget
    /\ UNCHANGED <<sem, target, content, ipcVars, msg, pData, eCount, isQuit,
                   lost, logQuit>>

(* The full queue takes the frame; if it were full, the frame would go     *)
(* back to the free queue, and be lost if that were full as well.          *)
PutFullFrame ==
    /\ msgPc = "put"
    /\ fullQue' = IF HasRoom(fullQue[stage])
                  THEN PutBack(fullQue, stage, msgFrame) ELSE fullQue
    /\ freeQue' = IF ~HasRoom(fullQue[stage]) /\ HasRoom(freeQue[stage])
                  THEN PutBack(freeQue, stage, msgFrame) ELSE freeQue
    /\ NextTarget
    /\ UNCHANGED <<sem, target, content, ipcVars, msg, pData, eCount, isQuit,
                   lost, logQuit>>

ReleaseSem ==
    /\ msgPc = "unlock"
    /\ sem' = 1
    /\ msgPc' = "reply"
    /\ UNCHANGED <<target, freeQue, fullQue, content, ipcVars, msg, pData,
                   stage, msgFrame, eCount, isQuit, lost, logQuit>>

(* The reply, unless the sender wants none, to the algorithm: no other     *)
(* message has a sender.  Then the loop's test.                            *)
SendReply ==
    /\ msgPc = "reply"
    /\ IF msg.src # "NONE"
       THEN /\ toAlg' = Append(toAlg, AnswerTo(msg))
            /\ msg' = AnswerTo(msg)
       ELSE UNCHANGED <<toAlg, msg>>
    /\ msgPc' = IF isQuit THEN "exit" ELSE "recv"
    /\ UNCHANGED <<objVars, toServer, shm, pData, stage, msgFrame, eCount,
                   isQuit, lost, logQuit>>

(* Variant of LeaveLoop that leaves the log daemon running. *)
LeaveLoopOnly ==
    /\ msgPc = "exit"
    /\ AppClient_Quit
    /\ msgPc' = "join"
    /\ UNCHANGED <<objVars, toServer, shm, msg, pData, stage, msgFrame, eCount,
                   isQuit, lost, logQuit>>

(* After the loop: AppClient_Quit, then gLogDeamonQuit. *)
LeaveLoop ==
    /\ msgPc = "exit"
    /\ AppClient_Quit
    /\ logQuit' = TRUE
    /\ msgPc' = "join"
    /\ UNCHANGED <<objVars, toServer, shm, msg, pData, stage, msgFrame, eCount,
                   isQuit, lost>>

ProcStep == \/ Start \/ Receive \/ ReadResult \/ TakeSem \/ SkipTarget
            \/ GetFreeFrame \/ CopyResult \/ DropFrame \/ PutFullFrame
            \/ ReleaseSem \/ SendReply \/ LeaveLoop
-----------------------------------------------------------------------------
(* The types of the main thread's variables. *)
ProcTypeOK ==
    /\ msgPc \in MsgPcs
    /\ msg \in Messages
    /\ pData \in Nat
    /\ stage \in Targets
    /\ msgFrame \in Frames \cup {0}
    /\ eCount \in Nat
    /\ isQuit \in BOOLEAN
    /\ lost \in [Targets -> Nat]
    /\ logQuit \in BOOLEAN
    /\ msgPc \in {"read", "closelog", "lock", "get", "copy", "put", "unlock"}
           => msg.cmd = "RESULT"
    /\ msgPc \in {"copy", "put"} => msgFrame \in Frames
=============================================================================
