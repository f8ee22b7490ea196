----------------------------- MODULE GvssProofs -----------------------------
(***************************************************************************)
(* Proofs about GvssSystem, for every number of frames, every set of       *)
(* slots, every size and every bound: the types, and what becomes of the   *)
(* frames.                                                                 *)
(***************************************************************************)
EXTENDS GvssSystem, QueueLemmas

(* The messages the application and the algorithm build are messages. *)
LEMMA CommandTyped ==
    \A c \in Commands \ {"RESULT"}, s \in Senders : Command(c, s) \in Messages
  BY DEF Command, Message, Messages, Commands, Senders

LEMMA AnswerTyped == ASSUME NEW m \in Messages PROVE AnswerTo(m) \in Messages
  BY DEF AnswerTo, Message, Messages, Senders, Commands

LEMMA QuitTyped ==
    ASSUME ObjTypeOK, AppClient_Quit
    PROVE  toAlg' \in Seq(Messages)
<1>1. Command("DELETE", "MSG1") \in Messages
  BY CommandTyped DEF Commands, Senders
<1> QED
  BY <1>1, SeqFacts DEF AppClient_Quit, ObjTypeOK

LEMMA InitTyped == ASSUME Init PROVE TypeOK
<1>1. [i \in Frames |-> i] \in Seq(Frames)
  BY NumFramesAssumption DEF Frames
<1>2. <<>> \in Seq(Frames) /\ <<>> \in Seq(Messages) /\ <<>> \in Seq(Nat)
  BY EmptySeq
<1>3. Command("START", "NONE") \in Messages
  BY CommandTyped DEF Commands, Senders
<1> USE <1>1, <1>2, <1>3 DEF Init
<1>4. ObjTypeOK
  BY DEF SetEnv, ObjTypeOK
<1>5. ProcTypeOK
  BY DEF ProcInit, ProcTypeOK, MsgPcs, Targets
<1>6. SrvTypeOK
  BY DEF SrvInit, SrvTypeOK, SrvPcs, Targets
<1>7. EnvTypeOK
  BY BoundsAssumption DEF EnvTypeOK
<1> QED
  BY <1>4, <1>5, <1>6, <1>7 DEF TypeOK
-----------------------------------------------------------------------------
(* A step of the main thread keeps the types of what it can change. *)
LEMMA ProcTyped ==
    ASSUME ObjTypeOK, ProcTypeOK, ProcStep
    PROVE  ObjTypeOK' /\ ProcTypeOK'
<1> USE DEF ObjTypeOK, ProcTypeOK, objVars, ipcVars, MsgPcs
<1>1. CASE Start
  <2>1. Command("START", "MSG1") \in Messages
    BY CommandTyped DEF Commands, Senders
  <2> QED
    BY <1>1, <2>1, SeqFacts DEF Start, AppClient_Start
<1>2. CASE Receive
  <2>1. msg' \in Messages /\ toServer' \in Seq(Messages)
    BY <1>2, SeqFacts DEF Receive
  <2> QED
    BY <1>2, <2>1 DEF Receive
<1>3. CASE ReadResult
  <2>1. msg.slot \in Slots
    BY <1>3 DEF ReadResult, Messages, Commands
  <2> QED
    BY <1>3, <2>1 DEF ReadResult
<1>4. CASE TakeSem
  BY <1>4 DEF TakeSem, AppClient_Enter, Targets
<1>5. CASE SkipTarget
  BY <1>5 DEF SkipTarget, NextTarget, Targets
<1>6. CASE GetFreeFrame
  BY <1>6, SeqFacts DEF GetFreeFrame, RemoveOldest
<1>7. CASE CopyResult
  BY <1>7 DEF CopyResult
<1>8. CASE DropFrame
  BY <1>8 DEF DropFrame, NextTarget, Targets
<1>9. CASE PutFullFrame
  <2>1. \A q \in [Targets -> Seq(Frames)] :
            PutBack(q, stage, msgFrame) \in [Targets -> Seq(Frames)]
    BY <1>9, SeqFacts DEF PutFullFrame, PutBack
  <2>2. freeQue' \in [Targets -> Seq(Frames)] /\ fullQue' \in [Targets -> Seq(Frames)]
    BY <1>9, <2>1 DEF PutFullFrame
  <2> QED
    BY <1>9, <2>2 DEF PutFullFrame, NextTarget, Targets
<1>10. CASE ReleaseSem
  BY <1>10 DEF ReleaseSem
<1>11. CASE SendReply
  <2>1. AnswerTo(msg) \in Messages /\ Append(toAlg, AnswerTo(msg)) \in Seq(Messages)
    BY AnswerTyped, SeqFacts
  <2>2. msgPc' \in {"exit", "recv"}
    BY <1>11 DEF SendReply
  <2>3. toAlg' \in Seq(Messages) /\ msg' \in Messages
    BY <1>11, <2>1 DEF SendReply
  <2> QED
    BY <1>11, <2>2, <2>3 DEF SendReply
<1>12. CASE LeaveLoop
  BY <1>12, QuitTyped DEF LeaveLoop
<1> QED
  BY <1>1, <1>2, <1>3, <1>4, <1>5, <1>6, <1>7, <1>8, <1>9, <1>10, <1>11, <1>12
     DEF ProcStep
-----------------------------------------------------------------------------
(* A step of a server thread, of its peer or of the network keeps the      *)
(* types of what it can change.                                            *)
LEMMA SrvTyped ==
    ASSUME ObjTypeOK, SrvTypeOK, NEW t \in Targets,
           SrvStep(t) \/ PeerStep(t) \/ NetStep(t)
    PROVE  ObjTypeOK' /\ SrvTypeOK'
<1> USE DEF ObjTypeOK, SrvTypeOK, objVars, ipcVars, Goto, SrvPcs
<1>1. CASE InitServer(t)
  BY <1>1 DEF InitServer
<1>2. CASE TestQuit(t)
  BY <1>2 DEF TestQuit
<1>3. CASE EnterSwitch(t) \/ SwitchOn(t)
  BY <1>3 DEF EnterSwitch, AppClient_Enter, SwitchOn, AppClient_On
<1>4. CASE EndSession(t)
  BY <1>4 DEF EndSession
<1>5. CASE GetFullFrame(t)
  BY <1>5, SeqFacts DEF GetFullFrame, RemoveOldest
<1>6. CASE FormatResult(t)
  BY <1>6 DEF FormatResult
<1>7. CASE GiveBackFrame(t)
  BY <1>7, SeqFacts DEF GiveBackFrame, PutBack
<1>8. CASE SwitchOff(t)
  BY <1>8 DEF SwitchOff, AppClient_Off
<1>9. CASE QuitServer(t)
  BY <1>9, QuitTyped DEF QuitServer
<1>10. CASE Send(t)
  BY <1>10, SeqFacts DEF Send, AfterSend
<1>11. CASE SendFails(t)
  BY <1>11 DEF SendFails, AfterSend
<1>12. CASE SkipSend(t)
  BY <1>12 DEF SkipSend
<1>13. CASE Answer(t)
  BY <1>13 DEF Answer
<1>14. CASE AnswerFails(t)
  BY <1>14 DEF AnswerFails
<1>15. CASE Accept(t)
  BY <1>15 DEF Accept
<1>16. CASE AcceptFails(t)
  BY <1>16 DEF AcceptFails
<1>17. CASE ConnectionBroken(t)
  BY <1>17 DEF ConnectionBroken
<1>18. CASE InitServerFails(t)
  BY <1>18 DEF InitServerFails
<1> QED
  BY <1>1, <1>2, <1>3, <1>4, <1>5, <1>6, <1>7, <1>8, <1>9,
     <1>10, <1>11, <1>12, <1>13, <1>14, <1>15, <1>16, <1>17, <1>18
     DEF SrvStep, PeerStep, NetStep
-----------------------------------------------------------------------------
(* Every step keeps the types: the steps of the components by the lemmas   *)
(* above, those of the algorithm, the signals and the daemon by themselves.*)
LEMMA NextTyped == ASSUME TypeOK, [Next]_vars PROVE TypeOK'
<1> USE DEF TypeOK
<1>1. CASE Proc
  BY <1>1, ProcTyped DEF Proc, srvVars, envVars, logVars, SrvTypeOK, EnvTypeOK
<1>2. ASSUME NEW t \in Targets, Server(t) \/ Peer(t) \/ Net(t)
      PROVE  TypeOK'
  <2>1. ObjTypeOK' /\ SrvTypeOK'
    BY <1>2, SrvTyped DEF Server, Peer, Net
  <2>2. UNCHANGED <<procVars, envVars, daemonPc>>
    BY <1>2 DEF Server, Peer, Net, logVars
  <2>3. logHndl' \in {logHndl, "deleted"}
    BY <1>2 DEF Server, Peer, Net, logVars, LogExit
  <2> QED
    BY <2>1, <2>2, <2>3 DEF procVars, localVars, envVars, ProcTypeOK, EnvTypeOK
<1>3. ASSUME NEW s \in Slots, AlgResult(s)
      PROVE  TypeOK'
  <2>1. produced' \in Nat
    BY <1>3 DEF AlgResult, EnvTypeOK
  <2>2. Message("RESULT", "MSG3", produced', s) \in Messages
    BY <2>1 DEF Message, Messages, Senders
  <2>3. ObjTypeOK'
    BY <1>3, <2>1, <2>2, SeqFacts DEF AlgResult, ObjTypeOK, objVars
  <2>4. EnvTypeOK'
    BY <1>3, <2>1 DEF logVars, AlgResult, EnvTypeOK
  <2> QED
    BY <1>3, <2>3, <2>4 DEF AlgResult, procVars, localVars, srvVars, ProcTypeOK, SrvTypeOK
<1>4. CASE AlgReads
  <2>1. ASSUME NEW src \in {"NONE", "MSG3"}, AlgStart(src)
        PROVE  ObjTypeOK' /\ EnvTypeOK'
    <3>1. Command("START", src) \in Messages
      BY CommandTyped DEF Commands, Senders
    <3> QED
      BY <2>1, <3>1, SeqFacts DEF logVars, AlgStart, ObjTypeOK, EnvTypeOK, objVars
  <2>2. ASSUME AlgAnswered
        PROVE  ObjTypeOK' /\ EnvTypeOK'
    <3>1. toAlg' \in Seq(Messages) /\ busy' \in SUBSET Slots
      BY <2>2, SeqFacts DEF AlgAnswered, ObjTypeOK, EnvTypeOK
    <3> QED
      BY <2>2, <3>1 DEF logVars, AlgAnswered, ObjTypeOK, EnvTypeOK, objVars
  <2>3. ASSUME AlgDelete
        PROVE  ObjTypeOK' /\ EnvTypeOK'
    <3>1. Command("DELETE", "NONE") \in Messages
      BY CommandTyped DEF Commands, Senders
    <3>2. toAlg' \in Seq(Messages) /\ toServer' \in Seq(Messages)
      BY <2>3, <3>1, SeqFacts DEF AlgDelete, ObjTypeOK
    <3> QED
      BY <2>3, <3>2 DEF logVars, AlgDelete, ObjTypeOK, EnvTypeOK, objVars
  <2>4. UNCHANGED <<procVars, srvVars>>
    BY <1>4 DEF AlgReads, AlgStart, AlgAnswered, AlgDelete
  <2> QED
    BY <1>4, <2>1, <2>2, <2>3, <2>4 DEF AlgReads, procVars, localVars, srvVars,
       ProcTypeOK, SrvTypeOK
<1>5. CASE Signal
  <2>1. Interrupt
    BY <1>5 DEF Signal, SignalElsewhere, SignalInAccept, SignalInRecv
  <2>2. handler \in Targets /\ signals' \in Nat
    BY <2>1 DEF Interrupt, SrvTypeOK, EnvTypeOK
  <2>3. UNCHANGED <<objVars, ipcVars, algPc, busy, produced, logVars>>
    BY <1>5 DEF Signal, SignalElsewhere, SignalInAccept, SignalInRecv, ReceiveFails
  <2>4. ObjTypeOK' /\ EnvTypeOK'
    BY <2>2, <2>3 DEF logVars, objVars, ipcVars, ObjTypeOK, EnvTypeOK
  <2>5. ProcTypeOK'
    <3>1. CASE SignalInRecv
      BY <3>1 DEF SignalInRecv, ReceiveFails, MsgPcs, ProcTypeOK
    <3>2. CASE UNCHANGED procVars
      BY <3>2 DEF procVars, localVars, ProcTypeOK
    <3> QED
      BY <1>5, <3>1, <3>2 DEF Signal, SignalElsewhere, SignalInAccept
  <2>6. SrvTypeOK'
    <3>1. CASE SignalElsewhere
      BY <2>2, <3>1 DEF SignalElsewhere, SrvTypeOK
    <3>2. ASSUME NEW t \in Targets, SignalInAccept(t)
          PROVE  SrvTypeOK'
      BY <2>2, <3>2 DEF SignalInAccept, Goto, SrvPcs, SrvTypeOK
    <3>3. CASE SignalInRecv
      BY <2>2, <3>3 DEF SignalInRecv, SrvTypeOK
    <3> QED
      BY <1>5, <3>1, <3>2, <3>3 DEF Signal
  <2> QED
    BY <2>4, <2>5, <2>6
<1>6. CASE Daemon \/ LogWait
  <2>1. UNCHANGED <<objVars, ipcVars, srvVars, envVars, logHndl>>
    BY <1>6 DEF Daemon, LogWait, DaemonInit, DaemonLoop, DaemonFlush, CloseErrLog, logVars
  <2>2. daemonPc' \in {daemonPc, "loop", "flush", "done"}
    BY <1>6 DEF Daemon, LogWait, DaemonInit, DaemonLoop, DaemonFlush, CloseErrLog, logVars
  <2>3. ObjTypeOK' /\ SrvTypeOK' /\ EnvTypeOK'
    BY <2>1, <2>2 DEF objVars, ipcVars, srvVars, envVars, ObjTypeOK, SrvTypeOK, EnvTypeOK
  <2>4. ProcTypeOK'
    BY <1>6 DEF Daemon, LogWait, DaemonInit, DaemonLoop, DaemonFlush, CloseErrLog,
       procVars, localVars, MsgPcs, ProcTypeOK
  <2> QED
    BY <2>3, <2>4
<1>7. CASE Join
  BY <1>7 DEF logVars, Join, MsgPcs, objVars, ipcVars, srvVars, envVars,
     ObjTypeOK, ProcTypeOK, SrvTypeOK, EnvTypeOK
<1>8. CASE UNCHANGED vars
  <2>1. ObjTypeOK' /\ EnvTypeOK'
    BY <1>8 DEF vars, objVars, ipcVars, envVars, logVars, ObjTypeOK, EnvTypeOK
  <2>2. ProcTypeOK' /\ SrvTypeOK'
    BY <1>8 DEF vars, procVars, localVars, srvVars, ProcTypeOK, SrvTypeOK
  <2> QED
    BY <2>1, <2>2
<1> QED
  BY <1>1, <1>2, <1>3, <1>4, <1>5, <1>6, <1>7, <1>8 DEF Next

(* TypeOK holds in every reachable state: no variable of AlgObj, of a      *)
(* thread or of a message ever leaves its range.                           *)
THEOREM TypeCorrect == Spec => []TypeOK
  BY InitTyped, NextTyped, PTL DEF Spec
-----------------------------------------------------------------------------
(* What the queue operations do to the lengths. *)
LEMMA PutLength ==
    ASSUME NEW q \in [Targets -> Seq(Frames)], NEW t \in Targets, NEW u \in Targets,
           NEW f \in Frames
    PROVE  Len(PutBack(q, t, f)[u]) = IF u = t THEN Len(q[u]) + 1 ELSE Len(q[u])
  BY SeqFacts DEF PutBack

LEMMA RemoveLength ==
    ASSUME NEW q \in [Targets -> Seq(Frames)], NEW t \in Targets, NEW u \in Targets,
           q[t] # <<>>
    PROVE  Len(RemoveOldest(q, t)[u]) = IF u = t THEN Len(q[u]) - 1 ELSE Len(q[u])
  BY SeqFacts DEF RemoveOldest

LEMMA Counts ==
    ASSUME TypeOK, FramesAccounted, NEW u \in Targets
    PROVE  /\ Len(freeQue[u]) \in Nat
           /\ Len(fullQue[u]) \in Nat
           /\ lost[u] \in Nat
           /\ MainHolds(u) \in {0, 1}
           /\ ServerHolds(u) \in {0, 1}
           /\ NumFrames \in Nat
           /\ Len(freeQue[u]) + Len(fullQue[u]) + MainHolds(u) + ServerHolds(u)
                + lost[u] = NumFrames
<1>1. Len(freeQue[u]) \in Nat /\ Len(fullQue[u]) \in Nat /\ lost[u] \in Nat
  BY SeqFacts DEF TypeOK, ObjTypeOK, ProcTypeOK
<1> QED
  BY <1>1, NumFramesAssumption DEF FramesAccounted, FrameTotal, MainHolds, ServerHolds

LEMMA InitFrames == ASSUME Init PROVE FramesAccounted
<1>1. Len([i \in Frames |-> i]) = NumFrames /\ Len(<<>>) = 0
  BY NumFramesAssumption DEF Frames
<1> QED
  BY <1>1, NumFramesAssumption DEF Init, SetEnv, ProcInit, SrvInit, FramesAccounted,
     FrameTotal, MainHolds, ServerHolds

(* A frame in the hand of a thread is missing from the queues, so the      *)
(* queue it goes to has room for it.                                       *)
LEMMA HandLeavesRoom == ASSUME TypeOK, FramesAccounted PROVE PutsFindRoom
<1>1. ASSUME NEW u \in Targets
      PROVE  /\ MainHolds(u) = 1 => HasRoom(fullQue[u])
             /\ ServerHolds(u) = 1 => HasRoom(freeQue[u])
  <2>0. /\ Len(freeQue[u]) \in Nat /\ Len(fullQue[u]) \in Nat /\ lost[u] \in Nat
        /\ MainHolds(u) \in {0, 1} /\ ServerHolds(u) \in {0, 1} /\ NumFrames \in Nat
        /\ Len(freeQue[u]) + Len(fullQue[u]) + MainHolds(u) + ServerHolds(u)
              + lost[u] = NumFrames
    BY Counts
  <2>p. PICK a \in Nat, b \in Nat, m \in Nat, s \in Nat, l \in Nat :
            /\ a = Len(freeQue[u]) /\ b = Len(fullQue[u]) /\ l = lost[u]
            /\ m = MainHolds(u) /\ s = ServerHolds(u)
    BY <2>0
  <2>n. NumFrames \in Nat /\ a + b + m + s + l = NumFrames
    BY <2>0, <2>p
  <2>1. (m = 1 => b < NumFrames) /\ (s = 1 => a < NumFrames)
    BY <2>n
  <2> QED
    BY <2>p, <2>1 DEF HasRoom
<1>2. stage \in Targets
  BY DEF TypeOK, ProcTypeOK
<1> QED
  BY <1>1, <1>2 DEF PutsFindRoom, MainHolds, ServerHolds

(* Every step of the main thread moves a frame or leaves all where they    *)
(* are; its fallback, which could lose one, is unreachable by the count.   *)
LEMMA ProcFrames ==
    ASSUME TypeOK, FramesAccounted, Proc, NEW u \in Targets
    PROVE  FrameTotal(u)' = NumFrames
<1>0. /\ Len(freeQue[u]) \in Nat /\ Len(fullQue[u]) \in Nat /\ lost[u] \in Nat
      /\ MainHolds(u) \in {0, 1} /\ ServerHolds(u) \in {0, 1} /\ NumFrames \in Nat
      /\ Len(freeQue[u]) + Len(fullQue[u]) + MainHolds(u) + ServerHolds(u)
            + lost[u] = NumFrames
  BY Counts
<1>p. PICK a \in Nat, b \in Nat, m \in Nat, s \in Nat, l \in Nat :
          /\ a = Len(freeQue[u]) /\ b = Len(fullQue[u]) /\ l = lost[u]
          /\ m = MainHolds(u) /\ s = ServerHolds(u)
  BY <1>0
<1>n. NumFrames \in Nat /\ a + b + m + s + l = NumFrames
  BY <1>0, <1>p
<1>1. stage \in Targets /\ freeQue \in [Targets -> Seq(Frames)]
      /\ fullQue \in [Targets -> Seq(Frames)] /\ lost \in [Targets -> Nat]
      /\ (msgPc \in {"copy", "put"} => msgFrame \in Frames)
  BY DEF TypeOK, ObjTypeOK, ProcTypeOK
<1>2. ServerHolds(u)' = ServerHolds(u)
  BY DEF Proc, srvVars, ServerHolds
<1>3. CASE Start \/ Receive \/ ReadResult \/ TakeSem \/ ReleaseSem \/ SendReply
           \/ LeaveLoop \/ SkipTarget \/ CopyResult
  <2>1. UNCHANGED <<freeQue, fullQue, lost>>
    BY <1>3 DEF Start, Receive, ReadResult, TakeSem, ReleaseSem, SendReply,
       LeaveLoop, SkipTarget, CopyResult, objVars
  <2>2. MainHolds(u)' = MainHolds(u)
    BY <1>3 DEF Start, Receive, ReadResult, TakeSem, ReleaseSem, SendReply, LeaveLoop,
       SkipTarget, CopyResult, NextTarget, MainHolds
  <2> QED
    BY <1>0, <1>2, <2>1, <2>2 DEF FrameTotal
<1>4. CASE GetFreeFrame
  <2>1. Len(freeQue'[u]) =
            IF u = stage THEN Len(freeQue[u]) - 1 ELSE Len(freeQue[u])
    BY <1>1, <1>4, RemoveLength DEF GetFreeFrame
  <2>2. MainHolds(u) = 0 /\ MainHolds(u)' = IF u = stage THEN 1 ELSE 0
    BY <1>4 DEF GetFreeFrame, MainHolds
  <2>3. UNCHANGED <<fullQue, lost>>
    BY <1>4 DEF GetFreeFrame
  <2>4. CASE u = stage
    <3>1. FrameTotal(u)' = (a - 1) + b + 1 + s + l /\ m = 0
      BY <1>p, <1>2, <2>1, <2>2, <2>3, <2>4 DEF FrameTotal
    <3> QED
      BY <1>n, <3>1
  <2>5. CASE u # stage
    <3>1. FrameTotal(u)' = a + b + m + s + l
      BY <1>p, <1>2, <2>1, <2>2, <2>3, <2>5 DEF FrameTotal
    <3> QED
      BY <1>n, <3>1
  <2> QED
    BY <2>4, <2>5
<1>5. CASE DropFrame
  <2>1. lost'[u] = IF u = stage THEN lost[u] + 1 ELSE lost[u]
    BY <1>1, <1>5 DEF DropFrame
  <2>2. MainHolds(u)' = 0 /\ MainHolds(u) = IF u = stage THEN 1 ELSE 0
    BY <1>5 DEF DropFrame, NextTarget, MainHolds
  <2>3. UNCHANGED <<freeQue, fullQue>>
    BY <1>5 DEF DropFrame, objVars
  <2>7. CASE u = stage
    <3>1. FrameTotal(u)' = a + b + 0 + s + (l + 1) /\ m = 1
      BY <1>p, <1>2, <2>1, <2>2, <2>3, <2>7 DEF FrameTotal
    <3> QED
      BY <1>n, <3>1
  <2>8. CASE ~(u = stage)
    <3>1. FrameTotal(u)' = a + b + m + s + l
      BY <1>p, <1>2, <2>1, <2>2, <2>3, <2>8 DEF FrameTotal
    <3> QED
      BY <1>n, <3>1
  <2> QED
    BY <2>7, <2>8
<1>6. CASE PutFullFrame
  <2>1. HasRoom(fullQue[stage])
    BY <1>6, HandLeavesRoom DEF PutFullFrame, PutsFindRoom
  <2>2. fullQue' = PutBack(fullQue, stage, msgFrame) /\ UNCHANGED <<freeQue, lost>>
    BY <1>6, <2>1 DEF PutFullFrame
  <2>3. msgFrame \in Frames
    BY <1>1, <1>6 DEF PutFullFrame
  <2>4. Len(fullQue'[u]) =
            IF u = stage THEN Len(fullQue[u]) + 1 ELSE Len(fullQue[u])
    BY <1>1, <2>2, <2>3, PutLength
  <2>5. MainHolds(u)' = 0 /\ MainHolds(u) = IF u = stage THEN 1 ELSE 0
    BY <1>6 DEF PutFullFrame, NextTarget, MainHolds
  <2>7. CASE u = stage
    <3>1. FrameTotal(u)' = a + (b + 1) + 0 + s + l /\ m = 1
      BY <1>p, <1>2, <2>2, <2>4, <2>5, <2>7 DEF FrameTotal
    <3> QED
      BY <1>n, <3>1
  <2>8. CASE ~(u = stage)
    <3>1. FrameTotal(u)' = a + b + m + s + l
      BY <1>p, <1>2, <2>2, <2>4, <2>5, <2>8 DEF FrameTotal
    <3> QED
      BY <1>n, <3>1
  <2> QED
    BY <2>7, <2>8
<1> QED
  BY <1>3, <1>4, <1>5, <1>6 DEF Proc, ProcStep

(* A server thread takes a frame from the full queue and puts the same     *)
(* number of frames into the free queue.                                   *)
LEMMA SrvFrames ==
    ASSUME TypeOK, FramesAccounted, NEW t \in Targets, NEW u \in Targets,
           Server(t) \/ Peer(t) \/ Net(t)
    PROVE  FrameTotal(u)' = NumFrames
<1>0. /\ Len(freeQue[u]) \in Nat /\ Len(fullQue[u]) \in Nat /\ lost[u] \in Nat
      /\ MainHolds(u) \in {0, 1} /\ ServerHolds(u) \in {0, 1} /\ NumFrames \in Nat
      /\ Len(freeQue[u]) + Len(fullQue[u]) + MainHolds(u) + ServerHolds(u)
            + lost[u] = NumFrames
  BY Counts
<1>p. PICK a \in Nat, b \in Nat, m \in Nat, s \in Nat, l \in Nat :
          /\ a = Len(freeQue[u]) /\ b = Len(fullQue[u]) /\ l = lost[u]
          /\ m = MainHolds(u) /\ s = ServerHolds(u)
  BY <1>0
<1>n. NumFrames \in Nat /\ a + b + m + s + l = NumFrames
  BY <1>0, <1>p
<1>1. /\ freeQue \in [Targets -> Seq(Frames)] /\ fullQue \in [Targets -> Seq(Frames)]
      /\ srvPc \in [Targets -> SrvPcs]
      /\ srvPc[t] \in {"format", "giveback"} => srvFrame[t] \in Frames
  BY DEF TypeOK, ObjTypeOK, SrvTypeOK
<1>2. lost' = lost /\ MainHolds(u)' = MainHolds(u)
  BY DEF Server, Peer, Net, procVars, localVars, MainHolds
<1>3. CASE GetFullFrame(t)
  <2>1. Len(fullQue'[u]) =
            IF u = t THEN Len(fullQue[u]) - 1 ELSE Len(fullQue[u])
    BY <1>1, <1>3, RemoveLength DEF GetFullFrame
  <2>2. ServerHolds(u)' = IF u = t THEN 1 ELSE ServerHolds(u)
    BY <1>1, <1>3 DEF GetFullFrame, Goto, ServerHolds
  <2>3. u = t => ServerHolds(u) = 0
    BY <1>3 DEF GetFullFrame, ServerHolds
  <2>4. UNCHANGED freeQue
    BY <1>3 DEF GetFullFrame
  <2>7. CASE u = t
    <3>1. FrameTotal(u)' = a + (b - 1) + m + 1 + l /\ s = 0
      BY <1>p, <1>2, <2>1, <2>2, <2>3, <2>4, <2>7 DEF FrameTotal
    <3> QED
      BY <1>n, <3>1
  <2>8. CASE ~(u = t)
    <3>1. FrameTotal(u)' = a + b + m + s + l
      BY <1>p, <1>2, <2>1, <2>2, <2>3, <2>4, <2>8 DEF FrameTotal
    <3> QED
      BY <1>n, <3>1
  <2> QED
    BY <2>7, <2>8
<1>4. CASE GiveBackFrame(t)
  <2>1. Len(freeQue'[u]) =
            IF u = t THEN Len(freeQue[u]) + 1 ELSE Len(freeQue[u])
    <3>1. PICK f \in Frames : freeQue' = PutBack(freeQue, t, f)
      BY <1>1, <1>4 DEF GiveBackFrame
    <3>2. freeQue \in [Targets -> Seq(Frames)]
      BY <1>1
    <3>3. Len(PutBack(freeQue, t, f)[u]) =
              IF u = t THEN Len(freeQue[u]) + 1 ELSE Len(freeQue[u])
      BY <3>2, PutLength
    <3> QED
      BY <3>1, <3>3
  <2>2. ServerHolds(u)' = IF u = t THEN 0 ELSE ServerHolds(u)
    BY <1>1, <1>4 DEF GiveBackFrame, Goto, ServerHolds
  <2>3. u = t => ServerHolds(u) = 1
    BY <1>4 DEF GiveBackFrame, ServerHolds
  <2>4. UNCHANGED fullQue
    BY <1>4 DEF GiveBackFrame
  <2>7. CASE u = t
    <3>1. FrameTotal(u)' = (a + 1) + b + m + 0 + l /\ s = 1
      BY <1>p, <1>2, <2>1, <2>2, <2>3, <2>4, <2>7 DEF FrameTotal
    <3> QED
      BY <1>n, <3>1
  <2>8. CASE ~(u = t)
    <3>1. FrameTotal(u)' = a + b + m + s + l
      BY <1>p, <1>2, <2>1, <2>2, <2>3, <2>4, <2>8 DEF FrameTotal
    <3> QED
      BY <1>n, <3>1
  <2> QED
    BY <2>7, <2>8
<1>5. ASSUME ~GetFullFrame(t), ~GiveBackFrame(t)
      PROVE  FrameTotal(u)' = NumFrames
  <2>1. UNCHANGED <<freeQue, fullQue>>
    BY <1>5 DEF Server, Peer, Net, SrvStep, PeerStep, NetStep, InitServer, TestQuit,
       EnterSwitch, SwitchOn, EndSession, FormatResult, SwitchOff, QuitServer, Send, SendFails,
       SkipSend, Answer, AnswerFails, Accept, AcceptFails, ConnectionBroken,
       InitServerFails, objVars
  <2>2. PICK p \in SrvPcs : /\ srvPc' = [srvPc EXCEPT ![t] = p]
                            /\ p \in {"format", "giveback"}
                                   <=> srvPc[t] \in {"format", "giveback"}
    BY <1>5 DEF Server, Peer, Net, SrvStep, PeerStep, NetStep, InitServer, TestQuit,
       EnterSwitch, SwitchOn, EndSession, FormatResult, SwitchOff, QuitServer, Send, SendFails,
       SkipSend, Answer, AnswerFails, Accept, AcceptFails, ConnectionBroken,
       InitServerFails, AfterSend, Goto, SrvPcs
  <2>3. srvPc'[u] = IF u = t THEN p ELSE srvPc[u]
    BY <1>1, <2>2
  <2>4. ServerHolds(u)' = ServerHolds(u)
    BY <2>2, <2>3 DEF ServerHolds
  <2> QED
    BY <1>0, <1>2, <2>1, <2>4 DEF FrameTotal
<1> QED
  BY <1>3, <1>4, <1>5

LEMMA NextFrames ==
    ASSUME TypeOK, FramesAccounted, [Next]_vars
    PROVE  FramesAccounted'
<1> SUFFICES ASSUME NEW u \in Targets
             PROVE  FrameTotal(u)' = NumFrames
  BY DEF FramesAccounted
<1>1. CASE Proc
  BY <1>1, ProcFrames
<1>2. ASSUME NEW t \in Targets, Server(t) \/ Peer(t) \/ Net(t)
      PROVE  FrameTotal(u)' = NumFrames
  BY <1>2, SrvFrames
<1>3. ASSUME UNCHANGED <<freeQue, fullQue, stage, lost>>,
             MainHolds(u)' = MainHolds(u), ServerHolds(u)' = ServerHolds(u)
      PROVE  FrameTotal(u)' = NumFrames
  BY <1>3 DEF FramesAccounted, FrameTotal
<1>4. ASSUME \/ \E s \in Slots : AlgResult(s)
             \/ AlgReads \/ Daemon \/ LogWait \/ UNCHANGED vars
      PROVE  FrameTotal(u)' = NumFrames
  BY <1>3, <1>4 DEF AlgResult, AlgReads, AlgStart, AlgAnswered, AlgDelete, Daemon, LogWait,
     DaemonInit, DaemonLoop, DaemonFlush, CloseErrLog, vars, objVars, procVars, localVars, srvVars, MainHolds,
     ServerHolds
<1>5. CASE Signal \/ Join
  <2>1. UNCHANGED <<freeQue, fullQue, stage, lost>>
    BY <1>5 DEF Signal, SignalElsewhere, SignalInAccept, SignalInRecv, ReceiveFails,
       Join, objVars, procVars, localVars
  <2>2. MainHolds(u)' = MainHolds(u)
    BY <1>5 DEF Signal, SignalElsewhere, SignalInAccept, SignalInRecv, ReceiveFails,
       Join, procVars, localVars, MainHolds
  <2>3. ServerHolds(u)' = ServerHolds(u)
    BY <1>5 DEF Signal, SignalElsewhere, SignalInAccept, SignalInRecv, Goto,
       Join, srvVars, ServerHolds, TypeOK, SrvTypeOK
  <2> QED
    BY <1>3, <2>1, <2>2, <2>3
<1> QED
  BY <1>1, <1>2, <1>4, <1>5 DEF Next

(* The frames of a target are always all accounted for: only a result that *)
(* fails the size test takes one out of circulation.                       *)
THEOREM FramesKept == Spec => []FramesAccounted
<1>1. Init => TypeOK /\ FramesAccounted
  BY InitTyped, InitFrames
<1>2. TypeOK /\ FramesAccounted /\ [Next]_vars => (TypeOK /\ FramesAccounted)'
  BY NextTyped, NextFrames
<1> QED
  BY <1>1, <1>2, PTL DEF Spec

(* A frame in hand leaves room in the queue it goes to, so no put of the   *)
(* application ever waits or fails.                                        *)
THEOREM PutsNeverWait == Spec => []PutsFindRoom
<1>1. TypeOK /\ FramesAccounted => PutsFindRoom
  BY HandLeavesRoom
<1> QED
  BY <1>1, TypeCorrect, FramesKept, PTL
-----------------------------------------------------------------------------
(* The semaphore is taken while the main thread hands a result to the      *)
(* targets or a server thread sets its flag, of which only one does at a   *)
(* time, and the main thread serves no target that is off.                 *)
MainInside == msgPc \in {"get", "copy", "put", "unlock"}
ServerInside(t) == srvPc[t] \in {"seton", "setoff"}
SemGuards ==
    /\ MainInside => sem = 0 /\ \A t \in Targets : ~ServerInside(t)
    /\ \A t \in Targets : ServerInside(t) => sem = 0
    /\ \A t, u \in Targets : ServerInside(t) /\ ServerInside(u) => t = u
    /\ msgPc \in {"copy", "put"} => target[stage]

LEMMA InitSem == ASSUME Init PROVE SemGuards
  BY DEF Init, SetEnv, ProcInit, SrvInit, SemGuards, MainInside, ServerInside

(* The flags change only by the thread that has the semaphore, so not      *)
(* while the main thread has tested one and not yet put its frame.         *)
LEMMA NextSem ==
    ASSUME TypeOK, SemGuards, [Next]_vars
    PROVE  SemGuards'
<1> USE DEF SemGuards, MainInside, ServerInside
<1>0. sem \in {0, 1} /\ srvPc \in [Targets -> SrvPcs]
  BY DEF TypeOK, ObjTypeOK, SrvTypeOK
<1>1. CASE Proc
  <2>0. UNCHANGED srvPc
    BY <1>1 DEF Proc, srvVars
  <2>1. CASE Start \/ Receive \/ ReadResult \/ CopyResult \/ SendReply \/ LeaveLoop
    BY <2>0, <2>1 DEF Start, Receive, ReadResult, CopyResult, SendReply, LeaveLoop, objVars
  <2>2. CASE TakeSem \/ ReleaseSem
    BY <2>0, <2>2 DEF TakeSem, ReleaseSem, AppClient_Enter
  <2>3. CASE SkipTarget \/ DropFrame \/ PutFullFrame
    BY <2>0, <2>3 DEF SkipTarget, DropFrame, PutFullFrame, NextTarget, objVars
  <2>4. CASE GetFreeFrame
    BY <2>0, <2>4 DEF GetFreeFrame
  <2> QED
    BY <1>1, <2>1, <2>2, <2>3, <2>4 DEF Proc, ProcStep
<1>2. ASSUME NEW t \in Targets, Server(t) \/ Peer(t) \/ Net(t)
      PROVE  SemGuards'
  <2>1. UNCHANGED <<msgPc, stage>>
    BY <1>2 DEF Server, Peer, Net, procVars, localVars
  <2>2. CASE EnterSwitch(t)
    <3>1. sem = 1 /\ sem' = 0 /\ UNCHANGED target
      BY <2>2 DEF EnterSwitch, AppClient_Enter
    <3>2. \A u \in Targets : srvPc'[u] = IF u = t THEN srvPc'[t] ELSE srvPc[u]
      BY <1>0, <2>2 DEF EnterSwitch, Goto
    <3> QED
      BY <2>1, <3>1, <3>2
  <2>3. CASE SwitchOn(t) \/ SwitchOff(t)
    <3>1. ServerInside(t) /\ sem' = 1
      BY <2>3 DEF SwitchOn, SwitchOff, AppClient_On, AppClient_Off
    <3>2. \A u \in Targets : srvPc'[u] = IF u = t THEN srvPc'[t] ELSE srvPc[u]
      BY <1>0, <2>3 DEF SwitchOn, SwitchOff, Goto
    <3>3. srvPc'[t] \in {"loop", "test"}
      BY <1>0, <2>3 DEF SwitchOn, SwitchOff, Goto
    <3> QED
      BY <2>1, <3>1, <3>2, <3>3
  <2>4. ASSUME ~EnterSwitch(t), ~SwitchOn(t), ~SwitchOff(t)
        PROVE  SemGuards'
    <3>1. UNCHANGED <<sem, target>>
      BY <1>2, <2>4 DEF Server, Peer, Net, SrvStep, PeerStep, NetStep, InitServer,
         TestQuit, EndSession, GetFullFrame, FormatResult, GiveBackFrame, QuitServer,
         Send, SendFails, SkipSend, Answer, AnswerFails, Accept, AcceptFails,
         ConnectionBroken, InitServerFails, objVars
    <3>2. PICK p \in SrvPcs : srvPc' = [srvPc EXCEPT ![t] = p]
                              /\ p \notin {"seton", "setoff"}
      BY <1>2, <2>4 DEF Server, Peer, Net, SrvStep, PeerStep, NetStep, InitServer,
         TestQuit, EndSession, GetFullFrame, FormatResult, GiveBackFrame, QuitServer,
         Send, SendFails, SkipSend, Answer, AnswerFails, Accept, AcceptFails,
         ConnectionBroken, InitServerFails, AfterSend, Goto, SrvPcs
    <3>3. \A u \in Targets : ServerInside(u)' => ServerInside(u)
      BY <1>0, <3>2
    <3> QED
      BY <2>1, <3>1, <3>3
  <2> QED
    BY <2>2, <2>3, <2>4
<1>3. CASE \/ \E s \in Slots : AlgResult(s)
           \/ AlgReads \/ Daemon \/ LogWait \/ UNCHANGED vars
  <2>1. UNCHANGED <<sem, target, srvPc, stage>>
    BY <1>3 DEF AlgResult, AlgReads, AlgStart, AlgAnswered, AlgDelete, Daemon, LogWait,
       DaemonInit, DaemonLoop, DaemonFlush, CloseErrLog, vars, objVars, procVars,
       localVars, srvVars
  <2>2. UNCHANGED msgPc \/ msgPc' = "lock"
    BY <1>3 DEF AlgResult, AlgReads, AlgStart, AlgAnswered, AlgDelete, Daemon, LogWait,
       DaemonInit, DaemonLoop, DaemonFlush, CloseErrLog, vars, procVars, localVars
  <2> QED
    BY <2>1, <2>2
<1>4. CASE Signal \/ Join
  <2>1. UNCHANGED <<sem, target, stage>>
    BY <1>4 DEF Signal, SignalElsewhere, SignalInAccept, SignalInRecv, ReceiveFails,
       Join, objVars, procVars, localVars
  <2>2. UNCHANGED msgPc \/ msgPc' \in {"exit", "recv", "done"}
    BY <1>4 DEF Signal, SignalElsewhere, SignalInAccept, SignalInRecv, ReceiveFails,
       Join, procVars, localVars
  <2>3. \A u \in Targets : srvPc'[u] \in {srvPc[u], "on"}
    BY <1>0, <1>4 DEF Signal, SignalElsewhere, SignalInAccept, SignalInRecv, Goto,
       Join, srvVars
  <2> QED
    BY <2>1, <2>2, <2>3
<1> QED
  BY <1>1, <1>2, <1>3, <1>4 DEF Next

(* Only the main thread's put makes a full queue longer. *)
LEMMA OnlyPutAdds ==
    ASSUME TypeOK, [Next]_vars, NEW t \in Targets,
           Len(fullQue'[t]) > Len(fullQue[t])
    PROVE  PutFullFrame /\ t = stage
<1>1. /\ fullQue \in [Targets -> Seq(Frames)]
      /\ Len(fullQue[t]) \in Nat
      /\ ~(Len(fullQue[t]) > Len(fullQue[t]))
  BY SeqFacts DEF TypeOK, ObjTypeOK
<1>2. fullQue' # fullQue
  BY <1>1
<1>3. ASSUME NEW u \in Targets, GetFullFrame(u)
      PROVE  FALSE
  <2>1. /\ fullQue[u] # <<>>
        /\ fullQue' = RemoveOldest(fullQue, u)
    BY <1>3 DEF GetFullFrame
  <2>2. Len(fullQue'[t]) = IF t = u THEN Len(fullQue[t]) - 1 ELSE Len(fullQue[t])
    BY <1>1, <2>1, RemoveLength
  <2>3. PICK n \in Nat : n = Len(fullQue[t])
    BY <1>1
  <2>4. ~(n - 1 > n) /\ ~(n > n)
    OBVIOUS
  <2> QED
    BY <2>2, <2>3, <2>4
<1>4. ~\E u \in Targets : Server(u) \/ Peer(u) \/ Net(u)
  BY <1>2, <1>3 DEF Server, Peer, Net, SrvStep, PeerStep, NetStep, InitServer, TestQuit,
     EnterSwitch, SwitchOn, EndSession, FormatResult, GiveBackFrame, SwitchOff, QuitServer, Send,
     SendFails, SkipSend, Answer, AnswerFails, Accept, AcceptFails, ConnectionBroken,
     InitServerFails, objVars
<1>5. ~(AlgReads \/ Daemon \/ LogWait \/ Join \/ Signal \/ UNCHANGED vars)
  BY <1>2 DEF AlgReads, AlgStart, AlgAnswered, AlgDelete, Daemon, LogWait, DaemonInit,
     DaemonLoop, DaemonFlush, CloseErrLog, Join, Signal, SignalElsewhere, SignalInAccept, SignalInRecv,
     ReceiveFails, vars, objVars
<1>6. ~\E s \in Slots : AlgResult(s)
  BY <1>2 DEF AlgResult, objVars
<1>7. ProcStep
  BY <1>4, <1>5, <1>6 DEF Next, Proc
<1>8. PutFullFrame
  BY <1>2, <1>7 DEF ProcStep, Start, Receive, ReadResult, TakeSem, SkipTarget,
     GetFreeFrame, CopyResult, DropFrame, ReleaseSem, SendReply, LeaveLoop, objVars
<1>9. t # stage => fullQue'[t] = fullQue[t]
  BY <1>1, <1>8 DEF PutFullFrame, PutBack
<1> QED
  BY <1>1, <1>8, <1>9

(* After AppClient_Off has returned, no result is queued for the target    *)
(* until AppClient_On: the flag cannot change between the main thread's    *)
(* test of it and its put.                                                 *)
THEOREM OffMeansQuiet == Spec => QuietWhenOff
<1>1. Init => TypeOK /\ SemGuards
  BY InitTyped, InitSem
<1>2. TypeOK /\ SemGuards /\ [Next]_vars => (TypeOK /\ SemGuards)'
  BY NextTyped, NextSem
<1>3. TypeOK /\ SemGuards /\ [Next]_vars
          => [\A t \in Targets : Len(fullQue'[t]) > Len(fullQue[t]) => target[t]]_vars
  BY OnlyPutAdds DEF SemGuards, PutFullFrame
<1> QED
  BY <1>1, <1>2, <1>3, PTL DEF Spec, QuietWhenOff
-----------------------------------------------------------------------------
(* The frames in the threads' hands. *)
MainFrame(t) == IF msgPc \in {"copy", "put"} /\ stage = t THEN {msgFrame} ELSE {}
ServerFrame(t) == IF srvPc[t] \in {"format", "giveback"} THEN {srvFrame[t]} ELSE {}

(* The places a frame of a target can be in have no frame in common. *)
Apart(free, full, main, server) ==
    /\ Distinct(free) /\ Distinct(full)
    /\ Members(free) \cap Members(full) = {}
    /\ main \cap Members(free) = {} /\ main \cap Members(full) = {}
    /\ server \cap Members(free) = {} /\ server \cap Members(full) = {}
    /\ main \cap server = {}
FramesApart ==
    \A t \in Targets : Apart(freeQue[t], fullQue[t], MainFrame(t), ServerFrame(t))

LEMMA InitApart == ASSUME Init PROVE FramesApart
<1> SUFFICES ASSUME NEW t \in Targets
             PROVE  Apart(freeQue[t], fullQue[t], MainFrame(t), ServerFrame(t))
  BY DEF FramesApart
<1>1. MainFrame(t) = {} /\ ServerFrame(t) = {}
  BY DEF Init, ProcInit, SrvInit, MainFrame, ServerFrame
<1>2. freeQue[t] = [i \in Frames |-> i] /\ fullQue[t] = <<>>
  BY DEF Init, SetEnv
<1> QED
  BY <1>1, <1>2 DEF Apart, Distinct, Members

(* A step that moves a frame from a queue to a hand, or back. *)
LEMMA Moved ==
    ASSUME NEW S, NEW free \in Seq(S), NEW full \in Seq(S), NEW main, NEW server,
           Apart(free, full, main, server)
    PROVE  /\ free # <<>> => Apart(Tail(free), full, {Head(free)}, server)
           /\ full # <<>> => Apart(free, Tail(full), main, {Head(full)})
           /\ \A f \in main \cap S : Apart(free, Append(full, f), {}, server)
           /\ \A f \in server \cap S : Apart(Append(free, f), full, main, {})
           /\ Apart(free, full, {}, server)
<1>1. ASSUME free # <<>>
      PROVE  Apart(Tail(free), full, {Head(free)}, server)
  BY <1>1, MembersRemoved DEF Apart
<1>2. ASSUME full # <<>>
      PROVE  Apart(free, Tail(full), main, {Head(full)})
  BY <1>2, MembersRemoved DEF Apart
<1>3. ASSUME NEW f \in main \cap S
      PROVE  Apart(free, Append(full, f), {}, server)
  BY MembersAppended DEF Apart
<1>4. ASSUME NEW f \in server \cap S
      PROVE  Apart(Append(free, f), full, main, {})
  BY MembersAppended DEF Apart
<1> QED
  BY <1>1, <1>2, <1>3, <1>4 DEF Apart

LEMMA ProcApart ==
    ASSUME TypeOK, FramesAccounted, FramesApart, Proc, NEW u \in Targets
    PROVE  Apart(freeQue[u], fullQue[u], MainFrame(u), ServerFrame(u))'
<1>0. /\ freeQue \in [Targets -> Seq(Frames)] /\ fullQue \in [Targets -> Seq(Frames)]
      /\ freeQue[u] \in Seq(Frames) /\ fullQue[u] \in Seq(Frames)
      /\ stage \in Targets
      /\ msgPc \in {"copy", "put"} => msgFrame \in Frames
  BY DEF TypeOK, ObjTypeOK, ProcTypeOK
<1>1. Apart(freeQue[u], fullQue[u], MainFrame(u), ServerFrame(u))
  BY DEF FramesApart
<1>2. ServerFrame(u)' = ServerFrame(u)
  BY DEF Proc, srvVars, ServerFrame
<1>3. ASSUME UNCHANGED <<freeQue[u], fullQue[u]>>, MainFrame(u)' \in {MainFrame(u), {}}
      PROVE  Apart(freeQue[u], fullQue[u], MainFrame(u), ServerFrame(u))'
  <2>1. Apart(freeQue[u], fullQue[u], {}, ServerFrame(u))
    BY <1>1 DEF Apart
  <2> QED
    BY <1>1, <1>2, <1>3, <2>1 DEF Apart
<1>4. CASE Start \/ Receive \/ ReadResult \/ TakeSem \/ ReleaseSem \/ SendReply
           \/ LeaveLoop \/ SkipTarget \/ CopyResult \/ DropFrame
  <2>1. UNCHANGED <<freeQue, fullQue>>
    BY <1>4 DEF Start, Receive, ReadResult, TakeSem, ReleaseSem, SendReply,
       LeaveLoop, SkipTarget, CopyResult, DropFrame, objVars
  <2>2. MainFrame(u)' \in {MainFrame(u), {}}
    BY <1>4 DEF Start, Receive, ReadResult, TakeSem, ReleaseSem, SendReply, LeaveLoop,
       SkipTarget, CopyResult, DropFrame, NextTarget, MainFrame
  <2> QED
    BY <1>3, <2>1, <2>2
<1>5. CASE GetFreeFrame
  <2>1. /\ freeQue[stage] # <<>> /\ UNCHANGED <<fullQue, stage>>
        /\ freeQue' = [freeQue EXCEPT ![stage] = Tail(freeQue[stage])]
        /\ msgFrame' = Head(freeQue[stage]) /\ msgPc = "get" /\ msgPc' = "copy"
    BY <1>5 DEF GetFreeFrame, RemoveOldest
  <2>2. CASE u = stage
    <3>1. freeQue'[u] = Tail(freeQue[u]) /\ MainFrame(u)' = {Head(freeQue[u])}
      BY <1>0, <2>1, <2>2 DEF MainFrame
    <3>2. Apart(Tail(freeQue[u]), fullQue[u], {Head(freeQue[u])}, ServerFrame(u))
      BY <1>0, <1>1, <2>1, <2>2, Moved
    <3> QED
      BY <1>2, <2>1, <3>1, <3>2 DEF Apart
  <2>3. CASE u # stage
    <3>1. freeQue'[u] = freeQue[u] /\ MainFrame(u)' = {}
      BY <1>0, <2>1, <2>3 DEF MainFrame
    <3> QED
      BY <1>3, <2>1, <3>1
  <2> QED
    BY <2>2, <2>3
<1>6. CASE PutFullFrame
  <2>1. HasRoom(fullQue[stage])
    BY <1>6, HandLeavesRoom DEF PutFullFrame, PutsFindRoom
  <2>2. /\ fullQue' = [fullQue EXCEPT ![stage] = Append(fullQue[stage], msgFrame)]
        /\ UNCHANGED freeQue
        /\ msgPc = "put" /\ msgPc' \in {"get", "unlock"}
    BY <1>6, <2>1 DEF PutFullFrame, PutBack, NextTarget
  <2>3. MainFrame(u)' = {}
    BY <2>2 DEF MainFrame
  <2>4. CASE u = stage
    <3>1. fullQue'[u] = Append(fullQue[u], msgFrame) /\ MainFrame(u) = {msgFrame}
      BY <1>0, <2>2, <2>4 DEF MainFrame
    <3>2. Apart(freeQue[u], Append(fullQue[u], msgFrame), {}, ServerFrame(u))
      BY <1>0, <1>1, <2>2, <3>1, Moved
    <3> QED
      BY <1>2, <2>2, <2>3, <3>1, <3>2 DEF Apart
  <2>5. CASE u # stage
    <3>1. fullQue'[u] = fullQue[u]
      BY <1>0, <2>2, <2>5
    <3> QED
      BY <1>3, <2>2, <2>3, <3>1
  <2> QED
    BY <2>4, <2>5
<1> QED
  BY <1>4, <1>5, <1>6 DEF Proc, ProcStep

LEMMA ServerApart ==
    ASSUME TypeOK, FramesApart, NEW t \in Targets, Server(t) \/ Peer(t) \/ Net(t),
           NEW u \in Targets
    PROVE  Apart(freeQue[u], fullQue[u], MainFrame(u), ServerFrame(u))'
<1>0. /\ freeQue \in [Targets -> Seq(Frames)] /\ fullQue \in [Targets -> Seq(Frames)]
      /\ freeQue[u] \in Seq(Frames) /\ fullQue[u] \in Seq(Frames)
      /\ srvPc \in [Targets -> SrvPcs] /\ srvFrame \in [Targets -> Frames \cup {0}]
      /\ srvPc[t] \in {"format", "giveback"} => srvFrame[t] \in Frames
  BY DEF TypeOK, ObjTypeOK, SrvTypeOK
<1>1. Apart(freeQue[u], fullQue[u], MainFrame(u), ServerFrame(u))
  BY DEF FramesApart
<1>2. MainFrame(u)' = MainFrame(u)
  BY DEF Server, Peer, Net, procVars, localVars, MainFrame
<1>3. ASSUME UNCHANGED <<freeQue[u], fullQue[u]>>, ServerFrame(u)' = ServerFrame(u)
      PROVE  Apart(freeQue[u], fullQue[u], MainFrame(u), ServerFrame(u))'
  BY <1>1, <1>2, <1>3 DEF Apart
<1>4. CASE GetFullFrame(t)
  <2>1. /\ fullQue[t] # <<>> /\ UNCHANGED freeQue
        /\ fullQue' = [fullQue EXCEPT ![t] = Tail(fullQue[t])]
        /\ srvFrame' = [srvFrame EXCEPT ![t] = Head(fullQue[t])]
        /\ srvPc' = [srvPc EXCEPT ![t] = "format"]
    BY <1>4 DEF GetFullFrame, RemoveOldest, Goto
  <2>2. CASE u = t
    <3>1. fullQue'[u] = Tail(fullQue[u]) /\ ServerFrame(u)' = {Head(fullQue[u])}
      BY <1>0, <2>1, <2>2 DEF ServerFrame
    <3>2. Apart(freeQue[u], Tail(fullQue[u]), MainFrame(u), {Head(fullQue[u])})
      BY <1>0, <1>1, <2>1, <2>2, Moved
    <3> QED
      BY <1>2, <2>1, <3>1, <3>2 DEF Apart
  <2>3. CASE u # t
    <3>1. fullQue'[u] = fullQue[u] /\ ServerFrame(u)' = ServerFrame(u)
      BY <1>0, <2>1, <2>3 DEF ServerFrame
    <3> QED
      BY <1>3, <2>1, <3>1
  <2> QED
    BY <2>2, <2>3
<1>5. CASE GiveBackFrame(t)
  <2>1. /\ srvPc[t] = "giveback" /\ UNCHANGED fullQue
        /\ freeQue' = [freeQue EXCEPT ![t] = Append(freeQue[t], srvFrame[t])]
        /\ srvFrame' = [srvFrame EXCEPT ![t] = 0]
        /\ srvPc' = [srvPc EXCEPT ![t] = "send"]
    BY <1>5 DEF GiveBackFrame, PutBack, Goto
  <2>2. CASE u = t
    <3>1. /\ freeQue'[u] = Append(freeQue[u], srvFrame[u])
          /\ ServerFrame(u) = {srvFrame[u]} /\ ServerFrame(u)' = {}
      BY <1>0, <2>1, <2>2 DEF ServerFrame
    <3>2. Apart(Append(freeQue[u], srvFrame[u]), fullQue[u], MainFrame(u), {})
      BY <1>0, <1>1, <2>1, <2>2, <3>1, Moved
    <3> QED
      BY <1>2, <2>1, <3>1, <3>2 DEF Apart
  <2>3. CASE u # t
    <3>1. freeQue'[u] = freeQue[u] /\ ServerFrame(u)' = ServerFrame(u)
      BY <1>0, <2>1, <2>3 DEF ServerFrame
    <3> QED
      BY <1>3, <2>1, <3>1
  <2> QED
    BY <2>2, <2>3
<1>6. ASSUME ~GetFullFrame(t), ~GiveBackFrame(t)
      PROVE  Apart(freeQue[u], fullQue[u], MainFrame(u), ServerFrame(u))'
  <2>1. UNCHANGED <<freeQue, fullQue, srvFrame>>
    BY <1>6 DEF Server, Peer, Net, SrvStep, PeerStep, NetStep, InitServer, TestQuit,
       EnterSwitch, SwitchOn, EndSession, FormatResult, SwitchOff, QuitServer, Send, SendFails,
       SkipSend, Answer, AnswerFails, Accept, AcceptFails, ConnectionBroken,
       InitServerFails, objVars
  <2>2. PICK p \in SrvPcs : /\ srvPc' = [srvPc EXCEPT ![t] = p]
                            /\ p \in {"format", "giveback"}
                                   <=> srvPc[t] \in {"format", "giveback"}
    BY <1>6 DEF Server, Peer, Net, SrvStep, PeerStep, NetStep, InitServer, TestQuit,
       EnterSwitch, SwitchOn, EndSession, FormatResult, SwitchOff, QuitServer, Send, SendFails,
       SkipSend, Answer, AnswerFails, Accept, AcceptFails, ConnectionBroken,
       InitServerFails, AfterSend, Goto, SrvPcs
  <2>3. srvPc'[u] = IF u = t THEN p ELSE srvPc[u]
    BY <1>0, <2>2
  <2>4. ServerFrame(u)' = ServerFrame(u)
    BY <2>1, <2>2, <2>3 DEF ServerFrame
  <2> QED
    BY <1>3, <2>1, <2>4
<1> QED
  BY <1>4, <1>5, <1>6

LEMMA NextApart ==
    ASSUME TypeOK, FramesAccounted, FramesApart, [Next]_vars
    PROVE  FramesApart'
<1> SUFFICES ASSUME NEW u \in Targets
             PROVE  Apart(freeQue[u], fullQue[u], MainFrame(u), ServerFrame(u))'
  BY DEF FramesApart
<1>1. CASE Proc
  BY <1>1, ProcApart
<1>2. ASSUME NEW t \in Targets, Server(t) \/ Peer(t) \/ Net(t)
      PROVE  Apart(freeQue[u], fullQue[u], MainFrame(u), ServerFrame(u))'
  BY <1>2, ServerApart
<1>3. CASE \/ \E s \in Slots : AlgResult(s)
           \/ AlgReads \/ Daemon \/ LogWait \/ Signal \/ Join \/ UNCHANGED vars
  <2>1. UNCHANGED <<freeQue, fullQue, srvFrame, msgFrame, stage>>
    BY <1>3 DEF AlgResult, AlgReads, AlgStart, AlgAnswered, AlgDelete, Daemon, LogWait,
       DaemonInit, DaemonLoop, DaemonFlush, CloseErrLog, Signal, SignalElsewhere, SignalInAccept, SignalInRecv,
       ReceiveFails, Join, vars, objVars, procVars, localVars, srvVars
  <2>2. \/ UNCHANGED msgPc
        \/ msgPc \in {"recv", "join"} /\ msgPc' \in {"exit", "recv", "done"}
        \/ msgPc = "closelog" /\ msgPc' = "lock"
    BY <1>3 DEF AlgResult, AlgReads, AlgStart, AlgAnswered, AlgDelete, Daemon, LogWait,
       DaemonInit, DaemonLoop, DaemonFlush, CloseErrLog, Signal, SignalElsewhere, SignalInAccept, SignalInRecv,
       ReceiveFails, Join, vars, procVars, localVars
  <2>3. MainFrame(u)' = MainFrame(u)
    BY <2>1, <2>2 DEF MainFrame
  <2>4. \/ UNCHANGED srvPc
        \/ \E t \in Targets : srvPc[t] = "accept" /\ srvPc' = [srvPc EXCEPT ![t] = "on"]
    BY <1>3 DEF AlgResult, AlgReads, AlgStart, AlgAnswered, AlgDelete, Daemon, LogWait,
       DaemonInit, DaemonLoop, DaemonFlush, CloseErrLog, Signal, SignalElsewhere, SignalInAccept, SignalInRecv,
       Goto, Join, vars, srvVars
  <2>5. srvPc \in [Targets -> SrvPcs]
    BY DEF TypeOK, SrvTypeOK
  <2>6. ServerFrame(u)' = ServerFrame(u)
    BY <2>1, <2>4, <2>5 DEF ServerFrame
  <2> QED
    BY <2>1, <2>3, <2>6 DEF FramesApart, Apart
<1> QED
  BY <1>1, <1>2, <1>3 DEF Next

(* No frame is in two places, for any number of frames: not in two queues, *)
(* not twice in one, and not in a queue while a thread writes or reads it. *)
THEOREM FramesOwned == Spec => []FrameOwnedOnce
<1>1. Init => TypeOK /\ FramesAccounted /\ FramesApart
  BY InitTyped, InitFrames, InitApart
<1>2. TypeOK /\ FramesAccounted /\ FramesApart /\ [Next]_vars
          => (TypeOK /\ FramesAccounted /\ FramesApart)'
  BY NextTyped, NextFrames, NextApart
<1>3. TypeOK /\ FramesApart => FrameOwnedOnce
  <2> SUFFICES ASSUME TypeOK, FramesApart, NEW t \in Targets, NEW f \in Frames
               PROVE  Occurrences(freeQue[t], f) + Occurrences(fullQue[t], f)
                          + (IF MainHolds(t) = 1 /\ msgFrame = f THEN 1 ELSE 0)
                          + (IF ServerHolds(t) = 1 /\ srvFrame[t] = f THEN 1 ELSE 0) <= 1
    BY DEF FrameOwnedOnce
  <2>1. freeQue[t] \in Seq(Frames) /\ fullQue[t] \in Seq(Frames)
    BY DEF TypeOK, ObjTypeOK
  <2>2. Apart(freeQue[t], fullQue[t], MainFrame(t), ServerFrame(t))
    BY DEF FramesApart
  <2>3. /\ Occurrences(freeQue[t], f) = IF f \in Members(freeQue[t]) THEN 1 ELSE 0
        /\ Occurrences(fullQue[t], f) = IF f \in Members(fullQue[t]) THEN 1 ELSE 0
    BY <2>1, <2>2, MembersCounted DEF Apart, Occurrences
  <2>4. /\ MainHolds(t) = 1 /\ msgFrame = f <=> f \in MainFrame(t)
        /\ ServerHolds(t) = 1 /\ srvFrame[t] = f <=> f \in ServerFrame(t)
    BY DEF MainHolds, ServerHolds, MainFrame, ServerFrame
  <2> QED
    BY <2>2, <2>3, <2>4 DEF Apart
<1> QED
  BY <1>1, <1>2, <1>3, PTL DEF Spec
=============================================================================
