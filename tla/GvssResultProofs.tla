-------------------------- MODULE GvssResultProofs --------------------------
(***************************************************************************)
(* Proofs about GvssSystem that follow single results: through the slots   *)
(* of the shared memory and the messages that announce them, and through   *)
(* the frames and queues to the peers.                                     *)
(***************************************************************************)
EXTENDS GvssProofs

(* The slots whose results the messages of a queue are about. *)
IsResult(m) == m.cmd = "RESULT"
SlotOf(m) == IF IsResult(m) THEN {m.slot} ELSE {}
SlotsIn(q) == UNION {SlotOf(q[i]) : i \in DOMAIN q}

(* No two messages of a queue are about one slot. *)
OneEachSlot(q) ==
    \A i, j \in DOMAIN q : i # j => SlotOf(q[i]) \cap SlotOf(q[j]) = {}

(* The slot of the result that the main thread is dealing with. *)
Dealing == msgPc \in {"read", "closelog", "lock", "get", "copy", "put", "unlock", "reply"}
SlotInHand == IF Dealing THEN SlotOf(msg) ELSE {}

(* An appended message adds its slot, which no other message may be about. *)
LEMMA SlotsAppended ==
    ASSUME NEW q \in Seq(Messages), NEW m \in Messages
    PROVE  /\ SlotsIn(Append(q, m)) = SlotsIn(q) \cup SlotOf(m)
           /\ OneEachSlot(q) /\ SlotOf(m) \cap SlotsIn(q) = {}
                  => OneEachSlot(Append(q, m))
<1> DEFINE a == Append(q, m)
           n == Len(q)
<1>1. /\ DOMAIN q = 1 .. n /\ n \in Nat
      /\ DOMAIN a = 1 .. n + 1
      /\ a[n + 1] = m
      /\ \A i \in 1 .. n : a[i] = q[i]
  BY SeqElements
<1> HIDE DEF a, n
<1>2. \A i \in DOMAIN a : i \in DOMAIN q \/ i = n + 1
  BY <1>1
<1>3. \A i \in DOMAIN q : i \in DOMAIN a /\ i # n + 1
  BY <1>1
<1>4. n + 1 \in DOMAIN a
  BY <1>1
<1>5. SlotsIn(a) = SlotsIn(q) \cup SlotOf(m)
  BY <1>1, <1>2, <1>3, <1>4 DEF SlotsIn
<1>6. ASSUME OneEachSlot(q), SlotOf(m) \cap SlotsIn(q) = {}
      PROVE  OneEachSlot(a)
  <2>1. \A i \in DOMAIN q : SlotOf(q[i]) \cap SlotOf(m) = {}
    BY <1>6 DEF SlotsIn
  <2> QED
    BY <1>1, <1>2, <1>6, <2>1 DEF OneEachSlot
<1> QED
  BY <1>5, <1>6 DEF a

(* The removal of the oldest message takes its slot out, since no other    *)
(* message is about it.                                                    *)
LEMMA SlotsRemoved ==
    ASSUME NEW q \in Seq(Messages), q # <<>>, OneEachSlot(q)
    PROVE  /\ SlotsIn(Tail(q)) = SlotsIn(q) \ SlotOf(Head(q))
           /\ SlotOf(Head(q)) \subseteq SlotsIn(q)
           /\ OneEachSlot(Tail(q))
<1> DEFINE r == Tail(q)
           n == Len(q)
<1>0. PICK e \in Messages : TRUE
  BY SeqFacts
<1>1. /\ DOMAIN q = 1 .. n /\ n \in Nat
      /\ DOMAIN r = 1 .. n - 1
      /\ n > 0
      /\ Head(q) = q[1]
      /\ \A i \in 1 .. n - 1 : r[i] = q[i + 1]
  BY <1>0, SeqElements
<1> HIDE DEF r, n
<1>2. \A i \in DOMAIN r : i + 1 \in DOMAIN q /\ i + 1 # 1 /\ r[i] = q[i + 1]
  BY <1>1
<1>3. \A i \in DOMAIN q : i # 1 => i - 1 \in DOMAIN r /\ r[i - 1] = q[i]
  BY <1>1
<1>4. 1 \in DOMAIN q
  BY <1>1
<1>5. \A i \in DOMAIN q : i # 1 => SlotOf(q[i]) \cap SlotOf(Head(q)) = {}
  BY <1>1, <1>4 DEF OneEachSlot
<1>6. SlotOf(Head(q)) \subseteq SlotsIn(q)
  BY <1>1, <1>4 DEF SlotsIn
<1>7. SlotsIn(r) \subseteq SlotsIn(q) \ SlotOf(Head(q))
  BY <1>2, <1>5 DEF SlotsIn
<1>8. SlotsIn(q) \ SlotOf(Head(q)) \subseteq SlotsIn(r)
  <2> SUFFICES ASSUME NEW s \in SlotsIn(q), s \notin SlotOf(Head(q))
               PROVE  s \in SlotsIn(r)
    OBVIOUS
  <2>1. PICK i \in DOMAIN q : s \in SlotOf(q[i])
    BY DEF SlotsIn
  <2>2. i # 1
    BY <1>1, <2>1
  <2> QED
    BY <1>3, <2>1, <2>2 DEF SlotsIn
<1>9. OneEachSlot(r)
  <2> SUFFICES ASSUME NEW i \in DOMAIN r, NEW j \in DOMAIN r, i # j
               PROVE  SlotOf(r[i]) \cap SlotOf(r[j]) = {}
    BY DEF OneEachSlot
  <2>1. i + 1 # j + 1
    BY <1>1
  <2> QED
    BY <1>2, <2>1 DEF OneEachSlot
<1> QED
  BY <1>6, <1>7, <1>8, <1>9 DEF r
-----------------------------------------------------------------------------
(* A result is in one message at most: waiting to be read, dealt with by   *)
(* the main thread, or answered.  Until the algorithm has read the answer  *)
(* its slot is busy.                                                       *)
ResultsApart ==
    /\ OneEachSlot(toServer) /\ OneEachSlot(toAlg)
    /\ SlotsIn(toServer) \cap SlotsIn(toAlg) = {}
    /\ SlotInHand \cap SlotsIn(toServer) = {}
    /\ SlotInHand \cap SlotsIn(toAlg) = {}
    /\ SlotsIn(toServer) \subseteq busy
    /\ SlotsIn(toAlg) \subseteq busy
    /\ SlotInHand \subseteq busy

(* A result waits in its slot for the message that announces it. *)
ResultsStored ==
    \A i \in DOMAIN toServer :
        IsResult(toServer[i]) => shm[toServer[i].slot] = toServer[i].id

ResultInv == ResultsApart /\ ResultsStored /\ AnnouncedResult

(* A message that carries no result is about no slot. *)
LEMMA NoSlot == ASSUME NEW c \in Commands \ {"RESULT"}, NEW s \in Senders
                PROVE  Command(c, s) \in Messages /\ SlotOf(Command(c, s)) = {}
  BY CommandTyped DEF SlotOf, IsResult, Command, Message

(* Nor is an empty queue. *)
LEMMA EmptySlots == SlotsIn(<<>>) = {} /\ OneEachSlot(<<>>)
  BY DEF SlotsIn, OneEachSlot

(* No result is announced at the start. *)
LEMMA InitResults == ASSUME Init PROVE ResultInv
<1> USE DEF Init, SetEnv, ProcInit
<1>1. SlotInHand = {}
  BY DEF SlotInHand, Dealing
<1>2. ResultsApart
  BY <1>1, EmptySlots DEF ResultsApart
<1>3. ResultsStored
  BY DEF ResultsStored
<1>4. AnnouncedResult
  BY DEF AnnouncedResult
<1> QED
  BY <1>2, <1>3, <1>4 DEF ResultInv

(* The messages to the algorithm that carry no result disturb nothing. *)
LEMMA CommandSent ==
    ASSUME TypeOK, ResultsApart, SlotInHand' = SlotInHand,
           UNCHANGED <<toServer, busy>>,
           \/ AppClient_Start
           \/ AppClient_Quit
           \/ UNCHANGED toAlg
    PROVE  ResultsApart'
<1>1. CASE UNCHANGED toAlg
  BY <1>1 DEF ResultsApart
<1>2. CASE AppClient_Start \/ AppClient_Quit
  <2>1. PICK c \in Messages : SlotOf(c) = {} /\ toAlg' = Append(toAlg, c)
    BY <1>2, NoSlot DEF AppClient_Start, AppClient_Quit, Commands, Senders
  <2>2. toAlg \in Seq(Messages)
    BY DEF TypeOK, ObjTypeOK
  <2>3. SlotsIn(toAlg') = SlotsIn(toAlg) /\ OneEachSlot(toAlg')
    BY <2>1, <2>2, SlotsAppended DEF ResultsApart
  <2> QED
    BY <2>3 DEF ResultsApart
<1> QED
  BY <1>1, <1>2

(* The step of the main thread. *)
LEMMA ProcResults ==
    ASSUME TypeOK, ResultInv, Proc
    PROVE  ResultInv'
<1>0. /\ msg \in Messages /\ toServer \in Seq(Messages) /\ toAlg \in Seq(Messages)
      /\ msgPc \in {"read", "closelog", "lock", "get", "copy", "put", "unlock"} => IsResult(msg)
  BY DEF TypeOK, ObjTypeOK, ProcTypeOK, IsResult
<1>1. UNCHANGED busy
  BY DEF Proc, envVars
<1>2. CASE Start \/ LeaveLoop
  <2>1. /\ UNCHANGED <<toServer, shm, msg, pData>>
        /\ AppClient_Start \/ AppClient_Quit
        /\ ~Dealing /\ ~Dealing'
        /\ msgPc' \in {"recv", "join"}
    BY <1>2 DEF Start, LeaveLoop, Dealing
  <2>2. ResultsApart'
    BY <1>1, <2>1, CommandSent DEF ResultInv, SlotInHand
  <2> QED
    BY <2>1, <2>2 DEF ResultInv, ResultsStored, AnnouncedResult
<1>3. CASE Receive
  <2>1. /\ toServer # <<>> /\ toServer' = Tail(toServer) /\ msg' = Head(toServer)
        /\ UNCHANGED <<toAlg, shm, pData>>
        /\ ~Dealing /\ Dealing'
        /\ msgPc' \in {"read", "reply"}
    BY <1>3 DEF Receive, Dealing
  <2>2. SlotInHand' = SlotOf(Head(toServer))
    BY <2>1 DEF SlotInHand
  <2>3. /\ SlotsIn(toServer') = SlotsIn(toServer) \ SlotOf(Head(toServer))
        /\ SlotOf(Head(toServer)) \subseteq SlotsIn(toServer)
        /\ OneEachSlot(toServer')
    BY <1>0, <2>1, SlotsRemoved DEF ResultInv, ResultsApart
  <2>4. ResultsApart'
    BY <1>1, <2>1, <2>2, <2>3 DEF ResultInv, ResultsApart
  <2>5. /\ DOMAIN toServer = 1 .. Len(toServer) /\ Len(toServer) \in Nat
        /\ DOMAIN toServer' = 1 .. Len(toServer) - 1
        /\ Len(toServer) > 0
        /\ Head(toServer) = toServer[1]
        /\ \A i \in 1 .. Len(toServer) - 1 : toServer'[i] = toServer[i + 1]
    BY <1>0, <2>1, SeqElements
  <2>6. ResultsStored'
    BY <2>1, <2>5 DEF ResultInv, ResultsStored
  <2>7. 1 \in DOMAIN toServer
    BY <2>5
  <2>8. AnnouncedResult'
    BY <2>1, <2>5, <2>7 DEF ResultInv, ResultsStored, AnnouncedResult, IsResult
  <2> QED
    BY <2>4, <2>6, <2>8 DEF ResultInv
<1>4. CASE ReadResult
  <2>1. /\ UNCHANGED <<toServer, toAlg, shm, msg>> /\ pData' = shm[msg.slot]
        /\ msgPc = "read" /\ msgPc' \in {"closelog", "lock"}
    BY <1>4 DEF ReadResult, ipcVars
  <2>2. SlotInHand' = SlotInHand
    BY <2>1 DEF SlotInHand, Dealing
  <2> QED
    BY <1>0, <1>1, <2>1, <2>2 DEF ResultInv, ResultsApart, ResultsStored,
       AnnouncedResult, IsResult
<1>5. CASE \/ TakeSem \/ SkipTarget \/ GetFreeFrame \/ CopyResult \/ DropFrame
           \/ PutFullFrame \/ ReleaseSem
  <2>1. UNCHANGED <<toServer, toAlg, shm, msg, pData>>
    BY <1>5 DEF TakeSem, SkipTarget, GetFreeFrame, CopyResult, DropFrame,
       PutFullFrame, ReleaseSem, ipcVars
  <2>2. /\ msgPc \in {"lock", "get", "copy", "put", "unlock"}
        /\ msgPc' \in {"get", "copy", "put", "unlock", "reply"}
        /\ msgPc' \in {"get", "copy", "put"} => msgPc \in {"lock", "get", "copy", "put"}
    BY <1>5 DEF TakeSem, SkipTarget, GetFreeFrame, CopyResult, DropFrame,
       PutFullFrame, ReleaseSem, NextTarget
  <2>3. SlotInHand' = SlotInHand
    BY <2>1, <2>2 DEF SlotInHand, Dealing
  <2> QED
    BY <1>1, <2>1, <2>2, <2>3 DEF ResultInv, ResultsApart, ResultsStored,
       AnnouncedResult
<1>6. CASE SendReply
  <2>1. /\ UNCHANGED <<toServer, shm, pData>>
        /\ Dealing /\ msgPc' \in {"exit", "recv"}
        /\ toAlg' = toAlg \/ toAlg' = Append(toAlg, AnswerTo(msg))
    BY <1>6 DEF SendReply, Dealing
  <2>2. SlotInHand = SlotOf(msg) /\ SlotInHand' = {}
    BY <2>1 DEF SlotInHand, Dealing
  <2>3. AnswerTo(msg) \in Messages /\ SlotOf(AnswerTo(msg)) = SlotOf(msg)
    BY <1>0, AnswerTyped DEF AnswerTo, Message, SlotOf, IsResult
  <2>4. /\ SlotsIn(toAlg') \in {SlotsIn(toAlg), SlotsIn(toAlg) \cup SlotOf(msg)}
        /\ OneEachSlot(toAlg')
    BY <1>0, <2>1, <2>2, <2>3, SlotsAppended DEF ResultInv, ResultsApart
  <2>5. ResultsApart'
    BY <1>1, <2>1, <2>2, <2>4 DEF ResultInv, ResultsApart
  <2> QED
    BY <2>1, <2>5 DEF ResultInv, ResultsStored, AnnouncedResult
<1> QED
  BY <1>2, <1>3, <1>4, <1>5, <1>6 DEF Proc, ProcStep

(* The algorithm announces a result in a slot no message is about, and     *)
(* takes an answer with its slot.                                          *)
LEMMA AlgResults ==
    ASSUME TypeOK, ResultInv, AlgReads \/ \E s \in Slots : AlgResult(s)
    PROVE  ResultInv'
<1>0. /\ toServer \in Seq(Messages) /\ toAlg \in Seq(Messages)
      /\ produced \in Nat /\ shm \in [Slots -> Nat]
      /\ msgPc = "read" => IsResult(msg)
      /\ msg \in Messages
  BY DEF TypeOK, ObjTypeOK, ProcTypeOK, EnvTypeOK, IsResult
<1>1. UNCHANGED <<msgPc, msg, pData>>
  BY DEF AlgReads, AlgStart, AlgAnswered, AlgDelete, AlgResult, procVars, localVars
<1>2. SlotInHand' = SlotInHand
  BY <1>1 DEF SlotInHand, Dealing
<1>3. ASSUME NEW s \in Slots, AlgResult(s)
      PROVE  ResultInv'
  <2> DEFINE m == Message("RESULT", "MSG3", produced', s)
  <2>1. /\ s \notin busy /\ busy' = busy \cup {s} /\ UNCHANGED toAlg
        /\ shm' = [shm EXCEPT ![s] = produced']
        /\ toServer' = Append(toServer, m) /\ produced' \in Nat
    BY <1>0, <1>3 DEF AlgResult
  <2>2. m \in Messages /\ SlotOf(m) = {s} /\ m.slot = s /\ m.id = produced'
    BY <2>1 DEF Message, Messages, Senders, SlotOf, IsResult
  <2> HIDE DEF m
  <2>3. s \notin SlotsIn(toServer) /\ s \notin SlotsIn(toAlg) /\ s \notin SlotInHand
    BY <2>1 DEF ResultInv, ResultsApart
  <2>4. SlotsIn(toServer') = SlotsIn(toServer) \cup {s} /\ OneEachSlot(toServer')
    BY <1>0, <2>1, <2>2, <2>3, SlotsAppended DEF ResultInv, ResultsApart
  <2>5. ResultsApart'
    BY <1>2, <2>1, <2>3, <2>4 DEF ResultInv, ResultsApart
  <2>6. ResultsStored'
    <3>1. /\ DOMAIN toServer = 1 .. Len(toServer) /\ Len(toServer) \in Nat
          /\ DOMAIN toServer' = 1 .. Len(toServer) + 1
          /\ toServer'[Len(toServer) + 1] = m
          /\ \A i \in 1 .. Len(toServer) : toServer'[i] = toServer[i]
      BY <1>0, <2>1, <2>2, SeqElements
    <3> SUFFICES ASSUME NEW i \in DOMAIN toServer', IsResult(toServer'[i])
                 PROVE  shm'[toServer'[i].slot] = toServer'[i].id
      BY DEF ResultsStored
    <3>2. CASE i = Len(toServer) + 1
      BY <1>0, <2>1, <2>2, <3>1, <3>2
    <3>3. CASE i \in DOMAIN toServer
      <4>1. toServer'[i] = toServer[i]
        BY <3>1, <3>3
      <4>2. SlotOf(toServer[i]) \subseteq SlotsIn(toServer)
        BY <3>3 DEF SlotsIn
      <4>3. toServer[i].slot # s
        BY <2>3, <4>1, <4>2 DEF SlotOf
      <4>4. shm[toServer[i].slot] = toServer[i].id
        BY <3>3, <4>1 DEF ResultInv, ResultsStored
      <4>5. toServer[i].slot \in Slots
        BY <1>0, <3>3, <4>1, ElementOfSeq, <3>1 DEF Messages, IsResult, Commands
      <4> QED
        BY <1>0, <2>1, <4>1, <4>3, <4>4, <4>5
    <3> QED
      BY <3>1, <3>2, <3>3
  <2>7. AnnouncedResult'
    <3>1. ASSUME msgPc = "read"
          PROVE  shm'[msg.slot] = msg.id
      <4>1. msg.slot \in SlotInHand
        BY <1>0, <3>1 DEF SlotInHand, Dealing, SlotOf
      <4>2. msg.slot \in Slots
        BY <1>0, <3>1 DEF Messages, IsResult, Commands
      <4>3. shm[msg.slot] = msg.id
        BY <1>0, <3>1 DEF ResultInv, AnnouncedResult, IsResult
      <4> QED
        BY <1>0, <2>1, <2>3, <4>1, <4>2, <4>3
    <3> QED
      BY <1>1, <3>1 DEF ResultInv, AnnouncedResult
  <2> QED
    BY <2>5, <2>6, <2>7 DEF ResultInv
<1>4. CASE AlgReads
  <2>1. /\ UNCHANGED shm
        /\ toAlg # <<>> /\ toAlg' = Tail(toAlg)
    BY <1>4 DEF AlgReads, AlgStart, AlgAnswered, AlgDelete
  <2>2. /\ SlotsIn(toAlg') = SlotsIn(toAlg) \ SlotOf(Head(toAlg))
        /\ OneEachSlot(toAlg')
    BY <1>0, <2>1, SlotsRemoved DEF ResultInv, ResultsApart
  <2>3. AnnouncedResult'
    BY <1>1, <2>1 DEF ResultInv, AnnouncedResult
  <2>4. CASE AlgAnswered
    <3>1. UNCHANGED toServer /\ busy' = busy \ SlotOf(Head(toAlg))
      BY <2>4 DEF AlgAnswered, SlotOf, IsResult
    <3>2. SlotOf(Head(toAlg)) \subseteq SlotsIn(toAlg)
      BY <1>0, <2>1, SlotsRemoved DEF ResultInv, ResultsApart
    <3>3. ResultsApart'
      BY <1>2, <2>2, <3>1, <3>2 DEF ResultInv, ResultsApart
    <3> QED
      BY <2>1, <2>3, <3>1, <3>3 DEF ResultInv, ResultsStored
  <2>5. CASE AlgDelete \/ \E src \in {"NONE", "MSG3"} : AlgStart(src)
    <3>1. UNCHANGED busy
      BY <2>5 DEF AlgDelete, AlgStart
    <3>2. PICK c \in Messages : /\ toServer' = Append(toServer, c)
                                /\ SlotOf(c) = {}
      BY <2>5, NoSlot DEF AlgDelete, AlgStart, Commands, Senders
    <3>3. SlotsIn(toServer') = SlotsIn(toServer) /\ OneEachSlot(toServer')
      BY <1>0, <3>2, SlotsAppended DEF ResultInv, ResultsApart
    <3>4. ResultsApart'
      BY <1>2, <2>2, <3>1, <3>3 DEF ResultInv, ResultsApart
    <3>5. ResultsStored'
      <4>1. /\ DOMAIN toServer = 1 .. Len(toServer) /\ Len(toServer) \in Nat
            /\ DOMAIN toServer' = 1 .. Len(toServer) + 1
            /\ toServer'[Len(toServer) + 1] = c
            /\ \A i \in 1 .. Len(toServer) : toServer'[i] = toServer[i]
        BY <1>0, <3>2, SeqElements
      <4>2. ~IsResult(c)
        BY <3>2 DEF SlotOf
      <4> QED
        BY <2>1, <4>1, <4>2 DEF ResultInv, ResultsStored
    <3> QED
      BY <2>3, <3>4, <3>5 DEF ResultInv
  <2> QED
    BY <1>4, <2>4, <2>5 DEF AlgReads
<1> QED
  BY <1>3, <1>4

(* The other steps move no result. *)
LEMMA NextResults == ASSUME TypeOK, ResultInv, [Next]_vars PROVE ResultInv'
<1>1. ASSUME UNCHANGED <<ipcVars, msg, pData, busy>>,
             \/ UNCHANGED msgPc
             \/ ~Dealing /\ ~Dealing'
      PROVE  ResultInv'
  <2>1. SlotInHand' = SlotInHand
    BY <1>1 DEF SlotInHand, Dealing
  <2>2. ResultsApart' /\ ResultsStored'
    BY <1>1, <2>1 DEF ipcVars, ResultInv, ResultsApart, ResultsStored
  <2>3. AnnouncedResult'
    BY <1>1 DEF ipcVars, ResultInv, AnnouncedResult, Dealing
  <2> QED
    BY <2>2, <2>3 DEF ResultInv
<1>2. CASE Proc
  BY <1>2, ProcResults
<1>3. ASSUME NEW t \in Targets, Server(t) \/ Peer(t) \/ Net(t)
      PROVE  ResultInv'
  <2>1. UNCHANGED <<msgPc, msg, pData, busy>>
    BY <1>3 DEF Server, Peer, Net, procVars, localVars, envVars
  <2>2. CASE QuitServer(t)
    <3>1. UNCHANGED <<toServer, shm>> /\ AppClient_Quit
      BY <2>2 DEF QuitServer
    <3>2. SlotInHand' = SlotInHand
      BY <2>1 DEF SlotInHand, Dealing
    <3>3. ResultsApart'
      BY <2>1, <3>1, <3>2, CommandSent DEF ResultInv
    <3> QED
      BY <2>1, <3>1, <3>3 DEF ResultInv, ResultsStored, AnnouncedResult
  <2>3. CASE ~QuitServer(t)
    <3>1. UNCHANGED ipcVars
      BY <1>3, <2>3 DEF Server, Peer, Net, SrvStep, PeerStep, NetStep, InitServer,
         TestQuit, EnterSwitch, SwitchOn, EndSession, GetFullFrame, FormatResult, GiveBackFrame,
         SwitchOff, Send, SendFails, SkipSend, Answer, AnswerFails, Accept,
         AcceptFails, ConnectionBroken, InitServerFails
    <3> QED
      BY <1>1, <2>1, <3>1
  <2> QED
    BY <2>2, <2>3
<1>4. CASE AlgReads \/ \E s \in Slots : AlgResult(s)
  BY <1>4, AlgResults
<1>5. CASE Signal \/ Daemon \/ DaemonFlush \/ Join \/ UNCHANGED vars
  <2>1. UNCHANGED <<ipcVars, msg, pData, busy>>
    BY <1>5 DEF Signal, SignalElsewhere, SignalInAccept, SignalInRecv, ReceiveFails,
       Daemon, DaemonInit, DaemonLoop, DaemonFlush, Join, vars, procVars, localVars,
       envVars
  <2>2. \/ UNCHANGED msgPc
        \/ msgPc = "recv" /\ msgPc' \in {"exit", "recv"}
        \/ msgPc = "join" /\ msgPc' = "done"
    BY <1>5 DEF Signal, SignalElsewhere, SignalInAccept, SignalInRecv, ReceiveFails,
       Daemon, DaemonInit, DaemonLoop, DaemonFlush, Join, vars, procVars, localVars
  <2> QED
    BY <1>1, <2>1, <2>2 DEF Dealing
<1>6. CASE CloseErrLog
  <2>1. /\ UNCHANGED <<ipcVars, msg, pData, busy>>
        /\ msgPc = "closelog" /\ msgPc' = "lock"
    BY <1>6 DEF CloseErrLog, envVars
  <2>2. SlotInHand' = SlotInHand
    BY <2>1 DEF SlotInHand, Dealing
  <2>3. ResultsApart' /\ ResultsStored' /\ AnnouncedResult'
    BY <2>1, <2>2 DEF ipcVars, ResultInv, ResultsApart, ResultsStored, AnnouncedResult
  <2> QED
    BY <2>3 DEF ResultInv
<1> QED
  BY <1>2, <1>3, <1>4, <1>5, <1>6 DEF Next, LogWait

(* The main thread copies the very result its message announced: nobody    *)
(* writes to a slot from the announcement to the answer.                   *)
THEOREM AnnouncedIsCopied == Spec => []AnnouncedResult
<1>1. Init => TypeOK /\ ResultInv
  BY InitTyped, InitResults
<1>2. TypeOK /\ ResultInv /\ [Next]_vars => (TypeOK /\ ResultInv)'
  BY NextTyped, NextResults
<1>3. ResultInv => AnnouncedResult
  BY DEF ResultInv
<1> QED
  BY <1>1, <1>2, <1>3, PTL DEF Spec
-----------------------------------------------------------------------------
(* The way of the results to one peer: those it was sent, the one in hand, *)
(* those queued and those still to come, each before the next; no result   *)
(* is later than the last one produced.                                    *)
Ordered(done, hand, queued, coming, last) ==
    /\ done \in Seq(Nat) /\ queued \in Seq(Nat) /\ last \in Nat
    /\ Rising(done) /\ Rising(queued)
    /\ Before(Members(done), hand \cup Members(queued) \cup coming)
    /\ Before(hand, Members(queued) \cup coming)
    /\ Before(Members(queued), coming)
    /\ Members(done) \cup hand \cup Members(queued) \cup coming \subseteq 1 .. last

(* A result moves one place on, is dropped, or is produced. *)
LEMMA MovesOn ==
    ASSUME NEW done, NEW hand, NEW queued, NEW coming, NEW last,
           Ordered(done, hand, queued, coming, last)
    PROVE  /\ \A h \in {hand, {}} : \A c \in SUBSET coming :
                  Ordered(done, h, queued, c, last)
           /\ \A v \in hand : Ordered(Append(done, v), {}, queued, coming, last)
           /\ queued # <<>> =>
                  Ordered(done, {Head(queued)}, Tail(queued), coming, last)
           /\ \A v \in coming : \A c \in SUBSET coming :
                  Before({v}, c) => Ordered(done, hand, Append(queued, v), c, last)
           /\ Ordered(done, hand, queued, coming \cup {last + 1}, last + 1)
<1> USE DEF Ordered
<1>1. ASSUME NEW h \in {hand, {}}, NEW c \in SUBSET coming
      PROVE  Ordered(done, h, queued, c, last)
  BY <1>1 DEF Before
<1>2. ASSUME NEW v \in hand
      PROVE  Ordered(Append(done, v), {}, queued, coming, last)
  <2>1. v \in Nat /\ v \in 1 .. last
    OBVIOUS
  <2>2. Before(Members(done), {v})
    BY DEF Before
  <2>3. /\ Append(done, v) \in Seq(Nat)
        /\ Members(Append(done, v)) = Members(done) \cup {v}
        /\ Rising(Append(done, v))
    BY <2>1, <2>2, SeqFacts, MembersAppended, RisingAppended
  <2> HIDE DEF Ordered
  <2>4. Before(Members(done) \cup {v}, {} \cup Members(queued) \cup coming)
    BY DEF Before, Ordered
  <2>5. Before({}, Members(queued) \cup coming)
    BY DEF Before
  <2>6. (Members(done) \cup {v}) \cup {} \cup Members(queued) \cup coming
            \subseteq 1 .. last
    BY DEF Ordered
  <2>7. /\ queued \in Seq(Nat) /\ last \in Nat /\ Rising(queued)
        /\ Before(Members(queued), coming)
    BY DEF Ordered
  <2> QED
    BY <2>3, <2>4, <2>5, <2>6, <2>7 DEF Ordered
<1>3. ASSUME queued # <<>>
      PROVE  Ordered(done, {Head(queued)}, Tail(queued), coming, last)
  <2>1. /\ Tail(queued) \in Seq(Nat)
        /\ Rising(Tail(queued))
        /\ Before({Head(queued)}, Members(Tail(queued)))
        /\ Members(Tail(queued)) \subseteq Members(queued)
        /\ Head(queued) \in Members(queued)
    BY <1>3, SeqFacts, RisingRemoved
  <2> QED
    BY <2>1 DEF Before
<1>4. ASSUME NEW v \in coming, NEW c \in SUBSET coming, Before({v}, c)
      PROVE  Ordered(done, hand, Append(queued, v), c, last)
  <2>1. v \in Nat /\ v \in 1 .. last
    OBVIOUS
  <2>2. Before(Members(queued), {v})
    BY DEF Before
  <2>3. /\ Append(queued, v) \in Seq(Nat)
        /\ Members(Append(queued, v)) = Members(queued) \cup {v}
        /\ Rising(Append(queued, v))
    <3>1. queued \in Seq(Nat) /\ Rising(queued)
      OBVIOUS
    <3> HIDE DEF Ordered
    <3>2. Append(queued, v) \in Seq(Nat)
      BY <2>1, <3>1, SeqFacts
    <3>3. Members(Append(queued, v)) = Members(queued) \cup {v}
      BY <2>1, <3>1, MembersAppended
    <3>4. Rising(Append(queued, v))
      BY <2>1, <2>2, <3>1, RisingAppended
    <3> QED
      BY <3>2, <3>3, <3>4
  <2>4. Before(Members(queued) \cup {v}, c)
    BY <1>4 DEF Before
  <2>5. Before(hand, Members(queued) \cup {v} \cup c)
    BY DEF Before
  <2>6. Before(Members(done), hand \cup (Members(queued) \cup {v}) \cup c)
    BY DEF Before
  <2>7. Members(done) \cup hand \cup (Members(queued) \cup {v}) \cup c \subseteq 1 .. last
    OBVIOUS
  <2> HIDE DEF Ordered
  <2>8. done \in Seq(Nat) /\ last \in Nat /\ Rising(done)
    BY DEF Ordered
  <2> QED
    BY <2>3, <2>4, <2>5, <2>6, <2>7, <2>8 DEF Ordered
<1>5. Ordered(done, hand, queued, coming \cup {last + 1}, last + 1)
  <2>1. last + 1 \in Nat /\ 1 .. last \subseteq 1 .. last + 1 /\ last + 1 \in 1 .. last + 1
    OBVIOUS
  <2>2. \A a \in 1 .. last : a < last + 1
    OBVIOUS
  <2> QED
    BY <2>1, <2>2 DEF Before
<1> QED
  BY <1>1, <1>2, <1>3, <1>4, <1>5

(* Laid end to end they rise. *)
LEMMA WayRises ==
    ASSUME NEW done, NEW v \in Nat, NEW queued, NEW coming, NEW last,
           Ordered(done, {v} \ {0}, queued, coming, last)
    PROVE  LET way == done \o (IF v = 0 THEN <<>> ELSE <<v>>) \o queued
           IN  /\ \A i \in DOMAIN way : way[i] \in 1 .. last
               /\ \A i, j \in DOMAIN way : i < j => way[i] < way[j]
<1> DEFINE mid == IF v = 0 THEN <<>> ELSE <<v>>
<1>1. mid \in Seq(Nat) /\ Rising(mid) /\ Members(mid) = {v} \ {0}
  <2>1. CASE v = 0
    BY <2>1 DEF Rising, Members
  <2>2. CASE v # 0
    <3>1. mid \in Seq(Nat) /\ DOMAIN mid = {1} /\ mid[1] = v
      BY <2>2
    <3> QED
      BY <2>2, <3>1 DEF Rising, Members
  <2> QED
    BY <2>1, <2>2
<1> HIDE DEF mid
<1>2. /\ done \o mid \in Seq(Nat) /\ Rising(done \o mid)
      /\ Members(done \o mid) = Members(done) \cup ({v} \ {0})
  <2>1. Before(Members(done), Members(mid))
    BY <1>1 DEF Ordered, Before
  <2> QED
    BY <1>1, <2>1, RisingJoined DEF Ordered
<1>3. /\ Rising((done \o mid) \o queued)
      /\ Members((done \o mid) \o queued) = Members(done \o mid) \cup Members(queued)
  <2>1. Before(Members(done \o mid), Members(queued))
    BY <1>2 DEF Ordered, Before
  <2> QED
    BY <1>2, <2>1, RisingJoined DEF Ordered
<1>4. Members((done \o mid) \o queued) \subseteq 1 .. last
  BY <1>2, <1>3 DEF Ordered
<1> QED
  BY <1>3, <1>4 DEF mid, Rising, Members
-----------------------------------------------------------------------------
(* What the frames of a queue contain. *)
Contents(q, c) == [i \in DOMAIN q |-> c[q[i]]]

(* A frame that is put or taken takes its content along. *)
LEMMA ContentsMoved ==
    ASSUME NEW S, NEW q \in Seq(S), NEW c \in [S -> Nat]
    PROVE  /\ Contents(q, c) \in Seq(Nat) /\ Len(Contents(q, c)) = Len(q)
           /\ \A f \in S : Contents(Append(q, f), c) = Append(Contents(q, c), c[f])
           /\ q # <<>> => /\ Contents(q, c) # <<>>
                          /\ Head(Contents(q, c)) = c[Head(q)]
                          /\ Contents(Tail(q), c) = Tail(Contents(q, c))
<1>0. /\ DOMAIN q = 1 .. Len(q) /\ Len(q) \in Nat
      /\ \A i \in 1 .. Len(q) : q[i] \in S
  BY LenProperties, ElementOfSeq
<1> DEFINE p == Contents(q, c)
<1>1. p \in Seq(Nat) /\ Len(p) = Len(q) /\ \A i \in 1 .. Len(q) : p[i] = c[q[i]]
  BY <1>0 DEF Contents
<1>2. ASSUME NEW f \in S
      PROVE  Contents(Append(q, f), c) = Append(p, c[f])
  <2>0. PICK v \in Nat : v = c[f]
    OBVIOUS
  <2> DEFINE a == Append(q, f)
             b == Append(p, v)
  <2>1. /\ DOMAIN a = 1 .. Len(q) + 1
        /\ a[Len(q) + 1] = f
        /\ \A i \in 1 .. Len(q) : a[i] = q[i]
    BY SeqElements
  <2> HIDE DEF p
  <2>2. /\ DOMAIN b = 1 .. Len(q) + 1
        /\ b[Len(q) + 1] = v
        /\ \A i \in 1 .. Len(q) : b[i] = p[i]
        /\ b \in [DOMAIN b -> Nat]
    <3>1. b \in Seq(Nat) /\ p \in Seq(Nat) /\ Len(p) = Len(q)
      BY <1>1, SeqFacts
    <3>2. /\ DOMAIN b = 1 .. Len(p) + 1
          /\ b[Len(p) + 1] = v
          /\ \A i \in 1 .. Len(p) : b[i] = p[i]
      BY <3>1, SeqElements
    <3> HIDE DEF b
    <3>3. b \in [DOMAIN b -> Nat]
      BY <3>1, LenProperties
    <3> QED
      BY <3>1, <3>2, <3>3
  <2> HIDE DEF a, b
  <2>3. ASSUME NEW i \in 1 .. Len(q) + 1
        PROVE  c[a[i]] = b[i]
    BY <1>0, <1>1, <2>0, <2>1, <2>2
  <2>4. Contents(a, c) = [i \in 1 .. Len(q) + 1 |-> b[i]]
    BY <2>1, <2>3 DEF Contents
  <2> QED
    BY <2>0, <2>2, <2>4 DEF a, b
<1>3. ASSUME q # <<>>
      PROVE  /\ p # <<>> /\ Head(p) = c[Head(q)]
             /\ Contents(Tail(q), c) = Tail(p)
  <2> DEFINE a == Tail(q)
             b == Tail(p)
  <2>1. /\ DOMAIN a = 1 .. Len(q) - 1
        /\ Len(q) > 0
        /\ Head(q) = q[1]
        /\ \A i \in 1 .. Len(q) - 1 : a[i] = q[i + 1]
    BY <1>0, <1>3, EmptySeq, HeadTailProperties, LenProperties
  <2> HIDE DEF p
  <2>2. p # <<>>
    BY <1>1, <2>1, EmptySeq
  <2>3. /\ DOMAIN b = 1 .. Len(q) - 1
        /\ Head(p) = p[1]
        /\ \A i \in 1 .. Len(q) - 1 : b[i] = p[i + 1]
        /\ b \in [DOMAIN b -> Nat]
    <3>1. b \in Seq(Nat) /\ p \in Seq(Nat) /\ Len(p) = Len(q)
      BY <1>1, <2>2, SeqFacts
    <3>2. /\ DOMAIN b = 1 .. Len(p) - 1
          /\ Head(p) = p[1]
          /\ \A i \in 1 .. Len(p) - 1 : b[i] = p[i + 1]
      BY <2>2, <3>1, SeqElements, 0 \in Nat
    <3> HIDE DEF b
    <3>3. b \in [DOMAIN b -> Nat]
      BY <3>1, LenProperties
    <3> QED
      BY <3>1, <3>2, <3>3
  <2> HIDE DEF a, b
  <2>4. ASSUME NEW i \in 1 .. Len(q) - 1
        PROVE  c[a[i]] = b[i]
    <3>1. i + 1 \in 1 .. Len(q)
      BY <1>0, <2>1
    <3> QED
      BY <1>1, <2>1, <2>3, <3>1
  <2>5. Contents(a, c) = [i \in 1 .. Len(q) - 1 |-> b[i]]
    BY <2>1, <2>4 DEF Contents
  <2>6. Contents(a, c) = b
    BY <2>3, <2>5
  <2>7. Head(p) = c[Head(q)]
    <3>1. 1 \in 1 .. Len(q)
      BY <1>0, <2>1
    <3> QED
      BY <1>1, <2>1, <2>3, <3>1
  <2> QED
    BY <2>2, <2>6, <2>7 DEF a, b
<1> QED
  BY <1>1, <1>2, <1>3

(* The queued results are what the frames of the full queue contain. *)
LEMMA PendingIs == \A t \in Targets : Pending(t) = Contents(fullQue[t], content[t])
  BY DEF Pending, Contents
-----------------------------------------------------------------------------
(* The results that the messages of a queue announce. *)
IdsIn(q) == {q[i].id : i \in {j \in DOMAIN q : IsResult(q[j])}}
RiseIn(q) == \A i, j \in DOMAIN q :
                 i < j /\ IsResult(q[i]) /\ IsResult(q[j]) => q[i].id < q[j].id

(* A message that is sent adds the result it announces, if it does. *)
LEMMA IdsAppended ==
    ASSUME NEW q \in Seq(Messages), NEW m \in Messages
    PROVE  /\ ~IsResult(m) =>
                  /\ IdsIn(Append(q, m)) = IdsIn(q)
                  /\ RiseIn(q) => RiseIn(Append(q, m))
           /\ IsResult(m) =>
                  /\ IdsIn(Append(q, m)) = IdsIn(q) \cup {m.id}
                  /\ RiseIn(q) /\ Before(IdsIn(q), {m.id}) => RiseIn(Append(q, m))
<1> DEFINE a == Append(q, m)
           n == Len(q)
<1>1. /\ DOMAIN q = 1 .. n /\ n \in Nat
      /\ DOMAIN a = 1 .. n + 1
      /\ a[n + 1] = m
      /\ \A i \in 1 .. n : a[i] = q[i]
  BY SeqElements
<1> HIDE DEF a, n
<1>2. \A i \in DOMAIN a : i \in DOMAIN q \/ i = n + 1
  BY <1>1
<1>3. \A i \in DOMAIN q : i \in DOMAIN a /\ i # n + 1 /\ a[i] = q[i]
  BY <1>1
<1>4. n + 1 \in DOMAIN a
  BY <1>1
<1>5. IdsIn(a) = IdsIn(q) \cup (IF IsResult(m) THEN {m.id} ELSE {})
  BY <1>1, <1>2, <1>3, <1>4 DEF IdsIn
<1>6. ASSUME RiseIn(q), IsResult(m) => Before(IdsIn(q), {m.id})
      PROVE  RiseIn(a)
  <2> SUFFICES ASSUME NEW i \in DOMAIN a, NEW j \in DOMAIN a, i < j,
                      IsResult(a[i]), IsResult(a[j])
               PROVE  a[i].id < a[j].id
    BY DEF RiseIn
  <2>1. i \in DOMAIN q /\ a[i] = q[i]
    BY <1>1
  <2>2. CASE j \in DOMAIN q
    BY <1>3, <1>6, <2>1, <2>2 DEF RiseIn
  <2>3. CASE j = n + 1
    <3>1. q[i].id \in IdsIn(q) /\ a[j] = m
      BY <1>1, <2>1, <2>3 DEF IdsIn
    <3> QED
      BY <1>6, <2>1, <3>1 DEF Before
  <2> QED
    BY <1>2, <2>2, <2>3
<1> QED
  BY <1>5, <1>6 DEF a

(* The oldest message announces the earliest result. *)
LEMMA IdsRemoved ==
    ASSUME NEW q \in Seq(Messages), q # <<>>, RiseIn(q)
    PROVE  /\ RiseIn(Tail(q))
           /\ IdsIn(Tail(q)) \subseteq IdsIn(q)
           /\ IsResult(Head(q)) => /\ Head(q).id \in IdsIn(q)
                                   /\ Before({Head(q).id}, IdsIn(Tail(q)))
<1> DEFINE r == Tail(q)
           n == Len(q)
<1>0. PICK e \in Messages : TRUE
  BY SeqFacts
<1>1. /\ DOMAIN q = 1 .. n /\ n \in Nat
      /\ DOMAIN r = 1 .. n - 1
      /\ n > 0
      /\ Head(q) = q[1]
      /\ \A i \in 1 .. n - 1 : r[i] = q[i + 1]
  BY <1>0, SeqElements
<1> HIDE DEF r, n
<1>2. \A i \in DOMAIN r : i + 1 \in DOMAIN q /\ 1 < i + 1 /\ r[i] = q[i + 1]
  BY <1>1
<1>3. 1 \in DOMAIN q
  BY <1>1
<1>4. RiseIn(r)
  <2> SUFFICES ASSUME NEW i \in DOMAIN r, NEW j \in DOMAIN r, i < j,
                      IsResult(r[i]), IsResult(r[j])
               PROVE  r[i].id < r[j].id
    BY DEF RiseIn
  <2>1. i + 1 < j + 1
    BY <1>1
  <2> QED
    BY <1>2, <2>1 DEF RiseIn
<1>5. IdsIn(r) \subseteq IdsIn(q)
  BY <1>2 DEF IdsIn
<1>6. ASSUME IsResult(Head(q))
      PROVE  Head(q).id \in IdsIn(q) /\ Before({Head(q).id}, IdsIn(r))
  BY <1>1, <1>2, <1>3, <1>6 DEF IdsIn, Before, RiseIn
<1> QED
  BY <1>4, <1>5, <1>6 DEF r
-----------------------------------------------------------------------------
(* The result the main thread deals with, while a target may still get it, *)
(* and the results still to come to a target.                              *)
InWork == IF msgPc \in {"read", "closelog", "lock", "get", "copy", "put"} THEN {msg.id} ELSE {}
ToDo(t) == IF \/ msgPc \in {"read", "closelog", "lock"}
              \/ msgPc \in {"get", "copy", "put"} /\ stage \in {t, "PLC"}
           THEN {msg.id} ELSE {}
Coming(t) == ToDo(t) \cup IdsIn(toServer)

(* The thread of a target has a result in hand. *)
Handling(t) == srvPc[t] \in {"format", "giveback", "send"}

OrderInv ==
    /\ \A t \in Targets :
           /\ Ordered(sent[t], {InHand(t)} \ {0}, Pending(t), Coming(t), produced)
           /\ Handling(t) <=> InHand(t) # 0
    /\ RiseIn(toServer)
    /\ Before(InWork, IdsIn(toServer))
    /\ msgPc = "put" => content[stage][msgFrame] = msg.id

(* What a step does to the results of a target that are on their way. *)
Same(t) == UNCHANGED <<sent[t], InHand(t), Pending(t)>>
Queued(t) ==
    /\ PutFullFrame /\ stage = t
    /\ Len(Pending(t)) < NumFrames
    /\ Pending(t)' = Append(Pending(t), msg.id)
    /\ UNCHANGED <<sent[t], InHand(t)>>
Taken(t) ==
    /\ InHand(t) = 0 /\ Pending(t) # <<>>
    /\ InHand(t)' = Head(Pending(t))
    /\ Pending(t)' = Tail(Pending(t))
    /\ UNCHANGED sent[t]
Finished(t) ==
    /\ InHand(t) # 0 /\ InHand(t)' = 0
    /\ sent'[t] \in {sent[t], Append(sent[t], InHand(t))}
    /\ UNCHANGED Pending(t)
Moves(t) == Same(t) \/ Queued(t) \/ Taken(t) \/ Finished(t)

(* The types of what is on its way. *)
LEMMA OrderTyped ==
    ASSUME TypeOK, NEW t \in Targets
    PROVE  /\ fullQue[t] \in Seq(Frames) /\ content[t] \in [Frames -> Nat]
           /\ Pending(t) = Contents(fullQue[t], content[t])
           /\ sent[t] \in Seq(Nat) /\ out[t] \in Nat /\ InHand(t) \in Nat
<1>1. /\ fullQue[t] \in Seq(Frames) /\ content[t] \in [Frames -> Nat]
      /\ sent[t] \in Seq(Nat) /\ out[t] \in Nat
      /\ srvPc[t] = "format" => srvFrame[t] \in Frames
  BY DEF TypeOK, ObjTypeOK, SrvTypeOK
<1> QED
  BY <1>1, PendingIs DEF InHand

(* At the start nothing is on its way. *)
LEMMA InitOrder == ASSUME Init PROVE OrderInv
<1> USE DEF Init, SetEnv, ProcInit, SrvInit
<1>1. IdsIn(toServer) = {} /\ RiseIn(toServer) /\ InWork = {}
  BY DEF IdsIn, RiseIn, InWork
<1>2. ASSUME NEW t \in Targets
      PROVE  /\ Ordered(sent[t], {InHand(t)} \ {0}, Pending(t), Coming(t), produced)
             /\ Handling(t) <=> InHand(t) # 0
  <2>1. InHand(t) = 0 /\ ~Handling(t) /\ Coming(t) = {}
    BY <1>1 DEF InHand, Handling, Coming, ToDo
  <2>2. sent[t] = <<>> /\ Pending(t) = <<>> /\ produced = 0
    BY DEF Pending
  <2>3. <<>> \in Seq(Nat) /\ Rising(<<>>) /\ Members(<<>>) = {}
    BY EmptySeq DEF Rising, Members
  <2> QED
    BY <2>1, <2>2, <2>3 DEF Ordered, Before
<1> QED
  BY <1>1, <1>2 DEF OrderInv, Before
-----------------------------------------------------------------------------
(* The main thread writes into a frame that is in no queue and no other    *)
(* thread's hand, and queues what it has just written.                     *)
LEMMA ProcMoves ==
    ASSUME TypeOK, FramesAccounted, FramesApart, OrderInv, Proc, NEW t \in Targets
    PROVE  Moves(t) /\ (Handling(t) <=> InHand(t) # 0)'
<1>0. /\ stage \in Targets /\ content \in [Targets -> [Frames -> Nat]]
      /\ fullQue \in [Targets -> Seq(Frames)]
      /\ msgPc \in {"copy", "put"} => msgFrame \in Frames
      /\ Handling(t) <=> InHand(t) # 0
  BY DEF TypeOK, ObjTypeOK, ProcTypeOK, OrderInv
<1>1. UNCHANGED <<srvPc, srvFrame, out, sent>>
  BY DEF Proc, srvVars
<1>2. ASSUME UNCHANGED <<fullQue, content>>
      PROVE  Moves(t) /\ (Handling(t) <=> InHand(t) # 0)'
  BY <1>0, <1>1, <1>2 DEF Moves, Same, Pending, InHand, Handling
<1>3. CASE CopyResult
  <2>1. /\ msgPc = "copy" /\ UNCHANGED fullQue
        /\ content' = [content EXCEPT ![stage][msgFrame] = pData]
    BY <1>3 DEF CopyResult
  <2>2. t = stage => /\ msgFrame \notin Members(fullQue[t])
                     /\ srvPc[t] = "format" => srvFrame[t] # msgFrame
    BY <2>1 DEF FramesApart, Apart, MainFrame, ServerFrame
  <2>3. \A f \in Frames : (t = stage /\ f = msgFrame) \/ content'[t][f] = content[t][f]
    BY <1>0, <2>1
  <2>4. \A i \in DOMAIN fullQue[t] : fullQue[t][i] \in Frames
    BY <1>0, ElementOfSeq, LenProperties
  <2>5. Pending(t)' = Pending(t)
    BY <2>1, <2>2, <2>3, <2>4 DEF Pending, Members
  <2>6. srvPc[t] = "format" => srvFrame[t] \in Frames
    BY DEF TypeOK, SrvTypeOK
  <2>7. InHand(t)' = InHand(t)
    BY <1>1, <2>2, <2>3, <2>6 DEF InHand
  <2> QED
    BY <1>0, <1>1, <2>5, <2>7 DEF Moves, Same, Handling
<1>4. CASE PutFullFrame
  <2>1. HasRoom(fullQue[stage])
    BY <1>4, HandLeavesRoom DEF PutFullFrame, PutsFindRoom
  <2>2. /\ fullQue' = [fullQue EXCEPT ![stage] = Append(fullQue[stage], msgFrame)]
        /\ UNCHANGED content /\ msgPc = "put"
    BY <1>4, <2>1 DEF PutFullFrame, PutBack
  <2>3. InHand(t)' = InHand(t) /\ sent'[t] = sent[t] /\ Handling(t)' = Handling(t)
    BY <1>1, <2>2 DEF InHand, Handling
  <2>4. CASE t = stage
    <3>1. fullQue'[t] = Append(fullQue[t], msgFrame) /\ content'[t] = content[t]
      BY <1>0, <2>2, <2>4
    <3>2. /\ fullQue[t] \in Seq(Frames) /\ content[t] \in [Frames -> Nat]
          /\ msgFrame \in Frames
      BY <1>0, <2>2
    <3>3. Len(Pending(t)) = Len(fullQue[t])
      BY <3>2, ContentsMoved, PendingIs
    <3>4. content[t][msgFrame] = msg.id
      BY <2>2, <2>4 DEF OrderInv
    <3>5. Contents(Append(fullQue[t], msgFrame), content[t])
              = Append(Pending(t), msg.id)
      BY <3>2, <3>4, ContentsMoved, PendingIs
    <3>6. Pending(t)' = Append(Pending(t), msg.id)
      BY <3>1, <3>5 DEF Pending, Contents
    <3> QED
      BY <1>0, <1>4, <2>1, <2>3, <2>4, <3>3, <3>6 DEF Moves, Queued, HasRoom
  <2>5. CASE t # stage
    <3>1. Pending(t)' = Pending(t)
      BY <1>0, <2>2, <2>5 DEF Pending
    <3> QED
      BY <1>0, <2>3, <3>1 DEF Moves, Same
  <2> QED
    BY <2>4, <2>5
<1>5. CASE \/ Start \/ Receive \/ ReadResult \/ TakeSem \/ SkipTarget \/ GetFreeFrame
           \/ DropFrame \/ ReleaseSem \/ SendReply \/ LeaveLoop
  BY <1>2, <1>5 DEF Start, Receive, ReadResult, TakeSem, SkipTarget, GetFreeFrame,
     DropFrame, ReleaseSem, SendReply, LeaveLoop, objVars
<1> QED
  BY <1>3, <1>4, <1>5 DEF Proc, ProcStep

(* A server thread takes the oldest queued result, keeps it while it       *)
(* formats it and gives the frame back, and sends or drops it.             *)
LEMMA ServerMoves ==
    ASSUME TypeOK, OrderInv, NEW u \in Targets, Server(u) \/ Peer(u) \/ Net(u),
           NEW t \in Targets
    PROVE  Moves(t) /\ (Handling(t) <=> InHand(t) # 0)'
<1>0. /\ srvPc \in [Targets -> SrvPcs] /\ srvFrame \in [Targets -> Frames \cup {0}]
      /\ out \in [Targets -> Nat] /\ sent \in [Targets -> Seq(Nat)]
      /\ fullQue \in [Targets -> Seq(Frames)]
      /\ Handling(t) <=> InHand(t) # 0
  BY DEF TypeOK, ObjTypeOK, SrvTypeOK, OrderInv
<1>1. ASSUME UNCHANGED <<fullQue[t], content, srvFrame[t], out[t], sent[t]>>,
             \/ UNCHANGED srvPc[t]
             \/ ~Handling(t) /\ ~Handling(t)'
             \/ {srvPc[t], srvPc'[t]} = {"giveback", "send"}
      PROVE  Moves(t) /\ (Handling(t) <=> InHand(t) # 0)'
  <2>1. Pending(t)' = Pending(t)
    BY <1>1 DEF Pending
  <2>2. InHand(t)' = InHand(t) /\ Handling(t)' = Handling(t)
    BY <1>1 DEF InHand, Handling
  <2> QED
    BY <1>0, <1>1, <2>1, <2>2 DEF Moves, Same
<1>2. CASE t # u
  <2>1. UNCHANGED <<fullQue[t], content, srvFrame[t], out[t], sent[t], srvPc[t]>>
    BY <1>0, <1>2 DEF Server, Peer, Net, SrvStep, PeerStep, NetStep, InitServer, TestQuit,
       EnterSwitch, SwitchOn, EndSession, GetFullFrame, FormatResult, GiveBackFrame, SwitchOff,
       QuitServer, Send, SendFails, SkipSend, Answer, AnswerFails, Accept, AcceptFails,
       ConnectionBroken, InitServerFails, AfterSend, Goto, RemoveOldest, objVars
  <2> QED
    BY <1>1, <2>1
<1>3. CASE t = u /\ GetFullFrame(t)
  <2>1. /\ srvPc[t] = "loop" /\ srvPc'[t] = "format" /\ fullQue[t] # <<>>
        /\ srvFrame'[t] = Head(fullQue[t]) /\ fullQue'[t] = Tail(fullQue[t])
        /\ UNCHANGED <<content, sent>>
    BY <1>0, <1>3 DEF GetFullFrame, Goto, RemoveOldest
  <2>2. InHand(t) = 0
    BY <1>0, <2>1 DEF Handling
  <2>3. /\ Pending(t) \in Seq(Nat) /\ Pending(t) # <<>>
        /\ Head(Pending(t)) = content[t][Head(fullQue[t])]
        /\ Contents(Tail(fullQue[t]), content[t]) = Tail(Pending(t))
    BY <2>1, OrderTyped, ContentsMoved
  <2>4. InHand(t)' = Head(Pending(t)) /\ Pending(t)' = Tail(Pending(t))
    BY <2>1, <2>3 DEF InHand, Pending, Contents
  <2>5. Rising(Pending(t)) /\ Members(Pending(t)) \subseteq 1 .. produced
    BY DEF OrderInv, Ordered
  <2>6. Head(Pending(t)) \in 1 .. produced
    BY <2>3, <2>5, RisingRemoved
  <2>7. Head(Pending(t)) # 0
    BY <2>6
  <2> QED
    BY <2>1, <2>2, <2>3, <2>4, <2>7 DEF Moves, Taken, Handling
<1>4. CASE t = u /\ FormatResult(t)
  <2>1. /\ srvPc[t] = "format" /\ srvPc'[t] = "giveback"
        /\ out'[t] = content[t][srvFrame[t]]
        /\ UNCHANGED <<fullQue, content, sent>>
    BY <1>0, <1>4 DEF FormatResult, Goto, objVars
  <2>2. InHand(t)' = InHand(t) /\ Handling(t) /\ Handling(t)'
    BY <2>1 DEF InHand, Handling
  <2>3. Pending(t)' = Pending(t)
    BY <2>1 DEF Pending
  <2> QED
    BY <1>0, <2>1, <2>2, <2>3 DEF Moves, Same
<1>5. CASE t = u /\ (Send(t) \/ SendFails(t) \/ SkipSend(t))
  <2>1. /\ srvPc[t] = "send" /\ srvPc'[t] \in {"recv", "loop"} /\ out'[t] = 0
        /\ sent'[t] \in {sent[t], Append(sent[t], out[t])}
        /\ UNCHANGED <<fullQue, content>>
    BY <1>0, <1>5 DEF Send, SendFails, SkipSend, AfterSend, Goto, objVars
  <2>2. InHand(t) = out[t] /\ InHand(t) # 0 /\ InHand(t)' = 0 /\ ~Handling(t)'
    BY <1>0, <2>1 DEF InHand, Handling
  <2>3. Pending(t)' = Pending(t)
    BY <2>1 DEF Pending
  <2> QED
    BY <2>1, <2>2, <2>3 DEF Moves, Finished
<1>6. CASE t = u /\ GiveBackFrame(t)
  <2>1. /\ srvPc[t] = "giveback" /\ srvPc'[t] = "send"
        /\ UNCHANGED <<fullQue, content, out, sent>>
    BY <1>0, <1>6 DEF GiveBackFrame, Goto
  <2>2. InHand(t)' = InHand(t) /\ Handling(t) /\ Handling(t)'
    BY <2>1 DEF InHand, Handling
  <2>3. Pending(t)' = Pending(t)
    BY <2>1 DEF Pending
  <2> QED
    BY <1>0, <2>1, <2>2, <2>3 DEF Moves, Same
<1>7. CASE /\ t = u
           /\ \/ InitServer(t) \/ TestQuit(t) \/ EnterSwitch(t) \/ SwitchOn(t)
              \/ EndSession(t)
              \/ SwitchOff(t) \/ QuitServer(t) \/ Answer(t) \/ AnswerFails(t)
              \/ Accept(t) \/ AcceptFails(t) \/ ConnectionBroken(t)
              \/ InitServerFails(t)
  <2>1. UNCHANGED <<fullQue, content, srvFrame, out, sent>>
    BY <1>7 DEF InitServer, TestQuit, EnterSwitch, SwitchOn, EndSession, SwitchOff,
       QuitServer, Answer, AnswerFails, Accept, AcceptFails, ConnectionBroken, InitServerFails,
       objVars
  <2>2. ~Handling(t) /\ ~Handling(t)'
    BY <1>0, <1>7 DEF InitServer, TestQuit, EnterSwitch, SwitchOn, EndSession, SwitchOff,
       QuitServer, Answer, AnswerFails, Accept, AcceptFails, ConnectionBroken, InitServerFails,
       Goto, Handling
  <2> QED
    BY <1>1, <2>1, <2>2
<1> QED
  BY <1>2, <1>3, <1>4, <1>5, <1>6, <1>7
     DEF Server, Peer, Net, SrvStep, PeerStep, NetStep

(* The steps of the others leave the results on their way alone. *)
LEMMA NextMoves ==
    ASSUME TypeOK, FramesAccounted, FramesApart, OrderInv, [Next]_vars,
           NEW t \in Targets
    PROVE  Moves(t) /\ (Handling(t) <=> InHand(t) # 0)'
<1>1. CASE Proc
  BY <1>1, ProcMoves
<1>2. ASSUME NEW u \in Targets, Server(u) \/ Peer(u) \/ Net(u)
      PROVE  Moves(t) /\ (Handling(t) <=> InHand(t) # 0)'
  BY <1>2, ServerMoves
<1>3. CASE \/ \E s \in Slots : AlgResult(s)
           \/ AlgReads \/ Daemon \/ LogWait \/ Signal \/ Join \/ UNCHANGED vars
  <2>1. UNCHANGED <<fullQue, content, srvFrame, out, sent>>
    BY <1>3 DEF AlgResult, AlgReads, AlgStart, AlgAnswered, AlgDelete, Daemon, LogWait,
       DaemonInit, DaemonLoop, DaemonFlush, CloseErrLog, Signal, SignalElsewhere,
       SignalInAccept, SignalInRecv, ReceiveFails, Join, vars, objVars, srvVars
  <2>2. \/ UNCHANGED srvPc
        \/ \E u \in Targets : srvPc[u] = "accept" /\ srvPc' = [srvPc EXCEPT ![u] = "on"]
    BY <1>3 DEF AlgResult, AlgReads, AlgStart, AlgAnswered, AlgDelete, Daemon, LogWait,
       DaemonInit, DaemonLoop, DaemonFlush, CloseErrLog, Signal, SignalElsewhere,
       SignalInAccept, SignalInRecv, Goto, Join, vars, srvVars
  <2>3. srvPc \in [Targets -> SrvPcs]
    BY DEF TypeOK, SrvTypeOK
  <2>4. Handling(t)' = Handling(t) /\ InHand(t)' = InHand(t)
    BY <2>1, <2>2, <2>3 DEF Handling, InHand
  <2>5. Pending(t)' = Pending(t)
    BY <2>1 DEF Pending
  <2> QED
    BY <2>1, <2>4, <2>5 DEF OrderInv, Moves, Same
<1> QED
  BY <1>1, <1>2, <1>3 DEF Next
-----------------------------------------------------------------------------
(* What the main thread is about to queue is what its message announced.   *)
LEMMA NextCopied ==
    ASSUME TypeOK, ResultInv, OrderInv, [Next]_vars
    PROVE  (msgPc = "put" => content[stage][msgFrame] = msg.id)'
<1>1. ASSUME UNCHANGED <<msgPc, msg, stage, msgFrame, content>> \/ msgPc' # "put"
      PROVE  (msgPc = "put" => content[stage][msgFrame] = msg.id)'
  BY <1>1 DEF OrderInv
<1>2. CASE Proc
  <2>1. CASE CopyResult
    <3>1. /\ stage \in Targets /\ msgFrame \in Frames /\ pData = msg.id
          /\ content \in [Targets -> [Frames -> Nat]]
      BY <2>1 DEF CopyResult, ResultInv, AnnouncedResult, TypeOK, ObjTypeOK, ProcTypeOK
    <3> QED
      BY <2>1, <3>1 DEF CopyResult
  <2>2. ASSUME ~CopyResult
        PROVE  msgPc' # "put"
    BY <1>2, <2>2 DEF Proc, ProcStep, Start, Receive, ReadResult, TakeSem, SkipTarget,
       GetFreeFrame, DropFrame, PutFullFrame, ReleaseSem, SendReply, LeaveLoop, NextTarget
  <2> QED
    BY <1>1, <2>1, <2>2
<1>3. ASSUME NEW t \in Targets, Server(t) \/ Peer(t) \/ Net(t)
      PROVE  UNCHANGED <<msgPc, msg, stage, msgFrame, content>>
  BY <1>3 DEF Server, Peer, Net, procVars, localVars, SrvStep, PeerStep, NetStep,
     InitServer, TestQuit, EnterSwitch, SwitchOn, EndSession, GetFullFrame, FormatResult,
     GiveBackFrame, SwitchOff, QuitServer, Send, SendFails, SkipSend, Answer,
     AnswerFails, Accept, AcceptFails, ConnectionBroken, InitServerFails, objVars
<1>4. CASE \/ \E s \in Slots : AlgResult(s)
           \/ AlgReads \/ Daemon \/ LogWait \/ Signal \/ Join \/ UNCHANGED vars
  <2>1. UNCHANGED <<msgPc, msg, stage, msgFrame, content>> \/ msgPc' # "put"
    BY <1>4 DEF AlgResult, AlgReads, AlgStart, AlgAnswered, AlgDelete, Daemon, LogWait,
       DaemonInit, DaemonLoop, DaemonFlush, CloseErrLog, Signal, SignalElsewhere,
       SignalInAccept, SignalInRecv, ReceiveFails, Join, vars, objVars, procVars, localVars
  <2> QED
    BY <1>1, <2>1
<1> QED
  BY <1>1, <1>2, <1>3, <1>4 DEF Next

(* No step but the algorithm's announcement adds to what is still to come, *)
(* and a result that is queued is still to come to no target served before.*)
LEMMA ComingKept ==
    ASSUME TypeOK, OrderInv, [Next]_vars, ~\E s \in Slots : AlgResult(s)
    PROVE  /\ produced' = produced
           /\ RiseIn(toServer)' /\ Before(InWork, IdsIn(toServer))'
           /\ \A t \in Targets :
                  /\ Coming(t)' \subseteq Coming(t)
                  /\ Queued(t) => msg.id \in Coming(t) /\ Before({msg.id}, Coming(t)')
<1>0. /\ toServer \in Seq(Messages) /\ stage \in Targets
      /\ RiseIn(toServer) /\ Before(InWork, IdsIn(toServer))
  BY DEF TypeOK, ObjTypeOK, ProcTypeOK, OrderInv
<1>1. produced' = produced
  BY DEF Next, Proc, Server, Peer, Net, AlgReads, AlgStart, AlgAnswered, AlgDelete,
     Signal, SignalElsewhere, SignalInAccept, SignalInRecv, Daemon, LogWait, DaemonInit,
     DaemonLoop, DaemonFlush, CloseErrLog, Join, vars, envVars
<1>2. ASSUME /\ RiseIn(toServer)' /\ IdsIn(toServer)' \subseteq IdsIn(toServer)
             /\ InWork' \subseteq InWork
             /\ \A t \in Targets : ToDo(t)' \subseteq ToDo(t)
             /\ ~PutFullFrame
      PROVE  /\ RiseIn(toServer)' /\ Before(InWork, IdsIn(toServer))'
             /\ \A t \in Targets :
                    /\ Coming(t)' \subseteq Coming(t)
                    /\ Queued(t) => msg.id \in Coming(t) /\ Before({msg.id}, Coming(t)')
  BY <1>0, <1>2 DEF Before, Coming, Queued
<1>3. ASSUME UNCHANGED <<msgPc, msg, stage>>, ~PutFullFrame,
             \/ UNCHANGED toServer
             \/ \E m \in Messages : /\ toServer' = Append(toServer, m)
                                    /\ ~IsResult(m)
      PROVE  /\ RiseIn(toServer)' /\ Before(InWork, IdsIn(toServer))'
             /\ \A t \in Targets :
                    /\ Coming(t)' \subseteq Coming(t)
                    /\ Queued(t) => msg.id \in Coming(t) /\ Before({msg.id}, Coming(t)')
  <2>1. RiseIn(toServer)' /\ IdsIn(toServer)' \subseteq IdsIn(toServer)
    BY <1>0, <1>3, IdsAppended
  <2>2. InWork' = InWork /\ \A t \in Targets : ToDo(t)' = ToDo(t)
    BY <1>3 DEF InWork, ToDo
  <2> QED
    BY <1>2, <1>3, <2>1, <2>2
<1>4. CASE Proc
  <2>1. CASE Receive
    <3>1. /\ msgPc = "recv" /\ toServer # <<>> /\ toServer' = Tail(toServer)
          /\ msg' = Head(toServer)
          /\ msgPc' = IF IsResult(Head(toServer)) THEN "read" ELSE "reply"
      BY <2>1 DEF Receive, IsResult
    <3>2. /\ RiseIn(toServer') /\ IdsIn(toServer') \subseteq IdsIn(toServer)
          /\ IsResult(Head(toServer)) =>
                 /\ Head(toServer).id \in IdsIn(toServer)
                 /\ Before({Head(toServer).id}, IdsIn(toServer'))
      BY <1>0, <3>1, IdsRemoved
    <3>3. InWork' = IF IsResult(Head(toServer)) THEN {Head(toServer).id} ELSE {}
      BY <3>1 DEF InWork
    <3>4. \A t \in Targets : ToDo(t)' \subseteq InWork'
      BY DEF ToDo, InWork
    <3>5. ~PutFullFrame
      BY <3>1 DEF PutFullFrame
    <3> QED
      BY <1>1, <3>2, <3>3, <3>4, <3>5 DEF Before, Coming, Queued
  <2>2. CASE PutFullFrame
    <3>1. /\ UNCHANGED <<toServer, msg>> /\ msgPc = "put"
          /\ IF stage = "PLC" THEN stage' = "CLIENT" /\ msgPc' = "get"
                              ELSE stage' = stage /\ msgPc' = "unlock"
      BY <2>2 DEF PutFullFrame, NextTarget, ipcVars
    <3>2. InWork = {msg.id} /\ InWork' \subseteq InWork
      BY <3>1 DEF InWork
    <3>3. ASSUME NEW t \in Targets
          PROVE  /\ ToDo(t)' \subseteq ToDo(t)
                 /\ t = stage => ToDo(t) = {msg.id} /\ ToDo(t)' = {}
      BY <1>0, <3>1, <3>3 DEF ToDo, Targets
    <3> QED
      BY <1>0, <1>1, <3>1, <3>2, <3>3 DEF Before, Coming, Queued
  <2>3. CASE \/ Start \/ ReadResult \/ TakeSem \/ SkipTarget \/ GetFreeFrame
             \/ CopyResult \/ DropFrame \/ ReleaseSem \/ SendReply \/ LeaveLoop
    <3>1. UNCHANGED toServer /\ ~PutFullFrame
      BY <2>3 DEF Start, ReadResult, TakeSem, SkipTarget, GetFreeFrame, CopyResult,
         DropFrame, ReleaseSem, SendReply, LeaveLoop, ipcVars, PutFullFrame
    <3>2. \/ msgPc' \notin {"read", "closelog", "lock", "get", "copy", "put"}
          \/ /\ UNCHANGED msg
             /\ \/ /\ msgPc \in {"read", "closelog", "lock"}
                   /\ msgPc' \in {"closelog", "lock", "get"}
                \/ /\ msgPc \in {"get", "copy", "put"}
                   /\ msgPc' \in {"get", "copy", "put"}
                   /\ stage = "PLC" \/ UNCHANGED stage
      BY <2>3 DEF Start, ReadResult, TakeSem, SkipTarget, GetFreeFrame, CopyResult,
         DropFrame, ReleaseSem, SendReply, LeaveLoop, NextTarget
    <3>3. InWork' \subseteq InWork
      BY <3>2 DEF InWork
    <3>4. ASSUME NEW t \in Targets
          PROVE  ToDo(t)' \subseteq ToDo(t)
      BY <3>2 DEF ToDo
    <3> QED
      BY <1>0, <1>1, <1>2, <3>1, <3>3, <3>4
  <2> QED
    BY <1>4, <2>1, <2>2, <2>3 DEF Proc, ProcStep
<1>5. ASSUME NEW u \in Targets, Server(u) \/ Peer(u) \/ Net(u)
      PROVE  UNCHANGED <<msgPc, msg, stage, toServer, msgFrame>>
  BY <1>5 DEF Server, Peer, Net, procVars, localVars, SrvStep, PeerStep, NetStep,
     InitServer, TestQuit, EnterSwitch, SwitchOn, EndSession, GetFullFrame, FormatResult,
     GiveBackFrame, SwitchOff, QuitServer, Send, SendFails, SkipSend, Answer,
     AnswerFails, Accept, AcceptFails, ConnectionBroken, InitServerFails, ipcVars
<1>6. CASE AlgReads
  <2>1. UNCHANGED <<msgPc, msg, stage>>
    BY <1>6 DEF AlgReads, AlgStart, AlgAnswered, AlgDelete, procVars, localVars
  <2>2. \/ UNCHANGED toServer
        \/ \E c \in Commands \ {"RESULT"}, s \in Senders :
               toServer' = Append(toServer, Command(c, s))
    BY <1>6 DEF AlgReads, AlgStart, AlgAnswered, AlgDelete, Commands, Senders
  <2>3. \A c \in Commands \ {"RESULT"}, s \in Senders :
            Command(c, s) \in Messages /\ ~IsResult(Command(c, s))
    BY NoSlot DEF SlotOf
  <2>4. ~PutFullFrame
    BY <2>1 DEF PutFullFrame, NextTarget
  <2> QED
    BY <1>1, <1>3, <2>1, <2>2, <2>3, <2>4
<1>7. CASE Daemon \/ DaemonFlush \/ Signal \/ Join \/ UNCHANGED vars
  <2>1. UNCHANGED <<toServer, msg, stage>>
    BY <1>7 DEF Daemon, DaemonInit, DaemonLoop, DaemonFlush, Signal,
       SignalElsewhere, SignalInAccept, SignalInRecv, ReceiveFails, Join, vars, ipcVars,
       procVars, localVars
  <2>2. \/ UNCHANGED msgPc
        \/ msgPc' \in {"exit", "recv", "done"}
    BY <1>7 DEF Daemon, DaemonInit, DaemonLoop, DaemonFlush, Signal,
       SignalElsewhere, SignalInAccept, SignalInRecv, ReceiveFails, Join, vars, procVars,
       localVars
  <2>3. InWork' \subseteq InWork /\ \A t \in Targets : ToDo(t)' \subseteq ToDo(t)
    BY <2>1, <2>2 DEF InWork, ToDo
  <2>4. ~PutFullFrame
    BY <2>1, <2>2 DEF PutFullFrame, NextTarget
  <2> QED
    BY <1>0, <1>1, <1>2, <2>1, <2>3, <2>4
<1>8. ASSUME NEW u \in Targets, Server(u) \/ Peer(u) \/ Net(u)
      PROVE  ~PutFullFrame
  BY <1>5, <1>8 DEF PutFullFrame, NextTarget
<1>9. CASE CloseErrLog
  <2>1. /\ UNCHANGED <<toServer, msg, stage>>
        /\ msgPc = "closelog" /\ msgPc' = "lock"
    BY <1>9 DEF CloseErrLog, ipcVars
  <2>2. InWork' \subseteq InWork /\ \A t \in Targets : ToDo(t)' \subseteq ToDo(t)
    BY <2>1 DEF InWork, ToDo
  <2>3. ~PutFullFrame
    BY <2>1 DEF PutFullFrame
  <2> QED
    BY <1>0, <1>1, <1>2, <2>1, <2>2, <2>3
<1> QED
  BY <1>1, <1>3, <1>4, <1>5, <1>6, <1>7, <1>8, <1>9 DEF Next, LogWait

(* A new result is later than all before it. *)
LEMMA NewComing ==
    ASSUME TypeOK, OrderInv, NEW s \in Slots, AlgResult(s)
    PROVE  /\ produced' = produced + 1
           /\ RiseIn(toServer)' /\ Before(InWork, IdsIn(toServer))'
           /\ \A t \in Targets : Same(t) /\ Coming(t)' = Coming(t) \cup {produced + 1}
<1> DEFINE m == Message("RESULT", "MSG3", produced + 1, s)
<1>1. /\ produced \in Nat /\ produced' = produced + 1
      /\ toServer \in Seq(Messages) /\ toServer' = Append(toServer, m)
      /\ UNCHANGED <<msgPc, msg, stage>>
  BY DEF AlgResult, procVars, localVars, TypeOK, ObjTypeOK, EnvTypeOK
<1>2. m \in Messages /\ IsResult(m) /\ m.id = produced + 1
  BY <1>1 DEF Message, Messages, Senders, IsResult
<1> HIDE DEF m
<1>3. \A t \in Targets : Coming(t) \subseteq 1 .. produced
  BY DEF OrderInv, Ordered
<1>4. InWork \subseteq Coming("CLIENT") /\ IdsIn(toServer) \subseteq Coming("CLIENT")
  BY DEF InWork, Coming, ToDo, Targets, TypeOK, ProcTypeOK
<1>5. \A n \in Coming("CLIENT") : n < produced + 1
  BY <1>1, <1>3 DEF Targets
<1>6. Before(IdsIn(toServer), {produced + 1}) /\ Before(InWork, {produced + 1})
  BY <1>4, <1>5 DEF Before
<1>7. RiseIn(toServer)' /\ IdsIn(toServer)' = IdsIn(toServer) \cup {produced + 1}
  BY <1>1, <1>2, <1>6, IdsAppended DEF OrderInv
<1>8. InWork' = InWork /\ \A t \in Targets : ToDo(t)' = ToDo(t)
  BY <1>1 DEF InWork, ToDo
<1>9. Before(InWork, IdsIn(toServer))'
  BY <1>6, <1>7, <1>8 DEF OrderInv, Before
<1>10. \A t \in Targets : Same(t)
  BY DEF AlgResult, objVars, srvVars, Same, InHand, Pending
<1> QED
  BY <1>1, <1>7, <1>8, <1>9, <1>10 DEF Coming
-----------------------------------------------------------------------------
(* The order is kept by every step: each result moves one place on. *)
LEMMA NextOrder ==
    ASSUME TypeOK, FramesAccounted, FramesApart, ResultInv, OrderInv, [Next]_vars
    PROVE  OrderInv'
<1> DEFINE W(t) == Ordered(sent[t], {InHand(t)} \ {0}, Pending(t), Coming(t), produced)
<1>1. /\ \A t \in Targets : W(t)
      /\ \A t \in Targets : Moves(t) /\ (Handling(t) <=> InHand(t) # 0)'
      /\ (msgPc = "put" => content[stage][msgFrame] = msg.id)'
  BY NextMoves, NextCopied DEF OrderInv
<1>2. CASE \E s \in Slots : AlgResult(s)
  <2>1. /\ produced' = produced + 1
        /\ RiseIn(toServer)' /\ Before(InWork, IdsIn(toServer))'
        /\ \A t \in Targets : Same(t) /\ Coming(t)' = Coming(t) \cup {produced + 1}
    BY <1>2, NewComing
  <2>2. ASSUME NEW t \in Targets
        PROVE  W(t)'
    <3>1. Ordered(sent[t], {InHand(t)} \ {0}, Pending(t), Coming(t) \cup {produced + 1},
                  produced + 1)
      BY <1>1, MovesOn
    <3> QED
      BY <2>1, <3>1 DEF Same
  <2> QED
    BY <1>1, <2>1, <2>2 DEF OrderInv
<1>3. CASE ~\E s \in Slots : AlgResult(s)
  <2>1. /\ produced' = produced
        /\ RiseIn(toServer)' /\ Before(InWork, IdsIn(toServer))'
        /\ \A t \in Targets :
               /\ Coming(t)' \subseteq Coming(t)
               /\ Queued(t) => msg.id \in Coming(t) /\ Before({msg.id}, Coming(t)')
    BY <1>3, ComingKept
  <2>2. ASSUME NEW t \in Targets
        PROVE  W(t)'
    <3> DEFINE h == {InHand(t)} \ {0}
               c == Coming(t)'
    <3>0. /\ Ordered(sent[t], h, Pending(t), Coming(t), produced)
          /\ c \in SUBSET Coming(t)
      BY <1>1, <2>1
    <3>1. CASE Same(t)
      <4>1. Ordered(sent[t], h, Pending(t), c, produced)
        BY <3>0, MovesOn
      <4> QED
        BY <2>1, <3>1, <4>1 DEF Same
    <3>2. CASE Queued(t)
      <4>1. Ordered(sent[t], h, Append(Pending(t), msg.id), c, produced)
        BY <2>1, <3>0, <3>2, MovesOn
      <4> QED
        BY <2>1, <3>2, <4>1 DEF Queued
    <3>3. CASE Taken(t)
      <4>1. Ordered(sent[t], {Head(Pending(t))}, Tail(Pending(t)), Coming(t), produced)
        BY <3>0, <3>3, MovesOn DEF Taken
      <4>2. Ordered(sent[t], {Head(Pending(t))}, Tail(Pending(t)), c, produced)
        BY <3>0, <4>1, MovesOn
      <4>3. {Head(Pending(t))} \ {0} = {Head(Pending(t))}
        BY <4>1 DEF Ordered
      <4> QED
        BY <2>1, <3>3, <4>2, <4>3 DEF Taken
    <3>4. CASE Finished(t)
      <4>1. Ordered(sent'[t], {}, Pending(t), Coming(t), produced)
        <5>1. InHand(t) \in h
          BY <3>4 DEF Finished
        <5>2. Ordered(Append(sent[t], InHand(t)), {}, Pending(t), Coming(t), produced)
          BY <3>0, <5>1, MovesOn
        <5>3. Ordered(sent[t], {}, Pending(t), Coming(t), produced)
          BY <3>0, MovesOn
        <5> QED
          BY <3>4, <5>2, <5>3 DEF Finished
      <4>2. Ordered(sent'[t], {}, Pending(t), c, produced)
        BY <3>0, <4>1, MovesOn
      <4>3. {InHand(t)'} \ {0} = {}
        BY <3>4 DEF Finished
      <4> QED
        BY <2>1, <3>4, <4>2, <4>3 DEF Finished
    <3> QED
      BY <1>1, <3>1, <3>2, <3>3, <3>4 DEF Moves
  <2> QED
    BY <1>1, <2>1, <2>2 DEF OrderInv
<1> QED
  BY <1>2, <1>3

(* The invariant of the whole application. *)
AllInv == TypeOK /\ FramesAccounted /\ FramesApart /\ ResultInv /\ OrderInv

(* It is inductive. *)
LEMMA AllInvInductive ==
    /\ Init => AllInv
    /\ AllInv /\ [Next]_vars => AllInv'
<1>1. Init => AllInv
  BY InitTyped, InitFrames, InitApart, InitResults, InitOrder DEF AllInv
<1>2. AllInv /\ [Next]_vars => AllInv'
  BY NextTyped, NextFrames, NextApart, NextResults, NextOrder DEF AllInv
<1> QED
  BY <1>1, <1>2

(* A peer gets the results in the order they were produced and none twice, *)
(* over all its sessions, for any number of frames, slots and results.     *)
THEOREM ResultsInOrder == Spec => []InOrderAtMostOnce
<1>1. AllInv => InOrderAtMostOnce
  <2> SUFFICES ASSUME AllInv, NEW t \in Targets
               PROVE  LET way == OnTheWay(t)
                      IN /\ \A i \in DOMAIN way : way[i] \in 1 .. produced
                         /\ \A i, j \in DOMAIN way : i < j => way[i] < way[j]
    BY DEF InOrderAtMostOnce
  <2>1. Ordered(sent[t], {InHand(t)} \ {0}, Pending(t), Coming(t), produced)
    BY DEF AllInv, OrderInv
  <2>2. InHand(t) \in Nat
    BY OrderTyped DEF AllInv
  <2> QED
    BY <2>1, <2>2, WayRises DEF OnTheWay
<1> QED
  BY <1>1, AllInvInductive, PTL DEF Spec

(* The step of a target's results is a step of the channel to its peer. *)
LEMMA ChannelSteps ==
    ASSUME AllInv, [Next]_vars, NEW t \in Targets
    PROVE  \/ Same(t)
           \/ Finished(t) \/ Taken(t)
           \/ /\ Pending(t)' # <<>>
              /\ LET r == Pending(t)'[Len(Pending(t)')]
                 IN /\ Len(Pending(t)) < NumFrames
                    /\ \A i \in DOMAIN Pending(t) : Pending(t)[i] < r
                    /\ InHand(t) < r
                    /\ \A i \in DOMAIN sent[t] : sent[t][i] < r
                    /\ Pending(t)' = Append(Pending(t), r)
                    /\ UNCHANGED <<InHand(t), sent[t]>>
<1>1. Moves(t)
  BY NextMoves DEF AllInv
<1>2. CASE Queued(t)
  <2>1. /\ Ordered(sent[t], {InHand(t)} \ {0}, Pending(t), Coming(t), produced)
        /\ InHand(t) \in Nat
    BY OrderTyped DEF AllInv, OrderInv
  <2>2. ~\E s \in Slots : AlgResult(s)
    BY <1>2 DEF Queued, PutFullFrame, AlgResult, NextTarget, procVars, localVars
  <2>3. msg.id \in Coming(t)
    BY <1>2, <2>2, ComingKept DEF AllInv
  <2>4. msg.id \in 1 .. produced /\ produced \in Nat /\ Pending(t) \in Seq(Nat)
    BY <2>1, <2>3 DEF Ordered
  <2>5. /\ Len(Pending(t)) \in Nat
        /\ Len(Append(Pending(t), msg.id)) = Len(Pending(t)) + 1
        /\ Append(Pending(t), msg.id)[Len(Pending(t)) + 1] = msg.id
        /\ Append(Pending(t), msg.id) # <<>>
    BY <2>4, AppendProperties, LenProperties
  <2>6. /\ \A i \in DOMAIN Pending(t) : Pending(t)[i] < msg.id
        /\ \A i \in DOMAIN sent[t] : sent[t][i] < msg.id
        /\ InHand(t) < msg.id
    <3>1. /\ Before(Members(sent[t]), Coming(t)) /\ Before(Members(Pending(t)), Coming(t))
          /\ Before({InHand(t)} \ {0}, Coming(t))
      BY <2>1 DEF Ordered, Before
    <3>2. CASE InHand(t) = 0
      BY <2>3, <2>4, <3>1, <3>2 DEF Before, Members
    <3>3. CASE InHand(t) # 0
      BY <2>3, <3>1, <3>3 DEF Before, Members
    <3> QED
      BY <3>2, <3>3
  <2> QED
    BY <1>2, <2>5, <2>6 DEF Queued
<1> QED
  BY <1>1, <1>2 DEF Moves

(* The queues, the frames and the threads implement, for each peer, the    *)
(* bounded lossy channel that keeps the order.                             *)
THEOREM ChannelsImplemented == Spec => Channels
<1>1. Init => Plc!Init /\ Client!Init
  BY DEF Init, SetEnv, SrvInit, Plc!Init, Client!Init, Pending, InHand, Targets
<1>2. AllInv /\ [Next]_vars => [Plc!Next]_(Plc!vars)
  <2> SUFFICES ASSUME AllInv, [Next]_vars
               PROVE  [Plc!Next]_(Plc!vars)
    OBVIOUS
  <2>1. "PLC" \in Targets
    BY DEF Targets
  <2> QED
    BY <2>1, ChannelSteps DEF Same, Finished, Taken, Plc!Next, Plc!Enter, Plc!Publish,
       Plc!Take, Plc!Deliver, Plc!Drop, Plc!vars
<1>3. AllInv /\ [Next]_vars => [Client!Next]_(Client!vars)
  <2> SUFFICES ASSUME AllInv, [Next]_vars
               PROVE  [Client!Next]_(Client!vars)
    OBVIOUS
  <2>1. "CLIENT" \in Targets
    BY DEF Targets
  <2> QED
    BY <2>1, ChannelSteps DEF Same, Finished, Taken, Client!Next, Client!Enter,
       Client!Publish, Client!Take, Client!Deliver, Client!Drop, Client!vars
<1> QED
  BY <1>1, <1>2, <1>3, AllInvInductive, PTL
     DEF Spec, Channels, Plc!Spec, Client!Spec
-----------------------------------------------------------------------------
(* The number of messages of a queue that carry no result. *)
Cost(m) == IF IsResult(m) THEN 0 ELSE 1
CmdsIn(q) == Cardinality({i \in DOMAIN q : ~IsResult(q[i])})

LEMMA CmdsCounted ==
    ASSUME NEW q \in Seq(Messages)
    PROVE  /\ CmdsIn(q) \in Nat
           /\ \A m \in Messages :
                  CmdsIn(Append(q, m)) = CmdsIn(q) + Cost(m)
           /\ q # <<>> => CmdsIn(q) = CmdsIn(Tail(q)) + Cost(Head(q))
<1> DEFINE n == Len(q)
           C == {i \in DOMAIN q : ~IsResult(q[i])}
<1>0. DOMAIN q = 1 .. n /\ n \in Nat
  BY LenProperties
<1>1. IsFiniteSet(C) /\ Cardinality(C) \in Nat
  <2>1. IsFiniteSet(1 .. n)
    BY <1>0, FS_Interval
  <2> QED
    BY <1>0, <2>1, FS_Subset, FS_CardinalityType
<1>2. ASSUME NEW m \in Messages
      PROVE  CmdsIn(Append(q, m)) = CmdsIn(q) + Cost(m)
  <2> DEFINE a == Append(q, m)
             A == {i \in DOMAIN a : ~IsResult(a[i])}
  <2>1. /\ DOMAIN a = 1 .. n + 1
        /\ a[n + 1] = m
        /\ \A i \in 1 .. n : a[i] = q[i]
    BY SeqElements
  <2> HIDE DEF a, n
  <2>2. /\ \A i \in DOMAIN a : i \in DOMAIN q \/ i = n + 1
        /\ \A i \in DOMAIN q : i \in DOMAIN a /\ a[i] = q[i]
        /\ n + 1 \in DOMAIN a /\ n + 1 \notin DOMAIN q
    BY <1>0, <2>1
  <2>3. A = IF IsResult(m) THEN C ELSE C \cup {n + 1}
    BY <2>1, <2>2
  <2>4. n + 1 \notin C
    BY <2>2
  <2>5. CmdsIn(q) = Cardinality(C) /\ CmdsIn(a) = Cardinality(A)
    BY DEF CmdsIn
  <2> HIDE DEF A, C
  <2>6. Cardinality(C \cup {n + 1}) = Cardinality(C) + 1
    BY <1>1, <2>4, FS_AddElement
  <2>7. CmdsIn(a) = CmdsIn(q) + Cost(m)
    BY <1>1, <2>3, <2>5, <2>6 DEF Cost
  <2> QED
    BY <2>7 DEF a
<1>3. ASSUME q # <<>>
      PROVE  CmdsIn(q) = CmdsIn(Tail(q)) + Cost(Head(q))
  <2> DEFINE r == Tail(q)
             R == {i \in DOMAIN r : ~IsResult(r[i])}
             f == [i \in R |-> i + 1]
  <2>0. PICK e \in Messages : TRUE
    BY <1>3, SeqFacts
  <2>1. /\ DOMAIN r = 1 .. n - 1
        /\ n > 0
        /\ Head(q) = q[1]
        /\ \A i \in 1 .. n - 1 : r[i] = q[i + 1]
    BY <1>3, <2>0, SeqElements
  <2> HIDE DEF r, n
  <2>2. /\ \A i \in DOMAIN r : i + 1 \in DOMAIN q /\ i + 1 # 1 /\ r[i] = q[i + 1]
        /\ \A i \in DOMAIN q : i # 1 => /\ i - 1 \in DOMAIN r /\ r[i - 1] = q[i]
                                        /\ (i - 1) + 1 = i
        /\ \A i, j \in DOMAIN r : i + 1 = j + 1 => i = j
        /\ 1 \in DOMAIN q
    BY <1>0, <2>1
  <2>3. f \in Bijection(R, C \ {1})
    <3>1. f \in [R -> C \ {1}]
      BY <2>2
    <3>2. \A i, j \in R : f[i] = f[j] => i = j
      BY <2>2
    <3>3. \A j \in C \ {1} : \E i \in R : f[i] = j
      <4> SUFFICES ASSUME NEW j \in C \ {1}
                   PROVE  \E i \in R : f[i] = j
        OBVIOUS
      <4>1. j - 1 \in R /\ (j - 1) + 1 = j
        BY <2>2
      <4>2. f[j - 1] = j
        BY <4>1
      <4> QED
        BY <4>1, <4>2
    <3> HIDE DEF f, R, C
    <3> QED
      BY <3>1, <3>2, <3>3 DEF Bijection, Injection, Surjection, IsInjective
  <2>4. IsFiniteSet(R)
    <3>1. IsFiniteSet(1 .. n - 1)
      BY <1>0, FS_Interval
    <3> QED
      BY <2>1, <3>1, FS_Subset
  <2>5. Cardinality(R) = Cardinality(C \ {1})
    BY <2>3, <2>4, FS_Bijection DEF ExistsBijection
  <2>6. 1 \in C <=> ~IsResult(Head(q))
    BY <2>1, <2>2
  <2>7. Cardinality(C \ {1}) = IF 1 \in C THEN Cardinality(C) - 1 ELSE Cardinality(C)
    BY <1>1, FS_RemoveElement
  <2>8. CmdsIn(q) = Cardinality(C) /\ CmdsIn(r) = Cardinality(R)
    BY DEF CmdsIn
  <2>c. 1 \in C => Cardinality(C) >= 1
    <3>1. 1 \in C => Cardinality(C) # 0
      BY <1>1, FS_EmptySet
    <3> QED
      BY <1>1, <3>1
  <2> HIDE DEF R, C
  <2>9. CmdsIn(q) = CmdsIn(r) + Cost(Head(q))
    BY <1>1, <2>5, <2>6, <2>7, <2>8, <2>c DEF Cost
  <2> QED
    BY <2>9 DEF r
<1> QED
  BY <1>1, <1>2, <1>3 DEF CmdsIn

(* If no two of its messages are about one slot, a queue is no longer than *)
(* the slots and the commands in it are many.                              *)
LEMMA LengthSplit ==
    ASSUME NEW q \in Seq(Messages), OneEachSlot(q), IsFiniteSet(SlotsIn(q))
    PROVE  Len(q) <= Cardinality(SlotsIn(q)) + CmdsIn(q)
<1> DEFINE C == {i \in DOMAIN q : ~IsResult(q[i])}
           R == {i \in DOMAIN q : IsResult(q[i])}
           f == [i \in R |-> q[i].slot]
<1>1. DOMAIN q = 1 .. Len(q) /\ Len(q) \in Nat
  BY LenProperties
<1>2. IsFiniteSet(1 .. Len(q)) /\ Cardinality(1 .. Len(q)) = Len(q)
  BY <1>1, FS_Interval
<1>3. IsFiniteSet(C) /\ IsFiniteSet(R)
  BY <1>1, <1>2, FS_Subset
<1>4. C \cup R = 1 .. Len(q) /\ C \cap R = {}
  BY <1>1
<1>5. f \in Injection(R, SlotsIn(q))
  <2>1. \A i \in R : SlotOf(q[i]) = {q[i].slot}
    BY DEF SlotOf
  <2>2. f \in [R -> SlotsIn(q)]
    BY <2>1 DEF SlotsIn
  <2>3. \A i, j \in R : f[i] = f[j] => i = j
    BY <2>1 DEF OneEachSlot
  <2> HIDE DEF f, R
  <2> QED
    BY <2>2, <2>3 DEF Injection, IsInjective
<1>6. Cardinality(R) <= Cardinality(SlotsIn(q))
  BY <1>5, FS_Injection
<1>7. Len(q) = Cardinality(C) + Cardinality(R) - Cardinality({})
  BY <1>2, <1>3, <1>4, FS_Union
<1>8. /\ Cardinality({}) = 0 /\ Cardinality(C) \in Nat /\ Cardinality(R) \in Nat
      /\ Cardinality(SlotsIn(q)) \in Nat
  BY <1>3, FS_EmptySet, FS_CardinalityType
<1> QED
  BY <1>6, <1>7, <1>8 DEF CmdsIn
-----------------------------------------------------------------------------
(* The commands that are queued and those that may still be sent: by the   *)
(* main thread at its start, in reply and at its end, by each server       *)
(* thread at its end.  The algorithm only passes on what it was sent.      *)
MainCmds == (IF msgPc = "start" THEN 1 ELSE 0)
            + (IF msgPc \in {"join", "done"} THEN 0 ELSE 1)
            + (IF msgPc = "reply" /\ msg.src # "NONE" THEN Cost(msg) ELSE 0)
ServerCmds == (IF srvPc["PLC"] = "done" THEN 0 ELSE 1)
              + (IF srvPc["CLIENT"] = "done" THEN 0 ELSE 1)
CmdsBounded == CmdsIn(toServer) + CmdsIn(toAlg) + MainCmds + ServerCmds <= 4

LEMMA InitCmds == ASSUME Init PROVE CmdsBounded
<1>1. CmdsIn(<<>>) = 0
  <2>1. {i \in DOMAIN <<>> : ~IsResult(<<>>[i])} = {}
    OBVIOUS
  <2> QED
    BY <2>1, FS_EmptySet DEF CmdsIn
<1> QED
  BY <1>1 DEF Init, SetEnv, ProcInit, SrvInit, CmdsBounded, MainCmds, ServerCmds, Cost,
     Targets

(* No step raises their number. *)
LEMMA NextCmds ==
    ASSUME TypeOK, CmdsBounded, [Next]_vars
    PROVE  CmdsBounded'
<1>0. /\ toServer \in Seq(Messages) /\ toAlg \in Seq(Messages) /\ msg \in Messages
      /\ msgPc \in {"read", "closelog", "lock", "get", "copy", "put", "unlock"} => IsResult(msg)
      /\ srvPc \in [Targets -> SrvPcs]
  BY DEF TypeOK, ObjTypeOK, ProcTypeOK, SrvTypeOK, IsResult
<1>1. CmdsIn(toServer) \in Nat /\ CmdsIn(toAlg) \in Nat
  BY <1>0, CmdsCounted
<1>p. PICK a \in Nat, b \in Nat, m \in Nat, s \in Nat :
          /\ a = CmdsIn(toServer) /\ b = CmdsIn(toAlg)
          /\ m = MainCmds /\ s = ServerCmds
          /\ a + b + m + s <= 4
  BY <1>1 DEF CmdsBounded, MainCmds, ServerCmds, Cost
<1>2. ASSUME NEW x \in Nat, NEW y \in Nat, NEW v \in Nat, NEW w \in Nat,
             x = CmdsIn(toServer)', y = CmdsIn(toAlg)',
             v = MainCmds', w = ServerCmds', x + y + v + w <= a + b + m + s
      PROVE  CmdsBounded'
  BY <1>p, <1>2 DEF CmdsBounded
<1>c. \A c \in Commands \ {"RESULT"}, src \in Senders :
          /\ Command(c, src) \in Messages
          /\ CmdsIn(Append(toServer, Command(c, src))) = a + 1
          /\ CmdsIn(Append(toAlg, Command(c, src))) = b + 1
  <2> SUFFICES ASSUME NEW c \in Commands \ {"RESULT"}, NEW src \in Senders
               PROVE  /\ Command(c, src) \in Messages
                      /\ CmdsIn(Append(toServer, Command(c, src))) = a + 1
                      /\ CmdsIn(Append(toAlg, Command(c, src))) = b + 1
    OBVIOUS
  <2>1. Command(c, src) \in Messages /\ ~IsResult(Command(c, src))
    BY NoSlot DEF SlotOf
  <2> QED
    BY <1>0, <1>p, <2>1, CmdsCounted DEF Cost
<1>3. CASE Proc
  <2>0. ServerCmds' = s
    BY <1>3, <1>p DEF Proc, srvVars, ServerCmds
  <2>1. CASE Start \/ LeaveLoop
    <3>0. \E c \in Commands \ {"RESULT"}, src \in Senders :
              toAlg' = Append(toAlg, Command(c, src)) /\ toServer' = toServer
      BY <2>1 DEF Start, LeaveLoop, AppClient_Start, AppClient_Quit, Commands, Senders
    <3>1. CmdsIn(toAlg)' = b + 1 /\ CmdsIn(toServer)' = a
      BY <1>p, <1>c, <3>0
    <3>2. PICK v \in Nat : v = MainCmds' /\ m = v + 1
      BY <1>p, <2>1 DEF Start, LeaveLoop, MainCmds, Cost
    <3>3. m = v + 1
      BY <3>2
    <3>4. a + (b + 1) + v + s <= a + b + m + s /\ b + 1 \in Nat
      BY <3>3
    <3> QED
      BY <1>2, <2>0, <3>1, <3>2, <3>4
  <2>2. CASE Receive
    <3>1. /\ msgPc = "recv" /\ toServer # <<>> /\ toServer' = Tail(toServer)
          /\ toAlg' = toAlg /\ msg' = Head(toServer) /\ msgPc' \in {"read", "reply"}
      BY <2>2 DEF Receive
    <3>2. /\ CmdsIn(toServer)' \in Nat
          /\ a = CmdsIn(toServer)' + Cost(Head(toServer))
      BY <1>0, <1>p, <3>1, CmdsCounted, SeqFacts
    <3>3. MainCmds = 1 /\ MainCmds' \in Nat
          /\ MainCmds' <= 1 + Cost(Head(toServer))
      BY <3>1 DEF MainCmds, Cost
    <3>4. PICK x \in Nat, v \in Nat, o \in Nat :
              /\ x = CmdsIn(toServer)' /\ v = MainCmds' /\ a = x + o /\ v <= 1 + o
              /\ m = 1
      BY <1>p, <3>2, <3>3 DEF Cost
    <3>5. x + b + v + s <= a + b + m + s
      BY <3>4
    <3> QED
      BY <1>2, <1>p, <2>0, <3>1, <3>4, <3>5
  <2>3. CASE SendReply
    <3> DEFINE o == IF msg.src # "NONE" THEN Cost(msg) ELSE 0
    <3>1. MainCmds = 1 + o /\ MainCmds' = 1 /\ o \in Nat
      BY <2>3 DEF SendReply, MainCmds, Cost
    <3>2. CmdsIn(toAlg)' = b + o /\ CmdsIn(toServer)' = a
      <4>1. AnswerTo(msg) \in Messages /\ (IsResult(AnswerTo(msg)) <=> IsResult(msg))
        BY <1>0, AnswerTyped DEF AnswerTo, Message, IsResult
      <4>2. CASE msg.src # "NONE"
        <5>1. toAlg' = Append(toAlg, AnswerTo(msg)) /\ toServer' = toServer
          BY <2>3, <4>2 DEF SendReply
        <5>2. CmdsIn(Append(toAlg, AnswerTo(msg))) = b + Cost(AnswerTo(msg))
          BY <1>0, <1>p, <4>1, CmdsCounted
        <5> QED
          BY <1>p, <4>1, <4>2, <5>1, <5>2 DEF Cost
      <4>3. CASE msg.src = "NONE"
        BY <1>p, <2>3, <4>3 DEF SendReply, Cost
      <4> QED
        BY <4>2, <4>3
    <3> HIDE DEF o
    <3>3. /\ a + (b + o) + 1 + s <= a + b + m + s
          /\ b + o \in Nat
      BY <1>p, <3>1
    <3> QED
      BY <1>2, <2>0, <3>1, <3>2, <3>3
  <2>4. CASE \/ ReadResult \/ TakeSem \/ SkipTarget \/ GetFreeFrame \/ CopyResult
             \/ DropFrame \/ PutFullFrame \/ ReleaseSem
    <3>1. UNCHANGED <<toServer, toAlg, msg>>
      BY <2>4 DEF ReadResult, TakeSem, SkipTarget, GetFreeFrame, CopyResult, DropFrame,
         PutFullFrame, ReleaseSem, ipcVars
    <3>2. /\ msgPc \in {"read", "closelog", "lock", "get", "copy", "put", "unlock"}
          /\ msgPc' \in {"closelog", "lock", "get", "copy", "put", "unlock", "reply"}
      BY <2>4 DEF ReadResult, TakeSem, SkipTarget, GetFreeFrame, CopyResult, DropFrame,
         PutFullFrame, ReleaseSem, NextTarget
    <3>3. IsResult(msg)
      BY <1>0, <3>2
    <3>4. m = 1
      BY <1>p, <3>2, <3>3 DEF MainCmds, Cost
    <3>5. MainCmds' = 1
      BY <3>1, <3>2, <3>3 DEF MainCmds, Cost
    <3> QED
      BY <1>2, <1>p, <2>0, <3>1, <3>4, <3>5
  <2> QED
    BY <1>3, <2>1, <2>2, <2>3, <2>4 DEF Proc, ProcStep
<1>4. ASSUME NEW t \in Targets, Server(t) \/ Peer(t) \/ Net(t)
      PROVE  CmdsBounded'
  <2>1. MainCmds' = m
    BY <1>4, <1>p DEF Server, Peer, Net, procVars, localVars, MainCmds
  <2>2. /\ srvPc[t] # "done"
        /\ \A u \in Targets \ {t} : srvPc'[u] = srvPc[u]
    BY <1>0, <1>4 DEF Server, Peer, Net, SrvStep, PeerStep, NetStep, InitServer, TestQuit,
       EnterSwitch, SwitchOn, EndSession, GetFullFrame, FormatResult, GiveBackFrame, SwitchOff,
       QuitServer, Send, SendFails, SkipSend, Answer, AnswerFails, Accept, AcceptFails,
       ConnectionBroken, InitServerFails, Goto
  <2>3. PICK w \in Nat : w = ServerCmds' /\ w <= s /\ (srvPc'[t] = "done" => w + 1 = s)
    BY <1>p, <2>2 DEF ServerCmds, Cost, Targets
  <2>4. CASE QuitServer(t)
    <3>1. /\ srvPc'[t] = "done" /\ UNCHANGED toServer
          /\ toAlg' = Append(toAlg, Command("DELETE", "MSG1"))
      BY <1>0, <2>4 DEF QuitServer, Goto, AppClient_Quit
    <3>2. CmdsIn(toAlg)' = b + 1 /\ CmdsIn(toServer)' = a
      BY <1>p, <1>c, <3>1 DEF Commands, Senders
    <3>3. w + 1 = s
      BY <2>3, <3>1
    <3>4. a + (b + 1) + m + w <= a + b + m + s /\ b + 1 \in Nat
      BY <3>3
    <3> QED
      BY <1>2, <2>1, <2>3, <3>2, <3>4
  <2>5. CASE ~QuitServer(t)
    <3>1. UNCHANGED <<toServer, toAlg>>
      BY <1>4, <2>5 DEF Server, Peer, Net, SrvStep, PeerStep, NetStep, InitServer,
         TestQuit, EnterSwitch, SwitchOn, EndSession, GetFullFrame, FormatResult, GiveBackFrame,
         SwitchOff, Send, SendFails, SkipSend, Answer, AnswerFails, Accept, AcceptFails,
         ConnectionBroken, InitServerFails, ipcVars
    <3>2. w <= s
      BY <2>3
    <3>3. a + b + m + w <= a + b + m + s
      BY <3>2
    <3> QED
      BY <1>2, <1>p, <2>1, <2>3, <3>1, <3>3
  <2> QED
    BY <2>4, <2>5
<1>5. ASSUME AlgReads \/ \E r \in Slots : AlgResult(r)
      PROVE  CmdsBounded'
  <2>1. MainCmds' = m /\ ServerCmds' = s
    BY <1>p, <1>5 DEF AlgReads, AlgStart, AlgAnswered, AlgDelete, AlgResult, procVars,
       localVars, srvVars, MainCmds, ServerCmds
  <2>2. CASE AlgReads
    <3>1. toAlg # <<>> /\ toAlg' = Tail(toAlg)
      BY <2>2 DEF AlgReads, AlgStart, AlgAnswered, AlgDelete
    <3>2. PICK y \in Nat : y = CmdsIn(toAlg)' /\ b = y + Cost(Head(toAlg))
      BY <1>0, <1>p, <3>1, CmdsCounted, SeqFacts
    <3>3. CASE UNCHANGED toServer
      <4>1. a + y + m + s <= a + b + m + s
        BY <3>2 DEF Cost
      <4> QED
        BY <1>2, <1>p, <2>1, <3>2, <3>3, <4>1
    <3>4. CASE AlgDelete \/ \E src \in {"NONE", "MSG3"} : AlgStart(src)
      <4>1. ~IsResult(Head(toAlg)) /\ CmdsIn(toServer)' = a + 1
        BY <1>c, <3>4 DEF AlgDelete, AlgStart, IsResult, Commands, Senders
      <4>2. (a + 1) + y + m + s <= a + b + m + s
        BY <3>2, <4>1 DEF Cost
      <4> QED
        BY <1>2, <2>1, <3>2, <4>1, <4>2
    <3> QED
      BY <2>2, <3>3, <3>4 DEF AlgReads, AlgAnswered
  <2>3. ASSUME NEW r \in Slots, AlgResult(r)
        PROVE  CmdsBounded'
    <3> DEFINE n == Message("RESULT", "MSG3", produced', r)
    <3>1. n \in Messages /\ IsResult(n)
      BY <2>3 DEF AlgResult, TypeOK, EnvTypeOK, Message, Messages, Senders, IsResult
    <3>2. toServer' = Append(toServer, n) /\ UNCHANGED toAlg
      BY <2>3 DEF AlgResult
    <3> HIDE DEF n
    <3>3. CmdsIn(toServer)' = a /\ CmdsIn(toAlg)' = b
      BY <1>0, <1>p, <3>1, <3>2, CmdsCounted DEF Cost
    <3> QED
      BY <1>2, <2>1, <3>3
  <2> QED
    BY <1>5, <2>2, <2>3
<1>6. CASE Daemon \/ DaemonFlush \/ Signal \/ Join \/ UNCHANGED vars
  <2>1. UNCHANGED <<toServer, toAlg, msg>>
    BY <1>6 DEF Daemon, DaemonInit, DaemonLoop, DaemonFlush, Signal,
       SignalElsewhere, SignalInAccept, SignalInRecv, ReceiveFails, Join, vars, ipcVars,
       procVars, localVars
  <2>2. \/ UNCHANGED msgPc
        \/ msgPc = "recv" /\ msgPc' \in {"exit", "recv"}
        \/ msgPc = "join" /\ msgPc' = "done"
    BY <1>6 DEF Daemon, DaemonInit, DaemonLoop, DaemonFlush, Signal,
       SignalElsewhere, SignalInAccept, SignalInRecv, ReceiveFails, Join, vars, procVars,
       localVars
  <2>3. \/ UNCHANGED srvPc
        \/ \E u \in Targets : srvPc[u] = "accept" /\ srvPc' = [srvPc EXCEPT ![u] = "on"]
    BY <1>6 DEF Daemon, DaemonInit, DaemonLoop, DaemonFlush, Signal,
       SignalElsewhere, SignalInAccept, SignalInRecv, Goto, Join, vars, srvVars
  <2>4. MainCmds' = m
    BY <1>p, <2>1, <2>2 DEF MainCmds, Cost
  <2>5. ServerCmds' = s
    <3>1. \A u \in Targets : srvPc'[u] = "done" <=> srvPc[u] = "done"
      BY <1>0, <2>3
    <3> QED
      BY <1>p, <3>1 DEF ServerCmds, Targets
  <2> QED
    BY <1>2, <1>p, <2>1, <2>4, <2>5
<1>7. CASE CloseErrLog
  <2>1. /\ UNCHANGED <<toServer, toAlg, msg, srvPc>>
        /\ msgPc = "closelog" /\ msgPc' = "lock"
    BY <1>7 DEF CloseErrLog, ipcVars, srvVars
  <2>2. MainCmds' = m
    BY <1>p, <2>1 DEF MainCmds, Cost
  <2>3. ServerCmds' = s
    BY <1>p, <2>1 DEF ServerCmds
  <2> QED
    BY <1>2, <1>p, <2>1, <2>2, <2>3
<1> QED
  BY <1>3, <1>4, <1>5, <1>6, <1>7 DEF Next, LogWait

(* The message queue holds at most one result for each slot and as many    *)
(* commands as its users can ever have under way, so msgsnd never waits    *)
(* for room that was not there from the start.                             *)
THEOREM QueueStaysShort == Spec => []MessagesBounded
<1>1. Init => TypeOK /\ ResultInv /\ CmdsBounded
  BY InitTyped, InitResults, InitCmds
<1>2. TypeOK /\ ResultInv /\ CmdsBounded /\ [Next]_vars
          => (TypeOK /\ ResultInv /\ CmdsBounded)'
  BY NextTyped, NextResults, NextCmds
<1>3. TypeOK /\ ResultInv /\ CmdsBounded => MessagesBounded
  <2> SUFFICES ASSUME TypeOK, ResultInv, CmdsBounded
               PROVE  MessagesBounded
    OBVIOUS
  <2> DEFINE A == SlotsIn(toServer)
             B == SlotsIn(toAlg)
  <2>0. /\ toServer \in Seq(Messages) /\ toAlg \in Seq(Messages)
        /\ OneEachSlot(toServer) /\ OneEachSlot(toAlg)
        /\ A \cap B = {} /\ A \cup B \subseteq Slots
    BY DEF TypeOK, ObjTypeOK, EnvTypeOK, ResultInv, ResultsApart
  <2> HIDE DEF A, B
  <2>1. /\ IsFiniteSet(A) /\ IsFiniteSet(B)
        /\ Cardinality(A \cup B) <= Cardinality(Slots)
        /\ Cardinality(Slots) \in Nat
    BY <2>0, SlotsAssumption, FS_Subset, FS_CardinalityType
  <2>2. /\ Cardinality(A \cup B) = Cardinality(A) + Cardinality(B) - Cardinality({})
        /\ Cardinality({}) = 0
        /\ Cardinality(A) \in Nat /\ Cardinality(B) \in Nat
    BY <2>0, <2>1, FS_Union, FS_EmptySet, FS_CardinalityType
  <2>3. /\ Len(toServer) <= Cardinality(A) + CmdsIn(toServer)
        /\ Len(toAlg) <= Cardinality(B) + CmdsIn(toAlg)
    BY <2>0, <2>1, LengthSplit DEF A, B
  <2>4. /\ Len(toServer) \in Nat /\ Len(toAlg) \in Nat
        /\ CmdsIn(toServer) \in Nat /\ CmdsIn(toAlg) \in Nat
    BY <2>0, CmdsCounted, LenProperties
  <2>5. CmdsIn(toServer) + CmdsIn(toAlg) <= 4
    BY <2>4 DEF CmdsBounded, MainCmds, ServerCmds, Cost
  <2> QED
    BY <2>1, <2>2, <2>3, <2>4, <2>5 DEF MessagesBounded
<1> QED
  BY <1>1, <1>2, <1>3, PTL DEF Spec
=============================================================================
