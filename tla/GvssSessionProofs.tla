------------------------- MODULE GvssSessionProofs -------------------------
(***************************************************************************)
(* Proofs about GvssSession: what a peer gets, when SIGPIPE may come, and  *)
(* whose descriptors a thread closes.                                      *)
(***************************************************************************)
EXTENDS GvssSession, TLAPS

Entries == {Free, File} \cup {Listen(t) : t \in Servers} \cup {Conn(t) : t \in Servers}
Pcs == {"init", "while", "accept", "loop", "frame", "send", "recv", "close",
        "exit", "exitServer", "done"}

TableOK ==
    /\ table \in [Fds -> Entries]
    /\ ServerSd \in [Servers -> Fds \cup {-1}]
    /\ ConnectSd \in [Servers -> Fds \cup {-1}]

ControlOK ==
    /\ pc \in [Servers -> Pcs]
    /\ isQuit \in [Servers -> BOOLEAN]
    /\ quit \in [Servers -> BOOLEAN]
    /\ handler \in Servers \cup {"none"}
    /\ killed \in BOOLEAN
    /\ signals \in 0 .. MaxSignals
    /\ fickle \in Servers

NetOK ==
    /\ peer \in [Servers -> {"open", "fin", "silent", "dead"}]
    /\ soError \in [Servers -> {"none", "pipe", "error"}]
    /\ left \in [Servers -> 0 .. MsgUnits]
    /\ expected \in [Servers -> 1 .. MsgUnits]
    /\ torn \in [Servers -> BOOLEAN]
    /\ late \in [Servers -> BOOLEAN]

SessionTypeOK == TableOK /\ ControlOK /\ NetOK

(* A send begins at the start of a message and goes on where it stopped.   *)
SendsInTurn ==
    \A t \in Servers :
        /\ ~torn[t]
        /\ pc[t] \in {"loop", "recv"} => isQuit[t] \/ expected[t] = 1
        /\ pc[t] = "frame" => ~isQuit[t] /\ expected[t] = 1
        /\ pc[t] = "send" => left[t] # 0 /\ expected[t] = PartSent(t)

(* The error of a connection that died before the test is still there for  *)
(* the test to read.                                                       *)
ErrorsKept ==
    \A t \in Servers : Own(t) /\ peer[t] = "dead" =>
        /\ pc[t] = "send" => late[t]
        /\ pc[t] \in {"loop", "frame", "recv"} => soError[t] # "none" \/ isQuit[t]

(* A descriptor's entry is known to the thread it belongs to. *)
EntriesKnown ==
    \A t \in Servers :
        /\ \A fd \in Fds \ {0} : table[fd] = Listen(t) => ServerSd[t] = fd /\ pc[t] # "init"
        /\ \A fd \in Fds : table[fd] = Conn(t) => ConnectSd[t] = fd /\ InSession(t)
        /\ pc[t] \in {"init", "done"} => ServerSd[t] = -1

(* The thread has no server socket, and stdin is what it will close.       *)
StdinToClose(t) ==
    /\ ServerSd[t] = -1
    /\ pc[t] \in {"init", "while", "accept", "close"}
    /\ pc[t] = "while" => ~quit[t]

(* As long as no signal came: a thread with a server socket has it, and    *)
(* the connection it serves; one without it has closed nothing but stdin,  *)
(* which is nobody else's until then.                                      *)
HasServerSocket(t) ==
    ServerSd[t] # -1 =>
        /\ table[ServerSd[t]] = Listen(t)
        /\ InSession(t) => Own(t) \/ (pc[t] = "close" /\ ConnectSd[t] = -1)
        /\ pc[t] \in {"exit", "exitServer"} \/ quit[t] => ConnectSd[t] = -1

HasNoServerSocket(t) ==
    ServerSd[t] = -1 =>
        /\ pc[t] \in {"init", "while", "accept", "close", "exit", "exitServer", "done"}
        /\ pc[t] # "done" => ConnectSd[t] = 0
        /\ pc[t] = "close" => quit[t]

QuitsForGood(t) == quit[t] => pc[t] \in {"close", "while", "exit", "exitServer", "done"}

StdinSafe(t, u) ==
    StdinToClose(t) /\ (StdinToClose(u) \/ ServerSd[u] # -1) => table[0] = File

NumbersValid ==
    signals = 0 => \A t \in Servers :
        /\ HasServerSocket(t) /\ HasNoServerSocket(t) /\ QuitsForGood(t)
        /\ \A u \in Servers \ {t} : StdinSafe(t, u)
-----------------------------------------------------------------------------
(* The entries of the table tell apart what they are and whose. *)
LEMMA EntriesApart ==
    /\ Free \in Entries /\ File \in Entries /\ Free # File
    /\ \A t \in Servers :
          /\ Listen(t) \in Entries /\ Conn(t) \in Entries
          /\ Listen(t) \notin {Free, File} /\ Conn(t) \notin {Free, File}
    /\ \A t, u \in Servers :
          /\ Listen(t) # Conn(u)
          /\ t # u => Listen(t) # Listen(u) /\ Conn(t) # Conn(u)
  BY DEF Entries, Free, File, Listen, Conn, Entry

LEMMA FdType == 0 \in Fds /\ -1 \notin Fds /\ Fds \subseteq Int
  BY SessionAssumption DEF Fds

LEMMA SessionInit ==
    Init => /\ SessionTypeOK /\ SendsInTurn /\ ErrorsKept
            /\ EntriesKnown /\ NumbersValid
<1> SUFFICES ASSUME Init
             PROVE  SessionTypeOK /\ SendsInTurn /\ ErrorsKept /\ EntriesKnown /\ NumbersValid
  OBVIOUS
<1>1. TableOK
  BY EntriesApart, FdType DEF Init, TableOK
<1>2. ControlOK /\ NetOK
  <2>1. 0 \in 0 .. MaxSignals /\ 0 \in 0 .. MsgUnits /\ 1 \in 1 .. MsgUnits
    BY SessionAssumption
  <2>2. ControlOK
    BY <2>1 DEF Init, ControlOK, Pcs
  <2>3. NetOK
    BY <2>1 DEF Init, NetOK
  <2> QED
    BY <2>2, <2>3
<1>3. SendsInTurn
  BY DEF Init, SendsInTurn
<1>4. ErrorsKept
  BY DEF Init, ErrorsKept
<1>5. EntriesKnown
  BY EntriesApart DEF Init, EntriesKnown
<1>6. NumbersValid
  BY FdType DEF Init, NumbersValid, HasServerSocket, HasNoServerSocket, QuitsForGood, StdinSafe
<1> QED
  BY <1>1, <1>2, <1>3, <1>4, <1>5, <1>6 DEF SessionTypeOK

(* What changes the table: an entry is made, or is freed. *)
LEMMA TableTyped ==
    ASSUME TableOK, [Next]_vars
    PROVE  TableOK'
<1>t. \A sd : Closing(sd) \in [Fds -> Entries]
  BY EntriesApart DEF TableOK, Closing
<1>0. CASE UNCHANGED sdVars
  BY <1>0 DEF TableOK, sdVars
<1>1. ASSUME NEW t \in Servers, CreateServer(t)
      PROVE  TableOK'
  BY <1>1, EntriesApart DEF CreateServer, TableOK
<1>2. ASSUME NEW t \in Servers, Accept(t)
      PROVE  TableOK'
  BY <1>2, EntriesApart DEF Accept, TableOK
<1>3. ASSUME NEW t \in Servers, AcceptFails(t)
      PROVE  TableOK'
  BY <1>3 DEF AcceptFails, FailedSd, TableOK
<1>4. ASSUME NEW t \in Servers, CloseConnect(t) \/ ExitConnect(t) \/ ExitServer(t)
      PROVE  TableOK'
  BY <1>4, <1>t DEF CloseConnect, ExitConnect, ExitServer, CloseServer, TableOK
<1>5. CASE OpenFile
  BY <1>5, EntriesApart DEF OpenFile, TableOK
<1>6. CASE CloseFile
  BY <1>6, <1>t DEF CloseFile, TableOK
<1>7. CASE Interrupt
  BY <1>7 DEF Interrupt, FailedSd, TableOK
<1>8. ASSUME NEW t \in Servers,
             \/ While(t) \/ TestConnection(t) \/ NoFrame(t) \/ TestAgain(t) \/ SendFails(t)
             \/ SendKills(t) \/ RecvAnswer(t) \/ RecvFails(t)
             \/ \E k \in 1 .. MsgUnits : SendSome(t, k)
      PROVE  UNCHANGED sdVars
  BY <1>8 DEF While, TestConnection, NoFrame, TestAgain, SendFails, SendKills, RecvAnswer,
     RecvFails, SendSome
<1>9. ASSUME \/ PeerCloses(fickle) \/ PeerVanishes(fickle) \/ PeerResets(fickle)
             \/ ConnectionExpires(fickle)
      PROVE  UNCHANGED sdVars
  BY <1>9 DEF PeerCloses, PeerVanishes, PeerResets, ConnectionExpires, PeerIs, TearDown
<1> QED
  BY <1>0, <1>1, <1>2, <1>3, <1>4, <1>5, <1>6, <1>7, <1>8, <1>9 DEF Next, Thread, vars

LEMMA ControlTyped ==
    ASSUME ControlOK, [Next]_vars
    PROVE  ControlOK'
<1> USE DEF ControlOK, Pcs, Goto, quitVars
<1>0. CASE UNCHANGED vars
  BY <1>0 DEF vars
<1>1. ASSUME NEW t \in Servers, CreateServer(t) \/ While(t) \/ AcceptFails(t), UNCHANGED fickle
      PROVE  ControlOK'
  BY <1>1 DEF CreateServer, While, AcceptFails
<1>2. ASSUME NEW t \in Servers, Accept(t), UNCHANGED fickle
      PROVE  ControlOK'
  BY <1>2 DEF Accept
<1>3. ASSUME NEW t \in Servers, TestConnection(t) \/ NoFrame(t), UNCHANGED fickle
      PROVE  ControlOK'
  BY <1>3 DEF TestConnection, NoFrame
<1>4. ASSUME NEW t \in Servers, TestAgain(t), UNCHANGED fickle
      PROVE  ControlOK'
  BY <1>4 DEF TestAgain, Ends, ReadsError
<1>5. ASSUME NEW t \in Servers, NEW k \in 1 .. MsgUnits, SendSome(t, k), UNCHANGED fickle
      PROVE  ControlOK'
  BY <1>5 DEF SendSome, AfterSend
<1>6. ASSUME NEW t \in Servers, SendFails(t) \/ SendKills(t) \/ RecvAnswer(t) \/ RecvFails(t),
             UNCHANGED fickle
      PROVE  ControlOK'
  BY <1>6 DEF SendFails, SendKills, RecvAnswer, RecvFails, GiveUp, AfterSend
<1>7. ASSUME NEW t \in Servers, CloseConnect(t) \/ ExitConnect(t) \/ ExitServer(t), UNCHANGED fickle
      PROVE  ControlOK'
  BY <1>7 DEF CloseConnect, ExitConnect, ExitServer
<1>8. CASE /\ PeerCloses(fickle) \/ PeerVanishes(fickle) \/ PeerResets(fickle)
              \/ ConnectionExpires(fickle) \/ OpenFile \/ CloseFile
           /\ UNCHANGED fickle
  BY <1>8 DEF PeerCloses, PeerVanishes, PeerResets, ConnectionExpires, PeerIs, TearDown,
     OpenFile, CloseFile
<1>9. CASE Interrupt /\ UNCHANGED fickle
  <2>1. signals' \in 0 .. MaxSignals
    BY <1>9, SessionAssumption DEF Interrupt
  <2>2. handler \in Servers /\ UNCHANGED <<isQuit, handler, killed, fickle>>
    BY <1>9 DEF Interrupt
  <2>3. CASE quit' = [quit EXCEPT ![handler] = TRUE] /\ UNCHANGED <<pc, ConnectSd>>
    BY <2>1, <2>2, <2>3
  <2>4. ASSUME NEW t \in Servers, quit' = [quit EXCEPT ![handler] = TRUE, ![t] = TRUE],
               Goto(t, "close")
        PROVE  ControlOK'
    BY <2>1, <2>2, <2>4
  <2> QED
    BY <1>9, <2>3, <2>4 DEF Interrupt
<1> QED
  BY <1>0, <1>1, <1>2, <1>3, <1>4, <1>5, <1>6, <1>7, <1>8, <1>9 DEF Next, Thread

(* A message has MsgUnits parts, and after the last comes the first.       *)
LEMMA NextPart ==
    ASSUME NetOK, NEW t \in Servers, NEW k \in 1 .. MsgUnits, k <= left[t]
    PROVE  ((PartSent(t) + k - 1) % MsgUnits) + 1
               = IF k = left[t] THEN 1 ELSE MsgUnits - (left[t] - k) + 1
<1> DEFINE n == left[t]
<1>1. MsgUnits \in Nat /\ n \in Nat /\ k \in Nat /\ k <= n /\ n <= MsgUnits /\ k > 0
  BY SessionAssumption DEF NetOK
<1>2. PartSent(t) = MsgUnits - n + 1
  BY DEF PartSent
<1> HIDE DEF n
<1>3. PartSent(t) + k - 1 = MsgUnits - n + k
  BY <1>1, <1>2
<1>4. CASE k = n
  <2>1. MsgUnits - n + k = MsgUnits
    BY <1>1, <1>4
  <2>2. MsgUnits % MsgUnits = 0
    BY <1>1
  <2> QED
    BY <1>3, <1>4, <2>1, <2>2 DEF n
<1>5. CASE k < n
  <2>1. MsgUnits - n + k \in 0 .. MsgUnits - 1
    BY <1>1, <1>5
  <2>2. (MsgUnits - n + k) % MsgUnits = MsgUnits - n + k
    BY <1>1, <2>1
  <2>3. MsgUnits - n + k + 1 = MsgUnits - (n - k) + 1 /\ k # n
    BY <1>1, <1>5
  <2> QED
    BY <1>3, <2>2, <2>3 DEF n
<1> QED
  BY <1>1, <1>4, <1>5 DEF n

LEMMA NetTyped ==
    ASSUME NetOK, ControlOK, [Next]_vars
    PROVE  NetOK'
<1> USE DEF NetOK, netVars
<1>n. 1 \in 1 .. MsgUnits /\ 0 \in 0 .. MsgUnits /\ MsgUnits \in 0 .. MsgUnits
  BY SessionAssumption
<1>0. CASE UNCHANGED vars
  BY <1>0 DEF vars
<1>1. ASSUME NEW t \in Servers, \/ CreateServer(t) \/ While(t) \/ AcceptFails(t) \/ NoFrame(t)
                                \/ SendKills(t) \/ RecvAnswer(t) \/ ExitConnect(t) \/ ExitServer(t)
      PROVE  NetOK'
  BY <1>1 DEF CreateServer, While, AcceptFails, NoFrame, SendKills, RecvAnswer, ExitConnect,
     ExitServer
<1>2. ASSUME NEW t \in Servers, Accept(t)
      PROVE  NetOK'
  BY <1>2, <1>n DEF Accept
<1>3. ASSUME NEW t \in Servers, TestConnection(t)
      PROVE  NetOK'
  BY <1>3 DEF TestConnection, ClearError
<1>4. ASSUME NEW t \in Servers, TestAgain(t)
      PROVE  NetOK'
  BY <1>4, <1>n DEF TestAgain, ClearError
<1>5. ASSUME NEW t \in Servers, NEW k \in 1 .. MsgUnits, SendSome(t, k)
      PROVE  NetOK'
  <2>1. left[t] - k \in 0 .. MsgUnits /\ MsgUnits - (left[t] - k) + 1 \in 1 .. MsgUnits + 1
        /\ (k # left[t] => MsgUnits - (left[t] - k) + 1 \in 1 .. MsgUnits)
    BY <1>5, SessionAssumption DEF SendSome
  <2>2. ((PartSent(t) + k - 1) % MsgUnits) + 1 \in 1 .. MsgUnits
    BY <1>5, <1>n, <2>1, NextPart DEF SendSome
  <2> QED
    BY <1>5, <2>1, <2>2 DEF SendSome
<1>6. ASSUME NEW t \in Servers, SendFails(t) \/ RecvFails(t)
      PROVE  NetOK'
  BY <1>6, <1>n DEF SendFails, RecvFails, ClearError
<1>7. ASSUME NEW t \in Servers, CloseConnect(t)
      PROVE  NetOK'
  BY <1>7, <1>n DEF CloseConnect
<1>8. CASE \/ PeerCloses(fickle) \/ PeerVanishes(fickle) \/ PeerResets(fickle)
           \/ ConnectionExpires(fickle)
  BY <1>8 DEF PeerCloses, PeerVanishes, PeerResets, ConnectionExpires, PeerIs, TearDown, ControlOK
<1>9. CASE OpenFile \/ CloseFile \/ Interrupt
  BY <1>9 DEF OpenFile, CloseFile, Interrupt
<1> QED
  BY <1>0, <1>1, <1>2, <1>3, <1>4, <1>5, <1>6, <1>7, <1>8, <1>9 DEF Next, Thread

-----------------------------------------------------------------------------
LEMMA SendsInTurnKept ==
    ASSUME NetOK, ControlOK, SendsInTurn, [Next]_vars
    PROVE  SendsInTurn'
<1> USE DEF NetOK, ControlOK, SendsInTurn, netVars, Goto
<1>n. MsgUnits # 0 /\ MsgUnits \in Nat
  BY SessionAssumption
<1>0. CASE UNCHANGED vars
  BY <1>0 DEF vars, PartSent
<1>1. ASSUME NEW t \in Servers, \/ CreateServer(t) \/ While(t) \/ AcceptFails(t) \/ NoFrame(t)
                                \/ SendKills(t) \/ RecvAnswer(t) \/ ExitConnect(t) \/ ExitServer(t)
      PROVE  SendsInTurn'
  BY <1>1 DEF CreateServer, While, AcceptFails, NoFrame, SendKills, RecvAnswer, ExitConnect,
     ExitServer, PartSent
<1>2. ASSUME NEW t \in Servers, Accept(t)
      PROVE  SendsInTurn'
  BY <1>2 DEF Accept, PartSent
<1>3. ASSUME NEW t \in Servers, TestConnection(t)
      PROVE  SendsInTurn'
  BY <1>3 DEF TestConnection, ClearError, PartSent
<1>4. ASSUME NEW t \in Servers, TestAgain(t)
      PROVE  SendsInTurn'
  BY <1>4, <1>n DEF TestAgain, ClearError, Ends, ReadsError, PartSent
<1>5. ASSUME NEW t \in Servers, NEW k \in 1 .. MsgUnits, SendSome(t, k)
      PROVE  SendsInTurn'
  <2>1. /\ pc[t] = "send" /\ k <= left[t] /\ left[t] # 0 /\ expected[t] = PartSent(t)
        /\ left' = [left EXCEPT ![t] = left[t] - k]
        /\ torn' = [torn EXCEPT ![t] = FALSE]
    BY <1>5 DEF SendSome
  <2>2. expected' = [expected EXCEPT ![t] = IF k = left[t] THEN 1
                                            ELSE MsgUnits - (left[t] - k) + 1]
    <3>1. expected' = [expected EXCEPT ![t] = ((PartSent(t) + k - 1) % MsgUnits) + 1]
      BY <1>5 DEF SendSome
    <3> QED
      BY <2>1, <3>1, NextPart
  <2>3. UNCHANGED isQuit
        /\ pc' = [pc EXCEPT ![t] = IF k = left[t] THEN AfterSend(t) ELSE "send"]
    BY <1>5 DEF SendSome
  <2>4. k # left[t] => left[t] - k # 0
    BY <2>1
  <2>5. CASE k = left[t]
    BY <2>1, <2>2, <2>3, <2>5 DEF AfterSend, PartSent
  <2>6. CASE k # left[t]
    BY <2>1, <2>2, <2>3, <2>4, <2>6 DEF PartSent
  <2> QED
    BY <2>5, <2>6
<1>6. ASSUME NEW t \in Servers, SendFails(t) \/ RecvFails(t)
      PROVE  SendsInTurn'
  BY <1>6 DEF SendFails, RecvFails, ClearError, GiveUp, AfterSend, PartSent
<1>7. ASSUME NEW t \in Servers, CloseConnect(t)
      PROVE  SendsInTurn'
  BY <1>7 DEF CloseConnect, PartSent
<1>8. CASE \/ PeerCloses(fickle) \/ PeerVanishes(fickle) \/ PeerResets(fickle)
           \/ ConnectionExpires(fickle)
  BY <1>8 DEF PeerCloses, PeerVanishes, PeerResets, ConnectionExpires, PeerIs, TearDown, PartSent
<1>9. CASE OpenFile \/ CloseFile \/ Interrupt
  BY <1>9 DEF OpenFile, CloseFile, Interrupt, PartSent
<1> QED
  BY <1>0, <1>1, <1>2, <1>3, <1>4, <1>5, <1>6, <1>7, <1>8, <1>9 DEF Next, Thread

(* A peer gets whole messages, for any splitting of the sends, any number  *)
(* of sessions and any faults of the peers: nothing follows a message that *)
(* broke off (osa_socket.c:93-113, the loop that sends the rest).          *)
THEOREM PeersGetWhole == Spec => []MessagesWhole
<1> DEFINE Inv == NetOK /\ ControlOK /\ SendsInTurn
<1>1. Init => Inv
  BY SessionInit DEF SessionTypeOK
<1>2. Inv /\ [Next]_vars => Inv'
  BY NetTyped, ControlTyped, SendsInTurnKept
<1>3. Inv => MessagesWhole
  BY DEF SendsInTurn, MessagesWhole
<1> QED
  BY <1>1, <1>2, <1>3, PTL DEF Spec
-----------------------------------------------------------------------------
(* The connection of a thread comes from its accept only. *)
NoNewConn(t) ==
    /\ \A fd \in Fds : table'[fd] = Conn(t) => table[fd] = Conn(t)
    /\ ConnectSd'[t] \in {ConnectSd[t], -1}

LEMMA ClosingFrees ==
    ASSUME TableOK, NEW sd, table' = Closing(sd)
    PROVE  \A fd \in Fds : table'[fd] = IF fd = sd THEN Free ELSE table[fd]
  BY DEF Closing, TableOK

LEMMA ConnsFromAccept ==
    ASSUME TableOK, NEW t \in Servers, [Next]_vars, ~Accept(t)
    PROVE  NoNewConn(t)
<1> USE EntriesApart DEF TableOK, NoNewConn
<1>0. CASE UNCHANGED sdVars
  BY <1>0 DEF sdVars
<1>1. ASSUME NEW u \in Servers, CreateServer(u)
      PROVE  NoNewConn(t)
  BY <1>1 DEF CreateServer
<1>2. ASSUME NEW u \in Servers, Accept(u), u # t
      PROVE  NoNewConn(t)
  BY <1>2 DEF Accept
<1>3. ASSUME NEW u \in Servers, AcceptFails(u)
      PROVE  NoNewConn(t)
  BY <1>3 DEF AcceptFails, FailedSd
<1>4. ASSUME NEW u \in Servers, CloseConnect(u) \/ ExitConnect(u) \/ ExitServer(u)
      PROVE  NoNewConn(t)
  <2>1. ConnectSd'[t] \in {ConnectSd[t], -1}
    BY <1>4 DEF CloseConnect, ExitConnect, ExitServer
  <2>2. table' = table \/ \E sd \in Fds \cup {-1} : table' = Closing(sd)
    BY <1>4 DEF CloseConnect, ExitConnect, ExitServer, CloseServer
  <2> QED
    BY <2>1, <2>2, ClosingFrees
<1>5. CASE OpenFile
  BY <1>5 DEF OpenFile
<1>6. CASE CloseFile
  BY <1>6, ClosingFrees DEF CloseFile
<1>7. CASE Interrupt
  BY <1>7 DEF Interrupt, FailedSd
<1>8. ASSUME NEW u \in Servers,
             \/ While(u) \/ TestConnection(u) \/ NoFrame(u) \/ TestAgain(u) \/ SendFails(u)
             \/ SendKills(u) \/ RecvAnswer(u) \/ RecvFails(u)
             \/ \E k \in 1 .. MsgUnits : SendSome(u, k)
      PROVE  UNCHANGED sdVars
  BY <1>8 DEF While, TestConnection, NoFrame, TestAgain, SendFails, SendKills, RecvAnswer,
     RecvFails, SendSome
<1>9. ASSUME \/ PeerCloses(fickle) \/ PeerVanishes(fickle) \/ PeerResets(fickle)
             \/ ConnectionExpires(fickle)
      PROVE  UNCHANGED sdVars
  BY <1>9 DEF PeerCloses, PeerVanishes, PeerResets, ConnectionExpires, PeerIs, TearDown
<1> QED
  BY <1>0, <1>1, <1>2, <1>3, <1>4, <1>5, <1>6, <1>7, <1>8, <1>9 DEF Next, Thread, vars

LEMMA OwnFromAccept ==
    ASSUME TableOK, NEW t \in Servers, [Next]_vars, ~Accept(t), Own(t)'
    PROVE  Own(t)
<1>1. NoNewConn(t)
  BY ConnsFromAccept
<1>2. ConnectSd'[t] \in Fds /\ table'[ConnectSd'[t]] = Conn(t)
  BY EntriesApart DEF Own, At
<1> QED
  BY <1>1, <1>2, FdType DEF NoNewConn, Own, At

LEMMA ErrorsKeptOn ==
    ASSUME SessionTypeOK, ErrorsKept, SendsInTurn, [Next]_vars
    PROVE  ErrorsKept'
<1> USE DEF SessionTypeOK, NetOK, ControlOK, netVars, Goto
<1>a. SUFFICES ASSUME NEW t \in Servers, Own(t)', peer'[t] = "dead"
      PROVE  /\ pc'[t] = "send" => late'[t]
             /\ pc'[t] \in {"loop", "frame", "recv"} => soError'[t] # "none" \/ isQuit'[t]
  BY DEF ErrorsKept
<1> DEFINE Goal == /\ pc'[t] = "send" => late'[t]
                   /\ pc'[t] \in {"loop", "frame", "recv"} => soError'[t] # "none" \/ isQuit'[t]
<1>b. ~Accept(t)
  BY <1>a DEF Accept
<1>c. /\ Own(t)
      /\ peer[t] = "dead" /\ pc[t] = "send" => late[t]
      /\ peer[t] = "dead" /\ pc[t] \in {"loop", "frame", "recv"}
            => soError[t] # "none" \/ isQuit[t]
      /\ pc[t] = "frame" => ~isQuit[t]
  BY <1>a, <1>b, OwnFromAccept DEF ErrorsKept, SendsInTurn
<1> HIDE DEF Goal
<1>0. CASE UNCHANGED vars
  BY <1>0, <1>a, <1>c DEF vars, Goal
<1>1. ASSUME NEW u \in Servers, \/ CreateServer(u) \/ While(u) \/ AcceptFails(u) \/ NoFrame(u)
                                \/ SendKills(u) \/ RecvAnswer(u) \/ ExitConnect(u) \/ ExitServer(u)
      PROVE  Goal
  BY <1>1, <1>a, <1>c DEF CreateServer, While, AcceptFails, NoFrame, SendKills, RecvAnswer,
     ExitConnect, ExitServer, Goal
<1>2. ASSUME NEW u \in Servers, Accept(u)
      PROVE  Goal
  BY <1>2, <1>a, <1>c, <1>b DEF Accept, Goal
<1>3. ASSUME NEW u \in Servers, TestConnection(u)
      PROVE  Goal
  BY <1>3, <1>a, <1>c DEF TestConnection, ClearError, ReadsError, Goal
<1>4. ASSUME NEW u \in Servers, TestAgain(u)
      PROVE  Goal
  <2>1. CASE u = t
    <3>1. PICK ends \in Ends(t) :
              /\ isQuit' = [isQuit EXCEPT ![t] = ends]
              /\ pc' = [pc EXCEPT ![t] = IF ends THEN "loop" ELSE "send"]
      BY <1>4, <2>1 DEF TestAgain
    <3>2. ReadsError(t) = {TRUE}
      BY <1>4, <1>a, <1>c, <2>1 DEF TestAgain, ReadsError
    <3>3. ends = TRUE
      BY <3>1, <3>2 DEF Ends
    <3> QED
      BY <3>1, <3>3 DEF Goal
  <2>2. CASE u # t
    <3>1. pc'[t] = pc[t] /\ soError'[t] = soError[t] /\ peer'[t] = peer[t]
      BY <1>4, <2>2 DEF TestAgain, ClearError
    <3>2. isQuit'[t] = isQuit[t]
      BY <1>4, <2>2 DEF TestAgain
    <3>3. late'[t] = late[t]
      BY <1>4, <2>2 DEF TestAgain
    <3> QED
      BY <1>a, <1>c, <3>1, <3>2, <3>3 DEF Goal
  <2> QED
    BY <2>1, <2>2
<1>5. ASSUME NEW u \in Servers, NEW k \in 1 .. MsgUnits, SendSome(u, k)
      PROVE  Goal
  BY <1>5, <1>a, <1>c DEF SendSome, Goal
<1>6. ASSUME NEW u \in Servers, SendFails(u) \/ RecvFails(u)
      PROVE  Goal
  BY <1>6, <1>a, <1>c DEF SendFails, RecvFails, ClearError, GiveUp, AfterSend, Goal
<1>7. ASSUME NEW u \in Servers, CloseConnect(u)
      PROVE  Goal
  BY <1>7, <1>a, <1>c DEF CloseConnect, Goal
<1>8. CASE \/ PeerCloses(fickle) \/ PeerVanishes(fickle) \/ PeerResets(fickle)
           \/ ConnectionExpires(fickle)
  BY <1>8, <1>a, <1>c DEF PeerCloses, PeerVanishes, PeerResets, ConnectionExpires, PeerIs,
     TearDown, Goal
<1>9. CASE OpenFile \/ CloseFile \/ Interrupt
  BY <1>9, <1>a, <1>c DEF OpenFile, CloseFile, Interrupt, Goal
<1> QED
  BY <1>0, <1>1, <1>2, <1>3, <1>4, <1>5, <1>6, <1>7, <1>8, <1>9 DEF Next, Thread, Goal

(* SIGPIPE ends the process only if the reset came after the test before   *)
(* the send: every other way to read, and so clear, a connection's error   *)
(* ends the session (osa_socket.c:73-92, gvssProtocol.c:71-118).           *)
THEOREM KillsOnlyInWindow == Spec => []KilledOnlyInWindow
<1> DEFINE Inv == SessionTypeOK /\ SendsInTurn /\ ErrorsKept /\ KilledOnlyInWindow
<1>1. Init => Inv
  BY SessionInit DEF KilledOnlyInWindow, Init
<1>2. Inv /\ [Next]_vars => Inv'
  <2> SUFFICES ASSUME Inv, [Next]_vars
               PROVE  Inv'
    OBVIOUS
  <2>1. (SessionTypeOK /\ SendsInTurn /\ ErrorsKept)'
    BY TableTyped, ControlTyped, NetTyped, SendsInTurnKept, ErrorsKeptOn DEF SessionTypeOK
  <2>2. KilledOnlyInWindow'
    <3>1. CASE UNCHANGED vars
      BY <3>1 DEF vars, netVars, KilledOnlyInWindow
    <3>2. ASSUME NEW t \in Servers, SendKills(t)
          PROVE  KilledOnlyInWindow'
      <4>1. late[t] /\ UNCHANGED late
        BY <3>2 DEF SendKills, ErrorsKept, netVars
      <4> QED
        BY <4>1 DEF KilledOnlyInWindow
    <3>3. CASE ~killed /\ UNCHANGED killed
      BY <3>3 DEF KilledOnlyInWindow
    <3>4. Next => UNCHANGED killed \/ \E t \in Servers : SendKills(t)
      BY DEF Next, Thread, CreateServer, While, Accept, AcceptFails, TestConnection, NoFrame,
         TestAgain, SendSome, SendFails, RecvAnswer, RecvFails, CloseConnect, ExitConnect,
         ExitServer, PeerCloses, PeerVanishes, PeerResets, ConnectionExpires, PeerIs, TearDown,
         OpenFile, CloseFile, Interrupt
    <3> QED
      BY <3>1, <3>2, <3>3, <3>4 DEF Next
  <2> QED
    BY <2>1, <2>2
<1>3. Inv => KilledOnlyInWindow
  OBVIOUS
<1> QED
  BY <1>1, <1>2, <1>3, PTL DEF Spec
-----------------------------------------------------------------------------
Closes(t) == CloseConnect(t) \/ ExitConnect(t) \/ ExitServer(t)

(* Whoever does not close a descriptor of its own gives out a free one or  *)
(* closes a file.                                                          *)
LEMMA OpensFree ==
    ASSUME TableOK, [Next]_vars, \A t \in Servers : ~Closes(t)
    PROVE  \A fd \in Fds :
               table'[fd] = table[fd] \/ table[fd] = Free \/ (table[fd] = File /\ fd # 0)
<1> DEFINE Kept == \A fd \in Fds :
               table'[fd] = table[fd] \/ table[fd] = Free \/ (table[fd] = File /\ fd # 0)
<1>0. CASE UNCHANGED sdVars
  BY <1>0 DEF sdVars
<1>1. ASSUME NEW u \in Servers, CreateServer(u)
      PROVE  Kept
  BY <1>1 DEF CreateServer, IsNext, TableOK
<1>2. ASSUME NEW u \in Servers, Accept(u)
      PROVE  Kept
  BY <1>2 DEF Accept, IsNext, TableOK
<1>3. ASSUME NEW u \in Servers, AcceptFails(u)
      PROVE  Kept
  BY <1>3 DEF AcceptFails
<1>5. CASE OpenFile
  BY <1>5 DEF OpenFile, IsNext, TableOK
<1>6. CASE CloseFile
  BY <1>6, ClosingFrees DEF CloseFile
<1>7. CASE Interrupt
  BY <1>7 DEF Interrupt
<1>8. ASSUME NEW u \in Servers,
             \/ While(u) \/ TestConnection(u) \/ NoFrame(u) \/ TestAgain(u) \/ SendFails(u)
             \/ SendKills(u) \/ RecvAnswer(u) \/ RecvFails(u)
             \/ \E k \in 1 .. MsgUnits : SendSome(u, k)
      PROVE  UNCHANGED sdVars
  BY <1>8 DEF While, TestConnection, NoFrame, TestAgain, SendFails, SendKills, RecvAnswer,
     RecvFails, SendSome
<1>9. ASSUME \/ PeerCloses(fickle) \/ PeerVanishes(fickle) \/ PeerResets(fickle)
             \/ ConnectionExpires(fickle)
      PROVE  UNCHANGED sdVars
  BY <1>9 DEF PeerCloses, PeerVanishes, PeerResets, ConnectionExpires, PeerIs, TearDown
<1> QED
  BY <1>0, <1>1, <1>2, <1>3, <1>5, <1>6, <1>7, <1>8, <1>9 DEF Next, Thread, Closes, vars

(* As long as no signal came a thread closes what is its own, or stdin.    *)
LEMMA ClosesOwnOrStdin ==
    ASSUME SessionTypeOK, NumbersValid, signals = 0, NEW u \in Servers, Closes(u)
    PROVE  \A fd \in Fds :
               \/ table'[fd] = table[fd]
               \/ table[fd] \in {Listen(u), Conn(u)}
               \/ /\ fd = 0 /\ ServerSd[u] = -1 /\ ServerSd'[u] = -1
                  /\ StdinToClose(u) /\ ~StdinToClose(u)'
<1> USE DEF SessionTypeOK, TableOK, ControlOK
<1>1. HasServerSocket(u) /\ HasNoServerSocket(u)
  BY DEF NumbersValid
<1>2. CASE CloseConnect(u)
  <2>1. /\ pc[u] = "close" /\ pc' = [pc EXCEPT ![u] = "while"] /\ table' = Closing(ConnectSd[u])
        /\ UNCHANGED <<quit, ServerSd>>
    BY <1>2 DEF CloseConnect, Goto, quitVars
  <2>2. CASE ServerSd[u] # -1
    <3>1. Own(u) \/ ConnectSd[u] = -1
      BY <1>1, <2>1, <2>2 DEF HasServerSocket, InSession
    <3>2. \A fd \in Fds : fd = ConnectSd[u] => table[fd] = Conn(u)
      BY <3>1, FdType DEF Own, At
    <3> QED
      BY <2>1, <3>2, ClosingFrees
  <2>3. CASE ServerSd[u] = -1
    <3>1. ConnectSd[u] = 0 /\ quit[u]
      BY <1>1, <2>1, <2>3 DEF HasNoServerSocket
    <3>2. StdinToClose(u) /\ ~StdinToClose(u)'
      BY <2>1, <2>3, <3>1 DEF StdinToClose
    <3> QED
      BY <2>1, <2>3, <3>1, <3>2, ClosingFrees
  <2> QED
    BY <2>2, <2>3
<1>3. CASE ExitConnect(u)
  <2>1. ConnectSd[u] \in {0, -1}
    BY <1>1, <1>3 DEF ExitConnect, HasServerSocket, HasNoServerSocket
  <2> QED
    BY <1>3, <2>1, FdType, ClosingFrees DEF ExitConnect
<1>4. CASE ExitServer(u)
  <2>1. table' = table \/ table' = Closing(ServerSd[u])
    BY <1>4 DEF ExitServer, CloseServer
  <2>2. \A fd \in Fds : fd = ServerSd[u] => table[fd] = Listen(u)
    BY <1>1, FdType DEF HasServerSocket
  <2> QED
    BY <2>1, <2>2, ClosingFrees
<1> QED
  BY <1>2, <1>3, <1>4 DEF Closes

(* A step in a session that leaves the descriptors alone. *)
Serves(u) == \/ TestConnection(u) \/ NoFrame(u) \/ TestAgain(u) \/ SendFails(u)
             \/ SendKills(u) \/ RecvAnswer(u) \/ RecvFails(u)
             \/ \E k \in 1 .. MsgUnits : SendSome(u, k)

LEMMA ServesInSession ==
    ASSUME ControlOK, NEW u \in Servers, Serves(u)
    PROVE  /\ UNCHANGED <<table, ServerSd, ConnectSd, quit, signals, handler>>
           /\ \A t \in Servers \ {u} : pc'[t] = pc[t]
           /\ pc[u] \in {"loop", "frame", "send", "recv"}
           /\ pc'[u] \in {"loop", "frame", "send", "recv", "close"}
<1> USE DEF ControlOK, sdVars, quitVars, Goto, AfterSend
<1>1. CASE TestConnection(u)
  BY <1>1 DEF TestConnection
<1>2. CASE NoFrame(u) \/ SendKills(u) \/ RecvAnswer(u)
  BY <1>2 DEF NoFrame, SendKills, RecvAnswer
<1>3. CASE TestAgain(u)
  BY <1>3 DEF TestAgain
<1>4. CASE SendFails(u) \/ RecvFails(u)
  BY <1>4 DEF SendFails, RecvFails
<1>5. CASE \E k \in 1 .. MsgUnits : SendSome(u, k)
  BY <1>5 DEF SendSome
<1> QED
  BY <1>1, <1>2, <1>3, <1>4, <1>5 DEF Serves

PeerSteps == \/ PeerCloses(fickle) \/ PeerVanishes(fickle) \/ PeerResets(fickle)
             \/ ConnectionExpires(fickle)

LEMMA PeersElsewhere ==
    PeerSteps => UNCHANGED <<table, ServerSd, ConnectSd, pc, quit, signals, handler>>
  BY DEF PeerSteps, PeerCloses, PeerVanishes, PeerResets, ConnectionExpires, PeerIs, TearDown,
     sdVars, quitVars

(* The steps that matter to the descriptors, and the others. *)
LEMMA StepCases ==
    ASSUME [Next]_vars
    PROVE  \/ UNCHANGED <<table, ServerSd, ConnectSd, pc, quit, signals, handler>>
           \/ \E u \in Servers : \/ CreateServer(u) \/ While(u) \/ Accept(u) \/ AcceptFails(u)
                                 \/ Serves(u) \/ Closes(u)
           \/ OpenFile \/ CloseFile \/ Interrupt
  BY PeersElsewhere DEF Next, Thread, Serves, Closes, PeerSteps, vars, sdVars, quitVars

LEMMA EntriesKnownOn ==
    ASSUME SessionTypeOK, EntriesKnown, [Next]_vars
    PROVE  EntriesKnown'
<1> USE EntriesApart DEF SessionTypeOK, TableOK, ControlOK, Goto, quitVars
<1>a. SUFFICES ASSUME NEW t \in Servers
      PROVE  /\ \A fd \in Fds \ {0} : table'[fd] = Listen(t)
                    => ServerSd'[t] = fd /\ pc'[t] # "init"
             /\ \A fd \in Fds : table'[fd] = Conn(t)
                    => ConnectSd'[t] = fd /\ InSession(t)'
             /\ pc'[t] \in {"init", "done"} => ServerSd'[t] = -1
  BY DEF EntriesKnown
<1> DEFINE Goal == /\ \A fd \in Fds \ {0} : table'[fd] = Listen(t)
                          => ServerSd'[t] = fd /\ pc'[t] # "init"
                   /\ \A fd \in Fds : table'[fd] = Conn(t)
                          => ConnectSd'[t] = fd /\ InSession(t)'
                   /\ pc'[t] \in {"init", "done"} => ServerSd'[t] = -1
<1>b. /\ \A fd \in Fds \ {0} : table[fd] = Listen(t) => ServerSd[t] = fd /\ pc[t] # "init"
      /\ \A fd \in Fds : table[fd] = Conn(t) => ConnectSd[t] = fd /\ InSession(t)
      /\ pc[t] \in {"init", "done"} => ServerSd[t] = -1
  BY DEF EntriesKnown
<1>0. CASE UNCHANGED <<table, ServerSd, ConnectSd, pc, quit, signals, handler>>
  BY <1>0, <1>b DEF InSession
<1>1. ASSUME NEW u \in Servers, CreateServer(u)
      PROVE  Goal
  BY <1>1, <1>b DEF CreateServer, InSession
<1>2. ASSUME NEW u \in Servers, While(u)
      PROVE  Goal
  BY <1>2, <1>b DEF While, sdVars, InSession
<1>3. ASSUME NEW u \in Servers, Accept(u)
      PROVE  Goal
  BY <1>3, <1>b DEF Accept, InSession
<1>4. ASSUME NEW u \in Servers, AcceptFails(u)
      PROVE  Goal
  BY <1>4, <1>b DEF AcceptFails, InSession
<1>5. ASSUME NEW u \in Servers, Serves(u)
      PROVE  Goal
  BY <1>5, <1>b, ServesInSession DEF InSession
<1>6. ASSUME NEW u \in Servers, CloseConnect(u)
      PROVE  Goal
  BY <1>6, <1>b, ClosingFrees DEF CloseConnect, InSession
<1>7. ASSUME NEW u \in Servers, ExitConnect(u)
      PROVE  Goal
  BY <1>7, <1>b, ClosingFrees DEF ExitConnect, InSession
<1>8. ASSUME NEW u \in Servers, ExitServer(u)
      PROVE  Goal
  BY <1>8, <1>b, ClosingFrees DEF ExitServer, CloseServer, InSession
<1>9. CASE OpenFile
  BY <1>9, <1>b DEF OpenFile, InSession
<1>10. CASE CloseFile
  BY <1>10, <1>b, ClosingFrees DEF CloseFile, InSession
<1>11. CASE Interrupt
  BY <1>11, <1>b DEF Interrupt, InSession
<1> QED
  BY <1>0, <1>1, <1>2, <1>3, <1>4, <1>5, <1>6, <1>7, <1>8, <1>9, <1>10, <1>11, StepCases
     DEF Closes

(* The three parts of NumbersValid that speak of one thread. *)
LEMMA HasServerSocketOn ==
    ASSUME SessionTypeOK, EntriesKnown, NumbersValid, [Next]_vars, signals = 0,
           signals' = 0, NEW t \in Servers
    PROVE  HasServerSocket(t)'
<1> USE EntriesApart, FdType DEF SessionTypeOK, TableOK, ControlOK, Goto, quitVars
<1>a. SUFFICES ASSUME ServerSd'[t] # -1
      PROVE  /\ table'[ServerSd'[t]] = Listen(t)
             /\ InSession(t)' => Own(t)' \/ (pc'[t] = "close" /\ ConnectSd'[t] = -1)
             /\ pc'[t] \in {"exit", "exitServer"} \/ quit'[t] => ConnectSd'[t] = -1
  BY DEF HasServerSocket
<1> DEFINE Goal == /\ table'[ServerSd'[t]] = Listen(t)
                   /\ InSession(t)' => Own(t)' \/ (pc'[t] = "close" /\ ConnectSd'[t] = -1)
                   /\ pc'[t] \in {"exit", "exitServer"} \/ quit'[t] => ConnectSd'[t] = -1
<1>b. HasServerSocket(t) /\ HasNoServerSocket(t) /\ QuitsForGood(t)
      /\ \A u \in Servers \ {t} : StdinSafe(u, t)
  BY DEF NumbersValid
<1>c. Own(t) <=> ConnectSd[t] \in Fds /\ table[ConnectSd[t]] = Conn(t)
  BY DEF Own, At
<1>d. Own(t)' <=> ConnectSd'[t] \in Fds /\ table'[ConnectSd'[t]] = Conn(t)
  BY DEF Own, At
(* What another thread does takes nothing away. *)
<1>e. ASSUME ServerSd'[t] = ServerSd[t], ConnectSd'[t] = ConnectSd[t], pc'[t] = pc[t],
             quit'[t] => quit[t],
             \A fd \in Fds : table[fd] \in {Listen(t), Conn(t)} => table'[fd] = table[fd]
      PROVE  Goal
  BY <1>a, <1>b, <1>c, <1>d, <1>e DEF HasServerSocket, InSession
<1>0. CASE UNCHANGED <<table, ServerSd, ConnectSd, pc, quit, signals, handler>>
  BY <1>0, <1>e
<1>1. ASSUME NEW u \in Servers, CreateServer(u)
      PROVE  Goal
  <2>1. CASE u = t
    <3>1. ServerSd[t] = -1 /\ pc[t] = "init" /\ pc'[t] = "while" /\ ~quit[t] /\ quit' = quit
      BY <1>1, <1>b, <2>1 DEF CreateServer, EntriesKnown, QuitsForGood
    <3>2. table'[ServerSd'[t]] = Listen(t)
      BY <1>1, <1>a, <2>1, <3>1 DEF CreateServer
    <3> QED
      BY <3>1, <3>2 DEF InSession
  <2>2. CASE u # t
    BY <1>1, <1>e, <2>2 DEF CreateServer, IsNext
  <2> QED
    BY <2>1, <2>2
<1>2. ASSUME NEW u \in Servers, While(u)
      PROVE  Goal
  <2>1. CASE u = t
    BY <1>2, <1>a, <1>b, <2>1 DEF While, InSession, sdVars, HasServerSocket
  <2>2. CASE u # t
    BY <1>2, <1>e, <2>2 DEF While, sdVars
  <2> QED
    BY <2>1, <2>2
<1>3. ASSUME NEW u \in Servers, Accept(u)
      PROVE  Goal
  <2>1. CASE u = t
    <3>1. PICK fd \in Fds : /\ table[fd] = Free /\ table' = [table EXCEPT ![fd] = Conn(t)]
                            /\ ConnectSd' = [ConnectSd EXCEPT ![t] = fd]
                            /\ ServerSd' = ServerSd /\ quit' = quit /\ pc[t] = "accept"
                            /\ pc'[t] = "loop"
      BY <1>3, <2>1 DEF Accept, IsNext
    <3> QED
      BY <1>a, <1>b, <1>d, <3>1 DEF HasServerSocket, QuitsForGood, InSession
  <2>2. CASE u # t
    BY <1>3, <1>e, <2>2 DEF Accept, IsNext
  <2> QED
    BY <2>1, <2>2
<1>4. ASSUME NEW u \in Servers, AcceptFails(u)
      PROVE  Goal
  <2>1. CASE u = t
    BY <1>4, <1>a, <1>b, <2>1 DEF AcceptFails, FailedSd, HasServerSocket
  <2>2. CASE u # t
    BY <1>4, <1>e, <2>2 DEF AcceptFails
  <2> QED
    BY <2>1, <2>2
<1>5. ASSUME NEW u \in Servers, Serves(u)
      PROVE  Goal
  <2>1. CASE u = t
    BY <1>5, <1>a, <1>b, <1>c, <1>d, <2>1, ServesInSession
       DEF HasServerSocket, QuitsForGood, InSession
  <2>2. CASE u # t
    BY <1>5, <1>e, <2>2, ServesInSession
  <2> QED
    BY <2>1, <2>2
<1>6. ASSUME NEW u \in Servers \ {t}, Closes(u)
      PROVE  Goal
  <2>1. /\ ServerSd'[t] = ServerSd[t] /\ ConnectSd'[t] = ConnectSd[t]
        /\ pc'[t] = pc[t] /\ quit'[t] = quit[t]
    BY <1>6 DEF Closes, CloseConnect, ExitConnect, ExitServer
  <2>2. StdinToClose(u) => table[0] = File
    BY <1>a, <1>b, <2>1 DEF StdinSafe
  <2>3. \A fd \in Fds : table[fd] \in {Listen(t), Conn(t)} => table'[fd] = table[fd]
    BY <1>6, <2>2, ClosesOwnOrStdin
  <2> QED
    BY <1>6, <1>e, <2>1, <2>3
<1>7. CASE CloseConnect(t)
  <2>1. /\ table' = Closing(ConnectSd[t]) /\ UNCHANGED <<ServerSd, ConnectSd, quit>>
        /\ pc[t] = "close" /\ pc'[t] = "while"
    BY <1>7 DEF CloseConnect
  <2>2. ConnectSd[t] # ServerSd[t] /\ table[ServerSd[t]] = Listen(t)
    BY <1>a, <1>b, <1>c, <2>1 DEF HasServerSocket, InSession
  <2> QED
    BY <1>a, <1>b, <2>1, <2>2, ClosingFrees DEF HasServerSocket, InSession
<1>8. CASE ExitConnect(t)
  <2>1. ConnectSd[t] = -1 /\ table' = Closing(-1) /\ UNCHANGED <<ServerSd, ConnectSd>>
        /\ pc'[t] = "exitServer"
    BY <1>8, <1>a, <1>b DEF ExitConnect, HasServerSocket
  <2>2. table' = table
    BY <2>1 DEF Closing
  <2> QED
    BY <1>a, <1>b, <2>1, <2>2 DEF HasServerSocket, InSession
<1>9. CASE ExitServer(t)
  BY <1>9, <1>a DEF ExitServer
<1>10. CASE OpenFile
  BY <1>10, <1>e DEF OpenFile, IsNext
<1>11. CASE CloseFile
  BY <1>11, <1>e, ClosingFrees DEF CloseFile
<1>12. CASE Interrupt
  BY <1>12 DEF Interrupt
<1> QED
  BY <1>0, <1>1, <1>2, <1>3, <1>4, <1>5, <1>6, <1>7, <1>8, <1>9, <1>10, <1>11, <1>12, StepCases
     DEF Closes

LEMMA HasNoServerSocketOn ==
    ASSUME SessionTypeOK, EntriesKnown, NumbersValid, [Next]_vars, signals = 0,
           signals' = 0, NEW t \in Servers
    PROVE  HasNoServerSocket(t)' /\ QuitsForGood(t)'
<1> USE EntriesApart, FdType DEF SessionTypeOK, TableOK, ControlOK, Goto, quitVars
<1> DEFINE Goal == HasNoServerSocket(t)' /\ QuitsForGood(t)'
<1>b. HasServerSocket(t) /\ HasNoServerSocket(t) /\ QuitsForGood(t)
  BY DEF NumbersValid
<1>e. ASSUME ServerSd'[t] = ServerSd[t], ConnectSd'[t] = ConnectSd[t], pc'[t] = pc[t],
             quit'[t] = quit[t]
      PROVE  Goal
  BY <1>b, <1>e DEF HasNoServerSocket, QuitsForGood
<1>0. CASE UNCHANGED <<table, ServerSd, ConnectSd, pc, quit, signals, handler>>
  BY <1>0, <1>e
<1>1. ASSUME NEW u \in Servers, CreateServer(u)
      PROVE  Goal
  <2>1. CASE u = t
    <3>1. /\ ServerSd[t] = -1 /\ pc[t] = "init" /\ pc'[t] = "while" /\ quit' = quit
          /\ ConnectSd' = ConnectSd
      BY <1>1, <2>1 DEF CreateServer, EntriesKnown
    <3> QED
      BY <1>b, <3>1 DEF HasNoServerSocket, QuitsForGood
  <2>2. CASE u # t
    BY <1>1, <1>e, <2>2 DEF CreateServer
  <2> QED
    BY <2>1, <2>2
<1>2. ASSUME NEW u \in Servers, While(u)
      PROVE  Goal
  <2>1. CASE u = t
    BY <1>2, <1>b, <2>1 DEF While, sdVars, HasNoServerSocket, QuitsForGood
  <2>2. CASE u # t
    BY <1>2, <1>e, <2>2 DEF While, sdVars
  <2> QED
    BY <2>1, <2>2
<1>3. ASSUME NEW u \in Servers, Accept(u)
      PROVE  Goal
  <2>1. CASE u = t
    <3>1. ServerSd[t] # -1 /\ UNCHANGED <<ServerSd, quit>> /\ pc[t] = "accept"
      BY <1>3, <2>1 DEF Accept, At
    <3> QED
      BY <1>b, <3>1 DEF HasNoServerSocket, QuitsForGood
  <2>2. CASE u # t
    BY <1>3, <1>e, <2>2 DEF Accept
  <2> QED
    BY <2>1, <2>2
<1>4. ASSUME NEW u \in Servers, AcceptFails(u)
      PROVE  Goal
  <2>1. CASE u = t
    BY <1>4, <1>b, <2>1 DEF AcceptFails, FailedSd, HasNoServerSocket, QuitsForGood
  <2>2. CASE u # t
    BY <1>4, <1>e, <2>2 DEF AcceptFails
  <2> QED
    BY <2>1, <2>2
<1>5. ASSUME NEW u \in Servers, Serves(u)
      PROVE  Goal
  <2>1. CASE u = t
    BY <1>5, <1>b, <2>1, ServesInSession DEF HasNoServerSocket, QuitsForGood
  <2>2. CASE u # t
    BY <1>5, <1>e, <2>2, ServesInSession
  <2> QED
    BY <2>1, <2>2
<1>6. ASSUME NEW u \in Servers \ {t}, Closes(u)
      PROVE  Goal
  BY <1>6, <1>e DEF Closes, CloseConnect, ExitConnect, ExitServer
<1>7. CASE CloseConnect(t)
  BY <1>7, <1>b DEF CloseConnect, HasNoServerSocket, QuitsForGood
<1>8. CASE ExitConnect(t)
  BY <1>8, <1>b DEF ExitConnect, HasNoServerSocket, QuitsForGood
<1>9. CASE ExitServer(t)
  BY <1>9, <1>b DEF ExitServer, HasNoServerSocket, QuitsForGood
<1>10. CASE OpenFile \/ CloseFile
  BY <1>10, <1>e DEF OpenFile, CloseFile
<1>12. CASE Interrupt
  BY <1>12 DEF Interrupt
<1> QED
  BY <1>0, <1>1, <1>2, <1>3, <1>4, <1>5, <1>6, <1>7, <1>8, <1>9, <1>10, <1>12, StepCases
     DEF Closes

(* Who still has stdin to close had it to close before, and a thread has   *)
(* a server socket only because it made one.                               *)
LEMMA StdinBefore ==
    ASSUME SessionTypeOK, EntriesKnown, NumbersValid, [Next]_vars, signals = 0,
           signals' = 0, NEW t \in Servers
    PROVE  /\ StdinToClose(t)' => StdinToClose(t)
           /\ ServerSd'[t] # -1 => ServerSd[t] # -1 \/ StdinToClose(t)
<1> USE EntriesApart, FdType DEF SessionTypeOK, TableOK, ControlOK, Goto, quitVars
<1> DEFINE Goal == /\ StdinToClose(t)' => StdinToClose(t)
                   /\ ServerSd'[t] # -1 => ServerSd[t] # -1 \/ StdinToClose(t)
<1>b. HasNoServerSocket(t)
  BY DEF NumbersValid
<1>e. ASSUME ServerSd'[t] = ServerSd[t], pc'[t] = pc[t], quit'[t] = quit[t]
      PROVE  Goal
  BY <1>e DEF StdinToClose
<1>0. CASE UNCHANGED <<table, ServerSd, ConnectSd, pc, quit, signals, handler>>
  BY <1>0, <1>e
<1>1. ASSUME NEW u \in Servers, CreateServer(u)
      PROVE  Goal
  <2>1. CASE u = t
    <3>1. ServerSd[t] = -1 /\ pc[t] = "init"
      BY <1>1, <2>1 DEF CreateServer, EntriesKnown
    <3> QED
      BY <3>1 DEF StdinToClose
  <2>2. CASE u # t
    BY <1>1, <1>e, <2>2 DEF CreateServer
  <2> QED
    BY <2>1, <2>2
<1>2. ASSUME NEW u \in Servers, While(u)
      PROVE  Goal
  BY <1>2 DEF While, sdVars, StdinToClose
<1>3. ASSUME NEW u \in Servers, Accept(u)
      PROVE  Goal
  BY <1>3 DEF Accept, At, StdinToClose
<1>4. ASSUME NEW u \in Servers, AcceptFails(u)
      PROVE  Goal
  BY <1>4 DEF AcceptFails, StdinToClose
<1>5. ASSUME NEW u \in Servers, Serves(u)
      PROVE  Goal
  <2>1. CASE u = t
    BY <1>5, <1>b, <2>1, ServesInSession DEF HasNoServerSocket, StdinToClose
  <2>2. CASE u # t
    BY <1>5, <1>e, <2>2, ServesInSession
  <2> QED
    BY <2>1, <2>2
<1>6. ASSUME NEW u \in Servers \ {t}, Closes(u)
      PROVE  Goal
  BY <1>6, <1>e DEF Closes, CloseConnect, ExitConnect, ExitServer
<1>7. CASE CloseConnect(t) \/ ExitConnect(t) \/ ExitServer(t)
  BY <1>7, <1>b DEF CloseConnect, ExitConnect, ExitServer, StdinToClose, HasNoServerSocket
<1>10. CASE OpenFile \/ CloseFile
  BY <1>10, <1>e DEF OpenFile, CloseFile
<1>12. CASE Interrupt
  BY <1>12 DEF Interrupt
<1> QED
  BY <1>0, <1>1, <1>2, <1>3, <1>4, <1>5, <1>6, <1>7, <1>10, <1>12, StepCases DEF Closes

LEMMA StdinSafeOn ==
    ASSUME SessionTypeOK, EntriesKnown, NumbersValid, [Next]_vars, signals = 0,
           signals' = 0, NEW t \in Servers, NEW u \in Servers \ {t}
    PROVE  StdinSafe(t, u)'
<1> USE EntriesApart, FdType
<1>a. SUFFICES ASSUME StdinToClose(t)', StdinToClose(u)' \/ ServerSd'[u] # -1
      PROVE  table'[0] = File
  BY DEF StdinSafe
<1>1. table[0] = File
  <2>1. StdinToClose(t) /\ (StdinToClose(u) \/ ServerSd[u] # -1)
    BY <1>a, StdinBefore
  <2> QED
    BY <2>1 DEF NumbersValid, StdinSafe
<1>2. CASE \A v \in Servers : ~Closes(v)
  BY <1>1, <1>2, OpensFree DEF SessionTypeOK
<1>3. ASSUME NEW v \in Servers, Closes(v)
      PROVE  table'[0] = File
  <2>1. v = t \/ v = u
    BY SessionAssumption
  <2>2. \/ table'[0] = table[0]
        \/ table[0] \in {Listen(v), Conn(v)}
        \/ ServerSd'[v] = -1 /\ ~StdinToClose(v)'
    BY <1>3, ClosesOwnOrStdin
  <2> QED
    BY <1>1, <1>a, <2>1, <2>2
<1> QED
  BY <1>2, <1>3

LEMMA NumbersValidOn ==
    ASSUME SessionTypeOK, EntriesKnown, NumbersValid, [Next]_vars
    PROVE  NumbersValid'
<1> SUFFICES ASSUME signals' = 0
             PROVE  \A t \in Servers :
                       /\ (HasServerSocket(t) /\ HasNoServerSocket(t) /\ QuitsForGood(t))'
                       /\ \A u \in Servers \ {t} : StdinSafe(t, u)'
  BY DEF NumbersValid
<1>1. signals = 0
  <2>1. signals \in Nat /\ signals' \in {signals, signals + 1}
    <3>1. CASE Interrupt
      BY <3>1, SessionAssumption DEF Interrupt, SessionTypeOK, ControlOK
    <3>2. CASE ~Interrupt
      BY <3>2, StepCases, ServesInSession, SessionAssumption
         DEF CreateServer, While, Accept, AcceptFails, Closes, CloseConnect, ExitConnect,
             ExitServer, OpenFile, CloseFile, quitVars, SessionTypeOK, ControlOK
    <3> QED
      BY <3>1, <3>2
  <2> QED
    BY <2>1
<1> QED
  BY <1>1, HasServerSocketOn, HasNoServerSocketOn, StdinSafeOn

LEMMA ClosesOwn ==
    ASSUME SessionTypeOK, NumbersValid, [Next]_vars
    PROVE  ClosesItsOwn
<1> SUFFICES ASSUME NEW t \in Servers, pc[t] \in {"close", "exit", "exitServer"},
                    pc'[t] # pc[t], NEW fd \in Fds, table'[fd] # table[fd],
                    Foreign(t, table[fd]), signals = 0, ServerSd[t] # -1
             PROVE  FALSE
  <2>1. signals \in Nat
    BY SessionAssumption DEF SessionTypeOK, ControlOK
  <2> QED
    BY <2>1 DEF ClosesItsOwn
<1>1. Closes(t)
  <2> USE DEF SessionTypeOK, ControlOK, Goto
  <2>1. ASSUME NEW u \in Servers, CreateServer(u) \/ While(u) \/ Accept(u) \/ AcceptFails(u)
        PROVE  FALSE
    BY <2>1 DEF CreateServer, While, Accept, AcceptFails
  <2>2. ASSUME NEW u \in Servers, Serves(u)
        PROVE  FALSE
    BY <2>2, ServesInSession
  <2>3. ASSUME NEW u \in Servers \ {t}, Closes(u)
        PROVE  FALSE
    BY <2>3 DEF Closes, CloseConnect, ExitConnect, ExitServer
  <2>4. CASE OpenFile \/ CloseFile \/ Interrupt
    BY <2>4 DEF OpenFile, CloseFile, Interrupt
  <2> QED
    BY <2>1, <2>2, <2>3, <2>4, StepCases
<1>2. table[fd] \in {Listen(t), Conn(t)}
  BY <1>1, ClosesOwnOrStdin
<1> QED
  BY <1>2 DEF Foreign

(* A thread closes its own descriptors, all of them before it leaves, and  *)
(* nobody else's, unless its server socket was never made or SIGINT came;  *)
(* for any number of descriptors, sessions and signals and any other       *)
(* thread that opens and closes files (gvssProtocol.c:94-110, where the    *)
(* number of a closed connection is kept).  It is so because the threads   *)
(* are two: with a third, one that failed could close stdin's number after *)
(* another failed and a server had been given it.                          *)
THEOREM DescriptorsStayOwned == Spec => DescriptorsKept
<1> DEFINE Inv == SessionTypeOK /\ EntriesKnown /\ NumbersValid
<1>1. Init => Inv
  BY SessionInit
<1>2. Inv /\ [Next]_vars => Inv'
  BY TableTyped, ControlTyped, NetTyped, EntriesKnownOn, NumbersValidOn DEF SessionTypeOK
<1>3. Inv' => LeavesNothingOpen'
  <2> SUFFICES ASSUME Inv
               PROVE  LeavesNothingOpen
    BY PTL
  <2> QED
    BY FdType DEF EntriesKnown, LeavesNothingOpen, InSession
<1>4. Inv /\ Inv' /\ [Next]_vars => [LeavesNothingOpen' /\ ClosesItsOwn]_vars
  BY <1>3, ClosesOwn
<1> QED
  BY <1>1, <1>2, <1>4, PTL DEF Spec, DescriptorsKept

=============================================================================
