----------------------------- MODULE GvssSession -----------------------------
(***************************************************************************)
(* The network side of the two server threads: src/gvssProtocol.c over     *)
(* interface/src/osa_socket.c.  ServerThreads lets the network do what it  *)
(* likes; here are the descriptors, which the threads share with the rest  *)
(* of the process, what TCP reports to whom, and what a peer has got of a  *)
(* message.                                                                *)
(*                                                                         *)
(* A number in ServerSd or ConnectSd means whatever the descriptor table   *)
(* holds under it at that time.  Only the connection a thread accepted     *)
(* last is modelled per thread: it is closed before the next accept.       *)
(***************************************************************************)
EXTENDS Integers

CONSTANTS Servers,        \* the threads; those in Answered wait for answers
          Answered,
          MaxFd,          \* the table has the descriptors 0 .. MaxFd
          MsgUnits,       \* parts in which send may take a message
          MaxSessions,    \* bound: accepts of each server
          MaxSignals      \* bound: SIGINTs

ASSUME SessionAssumption ==
    /\ Servers \subseteq {"PLC", "CLIENT"} /\ Answered \subseteq Servers
    /\ MaxFd \in Nat /\ MsgUnits \in Nat \ {0}
    /\ MaxSessions \in Nat /\ MaxSignals \in Nat

VARIABLES table,         \* the process's descriptors
          ServerSd, ConnectSd,
          pc,
          isQuit,        \* the threads' local isQuit
          quit,          \* gGvssQuit, gGvssClientQuit
          handler,       \* the thread whose SIGINT handler is attached
          peer,          \* of the last connection: "open", "fin" (closed its
                         \* side), "silent" (vanished), "dead" (torn down)
          soError,       \* its SO_ERROR: "none", "pipe", or "error" (a reset, a
                         \* timeout)
          keepalive,     \* OSA_Set_keepalive succeeded
          left,          \* parts of the message not yet sent
          expected,      \* the part the peer expects next
          torn,          \* the peer got a part it did not expect
          late,          \* soError was set after the last test before a send
          killed,        \* SIGPIPE ended the process
          sessions, signals,
          fickle         \* bound: the only thread whose peers go away

netVars == <<peer, soError, keepalive, expected, torn, late>>
sdVars == <<table, ServerSd, ConnectSd>>
quitVars == <<quit, handler, signals>>
vars == <<sdVars, pc, isQuit, quitVars, netVars, left, killed, sessions, fickle>>

Fds == 0 .. MaxFd
Entry(kind, who) == <<kind, who>>
Free == Entry("free", "none")
File == Entry("file", "none")
Listen(t) == Entry("listen", t)
Conn(t) == Entry("conn", t)

(* The kernel hands out the lowest free descriptor. *)
IsNext(fd) == table[fd] = Free /\ \A n \in Fds : table[n] = Free => fd <= n

At(sd) == IF sd \in Fds THEN table[sd] ELSE Free
Closing(sd) == IF sd \in Fds THEN [table EXCEPT ![sd] = Free] ELSE table

Goto(t, place) == pc' = [pc EXCEPT ![t] = place]

(* The objects are static: ConnectSd starts as 0, which is stdin. *)
Init ==
    /\ table = [fd \in Fds |-> IF fd = 0 THEN File ELSE Free]
    /\ ServerSd = [t \in Servers |-> -1]
    /\ ConnectSd = [t \in Servers |-> 0]
    /\ pc = [t \in Servers |-> "init"]
    /\ isQuit = [t \in Servers |-> FALSE]
    /\ quit = [t \in Servers |-> FALSE]
    /\ handler = "none" /\ signals = 0
    /\ peer = [t \in Servers |-> "dead"]
    /\ soError = [t \in Servers |-> "none"]
    /\ keepalive = [t \in Servers |-> FALSE]
    /\ left = [t \in Servers |-> 0]
    /\ expected = [t \in Servers |-> 1]
    /\ torn = [t \in Servers |-> FALSE]
    /\ late = [t \in Servers |-> FALSE]
    /\ killed = FALSE
    /\ sessions = [t \in Servers |-> 0]
    /\ fickle \in Servers
-----------------------------------------------------------------------------
(* Gvss_ProtocolInit with OSA_create_server_socket, which closes what it   *)
(* opened when a step fails; the result is not looked at.  Then the SIGINT *)
(* handler replaces the one before.                                        *)
CreateServer(t) ==
    /\ pc[t] = "init"
    /\ \/ \E fd \in Fds : /\ IsNext(fd)
                          /\ table' = [table EXCEPT ![fd] = Listen(t)]
                          /\ ServerSd' = [ServerSd EXCEPT ![t] = fd]
       \/ UNCHANGED <<table, ServerSd>>
    /\ handler' = t
    /\ Goto(t, "while")
    /\ UNCHANGED <<ConnectSd, isQuit, quit, signals, netVars, left,
                   killed, sessions>>

(* while(gGvssQuit == 0) *)
While(t) ==
    /\ pc[t] = "while"
    /\ Goto(t, IF quit[t] THEN "exit" ELSE "accept")
    /\ UNCHANGED <<sdVars, isQuit, quitVars, netVars, left, killed, sessions>>

(* OSA_Set_keepalive: a failure is only logged. *)
SetKeepalive(t) == \E on \in BOOLEAN : keepalive' = [keepalive EXCEPT ![t] = on]

(* Gvss_wait_for_client with a peer that connects. *)
Accept(t) ==
    /\ pc[t] = "accept"
    /\ At(ServerSd[t]) = Listen(t)
    /\ sessions[t] < MaxSessions
    /\ sessions' = [sessions EXCEPT ![t] = @ + 1]
    /\ \E fd \in Fds : /\ IsNext(fd)
                       /\ table' = [table EXCEPT ![fd] = Conn(t)]
                       /\ ConnectSd' = [ConnectSd EXCEPT ![t] = fd]
    /\ SetKeepalive(t)
    /\ peer' = [peer EXCEPT ![t] = "open"]
    /\ soError' = [soError EXCEPT ![t] = "none"]
    /\ expected' = [expected EXCEPT ![t] = 1]
    /\ torn' = [torn EXCEPT ![t] = FALSE]
    /\ isQuit' = [isQuit EXCEPT ![t] = quit[t]]
    /\ Goto(t, "loop")
    /\ UNCHANGED <<ServerSd, quitVars, late, left, killed>>

(* Variant of FailedSd: the last connection's number stays. *)
FailedSdKept(t) == ConnectSd[t]

(* Without a server socket wait_for_client returns before it calls accept, *)
(* and ConnectSd stays as it was.                                          *)
FailedSd(t) == IF ServerSd[t] = -1 THEN ConnectSd[t] ELSE -1

(* wait_for_client fails, and the thread ends after an empty session. *)
AcceptFails(t) ==
    /\ pc[t] = "accept"
    /\ ConnectSd' = [ConnectSd EXCEPT ![t] = FailedSd(t)]
    /\ quit' = [quit EXCEPT ![t] = TRUE]
    /\ Goto(t, "close")
    /\ UNCHANGED <<table, ServerSd, isQuit, handler, signals, netVars,
                   left, killed, sessions>>
-----------------------------------------------------------------------------
Own(t) == At(ConnectSd[t]) = Conn(t)

(* Variant of ReadsError: the test always says connected. *)
ReadsErrorNever(t) == {FALSE}

(* What getsockopt leaves in optval.  It clears the error it reads; it     *)
(* fails on what is not a socket, and optval is then whatever it was.      *)
ReadsError(t) == IF Own(t) THEN {soError[t] # "none"} ELSE BOOLEAN
ClearError(t) == IF Own(t) THEN soError' = [soError EXCEPT ![t] = "none"]
                 ELSE UNCHANGED soError

(* The test of the inner loop.  If it passes a frame may be there or not.  *)
TestConnection(t) ==
    /\ pc[t] = "loop"
    /\ IF isQuit[t]
       THEN Goto(t, "close") /\ UNCHANGED soError
       ELSE /\ ClearError(t)
            /\ \E broken \in ReadsError(t) :
                  \/ broken /\ Goto(t, "close")
                  \/ ~broken /\ Goto(t, "frame")
    /\ UNCHANGED <<sdVars, isQuit, quitVars, peer, keepalive, expected, torn,
                   late, left, killed, sessions>>

NoFrame(t) ==
    /\ pc[t] = "frame"
    /\ Goto(t, "loop")
    /\ UNCHANGED <<sdVars, isQuit, quitVars, netVars, left, killed, sessions>>

(* The test before the send fails on a connection that reads an error,     *)
(* and, for the PLC's thread, on a message that is too long.               *)
Ends(t) == ReadsError(t) \cup (IF t \in Answered THEN {TRUE} ELSE {})

(* A frame was taken and given back, and the test decides: the message is  *)
(* sent or the session ends.                                               *)
TestAgain(t) ==
    /\ pc[t] = "frame"
    /\ ClearError(t)
    /\ \E ends \in Ends(t) :
          /\ left' = [left EXCEPT ![t] = IF ends THEN 0 ELSE MsgUnits]
          /\ isQuit' = [isQuit EXCEPT ![t] = ends]
          /\ Goto(t, IF ends THEN "loop" ELSE "send")
    /\ late' = [late EXCEPT ![t] = FALSE]
    /\ UNCHANGED <<sdVars, quitVars, peer, keepalive, expected, torn, killed,
                   sessions>>

AfterSend(t) == IF t \in Answered THEN "recv" ELSE "loop"

(* Variant of PartSent: the pointer is not moved. *)
PartSentAgain(t) == 1

(* The first part of the buffer that send is given. *)
PartSent(t) == MsgUnits - left[t] + 1

(* send takes k parts; OSA_socket_send_data goes on until all are sent. *)
SendSome(t, k) ==
    /\ pc[t] = "send"
    /\ Own(t) /\ peer[t] # "dead"
    /\ k <= left[t]
    /\ torn' = [torn EXCEPT ![t] = @ \/ PartSent(t) # expected[t]]
    /\ expected' = [expected EXCEPT ![t] = ((PartSent(t) + k - 1) % MsgUnits) + 1]
    /\ left' = [left EXCEPT ![t] = @ - k]
    /\ Goto(t, IF k = left[t] THEN AfterSend(t) ELSE "send")
    /\ UNCHANGED <<sdVars, isQuit, quitVars, peer, soError, keepalive, late,
                   killed, sessions>>

(* Variant: the result of the send is not looked at. *)
GiveUpNever(t) == UNCHANGED isQuit

GiveUp(t) == isQuit' = [isQuit EXCEPT ![t] = TRUE]

(* send fails with the connection's error, which that clears, or because   *)
(* the number is not this connection's.                                    *)
SendFails(t) ==
    /\ pc[t] = "send"
    /\ ~Own(t) \/ soError[t] = "error"
    /\ ClearError(t)
    /\ GiveUp(t)
    /\ left' = [left EXCEPT ![t] = 0]
    /\ Goto(t, AfterSend(t))
    /\ UNCHANGED <<sdVars, quitVars, peer, keepalive, expected, torn, late,
                   killed, sessions>>

(* EPIPE: the peer had closed its side, or the error of a dead connection  *)
(* was read before.  Neither MSG_NOSIGNAL nor a handler keeps SIGPIPE away.*)
SendKills(t) ==
    /\ pc[t] = "send"
    /\ Own(t) /\ peer[t] = "dead" /\ soError[t] \in {"none", "pipe"}
    /\ killed' = TRUE
    /\ UNCHANGED <<sdVars, pc, isQuit, quitVars, netVars, left, sessions>>

RecvAnswer(t) ==
    /\ pc[t] = "recv"
    /\ Own(t) /\ peer[t] = "open"
    /\ Goto(t, "loop")
    /\ UNCHANGED <<sdVars, isQuit, quitVars, netVars, left, killed, sessions>>

(* recv returns an error, or 0 at the end of the peer's data. *)
RecvFails(t) ==
    /\ pc[t] = "recv"
    /\ ~Own(t) \/ peer[t] \in {"fin", "dead"}
    /\ ClearError(t)
    /\ GiveUp(t)
    /\ Goto(t, "loop")
    /\ UNCHANGED <<sdVars, quitVars, peer, keepalive, expected, torn, late,
                   left, killed, sessions>>

(* Gvss_close_connect: ConnectSd keeps the number. *)
CloseConnect(t) ==
    /\ pc[t] = "close"
    /\ table' = Closing(ConnectSd[t])
    /\ peer' = [peer EXCEPT ![t] = "dead"]
    /\ soError' = [soError EXCEPT ![t] = "none"]
    /\ keepalive' = [keepalive EXCEPT ![t] = FALSE]
    /\ expected' = [expected EXCEPT ![t] = 1]
    /\ late' = [late EXCEPT ![t] = FALSE]
    /\ left' = [left EXCEPT ![t] = 0]
    /\ Goto(t, "while")
    /\ UNCHANGED <<ServerSd, ConnectSd, isQuit, quitVars, torn, killed,
                   sessions>>

(* Gvss_exit: if(pObj->ConnectSd) close it, ... *)
ExitConnect(t) ==
    /\ pc[t] = "exit"
    /\ table' = IF ConnectSd[t] = 0 THEN table ELSE Closing(ConnectSd[t])
    /\ Goto(t, "exitServer")
    /\ UNCHANGED <<ServerSd, ConnectSd, isQuit, quitVars, netVars, left, killed,
                   sessions>>

CloseServer(t) == IF ServerSd[t] = 0 THEN table ELSE Closing(ServerSd[t])

(* ... and the server socket. *)
ExitServer(t) ==
    /\ pc[t] = "exitServer"
    /\ table' = CloseServer(t)
    /\ ServerSd' = [ServerSd EXCEPT ![t] = -1]
    /\ ConnectSd' = [ConnectSd EXCEPT ![t] = -1]
    /\ Goto(t, "done")
    /\ UNCHANGED <<isQuit, quitVars, netVars, left, killed, sessions>>
-----------------------------------------------------------------------------
(* The peer of an accepted connection, and TCP. *)
Linked(t) == \E fd \in Fds : table[fd] = Conn(t)

TearDown(t, error) ==
    /\ peer' = [peer EXCEPT ![t] = "dead"]
    /\ soError' = [soError EXCEPT ![t] = error]
    /\ late' = [late EXCEPT ![t] = pc[t] = "send"]
    /\ UNCHANGED <<sdVars, pc, isQuit, quitVars, keepalive, expected, torn,
                   left, killed, sessions>>

PeerIs(t, state) ==
    /\ Linked(t) /\ peer[t] = "open"
    /\ peer' = [peer EXCEPT ![t] = state]
    /\ UNCHANGED <<sdVars, pc, isQuit, quitVars, soError, keepalive, expected,
                   torn, late, left, killed, sessions>>

PeerCloses(t) == PeerIs(t, "fin")
PeerVanishes(t) == PeerIs(t, "silent")

(* A reset.  After the peer's FIN the error is EPIPE, which is how the     *)
(* peer answers data, or a keepalive probe, that it has nobody for.        *)
PeerResets(t) ==
    /\ Linked(t)
    /\ \/ peer[t] = "open" /\ TearDown(t, "error")
       \/ peer[t] = "fin" /\ TearDown(t, "pipe")

(* The keepalive probes, or the retransmissions, of a vanished peer end.   *)
ConnectionExpires(t) ==
    /\ Linked(t) /\ peer[t] = "silent"
    /\ TearDown(t, "error")

(* Other threads of the process open and close files, as the error log.    *)
OpenFile ==
    /\ \A fd \in Fds \ {0} : table[fd] # File
    /\ \E fd \in Fds : IsNext(fd) /\ table' = [table EXCEPT ![fd] = File]
    /\ UNCHANGED <<ServerSd, ConnectSd, pc, isQuit, quitVars, netVars, left,
                   killed, sessions>>

CloseFile ==
    /\ \E fd \in Fds \ {0} : table[fd] = File /\ table' = Closing(fd)
    /\ UNCHANGED <<ServerSd, ConnectSd, pc, isQuit, quitVars, netVars, left,
                   killed, sessions>>

(* SIGINT sets the flag of the thread that attached last.  A thread in     *)
(* accept may be the one it interrupts.                                    *)
Interrupt ==
    /\ handler # "none" /\ signals < MaxSignals
    /\ signals' = signals + 1
    /\ UNCHANGED <<ServerSd, table, isQuit, handler, netVars, left, killed,
                   sessions>>
    /\ \/ quit' = [quit EXCEPT ![handler] = TRUE] /\ UNCHANGED <<pc, ConnectSd>>
       \/ \E t \in Servers :
             /\ pc[t] = "accept"
             /\ quit' = [quit EXCEPT ![handler] = TRUE, ![t] = TRUE]
             /\ ConnectSd' = [ConnectSd EXCEPT ![t] = FailedSd(t)]
             /\ Goto(t, "close")

Thread(t) == \/ CreateServer(t) \/ While(t) \/ TestConnection(t) \/ NoFrame(t)
             \/ TestAgain(t) \/ SendFails(t) \/ SendKills(t) \/ RecvFails(t)
             \/ CloseConnect(t) \/ ExitConnect(t) \/ ExitServer(t)

Next == /\ ~killed
        /\ UNCHANGED fickle
        /\ \/ \E t \in Servers :
                 \/ Thread(t) \/ Accept(t) \/ AcceptFails(t)
                 \/ \E k \in 1 .. MsgUnits : SendSome(t, k)
                 \/ RecvAnswer(t)
           \/ PeerCloses(fickle) \/ PeerVanishes(fickle) \/ PeerResets(fickle)
           \/ ConnectionExpires(fickle)
           \/ OpenFile \/ CloseFile \/ Interrupt

(* The threads run, and TCP gives up a vanished peer, or hears a reset     *)
(* from one that closed, if probes are on.  A peer need not read or answer.*)
ThreadRuns(t) == ~killed /\ UNCHANGED fickle /\ Thread(t)
VanishedNoticed ==
    ~killed /\ UNCHANGED fickle /\ keepalive[fickle] /\ ConnectionExpires(fickle)
ClosedNoticed ==
    /\ ~killed /\ UNCHANGED fickle
    /\ keepalive[fickle] /\ peer[fickle] = "fin" /\ PeerResets(fickle)

Fairness == /\ \A t \in Servers : WF_vars(ThreadRuns(t))
            /\ WF_vars(VanishedNoticed)
            /\ WF_vars(ClosedNoticed)

Spec == Init /\ [][Next]_vars
FairSpec == Spec /\ Fairness
-----------------------------------------------------------------------------
(* A peer gets whole messages: a message may break off at the end of a     *)
(* connection, but nothing follows it there, however send splits it.       *)
MessagesWhole == \A t \in Servers : ~torn[t]

(* A peer that goes away ends the process (SIGPIPE) only if the reset came *)
(* between the test before a send and the end of that send: whoever reads  *)
(* and so clears an error, the test, send or recv, ends the session.       *)
KilledOnlyInWindow == killed => \E t \in Servers : late[t]

(* A thread that has left has left no descriptor behind (0 is a special    *)
(* case: Gvss_exit takes it for none).                                     *)
LeavesNothingOpen ==
    \A t \in Servers : pc[t] = "done" =>
        \A fd \in Fds \ {0} : table[fd] \notin {Listen(t), Conn(t)}

Foreign(t, entry) == entry \notin {Free, Listen(t), Conn(t)}

(* A thread closes no descriptor that is not its own, unless its server    *)
(* socket was never made and ConnectSd is still 0, or SIGINT came: then a  *)
(* thread gets to Gvss_exit with the number of a connection it had closed, *)
(* and the thread whose descriptor it closes there does the same later.    *)
ClosesItsOwn ==
    \A t \in Servers :
        pc[t] \in {"close", "exit", "exitServer"} /\ pc'[t] # pc[t] =>
            \A fd \in Fds :
                table'[fd] = table[fd] \/ ~Foreign(t, table[fd])
                \/ signals > 0 \/ ServerSd[t] = -1

(* Each thread closes its descriptors, all of them, and nobody else's. *)
DescriptorsKept == [][LeavesNothingOpen' /\ ClosesItsOwn]_vars

InSession(t) == pc[t] \in {"loop", "frame", "send", "recv", "close"}

(* With keepalive on, a session whose peer closed or vanished ends, also   *)
(* when the thread has nothing to send and never receives.                 *)
GonePeerNoticed ==
    \A t \in Servers :
        (InSession(t) /\ peer[t] \in {"fin", "silent"} /\ keepalive[t])
            ~> (~InSession(t) \/ killed)
=============================================================================
