------------------------------ MODULE GvssSystem ------------------------------
(***************************************************************************)
(* The whole application: the main thread (ProcMsg), the two server        *)
(* threads (ServerThreads), the log daemon (src/log_deamon.c), the log's   *)
(* semaphore, SIGINT, and the algorithm process at the other end of the    *)
(* message queue, which is not part of the repository: it is modelled from *)
(* the messages src/main.c expects of it and sends to it.                  *)
(*                                                                         *)
(* What is written to the log is in ErrLog.  Here it is who may have to    *)
(* wait in it, and for ever: for a semaphore that log_init never made, or  *)
(* that a server thread has destroyed at its end.                          *)
(***************************************************************************)
EXTENDS ProcMsg, ServerThreads

CONSTANTS MaxResults,     \* bound: the results the algorithm produces
          MaxSignals,     \* bound: the SIGINTs the user sends
          LogInits        \* bound: what may become of log_init, of
                          \* "ready" and "none"

ASSUME BoundsAssumption == /\ MaxResults \in Nat /\ MaxSignals \in Nat
                           /\ LogInits \subseteq {"ready", "none"}

VARIABLES algPc,      \* the algorithm: "idle", "running" or "stopped"
          busy,       \* slots whose result was announced and not answered
          produced,   \* the number of results produced
          signals,    \* the SIGINTs delivered so far
          daemonPc,   \* the log daemon: "init", "loop", "flush" or "done"
          logHndl     \* the log's semaphore: "ready", "none" (log_init
                      \* failed) or "deleted" (log_exit)

envVars == <<algPc, busy, produced, signals>>
logVars == <<daemonPc, logHndl>>
vars == <<objVars, ipcVars, procVars, srvVars, envVars, logVars>>

Init ==
    /\ SetEnv
    /\ ProcInit
    /\ SrvInit
    /\ algPc = "idle"
    /\ busy = {}
    /\ produced = 0
    /\ signals = 0
    /\ daemonPc = "init"
    /\ logHndl \in LogInits
-----------------------------------------------------------------------------
(* The algorithm stores its next result in a slot that no unanswered       *)
(* message announces, and announces it.                                    *)
AlgResult(s) ==
    /\ algPc = "running"
    /\ s \notin busy
    /\ produced < MaxResults
    /\ produced' = produced + 1
    /\ busy' = busy \cup {s}
    /\ shm' = [shm EXCEPT ![s] = produced']
    /\ toServer' = Append(toServer, Message("RESULT", "MSG3", produced', s))
    /\ UNCHANGED <<objVars, toAlg, procVars, srvVars, algPc, signals, logVars>>

(* START makes it run; it confirms, and may or may not want an answer. *)
AlgStart(src) ==
    /\ algPc = "idle"
    /\ toAlg # <<>>
    /\ Head(toAlg).cmd = "START"
    /\ toAlg' = Tail(toAlg)
    /\ toServer' = Append(toServer, Command("START", src))
    /\ algPc' = "running"
    /\ UNCHANGED <<objVars, shm, procVars, srvVars, busy, produced, signals, logVars>>

(* An answer: to a result, whose slot is free again, or to START. *)
AlgAnswered ==
    /\ algPc = "running"
    /\ toAlg # <<>>
    /\ Head(toAlg).cmd # "DELETE"
    /\ toAlg' = Tail(toAlg)
    /\ busy' = IF Head(toAlg).cmd = "RESULT" THEN busy \ {Head(toAlg).slot} ELSE busy
    /\ UNCHANGED <<objVars, toServer, shm, procVars, srvVars, algPc, produced,
                   signals, logVars>>

(* DELETE is echoed, which is what ends ProcMsgTread, and ends the process.*)
AlgDelete ==
    /\ algPc # "stopped"
    /\ toAlg # <<>>
    /\ Head(toAlg).cmd = "DELETE"
    /\ toAlg' = Tail(toAlg)
    /\ toServer' = Append(toServer, Command("DELETE", "NONE"))
    /\ algPc' = "stopped"
    /\ UNCHANGED <<objVars, shm, procVars, srvVars, busy, produced, signals, logVars>>
-----------------------------------------------------------------------------
(* SIGINT runs the installed handler, which sets one thread's quit flag.   *)
(* It interrupts the thread it is delivered to: sa_flags is 0, so an       *)
(* accept fails, and msgrcv is never restarted.                            *)
Interrupt ==
    /\ handler # "NONE"
    /\ signals < MaxSignals
    /\ signals' = signals + 1

SignalElsewhere ==
    /\ Interrupt
    /\ quit' = [quit EXCEPT ![handler] = TRUE]
    /\ UNCHANGED <<objVars, ipcVars, procVars, srvPc, srvFrame, out, srvQuit,
                   handler, sessions, sent, algPc, busy, produced, logVars>>

SignalInAccept(t) ==
    /\ Interrupt
    /\ srvPc[t] = "accept"
    /\ quit' = [quit EXCEPT ![handler] = TRUE, ![t] = TRUE]
    /\ Goto(t, "on")
    /\ UNCHANGED <<objVars, ipcVars, procVars, srvFrame, out, srvQuit, handler,
                   sessions, sent, algPc, busy, produced, logVars>>

SignalInRecv ==
    /\ Interrupt
    /\ ReceiveFails
    /\ quit' = [quit EXCEPT ![handler] = TRUE]
    /\ UNCHANGED <<srvPc, srvFrame, out, srvQuit, handler, sessions, sent,
                   algPc, busy, produced, logVars>>
-----------------------------------------------------------------------------
(* A wait for the log's semaphore can end: for one of zeros it never does, *)
(* for one whose mutex and condition are destroyed it may or may not.  Who *)
(* gets it writes or closes a file and gives it back.                      *)
LogWaitMayEnd == logHndl # "none"

(* closeErrLogFile, by the main thread that saves a result. *)
CloseErrLog ==
    /\ msgPc = "closelog"
    /\ LogWaitMayEnd
    /\ msgPc' = "lock"
    /\ UNCHANGED <<objVars, ipcVars, msg, pData, stage, msgFrame, eCount,
                   isQuit, lost, logQuit, srvVars, envVars, logVars>>

(* The log daemon clears the flag that ends it when it starts. *)
DaemonInit ==
    /\ daemonPc = "init"
    /\ logQuit' = FALSE
    /\ daemonPc' = "loop"
    /\ UNCHANGED <<objVars, ipcVars, localVars, srvVars, envVars, logHndl>>

(* The test of the loop.  When it goes on, the daemon sleeps, which        *)
(* nothing depends on, and comes to flushErrLogFile.                       *)
DaemonLoop ==
    /\ daemonPc = "loop"
    /\ daemonPc' = IF logQuit THEN "done" ELSE "flush"
    /\ UNCHANGED <<objVars, ipcVars, procVars, srvVars, envVars, logHndl>>

DaemonFlush ==
    /\ daemonPc = "flush"
    /\ LogWaitMayEnd
    /\ daemonPc' = "loop"
    /\ UNCHANGED <<objVars, ipcVars, procVars, srvVars, envVars, logHndl>>

(* A server thread that has sent its DELETE calls log_exit, which destroys *)
(* the semaphore if there is one and the other thread has not.  It is one  *)
(* step with the DELETE: a wait that ends between the two is one that may  *)
(* also end after both.                                                    *)
LogExit(t) == logHndl' = IF srvPc[t] = "final" /\ logHndl = "ready"
                         THEN "deleted" ELSE logHndl

(* main() joins the three threads and returns. *)
Join ==
    /\ msgPc = "join"
    /\ \A t \in Targets : srvPc[t] = "done"
    /\ daemonPc = "done"
    /\ msgPc' = "done"
    /\ UNCHANGED <<objVars, ipcVars, msg, pData, stage, msgFrame, eCount,
                   isQuit, lost, logQuit, srvVars, envVars, logVars>>
-----------------------------------------------------------------------------
Proc == ProcStep /\ UNCHANGED <<srvVars, envVars, logVars>>
Server(t) == SrvStep(t) /\ LogExit(t) /\ UNCHANGED <<procVars, envVars, daemonPc>>
Peer(t) == PeerStep(t) /\ UNCHANGED <<procVars, envVars, logVars>>
Net(t) == NetStep(t) /\ UNCHANGED <<procVars, envVars, logVars>>
AlgReads == \/ \E src \in {"NONE", "MSG3"} : AlgStart(src)
            \/ AlgAnswered
            \/ AlgDelete
Signal == \/ SignalElsewhere
          \/ \E t \in Targets : SignalInAccept(t)
          \/ SignalInRecv
Daemon == DaemonInit \/ DaemonLoop
LogWait == DaemonFlush \/ CloseErrLog

Next == \/ Proc
        \/ \E t \in Targets : Server(t) \/ Peer(t) \/ Net(t)
        \/ \E s \in Slots : AlgResult(s)
        \/ AlgReads
        \/ Signal
        \/ Daemon \/ LogWait
        \/ Join

Spec == Init /\ [][Next]_vars

(* What the scheduler gives: a thread that can run does, one that waits    *)
(* for a semaphore others take and release gets it in the end, and for the *)
(* log's one only while it exists.  The main thread, the algorithm and who *)
(* has the semaphore hndl on the one side, the other steps on the other.   *)
ProcEnters == TakeSem /\ UNCHANGED <<srvVars, envVars, logVars>>
Switches(t) == (SwitchOn(t) \/ SwitchOff(t)) /\ UNCHANGED <<procVars, envVars, logVars>>
RequestFairness == /\ WF_vars(Proc) /\ SF_vars(ProcEnters)
                   /\ WF_vars(CloseErrLog /\ logHndl = "ready")
                   /\ \A t \in Targets : WF_vars(Switches(t))
                   /\ WF_vars(AlgReads)
ThreadFairness == /\ \A t \in Targets : WF_vars(Server(t))
                  /\ WF_vars(Daemon) /\ WF_vars(DaemonFlush /\ logHndl = "ready")
                  /\ WF_vars(Join)

(* What an open connection gives, by its peer or by keepalive: a send or a *)
(* receive that has begun ends.                                            *)
PeerFairness == \A t \in Targets : WF_vars(Peer(t))

RequestSpec == Spec /\ RequestFairness
FairSpec == Spec /\ RequestFairness /\ ThreadFairness /\ PeerFairness
-----------------------------------------------------------------------------
(* The types of the variables of the algorithm, the user and the daemon.   *)
EnvTypeOK ==
    /\ algPc \in {"idle", "running", "stopped"}
    /\ busy \in SUBSET Slots
    /\ produced \in Nat
    /\ signals \in Nat
    /\ daemonPc \in {"init", "loop", "flush", "done"}
    /\ logHndl \in {"ready", "none", "deleted"}

(* Every variable has its type, a message with a result names a slot, and  *)
(* a thread that handles a frame or a result has one.                      *)
TypeOK == ObjTypeOK /\ ProcTypeOK /\ SrvTypeOK /\ EnvTypeOK

(* The frames a thread has taken from a queue and not put into one. *)
MainHolds(t) == IF msgPc \in {"copy", "put"} /\ stage = t THEN 1 ELSE 0
ServerHolds(t) == IF srvPc[t] \in {"format", "giveback"} THEN 1 ELSE 0

FrameTotal(t) ==
    Len(freeQue[t]) + Len(fullQue[t]) + MainHolds(t) + ServerHolds(t) + lost[t]

(* Every frame of a target is in one of its queues, in the hand of the     *)
(* main thread or of the target's thread, or was dropped by the size test: *)
(* the oversize results are the only leak.                                 *)
FramesAccounted == \A t \in Targets : FrameTotal(t) = NumFrames

(* A put always finds room, so the wait of OSA_TIMEOUT_FOREVER never       *)
(* blocks a server thread and the main thread's fallback never runs.       *)
PutsFindRoom ==
    /\ msgPc = "put" => HasRoom(fullQue[stage])
    /\ \A t \in Targets : srvPc[t] = "giveback" => HasRoom(freeQue[t])

(* No frame is in two places: what one thread formats or sends, the other  *)
(* cannot be overwriting.                                                  *)
Occurrences(q, f) == Cardinality({i \in DOMAIN q : q[i] = f})
FrameOwnedOnce ==
    \A t \in Targets : \A f \in Frames :
        Occurrences(freeQue[t], f) + Occurrences(fullQue[t], f)
            + (IF MainHolds(t) = 1 /\ msgFrame = f THEN 1 ELSE 0)
            + (IF ServerHolds(t) = 1 /\ srvFrame[t] = f THEN 1 ELSE 0) <= 1

(* What the main thread copies is the result the message announced: it     *)
(* reads the slot before it answers, and the slot is reused only after.    *)
AnnouncedResult ==
    msg.cmd = "RESULT" =>
        /\ msgPc = "read" => shm[msg.slot] = msg.id
        /\ msgPc \in {"closelog", "lock", "get", "copy", "put"} => pData = msg.id

(* The results of a target on their way: sent, formatted, then queued.     *)
InHand(t) == IF srvPc[t] = "format" THEN content[t][srvFrame[t]] ELSE out[t]
Pending(t) == [i \in DOMAIN fullQue[t] |-> content[t][fullQue[t][i]]]

(* A peer gets results in the order they were produced, none twice, over   *)
(* all its sessions: what was sent, what is in hand and what is queued     *)
(* form one increasing sequence of results the algorithm produced.         *)
OnTheWay(t) == sent[t] \o (IF InHand(t) = 0 THEN <<>> ELSE <<InHand(t)>>)
                       \o Pending(t)
InOrderAtMostOnce ==
    \A t \in Targets :
        LET way == OnTheWay(t)
        IN /\ \A i \in DOMAIN way : way[i] \in 1 .. produced
           /\ \A i, j \in DOMAIN way : i < j => way[i] < way[j]

(* msgsnd never has to wait: the queue holds at most one message for each  *)
(* slot and one START or its answers, and the DELETEs of the three threads *)
(* of the application and the algorithm's echo.                            *)
MessagesBounded == Len(toServer) + Len(toAlg) <= Cardinality(Slots) + 4

(* Once AppClient_Off has returned, nothing is queued for the target until *)
(* it is switched on again.                                                *)
QuietWhenOff ==
    [][\A t \in Targets : Len(fullQue'[t]) > Len(fullQue[t]) => target[t]]_vars

(* To each peer, the queues, frames and threads together are a bounded     *)
(* lossy channel that keeps the order of the results.                      *)
Plc == INSTANCE ResultChannel
    WITH Capacity <- NumFrames, pending <- Pending("PLC"),
         inHand <- InHand("PLC"), delivered <- sent["PLC"]
Client == INSTANCE ResultChannel
    WITH Capacity <- NumFrames, pending <- Pending("CLIENT"),
         inHand <- InHand("CLIENT"), delivered <- sent["CLIENT"]
Channels == Plc!Spec /\ Client!Spec

(* Who stands at the wait for a semaphore of the log that does not exist   *)
(* (any more) may stand there for ever.                                    *)
ProcHangs == msgPc = "closelog" /\ logHndl # "ready"
DaemonHangs == daemonPc = "flush" /\ logHndl # "ready"

(* Every announced result is answered, whatever the peers do and for all   *)
(* the server threads do with the semaphore hndl, unless the application   *)
(* or the algorithm has quit.  The one thing that can keep an answer for   *)
(* ever is a save that closes its file when the log's semaphore was never  *)
(* made (main.c:96 does not look at what log_init returns) or is deleted.  *)
RequestsAnswered ==
    \A s \in Slots :
        s \in busy ~> \/ s \notin busy \/ isQuit \/ algPc = "stopped"
                     \/ []ProcHangs

(* A result queued for a target whose session goes on is taken and sent or *)
(* the session ends: a frame never waits forever behind a live session.    *)
(* That takes the server threads and their peers to go on, too, which      *)
(* RequestSpec leaves open and the premise asks for.                       *)
InSession(t) == srvPc[t] \in {"loop", "format", "giveback", "send", "recv"}
SessionDrains ==
    ThreadFairness /\ PeerFairness =>
        \A t \in Targets : (fullQue[t] # <<>> /\ InSession(t))
                              ~> (fullQue[t] = <<>> \/ ~InSession(t))

(* When both server threads have ended, one of them through AppClient_Quit,*)
(* the process ends: the DELETE goes round by the algorithm, ends the main *)
(* loop, and every join returns; provided that the daemon had started      *)
(* before the main thread told it to stop (it clears the flag at start).   *)
(* What can keep it is, again, the semaphore of the log alone, which the   *)
(* leaving threads have destroyed by then: the daemon, or the main thread  *)
(* in a save, may be waiting for it or come to wait for it.                *)
ServersLeft == /\ \A t \in Targets : srvPc[t] = "done"
               /\ algPc = "stopped" \/ \E i \in DOMAIN toAlg : toAlg[i].cmd = "DELETE"
               /\ daemonPc \in {"loop", "flush"}
               /\ msgPc # "join"
ShutdownCompletes ==
    ThreadFairness /\ PeerFairness =>
        ServersLeft ~> (msgPc = "done" \/ []ProcHangs \/ []DaemonHangs)

(* What osa.c:19 says of the SIGINT handlers: "insure a clean shutdown if  *)
(* user types ctrl-c".  Stated for a ctrl-c that finds the application in  *)
(* its normal state, with both peers connected, every thread running and   *)
(* the log open; what waits for the log's semaphore later is not counted.  *)
CleanShutdown ==
    (/\ signals > 0 /\ logHndl = "ready" /\ daemonPc \in {"loop", "flush"}
     /\ \A t \in Targets : InSession(t))
        ~> (msgPc = "done" \/ ProcHangs \/ DaemonHangs)
=============================================================================
