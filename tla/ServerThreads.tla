---------------------------- MODULE ServerThreads ----------------------------
(***************************************************************************)
(* The two server threads: GvsstskThrMain (src/gvssApp.c), which serves    *)
(* the PLC, and GvssClientThrMain (src/gvssClientApp.c), which serves the  *)
(* client.  They have one shape, so the thread is a parameter; only the    *)
(* PLC's thread waits for an answer to what it sent.                       *)
(*                                                                         *)
(* The network is free to do what it likes: a connection may come at any   *)
(* time or never, be found broken at any test, and fail in any send or     *)
(* receive.                                                                *)
(***************************************************************************)
EXTENDS AlgObj

CONSTANT MaxSessions      \* bound: the connections each server accepts, by target

ASSUME MaxSessionsAssumption == MaxSessions \in [Targets -> Nat]

VARIABLES srvPc,      \* srvPc[t]: where the thread of target t stands
          srvFrame,   \* pFullFrame while the thread owns it, else 0
          out,        \* the formatted result the thread is about to send
          srvQuit,    \* the threads' local isQuit
          quit,       \* gGvssQuit and gGvssClientQuit
          handler,    \* the thread whose SIGINT handler is installed
          sessions,   \* connections accepted so far
          sent        \* sent[t]: the results handed to the network, in order

srvVars == <<srvPc, srvFrame, out, srvQuit, quit, handler, sessions, sent>>

SrvPcs == {"init", "test", "accept", "on", "seton", "loop", "format",
           "giveback", "send", "recv", "off", "setoff", "final", "done"}

SrvInit ==
    /\ srvPc = [t \in Targets |-> "init"]
    /\ srvFrame = [t \in Targets |-> 0]
    /\ out = [t \in Targets |-> 0]
    /\ srvQuit = [t \in Targets |-> FALSE]
    /\ quit = [t \in Targets |-> FALSE]
    /\ handler = "NONE"
    /\ sessions = [t \in Targets |-> 0]
    /\ sent = [t \in Targets |-> <<>>]

Goto(t, place) == srvPc' = [srvPc EXCEPT ![t] = place]

(* The quit flag is cleared and this thread's SIGINT handler replaces      *)
(* whichever was installed: a process has one handler per signal.          *)
InitServer(t) ==
    /\ srvPc[t] = "init"
    /\ quit' = [quit EXCEPT ![t] = FALSE]
    /\ handler' = t
    /\ Goto(t, "test")
    /\ UNCHANGED <<objVars, ipcVars, srvFrame, out, srvQuit, sessions, sent>>

(* Memory is short.  The thread ends without a word to the others; the     *)
(* client's thread may already have installed its handler.                 *)
InitServerFails(t) ==
    /\ srvPc[t] = "init"
    /\ quit' = [quit EXCEPT ![t] = FALSE]
    /\ handler' \in IF t = "CLIENT" THEN {handler, t} ELSE {handler}
    /\ Goto(t, "done")
    /\ UNCHANGED <<objVars, ipcVars, srvFrame, out, srvQuit, sessions, sent>>

(* while(gGvssQuit == 0) *)
TestQuit(t) ==
    /\ srvPc[t] = "test"
    /\ Goto(t, IF quit[t] THEN "final" ELSE "accept")
    /\ UNCHANGED <<objVars, ipcVars, srvFrame, out, srvQuit, quit, handler,
                   sessions, sent>>

Accept(t) ==
    /\ srvPc[t] = "accept"
    /\ sessions[t] < MaxSessions[t]
    /\ sessions' = [sessions EXCEPT ![t] = @ + 1]
    /\ Goto(t, "on")
    /\ UNCHANGED <<objVars, ipcVars, srvFrame, out, srvQuit, quit, handler, sent>>

(* wait_for_client fails: no server socket, or an error of accept. *)
AcceptFails(t) ==
    /\ srvPc[t] = "accept"
    /\ quit' = [quit EXCEPT ![t] = TRUE]
    /\ Goto(t, "on")
    /\ UNCHANGED <<objVars, ipcVars, srvFrame, out, srvQuit, handler, sessions, sent>>

(* AppClient_On and AppClient_Off begin: the wait for the semaphore. *)
EnterSwitch(t) ==
    /\ srvPc[t] \in {"on", "off"}
    /\ AppClient_Enter
    /\ Goto(t, IF srvPc[t] = "on" THEN "seton" ELSE "setoff")
    /\ UNCHANGED <<target, freeQue, fullQue, content, ipcVars, srvFrame, out,
                   srvQuit, quit, handler, sessions, sent>>

(* AppClient_On ends, then isQuit takes over the global flag for the       *)
(* session.                                                                *)
SwitchOn(t) ==
    /\ srvPc[t] = "seton"
    /\ AppClient_On(t)
    /\ srvQuit' = [srvQuit EXCEPT ![t] = quit[t]]
    /\ Goto(t, "loop")
    /\ UNCHANGED <<freeQue, fullQue, content, ipcVars, srvFrame, out, quit,
                   handler, sessions, sent>>

(* The inner loop ends: isQuit is set, or the connection is found broken.  *)
EndSession(t) ==
    /\ srvPc[t] = "loop"
    /\ srvQuit[t]
    /\ Goto(t, "off")
    /\ UNCHANGED <<objVars, ipcVars, srvFrame, out, srvQuit, quit, handler,
                   sessions, sent>>

ConnectionBroken(t) ==
    /\ srvPc[t] = "loop"
    /\ ~srvQuit[t]
    /\ Goto(t, "off")
    /\ UNCHANGED <<objVars, ipcVars, srvFrame, out, srvQuit, quit, handler,
                   sessions, sent>>

(* Variants of GetFullFrame: one only peeks, one misses the last frame.    *)
PeekFullFrame(t) ==
    /\ srvPc[t] = "loop"
    /\ ~srvQuit[t]
    /\ fullQue[t] # <<>>
    /\ srvFrame' = [srvFrame EXCEPT ![t] = Head(fullQue[t])]
    /\ Goto(t, "format")
    /\ UNCHANGED <<objVars, ipcVars, out, srvQuit, quit, handler, sessions, sent>>

GetFullFrameButLast(t) ==
    /\ srvPc[t] = "loop"
    /\ ~srvQuit[t]
    /\ Len(fullQue[t]) > 1
    /\ srvFrame' = [srvFrame EXCEPT ![t] = Head(fullQue[t])]
    /\ fullQue' = RemoveOldest(fullQue, t)
    /\ Goto(t, "format")
    /\ UNCHANGED <<sem, target, freeQue, content, ipcVars, out, srvQuit, quit,
                   handler, sessions, sent>>

(* The test holds and the full queue has a frame.  With an empty queue the *)
(* thread sleeps and tests again, which changes nothing.                   *)
GetFullFrame(t) ==
    /\ srvPc[t] = "loop"
    /\ ~srvQuit[t]
    /\ fullQue[t] # <<>>
    /\ srvFrame' = [srvFrame EXCEPT ![t] = Head(fullQue[t])]
    /\ fullQue' = RemoveOldest(fullQue, t)
    /\ Goto(t, "format")
    /\ UNCHANGED <<sem, target, freeQue, content, ipcVars, out, srvQuit, quit,
                   handler, sessions, sent>>

(* Variant of FormatResult that reads the frame of the other target. *)
FormatWrongFrame(t) ==
    /\ srvPc[t] = "format"
    /\ out' = [out EXCEPT ![t] = content["CLIENT"][srvFrame[t]]]
    /\ Goto(t, "giveback")
    /\ UNCHANGED <<objVars, ipcVars, srvFrame, srvQuit, quit, handler,
                   sessions, sent>>

(* gvss_dataFormat (PlcMessage has it word by word), or the client's       *)
(* memcpy: the frame's data moves to a buffer of the thread.  The client's *)
(* thread would send zeros for more than sizeof(Gvss_Result_Str) bytes: a  *)
(* result of such a size does not fit pData, of just that size, either, so *)
(* none is taken to be announced.                                          *)
FormatResult(t) ==
    /\ srvPc[t] = "format"
    /\ out' = [out EXCEPT ![t] = content[t][srvFrame[t]]]
    /\ Goto(t, "giveback")
    /\ UNCHANGED <<objVars, ipcVars, srvFrame, srvQuit, quit, handler,
                   sessions, sent>>

(* Variants of GiveBackFrame: one forgets the frame, one clears the        *)
(* pointer first.                                                          *)
ForgetFrame(t) ==
    /\ srvPc[t] = "giveback"
    /\ srvFrame' = [srvFrame EXCEPT ![t] = 0]
    /\ Goto(t, "send")
    /\ UNCHANGED <<objVars, ipcVars, out, srvQuit, quit, handler, sessions, sent>>

GiveBackCleared(t) ==
    /\ srvPc[t] = "giveback"
    /\ HasRoom(freeQue[t])
    /\ srvFrame' = [srvFrame EXCEPT ![t] = 0]
    /\ freeQue' = PutBack(freeQue, t, srvFrame'[t])
    /\ Goto(t, "send")
    /\ UNCHANGED <<sem, target, fullQue, content, ipcVars, out, srvQuit, quit,
                   handler, sessions, sent>>

(* OSA_quePut(FreeQue, frame, OSA_TIMEOUT_FOREVER) waits for room. *)
GiveBackFrame(t) ==
    /\ srvPc[t] = "giveback"
    /\ HasRoom(freeQue[t])
    /\ freeQue' = PutBack(freeQue, t, srvFrame[t])
    /\ srvFrame' = [srvFrame EXCEPT ![t] = 0]
    /\ Goto(t, "send")
    /\ UNCHANGED <<sem, target, fullQue, content, ipcVars, out, srvQuit, quit,
                   handler, sessions, sent>>

AfterSend(t) == IF t = "PLC" THEN "recv" ELSE "loop"

Send(t) ==
    /\ srvPc[t] = "send"
    /\ sent' = [sent EXCEPT ![t] = Append(@, out[t])]
    /\ out' = [out EXCEPT ![t] = 0]
    /\ Goto(t, AfterSend(t))
    /\ UNCHANGED <<objVars, ipcVars, srvFrame, srvQuit, quit, handler, sessions>>

(* send fails; the PLC's thread still waits for the answer. *)
SendFails(t) ==
    /\ srvPc[t] = "send"
    /\ srvQuit' = [srvQuit EXCEPT ![t] = TRUE]
    /\ out' = [out EXCEPT ![t] = 0]
    /\ Goto(t, AfterSend(t))
    /\ UNCHANGED <<objVars, ipcVars, srvFrame, quit, handler, sessions, sent>>

(* The connection is broken, or the PLC's message would be too long.       *)
SkipSend(t) ==
    /\ srvPc[t] = "send"
    /\ srvQuit' = [srvQuit EXCEPT ![t] = TRUE]
    /\ out' = [out EXCEPT ![t] = 0]
    /\ Goto(t, "loop")
    /\ UNCHANGED <<objVars, ipcVars, srvFrame, quit, handler, sessions, sent>>

Answer(t) ==
    /\ srvPc[t] = "recv"
    /\ Goto(t, "loop")
    /\ UNCHANGED <<objVars, ipcVars, srvFrame, out, srvQuit, quit, handler,
                   sessions, sent>>

AnswerFails(t) ==
    /\ srvPc[t] = "recv"
    /\ srvQuit' = [srvQuit EXCEPT ![t] = TRUE]
    /\ Goto(t, "loop")
    /\ UNCHANGED <<objVars, ipcVars, srvFrame, out, quit, handler, sessions, sent>>

(* AppClient_Off ends, then the connection is closed. *)
SwitchOff(t) ==
    /\ srvPc[t] = "setoff"
    /\ AppClient_Off(t)
    /\ Goto(t, "test")
    /\ UNCHANGED <<freeQue, fullQue, content, ipcVars, srvFrame, out, srvQuit,
                   quit, handler, sessions, sent>>

(* Variant of QuitServer that sends DELETE from inside the outer loop. *)
QuitServerInLoop(t) ==
    /\ srvPc[t] = "final"
    /\ AppClient_Quit
    /\ Goto(t, "test")
    /\ UNCHANGED <<objVars, toServer, shm, srvFrame, out, srvQuit, quit,
                   handler, sessions, sent>>

(* After the outer loop: AppClient_Quit, and the thread returns. *)
QuitServer(t) ==
    /\ srvPc[t] = "final"
    /\ AppClient_Quit
    /\ Goto(t, "done")
    /\ UNCHANGED <<objVars, toServer, shm, srvFrame, out, srvQuit, quit,
                   handler, sessions, sent>>

(* The steps a thread takes by itself, those that need the peer of an open *)
(* connection (a send may wait for it to read, a receive for it to         *)
(* answer), and those that only the network or the system can cause.       *)
SrvStep(t) == \/ InitServer(t) \/ TestQuit(t) \/ EnterSwitch(t) \/ SwitchOn(t)
              \/ EndSession(t) \/ GetFullFrame(t) \/ FormatResult(t)
              \/ GiveBackFrame(t) \/ SwitchOff(t) \/ QuitServer(t)

PeerStep(t) == \/ Send(t) \/ SendFails(t) \/ SkipSend(t)
               \/ Answer(t) \/ AnswerFails(t)

NetStep(t) == \/ Accept(t) \/ AcceptFails(t) \/ ConnectionBroken(t)
              \/ InitServerFails(t)
-----------------------------------------------------------------------------
(* The types of the server threads' variables. *)
SrvTypeOK ==
    /\ srvPc \in [Targets -> SrvPcs]
    /\ srvFrame \in [Targets -> Frames \cup {0}]
    /\ out \in [Targets -> Nat]
    /\ srvQuit \in [Targets -> BOOLEAN]
    /\ quit \in [Targets -> BOOLEAN]
    /\ handler \in Targets \cup {"NONE"}
    /\ sessions \in [Targets -> Nat]
    /\ sent \in [Targets -> Seq(Nat)]
    /\ \A t \in Targets :
           srvPc[t] \in {"format", "giveback"} => srvFrame[t] \in Frames
=============================================================================
