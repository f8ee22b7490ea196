------------------------------ MODULE MCOsaLib ------------------------------
(***************************************************************************)
(* The small parts, each by itself: active says which of them runs.  They  *)
(* are the semaphore, the schedule of the log daemon, the message to the   *)
(* PLC, the pipe, the list, the files, the mailboxes, and one server       *)
(* thread with its peers (GvssSession, for what has to happen; the run of  *)
(* MCGvssSession has both threads).                                        *)
(*                                                                         *)
(* Three addresses are one more than the list takes, so that it is full    *)
(* and an address comes back.  Chunks of 2 and sizes below 16 give         *)
(* requests below, at and beyond a chunk, and such as an Int32 has not.    *)
(* The results of no block and a few, of the most there can be, and of one *)
(* more, of the most that is sent and of one more.  Others write to all    *)
(* that lies behind info, to nothing, or to a half of the position.        *)
(* Of the mailboxes' tasks a sends to b and c, and b, from its handler     *)
(* too, to c.                                                              *)
(***************************************************************************)
EXTENDS OsaSem, CronSchedule, PlcMessage, OsaPipe, OsaList, OsaFile,
        OsaMbx, TLC

CONSTANTS Servers, Answered, MaxFd, MsgUnits, MaxSessions, MaxSignals,
          taskA, taskB, taskC

VARIABLES active,
          table, ServerSd, ConnectSd, serverPc, isQuit, quit, handler, peer,
          soError, keepalive, left, expected, torn, late, killed, sessions,
          signals, fickle

Session == INSTANCE GvssSession WITH pc <- serverPc

Parts == {"sem", "cron", "plc", "pipe", "list", "file", "mbx", "session"}
sessionVars == <<table, ServerSd, ConnectSd, serverPc, isQuit, quit, handler,
                 peer, soError, keepalive, left, expected, torn, late, killed,
                 sessions, signals, fickle>>
libVars == <<vars, cronVars, plcVars, pipeVars, listVars, fileVars, mbxVars,
             sessionVars, active>>

FinalHalf == {{}, {FinalWord}, Behind}
Downwards == (taskA :> {taskB, taskC}) @@ (taskB :> {taskC}) @@ (taskC :> {})

LibInit ==
    /\ active \in Parts
    /\ Init /\ CronInit /\ PipeInit /\ ListInit /\ FileInit /\ MbxInit
    /\ Session!Init
    /\ IF active = "plc" THEN PlcInit
       ELSE blockNum = 0 /\ memory = <<>> /\ sent = FALSE /\ plcPc = "start"
    /\ active # "cron" => hour = 0 /\ half = FALSE
    /\ active # "pipe" => others = Reserved
    /\ active # "file" => size = 0 /\ length = 0

LibNext ==
    /\ UNCHANGED active
    /\ \/ /\ active = "sem" /\ Next
          /\ UNCHANGED <<cronVars, plcVars, pipeVars, listVars, fileVars,
                         mbxVars, sessionVars>>
       \/ /\ active = "cron" /\ CronNext
          /\ UNCHANGED <<vars, plcVars, pipeVars, listVars, fileVars,
                         mbxVars, sessionVars>>
       \/ /\ active = "plc" /\ PlcNext
          /\ UNCHANGED <<vars, cronVars, pipeVars, listVars, fileVars,
                         mbxVars, sessionVars>>
       \/ /\ active = "pipe" /\ PipeNext
          /\ UNCHANGED <<vars, cronVars, plcVars, listVars, fileVars,
                         mbxVars, sessionVars>>
       \/ /\ active = "list" /\ ListNext
          /\ UNCHANGED <<vars, cronVars, plcVars, pipeVars, fileVars,
                         mbxVars, sessionVars>>
       \/ /\ active = "file" /\ FileNext
          /\ UNCHANGED <<vars, cronVars, plcVars, pipeVars, listVars,
                         mbxVars, sessionVars>>
       \/ /\ active = "mbx" /\ MbxNext
          /\ UNCHANGED <<vars, cronVars, plcVars, pipeVars, listVars,
                         fileVars, sessionVars>>
       \/ /\ active = "session" /\ Session!Next
          /\ UNCHANGED <<vars, cronVars, plcVars, pipeVars, listVars,
                         fileVars, mbxVars>>

(* The fairness of OsaSem, OsaMbx and GvssSession, for the part that runs. *)
LibFairness ==
    /\ Fairness
    /\ \A t \in Tasks : WF_mbxVars(active = "mbx" /\ Continue(t))
    /\ \A t \in Servers :
          WF_sessionVars(active = "session" /\ Session!ThreadRuns(t))
    /\ WF_sessionVars(active = "session" /\ Session!VanishedNoticed)
    /\ WF_sessionVars(active = "session" /\ Session!ClosedNoticed)

LibSpec == LibInit /\ [][LibNext]_libVars /\ LibFairness
-----------------------------------------------------------------------------
(* See GvssSession: a session whose peer is gone ends. *)
GonePeerNoticed == Session!GonePeerNoticed
=============================================================================
