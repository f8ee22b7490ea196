------------------------------- MODULE ErrLog -------------------------------
(***************************************************************************)
(* The error log of src/log.c and its users: the PLC's thread asks for     *)
(* some results to be saved (gvssApp.c), the main thread saves them        *)
(* (main.c), the log daemon flushes the file (log_deamon.c), and a server  *)
(* thread that leaves calls log_exit.  When the daemon runs its script is  *)
(* in CronSchedule; here it may at any turn.                               *)
(*                                                                         *)
(* A file is what stdio has handed to the kernel of it, in units of which  *)
(* a result takes some, and its name is the minute it was opened in.       *)
(* stdio may write some of its buffer earlier than buffered says, never    *)
(* later.  When the kernel puts it on the device is not in the model.      *)
(***************************************************************************)
EXTENDS Naturals, FiniteSets

CONSTANTS MaxFiles,      \* ERRLOG_FILE_MAXSIZE / ERRLOG_PERFILE_SIZE
          PerFile,       \* ERRLOG_PERFILE_SIZE
          RecordSizes,   \* bound: the sizes blockNum asks for
          MaxRecord,     \* sizeof(Gvss_Result_Str)
          OldFiles,      \* names of the files of earlier runs
          StartMinute, MaxMinute,    \* bounds of the clock that names files
          SaveCount,     \* 5, the results saved before the request is taken back
          Leavers        \* bound: the server threads that may leave

ASSUME LogAssumption ==
    /\ MaxFiles \in Nat /\ PerFile \in Nat \ {0}
    /\ RecordSizes \subseteq Nat \ {0} /\ MaxRecord \in RecordSizes
    /\ MaxMinute \in Nat /\ StartMinute \in 1 .. MaxMinute
    /\ OldFiles \subseteq 1 .. StartMinute
    /\ Cardinality(OldFiles) <= MaxFiles
    /\ SaveCount \in Nat \ {0}
    /\ IsFiniteSet(Leavers)

NoFile == 0
Minutes == 1 .. MaxMinute

VARIABLES minute,
          file,             \* GVSS_ERRDIR: each file and what was written to it
          gvss_errfp,       \* the open file, or NoFile
          fclosed,          \* gvss_errfp is set and its file was closed
          buffered,         \* what stdio has of the open file and did not write
          curerrFileSize,
          lasterrfileName,
          logHndl,          \* count of the semaphore
          logfp,            \* "failed" (log_init), "open", "closed", "null"
          semDeleted,       \* OSA_semDelete(&logHndl) was called
          algSave, saveCnt, plcStatFlag,
          burst,            \* results saved of the current request
          gLogDeamonQuit,
          mainPc, leavePc,
          deamonPc          \* "start", "loop", "sleep", "wait" and "flush"
                            \* (in flushErrLogFile), "done"

deamonVars == <<gLogDeamonQuit, deamonPc>>
fileVars == <<minute, file, gvss_errfp, fclosed, buffered, curerrFileSize,
              lasterrfileName>>
semVars == <<logHndl, logfp, semDeleted>>
saveVars == <<algSave, saveCnt, plcStatFlag, burst>>
vars == <<deamonVars, fileVars, semVars, saveVars, mainPc, leavePc>>

(* log_init: the log opens or does not, and nobody looks at what it        *)
(* returns (main.c:96).  Without it logHndl stays as zeros.                *)
LogInit ==
    /\ logfp \in {"open", "failed"}
    /\ logHndl = IF logfp = "open" THEN 1 ELSE 0
    /\ semDeleted = FALSE

Init ==
    /\ gLogDeamonQuit = FALSE /\ deamonPc = "start"
    /\ LogInit
    /\ minute = StartMinute
    /\ file = [n \in OldFiles |-> PerFile]
    /\ gvss_errfp = NoFile /\ fclosed = FALSE
    /\ buffered = 0 /\ curerrFileSize = 0
    /\ lasterrfileName = NoFile
    /\ algSave = FALSE /\ saveCnt = 0 /\ plcStatFlag = TRUE /\ burst = 0
    /\ mainPc = "idle"
    /\ leavePc = [t \in Leavers |-> "serve"]

(* The semaphore.  OSA_semDelete destroys its mutex and its condition:     *)
(* what a wait then does is undefined.  It may go on, with whatever count  *)
(* and together with others, or wait for ever: CanEnter says when a thread *)
(* may go on, and Fairness does not promise that it does after the         *)
(* deletion.  (The variant tests nothing.)                                 *)
CanEnterAlways == TRUE

CanEnter == logHndl = 1 \/ semDeleted

Enter == CanEnter /\ logHndl' = 0 /\ UNCHANGED <<logfp, semDeleted>>

(* Variant of LeaveSem: no signal when no file is open. *)
LeaveSemIfOpen ==
    /\ logHndl' = IF gvss_errfp = NoFile THEN logHndl ELSE 1
    /\ UNCHANGED <<logfp, semDeleted>>

LeaveSem == logHndl' = 1 /\ UNCHANGED <<logfp, semDeleted>>

(* fflush and fclose write what stdio has of the file, if it is still      *)
(* there.                                                                  *)
FlushBuffer ==
    file' = IF gvss_errfp \in DOMAIN file
            THEN [file EXCEPT ![gvss_errfp] = @ + buffered]
            ELSE file
-----------------------------------------------------------------------------
(* Variant: algSave follows the byte both ways. *)
NextSaveLevel(b) == b

(* A change to DATA_FROM_BAUME asks for results to be saved. *)
NextSave(b) == algSave \/ (b /\ ~plcStatFlag)

(* The PLC's thread got an answer whose first byte is b, DATA_FROM_BAUME   *)
(* or not.                                                                 *)
RecvFlag(b) ==
    /\ plcStatFlag' = b
    /\ algSave' = NextSave(b)
    /\ UNCHANGED <<deamonVars, fileVars, semVars, saveCnt, burst, mainPc, leavePc>>

(* The main thread got a result: if(algSave == 1). *)
TestSave ==
    /\ mainPc = "idle"
    /\ algSave
    /\ mainPc' = "count"
    /\ UNCHANGED <<deamonVars, fileVars, semVars, saveVars, leavePc>>

(* With SaveCount 5, the sixth result of the first request and the fifth   *)
(* of a later one end it, and are saved too.                               *)
CountSave ==
    /\ mainPc = "count"
    /\ IF saveCnt = SaveCount
       THEN algSave' = FALSE /\ saveCnt' = 1 /\ burst' = 0
       ELSE UNCHANGED algSave /\ saveCnt' = saveCnt + 1 /\ burst' = burst + 1
    /\ mainPc' = "write"
    /\ UNCHANGED <<deamonVars, fileVars, semVars, plcStatFlag, leavePc>>

(* logfile_write tests distance and position of a local it never set.      *)
SkipWrite ==
    /\ mainPc = "write"
    /\ mainPc' = "idle"
    /\ UNCHANGED <<deamonVars, fileVars, semVars, saveVars, leavePc>>

(* Variant: one file more. *)
FullLate == Cardinality(DOMAIN file) > MaxFiles

Full == Cardinality(DOMAIN file) >= MaxFiles

(* openErrLogFile returns no file: GVSS_ERRDIR cannot be made or read or   *)
(* is full, the minute had its file already, or fopen fails.  Only the     *)
(* size was reset.                                                         *)
OpenFails ==
    /\ mainPc = "write"
    /\ gvss_errfp = NoFile
    /\ curerrFileSize' = 0
    /\ mainPc' = "idle"
    /\ UNCHANGED <<deamonVars, minute, file, gvss_errfp, fclosed, buffered,
                   lasterrfileName, semVars, saveVars, leavePc>>

(* fopen(errfileName, "w+"): a file of that name is emptied. *)
Create == [n \in DOMAIN file \cup {minute} |-> IF n = minute THEN 0 ELSE file[n]]

(* Variant: the name is not compared. *)
NameIsNewAlways == TRUE

NameIsNew == minute # lasterrfileName

(* openErrLogFile opens a file named after the minute, but never two in a  *)
(* row of one name.                                                        *)
OpenFile ==
    /\ mainPc = "write" /\ gvss_errfp = NoFile
    /\ ~Full
    /\ NameIsNew
    /\ gvss_errfp' = minute
    /\ lasterrfileName' = minute
    /\ file' = Create
    /\ curerrFileSize' = 0
    /\ mainPc' = "fwrite"
    /\ UNCHANGED <<deamonVars, minute, fclosed, buffered, semVars, saveVars,
                   leavePc>>

KeepFile ==
    /\ mainPc = "write"
    /\ gvss_errfp # NoFile
    /\ mainPc' = "fwrite"
    /\ UNCHANGED <<deamonVars, fileVars, semVars, saveVars, leavePc>>

(* A result that claims more blocks than there can be is not written. *)
RefuseRecord ==
    /\ mainPc = "fwrite"
    /\ \E size \in RecordSizes : size > MaxRecord
    /\ mainPc' = "idle"
    /\ UNCHANGED <<deamonVars, fileVars, semVars, saveVars, leavePc>>

FileIsFull(size) == size >= PerFile

(* fwrite; the full file is closed next. *)
WriteRecord ==
    /\ mainPc = "fwrite"
    /\ \E size \in RecordSizes :
           /\ size <= MaxRecord
           /\ buffered' = buffered + size
           /\ curerrFileSize' = curerrFileSize + size
    /\ mainPc' = IF FileIsFull(curerrFileSize') THEN "closing" ELSE "idle"
    /\ UNCHANGED <<deamonVars, minute, file, gvss_errfp, fclosed,
                   lasterrfileName, semVars, saveVars, leavePc>>

(* closeErrLogFile, the semaphore taken: fclose, ... *)
CloseFile ==
    /\ mainPc = "closing"
    /\ Enter
    /\ FlushBuffer /\ buffered' = 0
    /\ fclosed' = TRUE
    /\ mainPc' = "closed"
    /\ UNCHANGED <<deamonVars, minute, gvss_errfp, curerrFileSize,
                   lasterrfileName, saveVars, leavePc>>

(* ... and the pointer is cleared before the semaphore is given back. *)
ClearPointer ==
    /\ mainPc = "closed"
    /\ gvss_errfp' = NoFile /\ fclosed' = FALSE
    /\ LeaveSem
    /\ mainPc' = "idle"
    /\ UNCHANGED <<deamonVars, minute, file, buffered, curerrFileSize,
                   lasterrfileName, saveVars, leavePc>>

(* The message DELETE: the main thread leaves its loop and stops the       *)
(* daemon.                                                                 *)
StopDeamon ==
    /\ mainPc = "idle"
    /\ gLogDeamonQuit' = TRUE
    /\ mainPc' = "join"
    /\ UNCHANGED <<deamonPc, fileVars, semVars, saveVars, leavePc>>
-----------------------------------------------------------------------------
(* The daemon starts, whenever that is, clears the flag, set or not, and   *)
(* runs the script.                                                        *)
DeamonStart ==
    /\ deamonPc = "start"
    /\ gLogDeamonQuit' = FALSE
    /\ deamonPc' = "loop"
    /\ UNCHANGED <<fileVars, semVars, saveVars, mainPc, leavePc>>

LoopPlace == IF gLogDeamonQuit THEN "done" ELSE "sleep"

(* The test of the loop and, when it goes on, of the hours. *)
DeamonLoop ==
    /\ deamonPc = "loop"
    /\ deamonPc' = LoopPlace
    /\ UNCHANGED <<gLogDeamonQuit, fileVars, semVars, saveVars, mainPc, leavePc>>

DeamonWakes ==
    /\ deamonPc = "sleep"
    /\ deamonPc' = "wait"
    /\ UNCHANGED <<gLogDeamonQuit, fileVars, semVars, saveVars, mainPc, leavePc>>

(* flushErrLogFile, once the semaphore is taken: fflush. *)
DeamonEnter ==
    /\ deamonPc = "wait"
    /\ Enter
    /\ deamonPc' = "flush"
    /\ UNCHANGED <<gLogDeamonQuit, fileVars, saveVars, mainPc, leavePc>>

DeamonFlush ==
    /\ deamonPc = "flush"
    /\ FlushBuffer /\ buffered' = 0
    /\ LeaveSem
    /\ deamonPc' = "loop"
    /\ UNCHANGED <<gLogDeamonQuit, minute, gvss_errfp, fclosed, curerrFileSize,
                   lasterrfileName, saveVars, mainPc, leavePc>>

(* The cron script, which is not in the repository, may remove any files   *)
(* when the daemon runs it; it may outlive its caller's next steps.        *)
CronRemoves ==
    /\ deamonPc \in {"loop", "sleep"}
    /\ \E gone \in DOMAIN file :
           file' = [n \in DOMAIN file \ {gone} |-> file[n]]
    /\ UNCHANGED <<deamonVars, minute, gvss_errfp, fclosed, buffered,
                   curerrFileSize, lasterrfileName, semVars, saveVars, mainPc,
                   leavePc>>

(* log_exit, which both server threads call without a lock: fclose and     *)
(* OSA_semDelete ...                                                       *)
ExitDeletes(t) ==
    /\ leavePc[t] = "serve"
    /\ logfp \in {"open", "closed"}
    /\ logfp' = "closed"
    /\ semDeleted' = TRUE
    /\ leavePc' = [leavePc EXCEPT ![t] = "clear"]
    /\ UNCHANGED <<deamonVars, fileVars, logHndl, saveVars, mainPc>>

(* ... and logfp is cleared, in the end or at once.                        *)
ExitClears(t) ==
    /\ \/ leavePc[t] = "clear"
       \/ leavePc[t] = "serve" /\ logfp \in {"failed", "null"}
    /\ logfp' = IF logfp = "failed" THEN logfp ELSE "null"
    /\ leavePc' = [leavePc EXCEPT ![t] = "gone"]
    /\ UNCHANGED <<deamonVars, fileVars, logHndl, semDeleted, saveVars, mainPc>>

Tick ==
    /\ minute < MaxMinute
    /\ minute' = minute + 1
    /\ UNCHANGED <<deamonVars, file, gvss_errfp, fclosed, buffered,
                   curerrFileSize, lasterrfileName, semVars, saveVars, mainPc,
                   leavePc>>

(* A save that has begun, up to its end, but for the wait in it. *)
SaveStep == \/ CountSave \/ SkipWrite \/ OpenFails \/ OpenFile \/ KeepFile
            \/ RefuseRecord \/ WriteRecord \/ ClearPointer

DeamonTurn == DeamonStart \/ DeamonLoop \/ DeamonWakes \/ DeamonFlush

Next == \/ \E b \in BOOLEAN : RecvFlag(b)
        \/ TestSave \/ SaveStep \/ CloseFile \/ StopDeamon
        \/ DeamonTurn \/ DeamonEnter \/ CronRemoves
        \/ \E t \in Leavers : ExitDeletes(t) \/ ExitClears(t)
        \/ Tick

(* The threads run.  Who waits for the semaphore gets it in the end, while *)
(* it exists: each side holds it for a few calls, the daemon every half an *)
(* hour, the main thread once in a file.                                   *)
Fairness == /\ WF_vars(SaveStep) /\ WF_vars(DeamonTurn)
            /\ SF_vars(CloseFile /\ ~semDeleted)
            /\ SF_vars(DeamonEnter /\ ~semDeleted)

Spec == Init /\ [][Next]_vars
FairSpec == Spec /\ Fairness
-----------------------------------------------------------------------------
(* Every variable has its type. *)
TypeOK ==
    /\ gLogDeamonQuit \in BOOLEAN
    /\ deamonPc \in {"start", "loop", "sleep", "wait", "flush", "done"}
    /\ minute \in Minutes
    /\ DOMAIN file \subseteq Minutes /\ \A n \in DOMAIN file : file[n] \in Nat
    /\ gvss_errfp \in Minutes \cup {NoFile}
    /\ lasterrfileName \in Minutes \cup {NoFile}
    /\ fclosed \in BOOLEAN /\ semDeleted \in BOOLEAN
    /\ algSave \in BOOLEAN /\ plcStatFlag \in BOOLEAN
    /\ buffered \in Nat /\ curerrFileSize \in Nat
    /\ logHndl \in 0 .. 1
    /\ logfp \in {"failed", "open", "closed", "null"}
    /\ saveCnt \in 0 .. SaveCount /\ burst \in 0 .. SaveCount
    /\ mainPc \in {"idle", "count", "write", "fwrite", "closing", "closed", "join"}
    /\ leavePc \in [Leavers -> {"serve", "clear", "gone"}]

(* The directory never holds more files than its limit, no file more than  *)
(* its own and one result; both limits are tested with what was counted    *)
(* beside the files.                                                       *)
LogFits ==
    /\ Cardinality(DOMAIN file) <= MaxFiles
    /\ \A n \in DOMAIN file :
           file[n] + (IF n = gvss_errfp THEN buffered ELSE 0)
               < PerFile + MaxRecord

(* The daemon flushes an open file: only after a server thread has deleted *)
(* the semaphore can it meet one that the main thread has just closed.     *)
FlushesOpenFile == deamonPc = "flush" /\ fclosed => semDeleted

(* A file is emptied only by the first open of a run, which may meet a     *)
(* file of an earlier run in the same minute.                              *)
NothingOverwritten ==
    [][ \A n \in DOMAIN file \cap DOMAIN file' :
            file'[n] < file[n] => lasterrfileName = NoFile ]_vars

(* A request is withdrawn by nobody: when algSave falls, SaveCount results *)
(* or one less were saved since it rose, and one more follows.  The main   *)
(* thread tests and clears it without a lock while the PLC's thread sets   *)
(* it; a request that falls in between is the one lost.                    *)
RequestKept == [][ algSave /\ ~algSave' => burst \in SaveCount - 1 .. SaveCount ]_vars

(* There is no semaphore: log_init failed and left one of zeros, that no   *)
(* signal raises, or log_exit has destroyed it.  Who comes to its wait, or *)
(* stands there, may do so for ever.                                       *)
NoSem == logfp = "failed" \/ semDeleted
DeamonHangs == deamonPc = "wait" /\ NoSem
SaveHangs == mainPc = "closing" /\ NoSem

(* A result does not stay in the buffer of stdio while the daemon runs. *)
WrittenIsFlushed ==
    (buffered > 0) ~> (buffered = 0 \/ deamonPc = "done" \/ []DeamonHangs)

(* A save comes back to the main thread. *)
SaveReturns ==
    (mainPc = "closing") ~> (mainPc \in {"idle", "join"} \/ []SaveHangs)

(* The flag stops a daemon that has begun its loop.  (One that starts      *)
(* after the flag was set clears it, and runs on.)                         *)
StopIsSeen ==
    (gLogDeamonQuit /\ deamonPc # "start") ~> (deamonPc = "done" \/ []DeamonHangs)

(* While its semaphore exists the log keeps neither the daemon, the main   *)
(* thread nor the end of the process waiting; and the wait for one that    *)
(* does not exist (flushErrLogFile, closeErrLogFile) is the only thing     *)
(* that ever can.                                                          *)
LogGoesOn == WrittenIsFlushed /\ SaveReturns /\ StopIsSeen
=============================================================================
