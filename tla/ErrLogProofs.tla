---------------------------- MODULE ErrLogProofs ----------------------------
(***************************************************************************)
(* Proofs about ErrLog: for any limits, any sizes of results, any files of *)
(* earlier runs, any clock and any server threads that leave.              *)
(***************************************************************************)
EXTENDS ErrLog, FiniteSetTheorems, TLAPS

(* The flags and the places of the threads ... *)
FlagsOK ==
    /\ gLogDeamonQuit \in BOOLEAN
    /\ deamonPc \in {"start", "loop", "sleep", "wait", "flush", "done"}
    /\ fclosed \in BOOLEAN /\ semDeleted \in BOOLEAN
    /\ algSave \in BOOLEAN /\ plcStatFlag \in BOOLEAN
    /\ logfp \in {"failed", "open", "closed", "null"}
    /\ mainPc \in {"idle", "count", "write", "fwrite", "closing", "closed", "join"}
    /\ leavePc \in [Leavers -> {"serve", "clear", "gone"}]

(* ... the files and the numbers.  The results saved of a request keep up  *)
(* with the counter, or are one behind it.                                 *)
NumbersOK ==
    /\ minute \in Minutes
    /\ DOMAIN file \subseteq Minutes /\ \A n \in DOMAIN file : file[n] \in Nat
    /\ gvss_errfp \in Minutes \cup {NoFile}
    /\ lasterrfileName \in Minutes \cup {NoFile}
    /\ buffered \in Nat /\ curerrFileSize \in Nat
    /\ logHndl \in 0 .. 1
    /\ saveCnt \in 0 .. SaveCount /\ burst \in 0 .. SaveCount
    /\ burst = saveCnt \/ burst = saveCnt - 1

LEMMA TypeParts == FlagsOK /\ NumbersOK => TypeOK
  BY DEF FlagsOK, NumbersOK, TypeOK

LEMMA FlagsInit == Init => FlagsOK
  BY DEF Init, LogInit, FlagsOK

LEMMA FlagsStep == FlagsOK /\ [Next]_vars => FlagsOK'
<1> SUFFICES ASSUME FlagsOK, [Next]_vars PROVE FlagsOK'
  OBVIOUS
<1>1. ASSUME NEW b \in BOOLEAN, RecvFlag(b) PROVE FlagsOK'
  BY <1>1 DEF FlagsOK, RecvFlag, NextSave, deamonVars, fileVars, semVars
<1>2. CASE CountSave
  BY <1>2 DEF FlagsOK, CountSave, deamonVars, fileVars, semVars
<1>3. CASE TestSave \/ SkipWrite \/ OpenFails \/ OpenFile \/ KeepFile
           \/ RefuseRecord \/ WriteRecord
  BY <1>3 DEF FlagsOK, TestSave, SkipWrite, OpenFails, OpenFile, KeepFile,
              RefuseRecord, WriteRecord, deamonVars, fileVars, semVars, saveVars
<1>4. CASE CloseFile \/ ClearPointer
  <2>1. fclosed' \in BOOLEAN
    BY <1>4 DEF CloseFile, ClearPointer
  <2>2. mainPc' \in {"closed", "idle"}
        /\ UNCHANGED <<deamonVars, semDeleted, algSave, plcStatFlag, logfp, leavePc>>
    BY <1>4 DEF CloseFile, ClearPointer, Enter, LeaveSem, saveVars
  <2> QED
    BY <2>1, <2>2 DEF FlagsOK, deamonVars
<1>5. CASE StopDeamon \/ DeamonTurn \/ DeamonEnter
  <2>1. gLogDeamonQuit' \in BOOLEAN
    BY <1>5 DEF FlagsOK, StopDeamon, DeamonTurn, DeamonStart, DeamonLoop,
                DeamonWakes, DeamonFlush, DeamonEnter
  <2>2. /\ deamonPc' \in {"start", "loop", "sleep", "wait", "flush", "done"}
        /\ mainPc' \in {mainPc, "join"}
    BY <1>5 DEF FlagsOK, StopDeamon, DeamonTurn, DeamonStart, DeamonLoop,
                LoopPlace, DeamonWakes, DeamonFlush, DeamonEnter
  <2>3. UNCHANGED <<fclosed, semDeleted, algSave, plcStatFlag, logfp, leavePc>>
    BY <1>5 DEF StopDeamon, DeamonTurn, DeamonStart, DeamonLoop, DeamonWakes,
                DeamonFlush, DeamonEnter, Enter, LeaveSem, fileVars, semVars, saveVars
  <2> QED
    BY <2>1, <2>2, <2>3 DEF FlagsOK
<1>6. CASE CronRemoves \/ Tick
  BY <1>6 DEF FlagsOK, CronRemoves, Tick, deamonVars, semVars, saveVars
<1>7. ASSUME NEW t \in Leavers, ExitDeletes(t) \/ ExitClears(t) PROVE FlagsOK'
  <2>1. semDeleted' \in BOOLEAN
    BY <1>7 DEF FlagsOK, ExitDeletes, ExitClears
  <2>2. logfp' \in {"failed", "closed", "null"}
        /\ leavePc' \in [Leavers -> {"serve", "clear", "gone"}]
    BY <1>7 DEF FlagsOK, ExitDeletes, ExitClears
  <2>3. UNCHANGED <<deamonVars, fclosed, algSave, plcStatFlag, mainPc>>
    BY <1>7 DEF ExitDeletes, ExitClears, fileVars, saveVars
  <2> QED
    BY <2>1, <2>2, <2>3 DEF FlagsOK, deamonVars
<1>8. CASE UNCHANGED vars
  BY <1>8 DEF FlagsOK, vars, deamonVars, fileVars, semVars, saveVars
<1> QED
  BY <1>1, <1>2, <1>3, <1>4, <1>5, <1>6, <1>7, <1>8 DEF Next, SaveStep

LEMMA NumbersInit == Init => NumbersOK
<1> SUFFICES ASSUME Init PROVE NumbersOK
  OBVIOUS
<1>1. /\ StartMinute \in Minutes /\ OldFiles \subseteq Minutes
      /\ PerFile \in Nat /\ SaveCount \in Nat
  BY LogAssumption DEF Minutes
<1>2. logHndl \in 0 .. 1
  BY DEF Init, LogInit
<1>3. minute = StartMinute /\ file = [n \in OldFiles |-> PerFile]
  BY DEF Init
<1>4. DOMAIN file \subseteq Minutes /\ \A n \in DOMAIN file : file[n] \in Nat
  BY <1>1, <1>3
<1> QED
  BY <1>1, <1>2, <1>3, <1>4 DEF Init, NumbersOK

LEMMA NumbersStep == NumbersOK /\ [Next]_vars => NumbersOK'
<1> SUFFICES ASSUME NumbersOK, [Next]_vars PROVE NumbersOK'
  OBVIOUS
<1> USE DEF NumbersOK
<1>1. ASSUME NEW b \in BOOLEAN, RecvFlag(b) PROVE NumbersOK'
  BY <1>1 DEF RecvFlag, fileVars, semVars
<1>2. CASE CountSave
  BY <1>2, LogAssumption DEF CountSave, fileVars, semVars
<1>3. CASE TestSave \/ SkipWrite \/ OpenFails \/ KeepFile \/ RefuseRecord \/ StopDeamon
  BY <1>3 DEF TestSave, SkipWrite, OpenFails, KeepFile, RefuseRecord, StopDeamon,
              fileVars, semVars, saveVars
<1>4. CASE OpenFile
  BY <1>4 DEF OpenFile, Create, semVars, saveVars
<1>5. CASE WriteRecord
  BY <1>5, LogAssumption DEF WriteRecord, semVars, saveVars
<1>6. CASE CloseFile
  BY <1>6 DEF CloseFile, FlushBuffer, Enter, saveVars
<1>7. CASE ClearPointer
  BY <1>7 DEF ClearPointer, LeaveSem, saveVars
<1>8. CASE DeamonStart \/ DeamonLoop \/ DeamonWakes
  BY <1>8 DEF DeamonStart, DeamonLoop, DeamonWakes, fileVars, semVars, saveVars
<1>9. CASE DeamonFlush
  BY <1>9 DEF DeamonFlush, FlushBuffer, LeaveSem, saveVars
<1>10. CASE DeamonEnter
  BY <1>10 DEF DeamonEnter, Enter, fileVars, saveVars
<1>11. CASE CronRemoves
  BY <1>11 DEF CronRemoves, semVars, saveVars
<1>12. ASSUME NEW t \in Leavers, ExitDeletes(t) \/ ExitClears(t) PROVE NumbersOK'
  BY <1>12 DEF ExitDeletes, ExitClears, fileVars, saveVars
<1>13. CASE Tick
  BY <1>13, LogAssumption DEF Tick, Minutes, semVars, saveVars
<1>14. CASE UNCHANGED vars
  BY <1>14 DEF vars, fileVars, semVars, saveVars
<1> QED
  BY <1>1, <1>2, <1>3, <1>4, <1>5, <1>6, <1>7, <1>8, <1>9, <1>10, <1>11, <1>12,
     <1>13, <1>14 DEF Next, SaveStep, DeamonTurn

LEMMA TypesHold == Spec => [](FlagsOK /\ NumbersOK)
<1>1. Init => FlagsOK /\ NumbersOK
  BY FlagsInit, NumbersInit
<1>2. FlagsOK /\ NumbersOK /\ [Next]_vars => FlagsOK' /\ NumbersOK'
  BY FlagsStep, NumbersStep
<1> QED
  BY <1>1, <1>2, PTL DEF Spec

(* Every variable of the log keeps its type (log.c:107-114), whatever the  *)
(* threads do.                                                             *)
THEOREM LogTypeCorrect == Spec => []TypeOK
  BY TypesHold, TypeParts, PTL
-----------------------------------------------------------------------------
(* Until a server thread deletes it, the semaphore keeps the main thread,  *)
(* from fclose to the cleared pointer, and the daemon's flush apart.       *)
Excluded ==
    /\ fclosed => mainPc = "closed"
    /\ ~semDeleted => /\ ~(mainPc = "closed" /\ deamonPc = "flush")
                      /\ logHndl = 1 => mainPc # "closed" /\ deamonPc # "flush"

LEMMA ExcludedInit == Init => Excluded
  BY DEF Init, Excluded

LEMMA ExcludedStep == Excluded /\ [Next]_vars => Excluded'
<1> SUFFICES ASSUME Excluded, [Next]_vars PROVE Excluded'
  OBVIOUS
<1> USE DEF Excluded
<1>1. ASSUME NEW b \in BOOLEAN, RecvFlag(b) PROVE Excluded'
  BY <1>1 DEF RecvFlag, deamonVars, fileVars, semVars
<1>2. CASE TestSave \/ CountSave \/ SkipWrite \/ KeepFile \/ RefuseRecord
  BY <1>2 DEF TestSave, CountSave, SkipWrite, KeepFile, RefuseRecord,
              deamonVars, fileVars, semVars
<1>3. CASE OpenFails \/ OpenFile \/ WriteRecord
  BY <1>3 DEF OpenFails, OpenFile, WriteRecord, deamonVars, semVars
<1>4. CASE CloseFile
  BY <1>4 DEF CloseFile, Enter, CanEnter, deamonVars
<1>5. CASE ClearPointer
  BY <1>5 DEF ClearPointer, LeaveSem, deamonVars
<1>6. CASE StopDeamon
  BY <1>6 DEF StopDeamon, fileVars, semVars
<1>7. CASE DeamonStart \/ DeamonLoop \/ DeamonWakes
  BY <1>7 DEF DeamonStart, DeamonLoop, LoopPlace, DeamonWakes, fileVars, semVars
<1>8. CASE DeamonEnter
  BY <1>8 DEF DeamonEnter, Enter, CanEnter, fileVars
<1>9. CASE DeamonFlush
  BY <1>9 DEF DeamonFlush, LeaveSem
<1>10. CASE CronRemoves \/ Tick
  BY <1>10 DEF CronRemoves, Tick, deamonVars, semVars
<1>11. ASSUME NEW t \in Leavers, ExitDeletes(t) \/ ExitClears(t) PROVE Excluded'
  BY <1>11 DEF ExitDeletes, ExitClears, deamonVars, fileVars
<1>12. CASE UNCHANGED vars
  BY <1>12 DEF vars, deamonVars, fileVars, semVars
<1> QED
  BY <1>1, <1>2, <1>3, <1>4, <1>5, <1>6, <1>7, <1>8, <1>9, <1>10, <1>11, <1>12
     DEF Next, SaveStep, DeamonTurn

(* The daemon (log.c:226) meets a file that the main thread has closed and *)
(* not yet forgotten (log.c:219) only after log_exit deleted the semaphore.*)
THEOREM FlushMeetsOpenFile == Spec => []FlushesOpenFile
<1>1. Excluded => FlushesOpenFile
  BY DEF Excluded, FlushesOpenFile
<1> QED
  BY ExcludedInit, ExcludedStep, <1>1, PTL DEF Spec
-----------------------------------------------------------------------------
(* A request (gvssApp.c:156) ends, in main.c:236-242, after SaveCount      *)
(* results or one less, and one more: the counter is never reset, but it   *)
(* and the results of a request stay in step.                              *)
THEOREM RequestsKept == Spec => RequestKept
<1>1. ASSUME NumbersOK, [Next]_vars, algSave, ~algSave'
      PROVE  burst \in SaveCount - 1 .. SaveCount
  <2>1. CASE CountSave
    <3>1. saveCnt = SaveCount
      BY <1>1, <2>1 DEF CountSave
    <3> QED
      BY <1>1, <3>1, LogAssumption DEF NumbersOK
  <2>2. CASE \E b \in BOOLEAN : RecvFlag(b)
    BY <1>1, <2>2 DEF RecvFlag, NextSave
  <2>3. CASE UNCHANGED saveVars
    BY <1>1, <2>3 DEF saveVars
  <2> QED
    BY <1>1, <2>1, <2>2, <2>3
       DEF Next, SaveStep, DeamonTurn, TestSave, SkipWrite, OpenFails, OpenFile,
           KeepFile, RefuseRecord, WriteRecord, CloseFile, ClearPointer,
           StopDeamon, DeamonStart, DeamonLoop, DeamonWakes, DeamonFlush,
           DeamonEnter, CronRemoves, ExitDeletes, ExitClears, Tick, vars
<1>2. NumbersOK /\ [Next]_vars
         => [algSave /\ ~algSave' => burst \in SaveCount - 1 .. SaveCount]_vars
  BY <1>1
<1> QED
  BY TypesHold, <1>2, PTL DEF Spec, RequestKept
-----------------------------------------------------------------------------
(* What is in the open file, with the kernel and in stdio, is at most what *)
(* curerrFileSize counts; a file that is still written has room.           *)
Filled(n) == file[n] + (IF n = gvss_errfp THEN buffered ELSE 0)

Counted ==
    /\ IsFiniteSet(DOMAIN file) /\ Cardinality(DOMAIN file) <= MaxFiles
    /\ \A n \in DOMAIN file : Filled(n) < PerFile + MaxRecord
    /\ gvss_errfp \in DOMAIN file => file[gvss_errfp] + buffered <= curerrFileSize
    /\ gvss_errfp = NoFile => buffered = 0
    /\ curerrFileSize < PerFile + MaxRecord
    /\ mainPc \in {"fwrite", "closing", "closed"} => gvss_errfp # NoFile
    /\ gvss_errfp # NoFile /\ mainPc \notin {"closing", "closed"}
          => curerrFileSize < PerFile
    /\ mainPc = "closed" => buffered = 0

LEMMA SizesType == MaxFiles \in Nat /\ PerFile \in Nat \ {0} /\ MaxRecord \in Nat \ {0}
  BY LogAssumption

LEMMA CountedInit == Init => Counted
<1> SUFFICES ASSUME Init PROVE Counted
  OBVIOUS
<1>1. /\ file = [n \in OldFiles |-> PerFile] /\ buffered = 0 /\ curerrFileSize = 0
      /\ gvss_errfp = NoFile /\ mainPc = "idle"
  BY DEF Init
<1>2. IsFiniteSet(OldFiles) /\ Cardinality(OldFiles) <= MaxFiles
      /\ \A n \in OldFiles : n # NoFile
  <2>1. StartMinute \in Nat /\ OldFiles \subseteq 1 .. StartMinute
    BY LogAssumption
  <2>2. IsFiniteSet(1 .. StartMinute)
    BY <2>1, FS_Interval
  <2>3. IsFiniteSet(OldFiles)
    BY <2>1, <2>2, FS_Subset
  <2>4. \A n \in OldFiles : n # NoFile
    BY <2>1 DEF NoFile
  <2> QED
    BY <2>3, <2>4, LogAssumption
<1> QED
  BY <1>1, <1>2, SizesType DEF Counted, Filled

(* fflush or fclose hands what stdio has to the kernel. *)
LEMMA FlushCounted ==
    ASSUME NumbersOK, Counted, FlushBuffer, buffered' = 0,
           UNCHANGED <<gvss_errfp, curerrFileSize>>
    PROVE  /\ IsFiniteSet(DOMAIN file') /\ Cardinality(DOMAIN file') <= MaxFiles
           /\ \A n \in DOMAIN file' : Filled(n)' < PerFile + MaxRecord
           /\ gvss_errfp' \in DOMAIN file'
                => file'[gvss_errfp'] + buffered' <= curerrFileSize'
<1>1. DOMAIN file' = DOMAIN file
  BY DEF FlushBuffer
<1>2. \A n \in DOMAIN file : file'[n] = Filled(n)
  BY DEF FlushBuffer, Filled, NumbersOK
<1>3. \A n \in DOMAIN file : Filled(n) \in Nat /\ Filled(n)' = file'[n]
  BY <1>2 DEF NumbersOK, Filled
<1>4. gvss_errfp \in DOMAIN file => Filled(gvss_errfp) = file[gvss_errfp] + buffered
  BY DEF Filled
<1> QED
  BY <1>1, <1>2, <1>3, <1>4 DEF Counted

LEMMA CountedStep == NumbersOK /\ Counted /\ [Next]_vars => Counted'
<1> SUFFICES ASSUME NumbersOK, Counted, [Next]_vars PROVE Counted'
  OBVIOUS
<1>1. ASSUME UNCHANGED <<file, gvss_errfp, buffered, curerrFileSize>>,
             mainPc' = mainPc
      PROVE  Counted'
  BY <1>1 DEF Counted, Filled
<1>2. ASSUME NEW b \in BOOLEAN, RecvFlag(b) PROVE Counted'
  BY <1>1, <1>2 DEF RecvFlag, fileVars
<1>3. CASE TestSave \/ CountSave \/ SkipWrite \/ RefuseRecord \/ StopDeamon
  <2>1. UNCHANGED <<file, gvss_errfp, buffered, curerrFileSize>>
    BY <1>3 DEF TestSave, CountSave, SkipWrite, RefuseRecord, StopDeamon, fileVars
  <2>2. /\ mainPc \notin {"closing", "closed"}
        /\ mainPc' \notin {"fwrite", "closing", "closed"}
    BY <1>3 DEF TestSave, CountSave, SkipWrite, RefuseRecord, StopDeamon
  <2> QED
    BY <2>1, <2>2 DEF Counted, Filled
<1>4. CASE OpenFails
  BY <1>4, SizesType DEF OpenFails, Counted, Filled, NumbersOK, NoFile, Minutes
<1>5. CASE OpenFile
  <2>1. /\ DOMAIN file' = DOMAIN file \cup {minute}
        /\ file'[minute] = 0
        /\ \A n \in DOMAIN file \ {minute} : file'[n] = file[n]
    BY <1>5 DEF OpenFile, Create
  <2>2. Cardinality(DOMAIN file) < MaxFiles /\ Cardinality(DOMAIN file) \in Nat
    BY <1>5, SizesType, FS_CardinalityType DEF OpenFile, Full, Counted
  <2>3. IsFiniteSet(DOMAIN file') /\ Cardinality(DOMAIN file') <= MaxFiles
    BY <2>1, <2>2, SizesType, FS_AddElement DEF Counted
  <2>4. /\ gvss_errfp = NoFile /\ buffered = 0 /\ buffered' = 0
        /\ gvss_errfp' = minute /\ minute # NoFile
        /\ curerrFileSize' = 0 /\ mainPc' = "fwrite"
    BY <1>5 DEF OpenFile, Counted, NumbersOK, NoFile, Minutes
  <2>5. \A n \in DOMAIN file' : Filled(n)' < PerFile + MaxRecord
    BY <2>1, <2>4, SizesType DEF Counted, Filled, NumbersOK
  <2> QED
    BY <2>1, <2>3, <2>4, <2>5, SizesType DEF Counted
<1>6. CASE KeepFile
  BY <1>6 DEF KeepFile, fileVars, Counted, Filled
<1>7. CASE WriteRecord
  <2>1. PICK size \in Nat : /\ size <= MaxRecord
                            /\ buffered' = buffered + size
                            /\ curerrFileSize' = curerrFileSize + size
    BY <1>7, LogAssumption DEF WriteRecord
  <2>2. /\ gvss_errfp # NoFile /\ curerrFileSize < PerFile
        /\ UNCHANGED <<file, gvss_errfp>>
    BY <1>7 DEF WriteRecord, Counted
  <2>3. curerrFileSize' < PerFile + MaxRecord
    BY <2>1, <2>2, SizesType DEF NumbersOK
  <2>4. mainPc' = IF curerrFileSize' >= PerFile THEN "closing" ELSE "idle"
    BY <1>7 DEF WriteRecord, FileIsFull
  <2>5. gvss_errfp \in DOMAIN file => file[gvss_errfp] + buffered' <= curerrFileSize'
    BY <2>1 DEF Counted, NumbersOK
  <2>6. \A n \in DOMAIN file : Filled(n)' < PerFile + MaxRecord
    BY <2>1, <2>2, <2>3, <2>5, SizesType DEF Counted, Filled, NumbersOK
  <2> QED
    BY <2>2, <2>3, <2>4, <2>5, <2>6, SizesType, <2>1 DEF Counted, NumbersOK
<1>8. CASE CloseFile
  <2>1. /\ mainPc = "closing" /\ mainPc' = "closed"
        /\ FlushBuffer /\ buffered' = 0 /\ UNCHANGED <<gvss_errfp, curerrFileSize>>
    BY <1>8 DEF CloseFile
  <2> QED
    BY <2>1, FlushCounted DEF Counted
<1>9. CASE ClearPointer
  <2>1. /\ mainPc = "closed" /\ mainPc' = "idle" /\ gvss_errfp' = NoFile
        /\ UNCHANGED <<file, buffered, curerrFileSize>>
    BY <1>9 DEF ClearPointer
  <2>2. NoFile \notin DOMAIN file /\ buffered = 0
    BY <2>1 DEF NumbersOK, Minutes, NoFile, Counted
  <2>3. \A n \in DOMAIN file : Filled(n)' = Filled(n)
    BY <2>1, <2>2 DEF Filled, NumbersOK
  <2> QED
    BY <2>1, <2>2, <2>3 DEF Counted
<1>10. CASE DeamonStart \/ DeamonLoop \/ DeamonWakes \/ DeamonEnter
  BY <1>1, <1>10 DEF DeamonStart, DeamonLoop, DeamonWakes, DeamonEnter, fileVars
<1>11. CASE DeamonFlush
  <2>1. /\ FlushBuffer /\ buffered' = 0
        /\ UNCHANGED <<gvss_errfp, curerrFileSize, mainPc>>
    BY <1>11 DEF DeamonFlush
  <2>2. /\ IsFiniteSet(DOMAIN file') /\ Cardinality(DOMAIN file') <= MaxFiles
        /\ \A n \in DOMAIN file' : Filled(n)' < PerFile + MaxRecord
        /\ gvss_errfp' \in DOMAIN file'
             => file'[gvss_errfp'] + buffered' <= curerrFileSize'
    BY <2>1, FlushCounted
  <2> QED
    BY <2>1, <2>2 DEF Counted
<1>12. CASE CronRemoves
  <2>1. PICK gone \in DOMAIN file : file' = [n \in DOMAIN file \ {gone} |-> file[n]]
    BY <1>12 DEF CronRemoves
  <2>2. IsFiniteSet(DOMAIN file') /\ Cardinality(DOMAIN file') <= MaxFiles
    <3>1. DOMAIN file' = DOMAIN file \ {gone}
      BY <2>1
    <3>2. /\ IsFiniteSet(DOMAIN file \ {gone})
          /\ Cardinality(DOMAIN file \ {gone}) = Cardinality(DOMAIN file) - 1
          /\ Cardinality(DOMAIN file) \in Nat
      BY FS_RemoveElement, FS_CardinalityType DEF Counted
    <3> QED
      BY <3>1, <3>2, SizesType DEF Counted
  <2>3. UNCHANGED <<gvss_errfp, buffered, curerrFileSize, mainPc>>
    BY <1>12 DEF CronRemoves
  <2> QED
    BY <2>1, <2>2, <2>3 DEF Counted, Filled
<1>13. ASSUME NEW t \in Leavers, ExitDeletes(t) \/ ExitClears(t) PROVE Counted'
  BY <1>1, <1>13 DEF ExitDeletes, ExitClears, fileVars
<1>14. CASE Tick
  BY <1>1, <1>14 DEF Tick
<1>15. CASE UNCHANGED vars
  BY <1>1, <1>15 DEF vars, fileVars
<1> QED
  BY <1>2, <1>3, <1>4, <1>5, <1>6, <1>7, <1>8, <1>9, <1>10, <1>11, <1>12, <1>13,
     <1>14, <1>15 DEF Next, SaveStep, DeamonTurn

(* The log fits: the directory keeps its limit (log.c:188) and a file its  *)
(* own and one result (log.c:261), for any limits and sizes, though the    *)
(* script removes files, the open one too.                                 *)
THEOREM LogKeepsLimits == Spec => []LogFits
<1>1. NumbersOK /\ Counted => LogFits
  BY DEF Counted, LogFits, Filled
<1>2. Spec => []Counted
  BY CountedInit, CountedStep, TypesHold, PTL DEF Spec
<1> QED
  BY <1>1, <1>2, TypesHold, PTL
-----------------------------------------------------------------------------
(* After the first open no file has a younger name than the last one.      *)
NamesInOrder ==
    /\ \A n \in DOMAIN file : n <= minute
    /\ lasterrfileName <= minute
    /\ lasterrfileName # NoFile => \A n \in DOMAIN file : n <= lasterrfileName

LEMMA NamesInit == Init => NamesInOrder
  BY LogAssumption DEF Init, NamesInOrder, NoFile

LEMMA NamesStep == NumbersOK /\ NamesInOrder /\ [Next]_vars => NamesInOrder'
<1> SUFFICES ASSUME NumbersOK, NamesInOrder, [Next]_vars PROVE NamesInOrder'
  OBVIOUS
<1>1. ASSUME UNCHANGED <<minute, lasterrfileName>>, DOMAIN file' \subseteq DOMAIN file
      PROVE  NamesInOrder'
  BY <1>1 DEF NamesInOrder
<1>2. CASE OpenFile
  BY <1>2 DEF OpenFile, Create, NamesInOrder, NumbersOK, Minutes
<1>3. CASE Tick
  BY <1>3 DEF Tick, NamesInOrder, NumbersOK, Minutes, NoFile
<1>4. CASE CronRemoves
  BY <1>1, <1>4 DEF CronRemoves
<1>5. CASE CloseFile \/ DeamonFlush
  BY <1>1, <1>5 DEF CloseFile, DeamonFlush, FlushBuffer
<1>6. CASE UNCHANGED <<minute, file, lasterrfileName>>
  BY <1>1, <1>6
<1> QED
  BY <1>2, <1>3, <1>4, <1>5, <1>6
     DEF Next, SaveStep, DeamonTurn, RecvFlag, TestSave, CountSave, SkipWrite,
         OpenFails, KeepFile, RefuseRecord, WriteRecord, ClearPointer, StopDeamon,
         DeamonStart, DeamonLoop, DeamonWakes, DeamonEnter, ExitDeletes, ExitClears,
         fileVars, vars

(* fopen with "w+" (log.c:202) empties a file in the first open of a run   *)
(* only: comparing the name with the last one (log.c:196) is enough for    *)
(* all later ones, since the clock does not go back.                       *)
THEOREM NoLaterOverwrite == Spec => NothingOverwritten
<1> DEFINE Kept == \A n \in DOMAIN file \cap DOMAIN file' :
                      file'[n] < file[n] => lasterrfileName = NoFile
<1>1. ASSUME NumbersOK, NamesInOrder, Next PROVE Kept
  <2>1. CASE OpenFile
    <3>1. lasterrfileName # NoFile => minute \notin DOMAIN file
      BY <1>1, <2>1 DEF OpenFile, NameIsNew, NamesInOrder, NumbersOK, Minutes, NoFile
    <3>2. \A n \in DOMAIN file \ {minute} : file'[n] = file[n]
      BY <2>1 DEF OpenFile, Create
    <3> QED
      BY <1>1, <3>1, <3>2 DEF NumbersOK
  <2>2. CASE CronRemoves
    <3>1. \A n \in DOMAIN file \cap DOMAIN file' : file'[n] = file[n]
      BY <2>2 DEF CronRemoves
    <3> QED
      BY <1>1, <3>1 DEF NumbersOK
  <2>3. CASE CloseFile \/ DeamonFlush
    <3>1. \A n \in DOMAIN file : file'[n] \in {file[n], file[n] + buffered}
      BY <2>3 DEF CloseFile, DeamonFlush, FlushBuffer
    <3> QED
      BY <1>1, <3>1 DEF NumbersOK
  <2>4. CASE UNCHANGED file
    BY <1>1, <2>4 DEF NumbersOK
  <2> QED
    BY <1>1, <2>1, <2>2, <2>3, <2>4
       DEF Next, SaveStep, DeamonTurn, RecvFlag, TestSave, CountSave, SkipWrite,
           OpenFails, KeepFile, RefuseRecord, WriteRecord, ClearPointer, StopDeamon,
           DeamonStart, DeamonLoop, DeamonWakes, DeamonEnter, ExitDeletes,
           ExitClears, Tick, fileVars
<1>2. NumbersOK /\ NamesInOrder /\ [Next]_vars => [Kept]_vars
  BY <1>1
<1>3. Spec => []NamesInOrder
  BY NamesInit, NamesStep, TypesHold, PTL DEF Spec
<1> QED
  BY <1>2, <1>3, TypesHold, PTL DEF Spec, NothingOverwritten
=============================================================================
