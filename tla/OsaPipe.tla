------------------------------ MODULE OsaPipe ------------------------------
(***************************************************************************)
(* The message pipe of interface/src/osa_pipe.c: how its descriptors are   *)
(* chosen, and the count of messages, which the calls keep beside the      *)
(* kernel's pipe without a lock.                                           *)
(*                                                                         *)
(* All messages have the size the pipe was created for (isFixedMessage),   *)
(* and every read asks for it.  totalBytesInPipe, which nothing reads, is  *)
(* left out.  messageCount is read in one step and written in another, as  *)
(* ++ and -- are.                                                          *)
(***************************************************************************)
EXTENDS Integers, FiniteSets

CONSTANTS PipeWriters, PipeReaders,   \* threads
          PipeCapacity,    \* messages the kernel's pipe holds
          MaxInterrupts    \* bound: reads that a signal interrupts

ASSUME PipeAssumption ==
    /\ IsFiniteSet(PipeWriters) /\ IsFiniteSet(PipeReaders)
    /\ PipeCapacity \in Nat /\ MaxInterrupts \in Nat

VARIABLES others,          \* the descriptors the process had before
          open,            \* those it has now
          pfd,             \* those of the pipe, or {}
          leaked,          \* those a creation that failed left open
          inPipe,          \* messages in the kernel's pipe
          messageCount,
          pipePc,          \* "idle", "read", and "inc", "dec" before and
                           \* "inc2", "dec2" after messageCount was read
          seen,            \* the value a thread read
          raced,           \* a count was overwritten that had changed
          crowded,         \* two reads were under way at once
          interrupted      \* reads that a signal interrupted

pipeVars == <<others, open, pfd, leaked, inPipe, messageCount, pipePc, seen, raced,
              crowded, interrupted>>
descriptors == <<others, open, pfd, leaked>>

PipeThreads == PipeWriters \cup PipeReaders
Reserved == 0 .. 2

PipeInit ==
    /\ others \in SUBSET Reserved
    /\ open = others /\ pfd = {} /\ leaked = {}
    /\ inPipe = 0 /\ messageCount = 0
    /\ pipePc = [t \in PipeThreads |-> "idle"]
    /\ seen = [t \in PipeThreads |-> 0]
    /\ raced = FALSE /\ crowded = FALSE
    /\ interrupted = 0

(* pipe(2): the two lowest free descriptors. *)
Lowest(fds) == CHOOSE n \in 0 .. Cardinality(fds) :
                   n \notin fds /\ \A m \in 0 .. n - 1 : m \in fds
PipeOf(fds) == {Lowest(fds), Lowest(fds \cup {Lowest(fds)})}

(* Variant of Backup: the second pipe is taken as it comes. *)
BackupAsItComes(fds) == PipeOf(fds)

(* The pipe that replaces one on reserved descriptors: when it gets one    *)
(* too, a dummy takes its descriptors until the next pipe is made.         *)
Backup(fds) ==
    IF 2 \in PipeOf(fds) THEN PipeOf(fds \cup PipeOf(fds)) ELSE PipeOf(fds)

OnReserved(fds) == PipeOf(fds) \cap Reserved # {}

(* OSA_CreatePipe, by its effect: the first pipe, the replaced second one   *)
(* and the dummy are closed again (lines 53-60, 72-79 and 82-89).  close   *)
(* of a pipe's own descriptor does not fail, so the error paths behind     *)
(* each close are dead; nobody else opens descriptors meanwhile.           *)
CreatePipe ==
    /\ pfd = {}
    /\ pfd' = IF OnReserved(open) THEN Backup(open \cup PipeOf(open))
                                  ELSE PipeOf(open)
    /\ open' = open \cup pfd'
    /\ UNCHANGED <<others, leaked, inPipe, messageCount, pipePc, seen, raced,
                   crowded, interrupted>>

(* It fails when malloc or pipe(2) does.  The handles are freed then, but  *)
(* the first pipe's descriptors stay open when the second pipe or the      *)
(* dummy is not made, and the dummy's, which has the numbers the second    *)
(* pipe gave back, too when the third is not made.  (Bound: once.)         *)
CreateFails ==
    /\ pfd = {} /\ leaked = {}
    /\ OnReserved(open)
    /\ LET first == PipeOf(open)
           second == PipeOf(open \cup first)
       IN  \/ leaked' = first
           \/ 2 \in second /\ leaked' = first \cup second
    /\ open' = open \cup leaked'
    /\ UNCHANGED <<others, pfd, inPipe, messageCount, pipePc, seen, raced,
                   crowded, interrupted>>

(* OSA_DeletePipe, when nobody uses it any more. *)
DeletePipe ==
    /\ pfd # {}
    /\ \A t \in PipeThreads : pipePc[t] = "idle"
    /\ open' = open \ pfd /\ pfd' = {}
    /\ inPipe' = 0 /\ messageCount' = 0
    /\ interrupted' = 0 /\ crowded' = FALSE
    /\ UNCHANGED <<others, leaked, pipePc, seen, raced>>

PipeGoto(t, place) == pipePc' = [pipePc EXCEPT ![t] = place]

(* write(2) puts a message in whole, or waits; one that fails, when a      *)
(* signal interrupts the wait, leaves everything as it was.                *)
WriteMessage(t) ==
    /\ pfd # {} /\ pipePc[t] = "idle"
    /\ inPipe < PipeCapacity
    /\ inPipe' = inPipe + 1
    /\ PipeGoto(t, "inc")
    /\ UNCHANGED <<descriptors, messageCount, seen, raced, crowded, interrupted>>

(* Variant: the count is not looked at. *)
HasMessageAlways == TRUE

HasMessage == messageCount # 0

(* OSA_ReadFromPipe fails at once when the count says there is no message. *)
TestCount(t) ==
    /\ pfd # {} /\ pipePc[t] = "idle"
    /\ HasMessage
    /\ crowded' = (crowded \/ \E u \in PipeReaders : pipePc[u] # "idle")
    /\ PipeGoto(t, "read")
    /\ UNCHANGED <<descriptors, inPipe, messageCount, seen, raced, interrupted>>

(* read(2) waits for a message ... *)
ReadMessage(t) ==
    /\ pipePc[t] = "read"
    /\ inPipe > 0
    /\ inPipe' = inPipe - 1
    /\ PipeGoto(t, "dec")
    /\ UNCHANGED <<descriptors, messageCount, seen, raced, crowded, interrupted>>

(* ... and returns -1, which counts as a message, when it is interrupted.  *)
ReadInterrupted(t) ==
    /\ pipePc[t] = "read"
    /\ interrupted < MaxInterrupts
    /\ interrupted' = interrupted + 1
    /\ PipeGoto(t, "dec")
    /\ UNCHANGED <<descriptors, inPipe, messageCount, seen, raced, crowded>>

LoadCount(t) ==
    /\ pipePc[t] \in {"inc", "dec"}
    /\ seen' = [seen EXCEPT ![t] = messageCount]
    /\ PipeGoto(t, IF pipePc[t] = "inc" THEN "inc2" ELSE "dec2")
    /\ UNCHANGED <<descriptors, inPipe, messageCount, raced, crowded, interrupted>>

Counted(t) == IF pipePc[t] = "inc2" THEN seen[t] + 1 ELSE seen[t] - 1

StoreCount(t) ==
    /\ pipePc[t] \in {"inc2", "dec2"}
    /\ messageCount' = Counted(t)
    /\ raced' = (raced \/ messageCount # seen[t])
    /\ seen' = [seen EXCEPT ![t] = 0]
    /\ PipeGoto(t, "idle")
    /\ UNCHANGED <<descriptors, inPipe, crowded, interrupted>>

(* Bound: nothing is followed further once a count was lost; the count     *)
(* drifts from then on.                                                    *)
PipeNext ==
    /\ ~raced
    /\ \/ CreatePipe \/ CreateFails \/ DeletePipe
       \/ \E t \in PipeWriters : WriteMessage(t)
       \/ \E t \in PipeReaders : TestCount(t) \/ ReadMessage(t) \/ ReadInterrupted(t)
       \/ \E t \in PipeThreads : LoadCount(t) \/ StoreCount(t)

PipeSpec == PipeInit /\ [][PipeNext]_pipeVars
-----------------------------------------------------------------------------
(* osa_pipe.c:61-66: whichever of stdin, stdout and stderr are closed, the *)
(* pipe gets none of their numbers and nobody else's, and the descriptors  *)
(* made on the way are closed again, unless a creation failed.             *)
PipePlaced ==
    /\ open = others \cup leaked \cup pfd
    /\ Cardinality(open) = Cardinality(others) + Cardinality(leaked) + Cardinality(pfd)
    /\ pfd # {} => pfd \cap Reserved = {} /\ Cardinality(pfd) = 2

(* When no call is under way the count is that of the messages in the      *)
(* pipe, less one for each interrupted read, unless two calls changed it   *)
(* at the same time.                                                       *)
CountExact ==
    ((\A t \in PipeThreads : pipePc[t] = "idle") /\ ~raced)
        => messageCount = inPipe - interrupted

(* What the count is for: a reader does not wait in an empty pipe, unless  *)
(* two readers went by the same count or a count was lost.                 *)
ReadFindsMessage ==
    (\E t \in PipeReaders : pipePc[t] = "read") /\ inPipe = 0 => raced \/ crowded

(* The count tells a reader whether to wait, as far as it can without a    *)
(* lock.                                                                   *)
CountServes == CountExact /\ ReadFindsMessage
=============================================================================
