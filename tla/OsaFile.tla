------------------------------ MODULE OsaFile ------------------------------
(***************************************************************************)
(* Whole files read and written by interface/src/osa_file.c, chunk by      *)
(* chunk.  Sizes are counted in a unit that divides the chunks; the C code *)
(* has 32 bits for them, signed in one place: numbers from Int32Limit      *)
(* (there 2^31) on turn negative.                                          *)
(***************************************************************************)
EXTENDS Integers

CONSTANTS ReadChunk, WriteChunk,   \* chunkSize of the two functions
          Int32Limit,
          MaxLength                \* bound: the length of a file

ASSUME FileAssumption ==
    /\ ReadChunk \in Nat \ {0} /\ WriteChunk \in Nat \ {0}
    /\ Int32Limit \in Nat \ {0} /\ MaxLength \in Nat

VARIABLES fileCall,      \* "none", "read", "write", "done"
          size,          \* readSize of the one, size of the other
          length,        \* of the file that is read
          fileSize,      \* bytes read, or bytes still to write
          inKernel,      \* bytes that are written: stdio's at first, and
                         \* after fclose what the kernel has taken of them
          short,         \* fread gave less than there was
          retVal

fileVars == <<fileCall, size, length, fileSize, inKernel, short, retVal>>

Smaller(a, b) == IF a < b THEN a ELSE b

FileInit ==
    /\ fileCall = "none"
    /\ size \in 0 .. 2 * Int32Limit - 1
    /\ length \in 0 .. MaxLength
    /\ fileSize = 0 /\ inKernel = 0
    /\ short = FALSE
    /\ retVal = "SOK"

(* A file that fopen refuses leaves 0 bytes and OSA_EFAIL. *)
OpenRefused ==
    /\ fileCall = "none"
    /\ fileCall' = "done" /\ retVal' = "EFAIL"
    /\ UNCHANGED <<size, length, fileSize, inKernel, short>>

BeginRead ==
    /\ fileCall = "none"
    /\ fileCall' = "read"
    /\ UNCHANGED <<size, length, fileSize, inKernel, short, retVal>>

(* A readSize of 0 asks for all there is. *)
ReadPiece == IF size # 0 THEN Smaller(ReadChunk, size) ELSE ReadChunk

(* Variant: the end of the request is not looked at. *)
HasAllNever(got) == FALSE

HasAll(got) == size # 0 /\ got = size

(* One turn of the loop of OSA_fileReadFile.  It ends at a short fread, or *)
(* when exactly readSize bytes were read; retVal stays OSA_SOK.            *)
ReadTurn ==
    /\ fileCall = "read"
    /\ \E k \in 0 .. Smaller(ReadPiece, length - fileSize) :
          /\ short' = (k < Smaller(ReadPiece, length - fileSize))
          /\ fileSize' = fileSize + k
          /\ fileCall' = IF k # ReadPiece \/ HasAll(fileSize') THEN "done" ELSE "read"
    /\ UNCHANGED <<size, length, inKernel, retVal>>

(* fileSize is an Int32. *)
Signed(n) == IF n < Int32Limit THEN n ELSE n - 2 * Int32Limit

(* A size of 0 leaves a file that is there as it was. *)
BeginWrite ==
    /\ fileCall = "none"
    /\ fileSize' = Signed(size)
    /\ fileCall' = IF size = 0 THEN "done" ELSE "write"
    /\ UNCHANGED <<size, length, inKernel, short, retVal>>

WritePiece == Smaller(WriteChunk, fileSize)

Short(k) == k # WritePiece

(* One turn of the loop of OSA_fileWriteFile. *)
WriteTurn ==
    /\ fileCall = "write" /\ retVal = "SOK"
    /\ fileSize > 0
    /\ \E k \in 0 .. WritePiece :
          /\ inKernel' = inKernel + k
          /\ IF Short(k)
             THEN retVal' = "EFAIL" /\ UNCHANGED fileSize
             ELSE fileSize' = fileSize - WritePiece /\ UNCHANGED retVal
    /\ UNCHANGED <<fileCall, size, length, short>>

(* fflush and fclose, which may lose what was buffered, unnoticed. *)
CloseWritten ==
    /\ fileCall = "write"
    /\ fileSize <= 0 \/ retVal = "EFAIL"
    /\ inKernel' \in 0 .. inKernel
    /\ fileCall' = "done"
    /\ UNCHANGED <<size, length, fileSize, short, retVal>>

FileNext == \/ OpenRefused \/ BeginRead \/ ReadTurn
            \/ BeginWrite \/ WriteTurn \/ CloseWritten

FileSpec == FileInit /\ [][FileNext]_fileVars
-----------------------------------------------------------------------------
(* The sizes the loop of OSA_fileReadFile comes out at: it asks for whole  *)
(* chunks, and a larger request it can step over.                          *)
Reachable == size <= ReadChunk \/ size % ReadChunk = 0

(* A request is never exceeded, and met if the file is long enough, when   *)
(* it is at most a chunk or made of whole chunks.                          *)
ReadAsAsked ==
    (fileCall = "read" /\ Reachable) =>
        /\ size # 0 => fileSize' <= size
        /\ (fileCall' = "done" /\ ~short') =>
              fileSize' = IF size = 0 THEN length ELSE Smaller(size, length)

(* A file that is reported as written is there whole, if its size is one   *)
(* an Int32 has and the kernel took what was buffered.                     *)
WrittenAsReported ==
    (fileCall = "write" /\ fileCall' = "done" /\ retVal = "SOK"
        /\ size < Int32Limit /\ inKernel' = inKernel)
      => inKernel' = size

(* What the two functions report of a file is so. *)
FilesAsReported == [][ReadAsAsked /\ WrittenAsReported]_fileVars
=============================================================================
