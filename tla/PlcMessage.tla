----------------------------- MODULE PlcMessage -----------------------------
(***************************************************************************)
(* What the PLC's thread sends of a result: gvss_dataFormat of             *)
(* src/gvssApp.c and its caller, as 16-bit words, with the sizes of        *)
(* gvssApp.h and gvss_type.h.  A word is what it stands for: <<"area", 3>> *)
(* is the area of the third block, cut to 16 bits.                         *)
(*                                                                         *)
(* The message is GVSSTOPLC_SIZE bytes from where the variable info lies,  *)
(* and info is shorter: 314 bytes.  What lies behind it in the stack is    *)
(* not its own: gvss_dataFormat writes position and distance there (byte   *)
(* 320), memset does not clear it, others may write to it, and send takes  *)
(* it along.  What the others make of what is written there is not in the  *)
(* model, nor what lies behind the message.                                *)
(***************************************************************************)
EXTENDS Integers, Sequences

CONSTANTS Claims,         \* bound: the blockNums the algorithm may claim
          Takes           \* bound: the sets of words behind info that others
                          \* write to before a message is sent

MAX_BLOCK_NUM == 50
GVSSTOPLC_SIZE == 400
Words == 0 .. GVSSTOPLC_SIZE \div 2 - 1
InfoWords == 0 .. 4 + (3 * MAX_BLOCK_NUM + 2)     \* sizeof(GvsstoPlc)
Behind == Words \ InfoWords
FinalWord == 160

ASSUME PlcAssumption == Claims \subseteq Nat /\ Takes \subseteq SUBSET Behind

VARIABLES blockNum,       \* of the result at hand
          memory,         \* info and what lies behind it
          sent,           \* memory was sent as it is now
          plcPc           \* "start", "send" or "done" (with a result)

plcVars == <<blockNum, memory, sent, plcPc>>

Zero == <<"zero">>
Other == <<"other">>

PlcInit ==
    /\ blockNum = 0 /\ sent = FALSE /\ plcPc = "start"
    /\ memory = [i \in Words |-> IF i \in InfoWords THEN Zero ELSE Other]

Areas(n) == [k \in 1 .. n |-> <<"area", k>>]
Places(n) == [j \in 1 .. 2 * n |-> <<IF j % 2 = 1 THEN "x" ELSE "y", (j + 1) \div 2>>]

(* Variant: the number is not written again before the coordinates. *)
DataOneCount(n) == <<<<"num", n>>>> \o Areas(n) \o Places(n)

(* info->data *)
Data(n) == <<<<"num", n>>>> \o Areas(n) \o <<<<"num", n>>>> \o Places(n)

(* memset, then the four flags, the size of the data, the data, and,       *)
(* written before them, the position and the distance.                     *)
Formatted(n) ==
    [i \in Words |-> IF i < 4 THEN <<"flag">>
                     ELSE IF i = 4 THEN <<"num", 4 + 6 * n>>
                     ELSE IF i - 4 \in DOMAIN Data(n) THEN Data(n)[i - 4]
                     ELSE IF i - FinalWord \in 0 .. 1 THEN <<"position">>
                     ELSE IF i - FinalWord \in 2 .. 3 THEN <<"distance">>
                     ELSE IF i \in InfoWords THEN Zero ELSE memory[i]]

Size(n) == 8 + (4 + 6 * n) + 2

(* A result is taken from the queue and formatted. *)
FormatResult ==
    /\ plcPc # "send"
    /\ \E n \in Claims :
          /\ blockNum' = n
          /\ memory' = Formatted(n)
    /\ sent' = FALSE
    /\ plcPc' = "send"

(* Others write to what is theirs behind info; then the message is sent if *)
(* the size of the result allows.  One that does not ends the session.     *)
SendInfo ==
    /\ plcPc = "send"
    /\ \E taken \in Takes :
          memory' = [i \in Words |-> IF i \in taken THEN Other ELSE memory[i]]
    /\ sent' = (Size(blockNum) <= GVSSTOPLC_SIZE)
    /\ plcPc' = "done"
    /\ UNCHANGED blockNum

PlcNext == FormatResult \/ SendInfo

PlcSpec == PlcInit /\ [][PlcNext]_plcVars
-----------------------------------------------------------------------------
(* A result with no more blocks than there are is sent, and whoever reads  *)
(* the message by its own numbers finds each block, whatever happens to    *)
(* the memory behind info: the blocks of the largest result just fit.      *)
(* Not so the position and the distance, which lie behind: there the       *)
(* message has them or what someone else has written since.  (Between 51   *)
(* and 64 blocks a message is sent too, whose last blocks lie there, over  *)
(* the position and the distance.)                                         *)
Readable(n) ==
    LET bytes == memory[4][2]
        num == memory[5][2]
        last == 4 + bytes \div 2
    IN  /\ num = n
        /\ \A k \in 1 .. num : /\ memory[5 + k] = <<"area", k>>
                              /\ memory[5 + num + 2 * k] = <<"x", k>>
                              /\ memory[6 + num + 2 * k] = <<"y", k>>
        /\ memory[6 + num] = <<"num", n>>
        /\ last = 6 + 3 * n /\ last \in InfoWords
MessageReadable ==
    plcPc = "done" /\ blockNum <= MAX_BLOCK_NUM =>
        /\ sent /\ Readable(blockNum)
        /\ memory[FinalWord] \in {<<"position">>, Other}
        /\ memory[FinalWord + 2] \in {<<"distance">>, Other}
=============================================================================
