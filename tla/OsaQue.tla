------------------------------- MODULE OsaQue -------------------------------
(***************************************************************************)
(* The ring queue of interface/src/osa_que.c and its two condition         *)
(* variables.  Every access to the queue lies between the lock and the     *)
(* unlock of hndl->lock, so one action is one critical section: from the   *)
(* lock (or from the return of pthread_cond_wait, which takes the lock     *)
(* again) to the unlock (or to pthread_cond_wait, which releases it).      *)
(*                                                                         *)
(* pthread_cond_signal wakes one waiting thread; a woken thread runs when  *)
(* it gets the lock back and tests the condition again, so another caller  *)
(* may overtake it.  POSIX also lets a wait return without a signal.       *)
(***************************************************************************)
EXTENDS Naturals, Sequences, FiniteSets

CONSTANTS Threads,    \* the threads that use the queue
          Values,     \* what they put into it
          QueLen,     \* maxLen of OSA_queCreate
          NoValue     \* an unwritten slot or output argument

ASSUME QueLenAssumption == QueLen \in Nat \ {0}
ASSUME ThreadsAssumption == IsFiniteSet(Threads)
ASSUME NoValueAssumption == NoValue \notin Values

VARIABLES queue,      \* the ring, indexed from 0
          curRd,      \* the slot the next get reads
          curWr,      \* the slot the next put writes
          count,      \* the number of occupied slots
          pc,         \* pc[t]: where t stands in quePut or queGet
          arg,        \* arg[t]: the value a blocked put carries
          reply       \* reply[t]: how the last call of t ended

vars == <<queue, curRd, curWr, count, pc, arg, reply>>

Idx == 0 .. QueLen - 1
States == {"idle", "waitRd", "wokenRd", "waitWr", "wokenWr"}
Timeouts == {"NONE", "FOREVER"}

At(s) == {t \in Threads : pc[t] = s}

Reply(op, ok, v) == [op |-> op, ok |-> ok, value |-> v]
Replies == [op : {"none", "put", "get"}, ok : BOOLEAN,
            value : Values \cup {NoValue}]
-----------------------------------------------------------------------------
(* OSA_queCreate *)
Init == /\ queue = [i \in Idx |-> NoValue]
        /\ curRd = 0
        /\ curWr = 0
        /\ count = 0
        /\ pc = [t \in Threads |-> "idle"]
        /\ arg = [t \in Threads |-> NoValue]
        /\ reply = [t \in Threads |-> Reply("none", FALSE, NoValue)]

(* t leaves its call; pthread_cond_signal moves one waiter, if there is    *)
(* any, from waiting to woken.                                             *)
SignalAndLeave(t, waiting, woken) ==
    \/ /\ At(waiting) = {}
       /\ pc' = [pc EXCEPT ![t] = "idle"]
    \/ \E u \in At(waiting) :
          pc' = [pc EXCEPT ![t] = "idle", ![u] = woken]

(* Variants of StorePut: one wakes a reader only when the queue was empty, *)
(* one forgets to move curWr on.                                           *)
StorePutSignalIfEmpty(t, v) ==
    /\ count < QueLen
    /\ queue' = [queue EXCEPT ![curWr] = v]
    /\ curWr' = (curWr + 1) % QueLen
    /\ count' = count + 1
    /\ IF count = 0 THEN SignalAndLeave(t, "waitRd", "wokenRd")
                    ELSE pc' = [pc EXCEPT ![t] = "idle"]
    /\ arg' = [arg EXCEPT ![t] = NoValue]
    /\ reply' = [reply EXCEPT ![t] = Reply("put", TRUE, v)]
    /\ UNCHANGED curRd

StorePutInPlace(t, v) ==
    /\ count < QueLen
    /\ queue' = [queue EXCEPT ![curWr] = v]
    /\ count' = count + 1
    /\ SignalAndLeave(t, "waitRd", "wokenRd")
    /\ arg' = [arg EXCEPT ![t] = NoValue]
    /\ reply' = [reply EXCEPT ![t] = Reply("put", TRUE, v)]
    /\ UNCHANGED <<curRd, curWr>>

(* The body of quePut's loop once the lock is held. *)
StorePut(t, v) ==
    /\ count < QueLen
    /\ queue' = [queue EXCEPT ![curWr] = v]
    /\ curWr' = (curWr + 1) % QueLen
    /\ count' = count + 1
    /\ SignalAndLeave(t, "waitRd", "wokenRd")
    /\ arg' = [arg EXCEPT ![t] = NoValue]
    /\ reply' = [reply EXCEPT ![t] = Reply("put", TRUE, v)]
    /\ UNCHANGED curRd

RefusePut(t, v) ==
    /\ count >= QueLen
    /\ reply' = [reply EXCEPT ![t] = Reply("put", FALSE, v)]
    /\ UNCHANGED <<queue, curRd, curWr, count, pc, arg>>

BlockPut(t, v) ==
    /\ count >= QueLen
    /\ pc' = [pc EXCEPT ![t] = "waitWr"]
    /\ arg' = [arg EXCEPT ![t] = v]
    /\ UNCHANGED <<queue, curRd, curWr, count, reply>>

quePut(t, v, timeout) ==
    /\ pc[t] = "idle"
    /\ \/ StorePut(t, v)
       \/ timeout = "NONE" /\ RefusePut(t, v)
       \/ timeout # "NONE" /\ BlockPut(t, v)

quePutResume(t) ==
    /\ pc[t] = "wokenWr"
    /\ StorePut(t, arg[t]) \/ BlockPut(t, arg[t])

(* Variant of FetchGet that moves curRd on before it reads the slot. *)
FetchGetNext(t) ==
    /\ count > 0
    /\ curRd' = (curRd + 1) % QueLen
    /\ reply' = [reply EXCEPT ![t] = Reply("get", TRUE, queue[curRd'])]
    /\ count' = count - 1
    /\ SignalAndLeave(t, "waitWr", "wokenWr")
    /\ UNCHANGED <<queue, curWr, arg>>

(* The body of queGet's loop once the lock is held. *)
FetchGet(t) ==
    /\ count > 0
    /\ reply' = [reply EXCEPT ![t] = Reply("get", TRUE, queue[curRd])]
    /\ curRd' = (curRd + 1) % QueLen
    /\ count' = count - 1
    /\ SignalAndLeave(t, "waitWr", "wokenWr")
    /\ UNCHANGED <<queue, curWr, arg>>

RefuseGet(t) ==
    /\ count = 0
    /\ reply' = [reply EXCEPT ![t] = Reply("get", FALSE, NoValue)]
    /\ UNCHANGED <<queue, curRd, curWr, count, pc, arg>>

BlockGet(t) ==
    /\ count = 0
    /\ pc' = [pc EXCEPT ![t] = "waitRd"]
    /\ UNCHANGED <<queue, curRd, curWr, count, arg, reply>>

queGet(t, timeout) ==
    /\ pc[t] = "idle"
    /\ \/ FetchGet(t)
       \/ timeout = "NONE" /\ RefuseGet(t)
       \/ timeout # "NONE" /\ BlockGet(t)

queGetResume(t) ==
    /\ pc[t] = "wokenRd"
    /\ FetchGet(t) \/ BlockGet(t)

(* A return of pthread_cond_wait that no signal caused. *)
SpuriousWakeup(t) ==
    /\ \/ pc[t] = "waitRd" /\ pc' = [pc EXCEPT ![t] = "wokenRd"]
       \/ pc[t] = "waitWr" /\ pc' = [pc EXCEPT ![t] = "wokenWr"]
    /\ UNCHANGED <<queue, curRd, curWr, count, arg, reply>>

Resume(t) == quePutResume(t) \/ queGetResume(t)

Next == \E t \in Threads :
           \/ \E timeout \in Timeouts :
                 \/ \E v \in Values : quePut(t, v, timeout)
                 \/ queGet(t, timeout)
           \/ Resume(t)
           \/ SpuriousWakeup(t)

(* A thread that was woken gets the lock and runs: nothing holds the lock  *)
(* across a step.  Whether anybody calls the queue is up to the callers.   *)
Fairness == \A t \in Threads : WF_vars(Resume(t))

Spec == Init /\ [][Next]_vars
FairSpec == Spec /\ Fairness
-----------------------------------------------------------------------------
(* Every variable has its type; a blocked put carries its value. *)
TypeOK ==
    /\ queue \in [Idx -> Values \cup {NoValue}]
    /\ curRd \in Idx
    /\ curWr \in Idx
    /\ count \in 0 .. QueLen
    /\ pc \in [Threads -> States]
    /\ arg \in [Threads -> Values \cup {NoValue}]
    /\ reply \in [Threads -> Replies]
    /\ \A t \in Threads : pc[t] \in {"waitWr", "wokenWr"} => arg[t] \in Values

(* The write index is the read index plus the number of queued values,     *)
(* modulo the length, and those slots hold values somebody put: the three  *)
(* fields osa_que.c updates one by one never drift apart.                  *)
RingConsistent ==
    /\ curWr = (curRd + count) % QueLen
    /\ \A i \in Idx : i < count => queue[(curRd + i) % QueLen] \in Values

(* While a reader waits, each queued value already has a woken reader on   *)
(* its way to it (one signal per put is enough), and dually a waiting      *)
(* writer and the free slots: no wakeup is lost, whoever overtakes whom.   *)
(* So readers and writers cannot all wait: the queue would be empty and    *)
(* full.                                                                   *)
NoLostWakeup ==
    /\ At("waitRd") # {} => count <= Cardinality(At("wokenRd"))
    /\ At("waitWr") # {} => QueLen - count <= Cardinality(At("wokenWr"))

(* Values in the queue and readers asleep do not stay together: either the *)
(* queue drains or every sleeping reader is woken.                         *)
ReadersServed == (At("waitRd") # {} /\ count > 0)
                    ~> (At("waitRd") = {} \/ count = 0)

(* The queue as a sequence, oldest value first. *)
Items == [i \in 1 .. count |-> queue[(curRd + i - 1) % QueLen]]

(* The ring with its condition variables implements the first-in first-out *)
(* buffer: blocking, waking and overtaking are invisible in the replies.   *)
Fifo == INSTANCE BoundedFifo WITH items <- Items, Capacity <- QueLen
FifoSpec == Fifo!Spec
=============================================================================
