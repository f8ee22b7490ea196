------------------------------- MODULE OsaSem -------------------------------
(***************************************************************************)
(* The semaphore of interface/src/osa_sem.c: a count that never exceeds    *)
(* maxCount, a mutex and a condition variable.  One action is one critical *)
(* section, as in OsaQue.                                                  *)
(*                                                                         *)
(* Every semaphore of the repository guards a short section: a thread      *)
(* waits, works, and signals.  Nothing in osa_sem.c makes it: a thread may *)
(* signal without having waited, and wait twice.  inside and misused       *)
(* record what the callers did; no action depends on them.                 *)
(***************************************************************************)
EXTENDS Naturals, FiniteSets

CONSTANTS Threads,
          MaxCount,    \* maxCount of OSA_semCreate
          InitVal      \* initVal of OSA_semCreate

ASSUME SemAssumption == IsFiniteSet(Threads) /\ MaxCount \in Nat /\ InitVal \in Nat

VARIABLES count,       \* hndl->count
          pc,          \* pc[t]: "idle", "wait" (in the condition variable)
                       \* or "woken"
          inside,      \* the threads between their wait and their signal
          misused      \* some thread waited inside or signalled outside

vars == <<count, pc, inside, misused>>

Timeouts == {"NONE", "FOREVER"}
At(s) == {t \in Threads : pc[t] = s}

(* OSA_semCreate: a maximum of 0 becomes 1, and the count is capped. *)
Limit == IF MaxCount = 0 THEN 1 ELSE MaxCount
Init == /\ count = IF InitVal > Limit THEN Limit ELSE InitVal
        /\ pc = [t \in Threads |-> "idle"]
        /\ inside = {}
        /\ misused = FALSE

(* Variant of TakeCount: a thread that was overtaken goes on all the same. *)
TakeCountUntested(t) ==
    /\ count' = IF count > 0 THEN count - 1 ELSE 0
    /\ pc' = [pc EXCEPT ![t] = "idle"]
    /\ inside' = inside \cup {t}

(* The loop of OSA_semWait once the mutex is held. *)
TakeCount(t) ==
    /\ count > 0
    /\ count' = count - 1
    /\ pc' = [pc EXCEPT ![t] = "idle"]
    /\ inside' = inside \cup {t}

BlockWait(t) ==
    /\ count = 0
    /\ pc' = [pc EXCEPT ![t] = "wait"]
    /\ UNCHANGED <<count, inside>>

Misuse(wrong) == misused' = (misused \/ wrong)

(* A wait that fails, count 0 and timeout NONE, changes nothing. *)
semWait(t, timeout) ==
    /\ pc[t] = "idle"
    /\ TakeCount(t) \/ (timeout # "NONE" /\ BlockWait(t))
    /\ Misuse(t \in inside)

(* Variant of semWaitResume that does not test the count again. *)
semWaitResumeUntested(t) ==
    /\ pc[t] = "woken"
    /\ TakeCountUntested(t)
    /\ UNCHANGED misused

semWaitResume(t) ==
    /\ pc[t] = "woken"
    /\ TakeCount(t) \/ BlockWait(t)
    /\ UNCHANGED misused

(* Variant of WakeOne: the signal is forgotten. *)
WakeNobody == UNCHANGED pc

(* pthread_cond_signal wakes one waiter, if there is any. *)
WakeOne == IF At("wait") = {} THEN UNCHANGED pc
           ELSE \E u \in At("wait") : pc' = [pc EXCEPT ![u] = "woken"]

(* OSA_semSignal: at the maximum the signal is dropped. *)
semSignal(t) ==
    /\ pc[t] = "idle"
    /\ inside' = inside \ {t}
    /\ Misuse(t \notin inside)
    /\ IF count < Limit
       THEN count' = count + 1 /\ WakeOne
       ELSE UNCHANGED <<count, pc>>

SpuriousWakeup(t) ==
    /\ pc[t] = "wait"
    /\ pc' = [pc EXCEPT ![t] = "woken"]
    /\ UNCHANGED <<count, inside, misused>>

Next == \E t \in Threads :
           \/ \E timeout \in Timeouts : semWait(t, timeout)
           \/ semWaitResume(t)
           \/ semSignal(t)
           \/ SpuriousWakeup(t)

(* A thread that was woken gets the mutex and runs, and a thread inside    *)
(* comes out: the sections of the repository have no way not to.           *)
Fairness == \A t \in Threads :
               WF_vars(semWaitResume(t)) /\ WF_vars(t \in inside /\ semSignal(t))

Spec == Init /\ [][Next]_vars
FairSpec == Spec /\ Fairness
-----------------------------------------------------------------------------
(* Every variable has its type, and the count stays within its maximum.    *)
TypeOK ==
    /\ count \in 0 .. Limit
    /\ pc \in [Threads -> {"idle", "wait", "woken"}]
    /\ inside \in SUBSET Threads
    /\ misused \in BOOLEAN

(* While a thread waits, each free unit has a woken thread on its way to   *)
(* it: no signal is lost, also when others overtake the woken thread.      *)
NoLostWakeup == At("wait") # {} => count <= Cardinality(At("woken"))

(* As long as it is used as a guard, the semaphore lets no more threads in *)
(* than it was created for, and no unit is lost or made.                   *)
Guarded ==
    ~misused =>
        Cardinality(inside) + count = IF InitVal > Limit THEN Limit ELSE InitVal

(* Threads that wait for the guard do not wait for ever together: one of   *)
(* them gets in.  (Which one, and how often it is overtaken, is open.)     *)
GuardTaken ==
    (At("wait") # {} /\ inside = {} /\ ~misused) ~> (inside # {} \/ misused)
=============================================================================
