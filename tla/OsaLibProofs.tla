---------------------------- MODULE OsaLibProofs ----------------------------
(***************************************************************************)
(* Proofs about the small parts: the semaphore (OsaSem), for any number of *)
(* threads, every maximum and every initial value; the log daemon's hours  *)
(* (CronSchedule); the message to the PLC (PlcMessage); the pipe           *)
(* (OsaPipe), for any number of writers and readers and any capacity; the  *)
(* list (OsaList), for any threads and addresses; and whole files          *)
(* (OsaFile), for every size.                                              *)
(***************************************************************************)
EXTENDS OsaSem, CronSchedule, PlcMessage, OsaPipe, OsaList, OsaFile, QueueLemmas,
        SequenceTheorems, FiniteSetTheorems, WellFoundedInduction, TLAPS

(* The semaphore. *)
LEMMA LimitType == Limit \in Nat \ {0}
  BY SemAssumption DEF Limit

LEMMA TypeInit == Init => TypeOK
<1> SUFFICES ASSUME Init PROVE TypeOK
  OBVIOUS
<1>1. count \in 0 .. Limit
  BY SemAssumption, LimitType DEF Init
<1> QED
  BY <1>1 DEF Init, TypeOK

LEMMA TypeStep == TypeOK /\ [Next]_vars => TypeOK'
<1> SUFFICES ASSUME TypeOK, [Next]_vars PROVE TypeOK'
  OBVIOUS
<1> USE LimitType DEF TypeOK
<1>1. ASSUME NEW t \in Threads, NEW timeout \in Timeouts, semWait(t, timeout)
      PROVE  TypeOK'
  BY <1>1 DEF semWait, TakeCount, BlockWait, Misuse
<1>2. ASSUME NEW t \in Threads, semWaitResume(t) PROVE TypeOK'
  BY <1>2 DEF semWaitResume, TakeCount, BlockWait
<1>3. ASSUME NEW t \in Threads, semSignal(t) PROVE TypeOK'
  BY <1>3 DEF semSignal, WakeOne, At, Misuse
<1>4. ASSUME NEW t \in Threads, SpuriousWakeup(t) PROVE TypeOK'
  BY <1>4 DEF SpuriousWakeup
<1>5. CASE UNCHANGED vars
  BY <1>5 DEF vars
<1> QED
  BY <1>1, <1>2, <1>3, <1>4, <1>5 DEF Next

(* The count never leaves 0 .. maxCount, whatever the callers do, with the *)
(* maximum and the initial value as OSA_semCreate (osa_sem.c:5) caps them. *)
THEOREM SemTypeCorrect == Spec => []TypeOK
<1> QED
  BY TypeInit, TypeStep, PTL DEF Spec
-----------------------------------------------------------------------------
(* The sets of threads that are counted are finite. *)
LEMMA SetsFinite ==
    ASSUME NEW S \in SUBSET Threads
    PROVE  /\ IsFiniteSet(S) /\ Cardinality(S) \in Nat
           /\ \A t : /\ t \notin S => Cardinality(S \cup {t}) = Cardinality(S) + 1
                     /\ t \in S => Cardinality(S \ {t}) = Cardinality(S) - 1
                                   /\ Cardinality(S) > 0
<1>1. IsFiniteSet(S) /\ Cardinality(S) \in Nat
  BY SemAssumption, FS_Subset, FS_CardinalityType
<1>2. \A t : t \in S => Cardinality(S) # 0
  BY <1>1, FS_EmptySet
<1> QED
  BY <1>1, <1>2, FS_AddElement, FS_RemoveElement

LEMMA AtSubset == \A s : At(s) \in SUBSET Threads /\ At(s)' \in SUBSET Threads
  BY DEF At

LEMMA AtCounted ==
    \A s : Cardinality(At(s)) \in Nat /\ Cardinality(At(s)') \in Nat
  BY AtSubset, SetsFinite

LEMMA WakeupInit == Init => NoLostWakeup
  BY DEF Init, NoLostWakeup, At

(* A unit is taken, by a thread that was not waiting. *)
LEMMA TakeWakeup ==
    ASSUME TypeOK, NoLostWakeup, NEW t \in Threads, pc[t] \in {"idle", "woken"},
           TakeCount(t)
    PROVE  NoLostWakeup'
<1>1. At("wait")' = At("wait") /\ At("woken")' = At("woken") \ {t}
  BY DEF TakeCount, At, TypeOK
<1>2. Cardinality(At("woken")') >= Cardinality(At("woken")) - 1
  <2>1. At("woken") \in SUBSET Threads
    BY AtSubset
  <2>2. CASE t \in At("woken")
    BY <1>1, <2>1, <2>2, SetsFinite
  <2>3. CASE t \notin At("woken")
    <3>1. At("woken")' = At("woken")
      BY <1>1, <2>3
    <3> QED
      BY <2>1, <3>1, SetsFinite
  <2> QED
    BY <2>2, <2>3
<1>3. count' = count - 1 /\ count \in Nat
  BY LimitType DEF TakeCount, TypeOK
<1> QED
  BY <1>1, <1>2, <1>3, AtCounted DEF NoLostWakeup

LEMMA BlockWakeup ==
    ASSUME NEW t \in Threads, BlockWait(t) PROVE NoLostWakeup'
  BY AtCounted DEF BlockWait, NoLostWakeup

LEMMA SignalWakeup ==
    ASSUME TypeOK, NoLostWakeup, NEW t \in Threads, semSignal(t)
    PROVE  NoLostWakeup'
<1>1. CASE count < Limit
  <2>1. count' = count + 1 /\ count \in Nat
    BY <1>1, LimitType DEF semSignal, TypeOK
  <2>2. CASE At("wait") = {}
    BY <1>1, <2>2 DEF semSignal, WakeOne, NoLostWakeup, At
  <2>3. CASE At("wait") # {}
    <3>1. PICK u \in At("wait") : pc' = [pc EXCEPT ![u] = "woken"]
      BY <1>1, <2>3 DEF semSignal, WakeOne
    <3>2. At("woken")' = At("woken") \cup {u} /\ u \notin At("woken")
      BY <3>1 DEF At, TypeOK
    <3>3. Cardinality(At("woken")') = Cardinality(At("woken")) + 1
      BY <3>2, AtSubset, SetsFinite
    <3> QED
      BY <2>1, <2>3, <3>3, AtCounted DEF NoLostWakeup
  <2> QED
    BY <2>2, <2>3
<1>2. CASE ~(count < Limit)
  BY <1>2 DEF semSignal, NoLostWakeup, At
<1> QED
  BY <1>1, <1>2

LEMMA SpuriousWakeupKeeps ==
    ASSUME TypeOK, NoLostWakeup, NEW t \in Threads, SpuriousWakeup(t)
    PROVE  NoLostWakeup'
<1>1. /\ At("wait") # {} /\ count' = count /\ count \in Nat
      /\ At("woken")' = At("woken") \cup {t} /\ t \notin At("woken")
  BY LimitType DEF SpuriousWakeup, At, TypeOK
<1>2. Cardinality(At("woken")') = Cardinality(At("woken")) + 1
  BY <1>1, AtSubset, SetsFinite
<1> QED
  BY <1>1, <1>2, AtCounted DEF NoLostWakeup

LEMMA WakeupStep == TypeOK /\ NoLostWakeup /\ [Next]_vars => NoLostWakeup'
<1> SUFFICES ASSUME TypeOK, NoLostWakeup, [Next]_vars PROVE NoLostWakeup'
  OBVIOUS
<1>1. ASSUME NEW t \in Threads, NEW timeout \in Timeouts, semWait(t, timeout)
      PROVE  NoLostWakeup'
  BY <1>1, TakeWakeup, BlockWakeup DEF semWait
<1>2. ASSUME NEW t \in Threads, semWaitResume(t) PROVE NoLostWakeup'
  BY <1>2, TakeWakeup, BlockWakeup DEF semWaitResume
<1>3. CASE UNCHANGED vars
  BY <1>3 DEF vars, NoLostWakeup, At
<1> QED
  BY <1>1, <1>2, <1>3, SignalWakeup, SpuriousWakeupKeeps DEF Next

(* The signal of osa_sem.c:67 wakes one thread for each unit: while a      *)
(* thread waits, every free unit has a woken thread on its way to it.      *)
THEOREM SemWakeupsKept == Spec => []NoLostWakeup
<1> QED
  BY TypeInit, TypeStep, WakeupInit, WakeupStep, PTL DEF Spec
-----------------------------------------------------------------------------
(* What Guarded needs to be inductive: until a thread misuses the guard,   *)
(* the threads that wait for it are outside.                               *)
InitialUnits == IF InitVal > Limit THEN Limit ELSE InitVal
WaitOutside == ~misused => \A t \in inside : pc[t] = "idle"
GuardInv == TypeOK /\ Guarded /\ WaitOutside

LEMMA GuardInit == Init => GuardInv
<1> SUFFICES ASSUME Init PROVE GuardInv
  OBVIOUS
<1>1. Cardinality(inside) = 0
  BY FS_EmptySet DEF Init
<1>2. Guarded
  BY <1>1, SemAssumption, LimitType DEF Init, Guarded
<1> QED
  BY <1>2, TypeInit DEF Init, GuardInv, WaitOutside

(* A thread takes a unit and goes inside: it was outside, or the guard is  *)
(* misused already.                                                        *)
LEMMA TakeGuarded ==
    ASSUME GuardInv, NEW t \in Threads, pc[t] \in {"idle", "woken"}, TakeCount(t),
           ~misused' => ~misused /\ t \notin inside
    PROVE  Guarded' /\ WaitOutside'
<1>1. WaitOutside'
  BY DEF GuardInv, WaitOutside, TakeCount, TypeOK
<1>2. ASSUME ~misused' PROVE Cardinality(inside') + count' = InitialUnits
  <2>1. inside' = inside \cup {t} /\ t \notin inside /\ inside \in SUBSET Threads
    BY <1>2 DEF GuardInv, TakeCount, TypeOK
  <2>2. Cardinality(inside') = Cardinality(inside) + 1 /\ Cardinality(inside) \in Nat
    BY <2>1, SetsFinite
  <2>3. count' = count - 1 /\ count \in Nat
    BY LimitType DEF GuardInv, TakeCount, TypeOK
  <2>4. Cardinality(inside) + count = InitialUnits
    BY <1>2 DEF GuardInv, Guarded, InitialUnits
  <2> QED
    BY <2>2, <2>3, <2>4
<1> QED
  BY <1>1, <1>2 DEF Guarded, InitialUnits

(* A thread comes out.  At the maximum the signal would be dropped, but    *)
(* then nobody is inside.                                                  *)
LEMMA SignalGuarded ==
    ASSUME GuardInv, NEW t \in Threads, semSignal(t)
    PROVE  Guarded' /\ WaitOutside'
<1>1. WaitOutside'
  BY DEF GuardInv, WaitOutside, semSignal, Misuse, WakeOne, At, TypeOK
<1>2. ASSUME ~misused' PROVE Cardinality(inside') + count' = InitialUnits
  <2>1. inside' = inside \ {t} /\ t \in inside /\ inside \in SUBSET Threads
    BY <1>2 DEF GuardInv, semSignal, Misuse, TypeOK
  <2>2. /\ Cardinality(inside') = Cardinality(inside) - 1
        /\ Cardinality(inside) \in Nat /\ Cardinality(inside) > 0
    BY <2>1, SetsFinite
  <2>3. Cardinality(inside) + count = InitialUnits
    BY <1>2 DEF GuardInv, Guarded, InitialUnits, semSignal, Misuse
  <2>4. count \in Nat /\ InitialUnits <= Limit
    BY SemAssumption, LimitType DEF GuardInv, TypeOK, InitialUnits
  <2>5. count < Limit
    BY <2>2, <2>3, <2>4, LimitType
  <2>6. count' = count + 1
    BY <2>5 DEF semSignal
  <2> QED
    BY <2>2, <2>3, <2>4, <2>6
<1> QED
  BY <1>1, <1>2 DEF Guarded, InitialUnits

LEMMA GuardStep == GuardInv /\ [Next]_vars => GuardInv'
<1> SUFFICES ASSUME GuardInv, [Next]_vars PROVE Guarded' /\ WaitOutside'
  BY TypeStep DEF GuardInv
<1>1. ASSUME UNCHANGED <<count, inside>>, ~misused' => ~misused,
             ~misused' => \A t \in inside : pc'[t] = pc[t]
      PROVE  Guarded' /\ WaitOutside'
  BY <1>1 DEF GuardInv, Guarded, WaitOutside
<1>2. ASSUME NEW t \in Threads, NEW timeout \in Timeouts, semWait(t, timeout)
      PROVE  Guarded' /\ WaitOutside'
  <2>1. ~misused' => ~misused /\ t \notin inside
    BY <1>2 DEF semWait, Misuse
  <2>2. CASE TakeCount(t)
    BY <1>2, <2>1, <2>2, TakeGuarded DEF semWait
  <2>3. CASE BlockWait(t)
    BY <1>1, <2>1, <2>3 DEF BlockWait, GuardInv, TypeOK
  <2> QED
    BY <1>2, <2>2, <2>3 DEF semWait
<1>3. ASSUME NEW t \in Threads, semWaitResume(t) PROVE Guarded' /\ WaitOutside'
  <2>1. ~misused' => ~misused /\ t \notin inside
    BY <1>3 DEF semWaitResume, GuardInv, WaitOutside
  <2>2. CASE TakeCount(t)
    BY <1>3, <2>1, <2>2, TakeGuarded DEF semWaitResume
  <2>3. CASE BlockWait(t)
    BY <1>1, <2>1, <2>3 DEF BlockWait, GuardInv, TypeOK
  <2> QED
    BY <1>3, <2>2, <2>3 DEF semWaitResume
<1>4. ASSUME NEW t \in Threads, SpuriousWakeup(t) PROVE Guarded' /\ WaitOutside'
  <2>1. ~misused => t \notin inside
    BY <1>4 DEF SpuriousWakeup, GuardInv, WaitOutside
  <2> QED
    BY <1>1, <1>4, <2>1 DEF SpuriousWakeup, GuardInv, TypeOK
<1>5. CASE UNCHANGED vars
  BY <1>1, <1>5 DEF vars
<1> QED
  BY <1>2, <1>3, <1>4, <1>5, SignalGuarded DEF Next

(* Every semaphore of the repository brackets a section with a wait and a  *)
(* signal.  Used like that, it never lets more threads in than it was      *)
(* created for, and the signal that osa_sem.c drops at the maximum (:65)   *)
(* never is one that somebody needs.                                       *)
THEOREM SemGuards == Spec => []Guarded
<1>1. GuardInv => Guarded
  BY DEF GuardInv
<1> QED
  BY <1>1, GuardInit, GuardStep, PTL DEF Spec
-----------------------------------------------------------------------------
(* The log daemon. *)
(* The hours are those of a watch, and the script runs in time. *)
CronInv ==
    /\ hour \in 0 .. 23 /\ old_hour \in 0 .. 23 /\ half \in BOOLEAN
    /\ hourly \in 0 .. DEMON_RUN_INTER + 1
    /\ hour = (old_hour + hourly) % 24
    /\ CronKeepsUp

(* Before midnight the difference is the hours that have passed; after it, *)
(* it is far too large, and the script runs at once.                       *)
LEMMA CheckInTime ==
    ASSUME NEW new \in 0 .. 23, NEW old \in 0 .. 23,
           NEW passed \in 0 .. DEMON_RUN_INTER + 1,
           new = (old + passed) % 24,
           ~(HoursPassed(new, old) > DEMON_RUN_INTER)
    PROVE  passed <= DEMON_RUN_INTER
<1>1. 2 ^ 16 = 65536
  OBVIOUS
<1> QED
  BY <1>1 DEF HoursPassed, DEMON_RUN_INTER

LEMMA CronInvInit == CronInit => CronInv
  BY DEF CronInit, CronInv, CronKeepsUp, DEMON_RUN_INTER

LEMMA CronInvStep == CronInv /\ [CronNext]_cronVars => CronInv'
<1> SUFFICES ASSUME CronInv, [CronNext]_cronVars PROVE CronInv'
  OBVIOUS
<1>1. CASE CheckHour
  <2>1. CASE HoursPassed(hour, old_hour) > DEMON_RUN_INTER
    BY <1>1, <2>1 DEF CheckHour, CronInv, CronKeepsUp, DEMON_RUN_INTER
  <2>2. CASE ~(HoursPassed(hour, old_hour) > DEMON_RUN_INTER)
    <3>1. hourly <= DEMON_RUN_INTER
      BY <2>2, CheckInTime DEF CronInv
    <3> QED
      BY <1>1, <2>2, <3>1 DEF CheckHour, CronInv, CronKeepsUp
  <2> QED
    BY <2>1, <2>2
<1>2. CASE SleepHalfHour
  BY <1>2 DEF SleepHalfHour, CronInv, CronKeepsUp, DEMON_RUN_INTER
<1>3. CASE UNCHANGED cronVars
  BY <1>3 DEF cronVars, CronInv, CronKeepsUp
<1> QED
  BY <1>1, <1>2, <1>3 DEF CronNext

(* The comparison of the hours (log_deamon.c) is one of unsigned numbers:  *)
(* midnight brings a run forward and never loses one, whatever the hour    *)
(* the daemon started in.                                                  *)
THEOREM CronInTime == CronSpec => []CronKeepsUp
<1>1. CronInv => CronKeepsUp
  BY DEF CronInv
<1> QED
  BY <1>1, CronInvInit, CronInvStep, PTL DEF CronSpec
-----------------------------------------------------------------------------
(* The message to the PLC. *)
(* Where the words of a message of n blocks are: behind four flags and the *)
(* size, the number, the areas, the number and the coordinates.            *)
LEMMA DataWords ==
    ASSUME NEW n \in Nat
    PROVE  /\ DOMAIN Data(n) = 1 .. 2 + 3 * n
           /\ Data(n)[1] = <<"num", n>> /\ Data(n)[2 + n] = <<"num", n>>
           /\ \A k \in 1 .. n : /\ Data(n)[1 + k] = <<"area", k>>
                                /\ Data(n)[1 + n + 2 * k] = <<"x", k>>
                                /\ Data(n)[2 + n + 2 * k] = <<"y", k>>
<1> DEFINE N == <<<<"num", n>>>>
           Any == {<<"num", n>>} \cup {<<a, k>> : a \in {"area", "x", "y"}, k \in Nat}
<1>1. N \in Seq(Any) /\ Len(N) = 1 /\ N[1] = <<"num", n>>
  OBVIOUS
<1>2. Areas(n) \in Seq(Any) /\ Len(Areas(n)) = n
  BY DEF Areas
<1>3. \A j \in 1 .. 2 * n : (j + 1) \div 2 \in Nat
  OBVIOUS
<1>4. Places(n) \in Seq(Any) /\ Len(Places(n)) = 2 * n
  BY <1>3 DEF Places
<1>5. \A k \in 1 .. n : Areas(n)[k] = <<"area", k>>
  BY DEF Areas
<1>6. \A k \in 1 .. n : Places(n)[2 * k - 1] = <<"x", k>> /\ Places(n)[2 * k] = <<"y", k>>
  <2> TAKE k \in 1 .. n
  <2>1. /\ 2 * k - 1 \in 1 .. 2 * n /\ 2 * k \in 1 .. 2 * n
        /\ (2 * k - 1) % 2 = 1 /\ (2 * k) % 2 = 0
        /\ (2 * k - 1 + 1) \div 2 = k /\ (2 * k + 1) \div 2 = k
    OBVIOUS
  <2> QED
    BY <2>1 DEF Places
<1> DEFINE A == Areas(n)
           P == Places(n)
<1>7. Data(n) = N \o A \o N \o P
  BY DEF Data
<1> HIDE DEF N, A, P, Any
<1> DEFINE NA == N \o A
           NAN == N \o A \o N
<1>8. /\ NA \in Seq(Any) /\ Len(NA) = 1 + n
      /\ \A i \in 1 .. 1 + n : NA[i] = IF i <= 1 THEN N[i] ELSE A[i - 1]
  <2>1. A \in Seq(Any) /\ Len(A) = n
    BY <1>2 DEF A
  <2>2. /\ N \o A \in Seq(Any) /\ Len(N \o A) = Len(N) + Len(A)
        /\ \A i \in 1 .. Len(N) + Len(A) :
              (N \o A)[i] = IF i <= Len(N) THEN N[i] ELSE A[i - Len(N)]
    BY <1>1, <2>1, ConcatProperties
  <2> QED
    BY <1>1, <2>1, <2>2
<1> HIDE DEF NA
<1>9. /\ NAN \in Seq(Any) /\ Len(NAN) = 2 + n
      /\ \A i \in 1 .. 2 + n : NAN[i] = IF i <= 1 + n THEN NA[i] ELSE N[i - (1 + n)]
  <2>1. NAN = NA \o N
    BY DEF NA
  <2>2. /\ NA \o N \in Seq(Any) /\ Len(NA \o N) = Len(NA) + Len(N)
        /\ \A i \in 1 .. Len(NA) + Len(N) :
              (NA \o N)[i] = IF i <= Len(NA) THEN NA[i] ELSE N[i - Len(NA)]
    BY <1>1, <1>8, ConcatProperties
  <2> QED
    BY <1>1, <1>8, <2>1, <2>2
<1> HIDE DEF NAN
<1>10. /\ Data(n) \in Seq(Any) /\ Len(Data(n)) = 2 + 3 * n
       /\ \A i \in 1 .. 2 + 3 * n :
             Data(n)[i] = IF i <= 2 + n THEN NAN[i] ELSE P[i - (2 + n)]
  <2>1. P \in Seq(Any) /\ Len(P) = 2 * n
    BY <1>4 DEF P
  <2>2. /\ NAN \o P \in Seq(Any) /\ Len(NAN \o P) = Len(NAN) + Len(P)
        /\ \A i \in 1 .. Len(NAN) + Len(P) :
              (NAN \o P)[i] = IF i <= Len(NAN) THEN NAN[i] ELSE P[i - Len(NAN)]
    BY <1>9, <2>1, ConcatProperties
  <2>3. Data(n) = NAN \o P
    BY <1>7 DEF NAN
  <2> QED
    BY <1>9, <2>1, <2>2, <2>3
<1>11. \A k \in 1 .. n : Data(n)[1 + k] = <<"area", k>>
  <2> TAKE k \in 1 .. n
  <2>1. Data(n)[1 + k] = A[k]
    BY <1>8, <1>9, <1>10
  <2> QED
    BY <1>5, <2>1 DEF A
<1>12. \A k \in 1 .. n : /\ Data(n)[1 + n + 2 * k] = <<"x", k>>
                         /\ Data(n)[2 + n + 2 * k] = <<"y", k>>
  <2> TAKE k \in 1 .. n
  <2>1. Data(n)[1 + n + 2 * k] = P[2 * k - 1] /\ Data(n)[2 + n + 2 * k] = P[2 * k]
    BY <1>10
  <2> QED
    BY <1>6, <2>1 DEF P
<1>13. Data(n)[1] = <<"num", n>> /\ Data(n)[2 + n] = <<"num", n>>
  BY <1>1, <1>8, <1>9, <1>10
<1> QED
  <2>1. DOMAIN Data(n) = 1 .. 2 + 3 * n
    BY <1>10
  <2> QED
    BY <2>1, <1>11, <1>12, <1>13

(* In memory is the last result, formatted; what others write to lies      *)
(* behind it.                                                              *)
PlcLaid(m, n) ==
    /\ m[4] = <<"num", 4 + 6 * n>>
    /\ m[5] = <<"num", n>> /\ m[6 + n] = <<"num", n>>
    /\ \A k \in 1 .. n : /\ m[5 + k] = <<"area", k>>
                         /\ m[5 + n + 2 * k] = <<"x", k>>
                         /\ m[6 + n + 2 * k] = <<"y", k>>
    /\ m[FinalWord] \in {<<"position">>, Other}
    /\ m[FinalWord + 2] \in {<<"distance">>, Other}

PlcInv ==
    /\ plcPc # "start" =>
          /\ blockNum \in Nat
          /\ blockNum <= MAX_BLOCK_NUM => PlcLaid(memory, blockNum)
    /\ plcPc = "done" => sent = (Size(blockNum) <= GVSSTOPLC_SIZE)

LEMMA FormattedReadable ==
    ASSUME NEW n \in 0 .. MAX_BLOCK_NUM, NEW msg, msg = Formatted(n)
    PROVE  /\ Size(n) <= GVSSTOPLC_SIZE
           /\ msg[4] = <<"num", 4 + 6 * n>>
           /\ msg[5] = <<"num", n>> /\ msg[6 + n] = <<"num", n>>
           /\ \A k \in 1 .. n : /\ msg[5 + k] = <<"area", k>>
                                /\ msg[5 + n + 2 * k] = <<"x", k>>
                                /\ msg[6 + n + 2 * k] = <<"y", k>>
           /\ msg[FinalWord] = <<"position">> /\ msg[FinalWord + 2] = <<"distance">>
<1>1. n \in 0 .. 50
  BY DEF MAX_BLOCK_NUM
<1>2. Size(n) <= GVSSTOPLC_SIZE
  BY <1>1 DEF Size, GVSSTOPLC_SIZE
<1>3. Words = 0 .. 199
  BY DEF Words, GVSSTOPLC_SIZE
<1>4. msg[4] = <<"num", 4 + 6 * n>>
  BY <1>1, <1>3 DEF Formatted
<1>5. /\ DOMAIN Data(n) = 1 .. 2 + 3 * n
      /\ Data(n)[1] = <<"num", n>> /\ Data(n)[2 + n] = <<"num", n>>
      /\ \A k \in 1 .. n : /\ Data(n)[1 + k] = <<"area", k>>
                           /\ Data(n)[1 + n + 2 * k] = <<"x", k>>
                           /\ Data(n)[2 + n + 2 * k] = <<"y", k>>
  <2>1. n \in Nat
    BY <1>1
  <2> QED
    BY <2>1, DataWords
<1>6. \A d \in 1 .. 2 + 3 * n : msg[4 + d] = Data(n)[d]
  <2> TAKE d \in 1 .. 2 + 3 * n
  <2>1. 4 + d \in Words /\ (4 + d) - 4 = d /\ ~(4 + d < 4) /\ 4 + d # 4
    BY <1>1, <1>3
  <2> QED
    BY <1>5, <2>1 DEF Formatted
<1>7. msg[5] = <<"num", n>> /\ msg[6 + n] = <<"num", n>>
  <2>1. msg[4 + 1] = Data(n)[1] /\ msg[4 + (2 + n)] = Data(n)[2 + n]
    BY <1>1, <1>6
  <2>2. 4 + 1 = 5 /\ 4 + (2 + n) = 6 + n
    BY <1>1
  <2> QED
    BY <1>5, <2>1, <2>2
<1>8. \A k \in 1 .. n : /\ msg[5 + k] = <<"area", k>>
                        /\ msg[5 + n + 2 * k] = <<"x", k>>
                        /\ msg[6 + n + 2 * k] = <<"y", k>>
  <2> TAKE k \in 1 .. n
  <2>1. /\ msg[4 + (1 + k)] = Data(n)[1 + k]
        /\ msg[4 + (1 + n + 2 * k)] = Data(n)[1 + n + 2 * k]
        /\ msg[4 + (2 + n + 2 * k)] = Data(n)[2 + n + 2 * k]
    BY <1>1, <1>6
  <2>2. 4 + (1 + k) = 5 + k /\ 4 + (1 + n + 2 * k) = 5 + n + 2 * k
        /\ 4 + (2 + n + 2 * k) = 6 + n + 2 * k
    BY <1>1
  <2> QED
    BY <1>5, <2>1, <2>2
<1>9. msg[FinalWord] = <<"position">> /\ msg[FinalWord + 2] = <<"distance">>
  <2>1. 156 \notin DOMAIN Data(n) /\ 158 \notin DOMAIN Data(n)
    BY <1>1, <1>5
  <2> QED
    BY <1>1, <1>3, <2>1 DEF Formatted, FinalWord
<1> QED
  BY <1>2, <1>4, <1>7, <1>8, <1>9

(* What others write leaves the words of info alone. *)
LEMMA TakenLaid ==
    ASSUME NEW n \in 0 .. MAX_BLOCK_NUM, NEW m, NEW r, NEW taken \in SUBSET Behind,
           PlcLaid(m, n),
           r = [i \in Words |-> IF i \in taken THEN Other ELSE m[i]]
    PROVE  PlcLaid(r, n)
<1>1. n \in 0 .. 50
  BY DEF MAX_BLOCK_NUM
<1>2. Words = 0 .. 199 /\ InfoWords = 0 .. 156
  BY DEF Words, GVSSTOPLC_SIZE, InfoWords, MAX_BLOCK_NUM
<1>3. \A i \in 0 .. 156 : r[i] = m[i]
  BY <1>2 DEF Behind
<1>4. \A i \in Words : r[i] \in {m[i], Other}
  OBVIOUS
<1>5. /\ 4 \in 0 .. 156 /\ 5 \in 0 .. 156 /\ 6 + n \in 0 .. 156
      /\ \A k \in 1 .. n : /\ 5 + k \in 0 .. 156
                           /\ 5 + n + 2 * k \in 0 .. 156
                           /\ 6 + n + 2 * k \in 0 .. 156
  BY <1>1
<1>6. r[4] = <<"num", 4 + 6 * n>> /\ r[5] = <<"num", n>> /\ r[6 + n] = <<"num", n>>
  BY <1>3, <1>5 DEF PlcLaid
<1>7. \A k \in 1 .. n : /\ r[5 + k] = <<"area", k>>
                        /\ r[5 + n + 2 * k] = <<"x", k>>
                        /\ r[6 + n + 2 * k] = <<"y", k>>
  BY <1>3, <1>5 DEF PlcLaid
<1>8. FinalWord \in Words /\ FinalWord + 2 \in Words
  BY <1>2 DEF FinalWord
<1>9. /\ r[FinalWord] \in {<<"position">>, Other}
      /\ r[FinalWord + 2] \in {<<"distance">>, Other}
  BY <1>4, <1>8 DEF PlcLaid
<1> QED
  BY <1>6, <1>7, <1>9 DEF PlcLaid

LEMMA PlcStep == ASSUME PlcInv, [PlcNext]_plcVars PROVE PlcInv'
<1>0. MAX_BLOCK_NUM \in Nat
  BY DEF MAX_BLOCK_NUM
<1>1. CASE FormatResult
  <2>1. PICK n \in Claims : blockNum' = n /\ memory' = Formatted(n)
    BY <1>1 DEF FormatResult
  <2>2. n \in Nat
    BY PlcAssumption
  <2>3. n <= MAX_BLOCK_NUM => PlcLaid(memory', n)
    <3> SUFFICES ASSUME n <= MAX_BLOCK_NUM PROVE PlcLaid(memory', n)
      OBVIOUS
    <3>1. n \in 0 .. MAX_BLOCK_NUM
      BY <1>0, <2>2
    <3> QED
      BY <2>1, <3>1, FormattedReadable DEF PlcLaid
  <2>4. plcPc' = "send"
    BY <1>1 DEF FormatResult
  <2> QED
    BY <2>1, <2>2, <2>3, <2>4 DEF PlcInv
<1>2. CASE SendInfo
  <2>1. PICK taken \in Takes :
            memory' = [i \in Words |-> IF i \in taken THEN Other ELSE memory[i]]
    BY <1>2 DEF SendInfo
  <2>2. taken \in SUBSET Behind
    BY PlcAssumption
  <2>3. /\ plcPc = "send" /\ plcPc' = "done" /\ UNCHANGED blockNum
        /\ sent' = (Size(blockNum) <= GVSSTOPLC_SIZE)
    BY <1>2 DEF SendInfo
  <2>4. blockNum \in Nat /\ (blockNum <= MAX_BLOCK_NUM => PlcLaid(memory, blockNum))
    BY <2>3 DEF PlcInv
  <2>5. blockNum <= MAX_BLOCK_NUM => PlcLaid(memory', blockNum)
    <3> SUFFICES ASSUME blockNum <= MAX_BLOCK_NUM PROVE PlcLaid(memory', blockNum)
      OBVIOUS
    <3>1. blockNum \in 0 .. MAX_BLOCK_NUM /\ PlcLaid(memory, blockNum)
      BY <1>0, <2>4
    <3> QED
      BY <2>1, <2>2, <3>1, TakenLaid
  <2> QED
    BY <2>3, <2>4, <2>5 DEF PlcInv, Size
<1>3. CASE UNCHANGED plcVars
  BY <1>3 DEF plcVars, PlcInv
<1> QED
  BY <1>1, <1>2, <1>3 DEF PlcNext

LEMMA InfoReadable == PlcInv => MessageReadable
<1> SUFFICES ASSUME PlcInv, plcPc = "done", blockNum <= MAX_BLOCK_NUM
             PROVE  /\ sent /\ Readable(blockNum)
                    /\ memory[FinalWord] \in {<<"position">>, Other}
                    /\ memory[FinalWord + 2] \in {<<"distance">>, Other}
  BY DEF MessageReadable
<1>1. blockNum \in Nat /\ PlcLaid(memory, blockNum)
  BY DEF PlcInv
<1>2. blockNum \in 0 .. 50
  BY <1>1 DEF MAX_BLOCK_NUM
<1>3. /\ 4 + (4 + 6 * blockNum) \div 2 = 6 + 3 * blockNum
      /\ 6 + 3 * blockNum \in InfoWords
  BY <1>2 DEF InfoWords, MAX_BLOCK_NUM
<1>4. Size(blockNum) <= GVSSTOPLC_SIZE
  BY <1>2 DEF Size, GVSSTOPLC_SIZE
<1>5. memory[4][2] = 4 + 6 * blockNum /\ memory[5][2] = blockNum
  BY <1>1 DEF PlcLaid
<1>6. Readable(blockNum)
  BY <1>1, <1>3, <1>5 DEF Readable, PlcLaid
<1> QED
  BY <1>1, <1>4, <1>6 DEF PlcInv, PlcLaid

(* A result with no more blocks than there can be is sent, and whoever     *)
(* reads the message finds each block where its own numbers say, whatever  *)
(* others write behind the variable it was made in; the position and the   *)
(* distance, which lie there, are in the message or what someone else has  *)
(* written over them is (gvss_dataFormat of gvssApp.c and its caller).     *)
THEOREM PlcReadsResult == PlcSpec => []MessageReadable
<1>1. PlcInit => PlcInv
  BY DEF PlcInit, PlcInv
<1> QED
  BY <1>1, PlcStep, InfoReadable, PTL DEF PlcSpec
-----------------------------------------------------------------------------
(* The pipe. *)
(* Every set of numbers that has one has a least one. *)
LEMMA LeastNumber ==
    ASSUME NEW S \in SUBSET Nat, S # {}
    PROVE  \E n \in S : \A m \in S : n <= m
<1> DEFINE R == {ss \in Nat \X Nat : ss[1] < ss[2]}
<1>1. IsWellFoundedOn(R, Nat)
  BY NatLessThanWellFounded DEF OpToRel
<1>2. PICK n \in S : \A m \in S : ~(<<m, n>> \in R)
  <2> HIDE DEF R
  <2> QED
    BY <1>1, WFMin
<1>3. ASSUME NEW m \in S PROVE n <= m
  <2>1. ~(<<m, n>> \in R) /\ m \in Nat /\ n \in Nat
    BY <1>2
  <2> QED
    BY <2>1
<1> QED
  BY <1>3

(* pipe(2) takes the lowest descriptor that is free. *)
LEMMA LowestFree ==
    ASSUME NEW fds \in SUBSET Nat, IsFiniteSet(fds)
    PROVE  /\ Lowest(fds) \in Nat \ fds
           /\ \A m \in 0 .. Lowest(fds) - 1 : m \in fds
<1> DEFINE c == Cardinality(fds)
           Free == Nat \ fds
<1>1. c \in Nat
  BY FS_CardinalityType
<1>2. Free # {}
  <2> SUFFICES ASSUME Nat \subseteq fds PROVE FALSE
    OBVIOUS
  <2>1. 0 .. c \subseteq fds
    BY <1>1
  <2>2. Cardinality(0 .. c) <= c
    BY <2>1, FS_Subset
  <2>3. Cardinality(0 .. c) = c + 1
    BY <1>1, FS_Interval
  <2> QED
    BY <1>1, <2>2, <2>3
<1>3. PICK n \in Free : \A m \in Free : n <= m
  BY <1>2, LeastNumber
<1>4. \A m \in 0 .. n - 1 : m \in fds
  BY <1>3
<1>5. n <= c
  <2>1. 0 .. n - 1 \subseteq fds
    BY <1>4
  <2>2. Cardinality(0 .. n - 1) <= c
    BY <2>1, FS_Subset
  <2>3. Cardinality(0 .. n - 1) = n
    BY <1>3, FS_Interval
  <2> QED
    BY <2>2, <2>3
<1>6. n \in 0 .. c /\ n \notin fds
  BY <1>1, <1>3, <1>5
<1> HIDE DEF c
<1>7. Lowest(fds) \in 0 .. c /\ Lowest(fds) \notin fds
      /\ \A m \in 0 .. Lowest(fds) - 1 : m \in fds
  BY <1>4, <1>6 DEF Lowest, c
<1> QED
  BY <1>1, <1>7

(* The two descriptors of a pipe: new ones, with everything below taken.   *)
LEMMA PipeOfNew ==
    ASSUME NEW fds \in SUBSET Nat, IsFiniteSet(fds)
    PROVE  /\ PipeOf(fds) \subseteq Nat \ fds
           /\ IsFiniteSet(PipeOf(fds)) /\ Cardinality(PipeOf(fds)) = 2
           /\ 0 \in fds \cup PipeOf(fds) /\ 1 \in fds \cup PipeOf(fds)
           /\ \A n \in Nat : n \in fds /\ (\A m \in 0 .. n : m \in fds)
                 => \A fd \in PipeOf(fds) : n < fd
<1> DEFINE a == Lowest(fds)
           b == Lowest(fds \cup {a})
<1>1. a \in Nat \ fds /\ \A m \in 0 .. a - 1 : m \in fds
  BY LowestFree
<1>2. IsFiniteSet(fds \cup {a}) /\ fds \cup {a} \in SUBSET Nat
  BY <1>1, FS_AddElement
<1>3. b \in Nat \ (fds \cup {a}) /\ \A m \in 0 .. b - 1 : m \in fds \cup {a}
  BY <1>2, LowestFree
<1>4. PipeOf(fds) = {a, b}
  BY DEF PipeOf
<1> HIDE DEF a, b
<1>5. a < b
  BY <1>1, <1>3
<1>6. IsFiniteSet({a, b}) /\ Cardinality({a, b}) = 2
  <2>1. IsFiniteSet({a}) /\ Cardinality({a}) = 1
    BY FS_Singleton
  <2>3. b \notin {a}
    BY <1>3
  <2>2. {a} \cup {b} = {a, b}
    OBVIOUS
  <2> QED
    BY <2>1, <2>2, <2>3, FS_AddElement
<1>7. 0 \in fds \cup {a, b} /\ 1 \in fds \cup {a, b}
  BY <1>1, <1>3, <1>5
<1>8. ASSUME NEW n \in Nat, \A m \in 0 .. n : m \in fds
      PROVE  n < a /\ n < b
  BY <1>1, <1>5, <1>8, <1>3
<1> QED
  BY <1>1, <1>3, <1>4, <1>6, <1>7, <1>8

(* 0 and 1 are taken after the first pair, so that the second holds 2 at   *)
(* most, and then the third holds none of the three.                       *)
LEMMA BackupClear ==
    ASSUME NEW fds \in SUBSET Nat, IsFiniteSet(fds)
    PROVE  LET got == Backup(fds \cup PipeOf(fds)) IN
           /\ got \subseteq Nat \ fds /\ got \cap Reserved = {}
           /\ IsFiniteSet(got) /\ Cardinality(got) = 2
<1> DEFINE one == fds \cup PipeOf(fds)
           two == one \cup PipeOf(one)
<1>1. /\ one \in SUBSET Nat /\ IsFiniteSet(one)
      /\ 0 \in one /\ 1 \in one
  BY PipeOfNew, FS_Union
<1> HIDE DEF one
<1>2. /\ PipeOf(one) \subseteq Nat \ one
      /\ IsFiniteSet(PipeOf(one)) /\ Cardinality(PipeOf(one)) = 2
  BY <1>1, PipeOfNew
<1>3. two \in SUBSET Nat /\ IsFiniteSet(two) /\ one \subseteq two /\ PipeOf(one) \subseteq two
  BY <1>1, <1>2, FS_Union
<1> HIDE DEF two
<1>4. /\ PipeOf(two) \subseteq Nat \ two
      /\ IsFiniteSet(PipeOf(two)) /\ Cardinality(PipeOf(two)) = 2
  BY <1>3, PipeOfNew
<1>5. Backup(one) = IF 2 \in PipeOf(one) THEN PipeOf(two) ELSE PipeOf(one)
  BY DEF Backup, two
<1>6. CASE 2 \in PipeOf(one)
  <2>1. Reserved \subseteq two
    BY <1>1, <1>3, <1>6 DEF Reserved
  <2> QED
    BY <1>3, <1>4, <1>5, <1>6, <2>1 DEF one
<1>7. CASE 2 \notin PipeOf(one)
  <2>1. PipeOf(one) \cap Reserved = {}
    BY <1>1, <1>2, <1>7 DEF Reserved
  <2> QED
    BY <1>2, <1>5, <1>7, <2>1 DEF one
<1> QED
  BY <1>6, <1>7 DEF one

(* The descriptors apart, and the pipe's own beyond the three. *)
FdsInv ==
    /\ others \subseteq Reserved
    /\ leaked \subseteq Nat /\ IsFiniteSet(leaked)
    /\ pfd \subseteq Nat /\ IsFiniteSet(pfd)
    /\ open = others \cup leaked \cup pfd
    /\ others \cap leaked = {} /\ others \cap pfd = {} /\ leaked \cap pfd = {}
    /\ pfd # {} => pfd \cap Reserved = {} /\ Cardinality(pfd) = 2

LEMMA OpenFinite ==
    FdsInv => /\ open \in SUBSET Nat /\ IsFiniteSet(open) /\ IsFiniteSet(others)
<1> SUFFICES ASSUME FdsInv
             PROVE  /\ open \in SUBSET Nat /\ IsFiniteSet(open) /\ IsFiniteSet(others)
  OBVIOUS
<1>1. IsFiniteSet(Reserved) /\ Reserved \subseteq Nat
  <2>1. 0 \in Int /\ 2 \in Int
    OBVIOUS
  <2>2. IsFiniteSet(0 .. 2)
    BY <2>1, FS_Interval
  <2> QED
    BY <2>2 DEF Reserved
<1>2. IsFiniteSet(others)
  BY <1>1, FS_Subset DEF FdsInv
<1>3. IsFiniteSet(others \cup leaked)
  BY <1>2, FS_Union DEF FdsInv
<1> QED
  BY <1>1, <1>2, <1>3, FS_Union DEF FdsInv

LEMMA CountApart ==
    ASSUME NEW S, NEW T, IsFiniteSet(S), IsFiniteSet(T), S \cap T = {}
    PROVE  /\ IsFiniteSet(S \cup T)
           /\ Cardinality(S \cup T) = Cardinality(S) + Cardinality(T)
<1>1. Cardinality(S) \in Nat /\ Cardinality(T) \in Nat /\ Cardinality(S \cap T) = 0
  BY FS_CardinalityType, FS_EmptySet
<1>2. /\ IsFiniteSet(S \cup T)
      /\ Cardinality(S \cup T) = Cardinality(S) + Cardinality(T) - Cardinality(S \cap T)
  BY FS_Union
<1> QED
  BY <1>1, <1>2

LEMMA FdsPlaced == FdsInv => PipePlaced
<1> SUFFICES ASSUME FdsInv PROVE PipePlaced
  OBVIOUS
<1>1. IsFiniteSet(others)
  BY OpenFinite
<1>2. /\ Cardinality(others) \in Nat /\ Cardinality(leaked) \in Nat
      /\ Cardinality(pfd) \in Nat
  BY <1>1, FS_CardinalityType DEF FdsInv
<1>3. /\ IsFiniteSet(others \cup leaked)
      /\ Cardinality(others \cup leaked) = Cardinality(others) + Cardinality(leaked)
  BY <1>1, CountApart DEF FdsInv
<1>4. Cardinality(open) = Cardinality(others \cup leaked) + Cardinality(pfd)
  <2>1. (others \cup leaked) \cap pfd = {} /\ open = (others \cup leaked) \cup pfd
    BY DEF FdsInv
  <2> QED
    BY <1>3, <2>1, CountApart DEF FdsInv
<1> QED
  BY <1>2, <1>3, <1>4 DEF PipePlaced, FdsInv

LEMMA FdsInit == PipeInit => FdsInv
<1> SUFFICES ASSUME PipeInit PROVE FdsInv
  OBVIOUS
<1> QED
  BY FS_EmptySet DEF PipeInit, FdsInv

LEMMA FdsStep == FdsInv /\ [PipeNext]_pipeVars => FdsInv'
<1> SUFFICES ASSUME FdsInv, [PipeNext]_pipeVars PROVE FdsInv'
  OBVIOUS
<1>1. ASSUME UNCHANGED descriptors PROVE FdsInv'
  BY <1>1 DEF descriptors, FdsInv
<1>2. CASE CreatePipe
  <2>1. open \in SUBSET Nat /\ IsFiniteSet(open)
    BY OpenFinite
  <2>2. /\ pfd' \subseteq Nat \ open /\ pfd' \cap Reserved = {}
        /\ IsFiniteSet(pfd') /\ Cardinality(pfd') = 2
    BY <1>2, <2>1, PipeOfNew, BackupClear DEF CreatePipe, OnReserved
  <2> QED
    BY <1>2, <2>2 DEF CreatePipe, FdsInv
<1>3. CASE CreateFails
  <2> DEFINE first == PipeOf(open)
             second == PipeOf(open \cup first)
  <2>1. open \in SUBSET Nat /\ IsFiniteSet(open)
    BY OpenFinite
  <2>2. first \subseteq Nat \ open /\ IsFiniteSet(first)
    BY <2>1, PipeOfNew
  <2>3. open \cup first \in SUBSET Nat /\ IsFiniteSet(open \cup first)
    BY <2>1, <2>2, FS_Union
  <2>4. second \subseteq Nat \ (open \cup first) /\ IsFiniteSet(second)
    BY <2>3, PipeOfNew
  <2>5. leaked' \in {first, first \cup second}
    BY <1>3 DEF CreateFails
  <2> HIDE DEF first, second
  <2>6. leaked' \subseteq Nat \ open /\ IsFiniteSet(leaked')
    BY <2>2, <2>4, <2>5, FS_Union
  <2> QED
    BY <1>3, <2>6 DEF CreateFails, FdsInv
<1>4. CASE DeletePipe
  BY <1>4, FS_EmptySet DEF DeletePipe, FdsInv
<1>5. CASE UNCHANGED pipeVars
  BY <1>1, <1>5 DEF pipeVars, descriptors
<1>6. ASSUME NEW t \in PipeThreads,
             \/ WriteMessage(t) \/ TestCount(t) \/ ReadMessage(t)
             \/ ReadInterrupted(t) \/ LoadCount(t) \/ StoreCount(t)
      PROVE  FdsInv'
  BY <1>1, <1>6 DEF WriteMessage, TestCount, ReadMessage, ReadInterrupted,
                    LoadCount, StoreCount
<1> QED
  BY <1>2, <1>3, <1>4, <1>5, <1>6 DEF PipeNext, PipeThreads

(* The dummy pipe of osa_pipe.c:61-66 is enough: whichever of the three    *)
(* standard descriptors are closed, and whatever earlier creations left    *)
(* open, the pipe is on none of their numbers, and nothing else is open    *)
(* afterwards.                                                             *)
THEOREM PipeOffReserved == PipeSpec => []PipePlaced
<1> QED
  BY FdsInit, FdsStep, FdsPlaced, PTL DEF PipeSpec
-----------------------------------------------------------------------------
(* The threads that have put a message in, or taken one out, and not       *)
(* counted it yet.                                                         *)
Putting == {t \in PipeThreads : pipePc[t] \in {"inc", "inc2"}}
Taking == {t \in PipeThreads : pipePc[t] \in {"dec", "dec2"}}
Reading == {t \in PipeThreads : pipePc[t] \in {"read", "dec", "dec2"}}

PipeTypeOK ==
    /\ inPipe \in Nat /\ messageCount \in Int /\ interrupted \in Nat
    /\ pipePc \in [PipeThreads -> {"idle", "read", "inc", "inc2", "dec", "dec2"}]
    /\ seen \in [PipeThreads -> Int]
    /\ raced \in BOOLEAN /\ crowded \in BOOLEAN
    /\ Reading \subseteq PipeReaders

(* What the threads under way have still to count is the difference ...    *)
Balanced ==
    messageCount + Cardinality(Putting) + interrupted
        = inPipe + Cardinality(Taking)
(* ... and one reader at a time never brings the count below zero.         *)
OneReader ==
    /\ \A t, u \in Reading : t = u
    /\ messageCount >= 0
    /\ Reading # {} => messageCount > 0

CountInv == /\ PipeTypeOK
            /\ ~raced => Balanced
            /\ ~raced /\ ~crowded => OneReader

LEMMA ThreadsCounted ==
    ASSUME NEW S \in SUBSET PipeThreads
    PROVE  /\ Cardinality(S) \in Nat
           /\ \A t : /\ t \notin S => Cardinality(S \cup {t}) = Cardinality(S) + 1
                     /\ t \in S => Cardinality(S \ {t}) = Cardinality(S) - 1
           /\ Cardinality(S) = 0 <=> S = {}
<1>1. IsFiniteSet(PipeThreads)
  BY PipeAssumption, FS_Union DEF PipeThreads
<1>2. IsFiniteSet(S)
  BY <1>1, FS_Subset
<1> QED
  BY <1>2, FS_AddElement, FS_RemoveElement, FS_CardinalityType, FS_EmptySet

LEMMA CountsNatural == Cardinality(Putting) \in Nat /\ Cardinality(Taking) \in Nat
  BY ThreadsCounted DEF Putting, Taking

LEMMA CountInit == PipeInit => CountInv
<1> SUFFICES ASSUME PipeInit PROVE CountInv
  OBVIOUS
<1>1. Putting = {} /\ Taking = {} /\ Reading = {}
  BY DEF PipeInit, Putting, Taking, Reading
<1>2. Cardinality(Putting) = 0 /\ Cardinality(Taking) = 0
  BY <1>1, FS_EmptySet
<1> QED
  <2>1. PipeTypeOK
    <3>1. /\ pipePc \in [PipeThreads -> {"idle", "read", "inc", "inc2", "dec", "dec2"}]
          /\ seen \in [PipeThreads -> Int]
      BY DEF PipeInit
    <3>2. inPipe \in Nat /\ messageCount \in Int /\ interrupted \in Nat
      BY DEF PipeInit
    <3>3. raced \in BOOLEAN /\ crowded \in BOOLEAN
      BY DEF PipeInit
    <3> QED
      BY <1>1, <3>1, <3>2, <3>3 DEF PipeTypeOK
  <2>2. Balanced /\ OneReader
    BY <1>1, <1>2 DEF PipeInit, Balanced, OneReader
  <2> QED
    BY <2>1, <2>2 DEF CountInv

(* A step of one thread moves it and no other. *)
LEMMA OneMoves ==
    ASSUME PipeTypeOK, NEW t \in PipeThreads, NEW p, PipeGoto(t, p)
    PROVE  /\ Putting' = IF p \in {"inc", "inc2"} THEN Putting \cup {t} ELSE Putting \ {t}
           /\ Taking' = IF p \in {"dec", "dec2"} THEN Taking \cup {t} ELSE Taking \ {t}
           /\ Reading' = IF p \in {"read", "dec", "dec2"}
                         THEN Reading \cup {t} ELSE Reading \ {t}
<1>1. pipePc' = [pipePc EXCEPT ![t] = p] /\ DOMAIN pipePc = PipeThreads
  BY DEF PipeGoto, PipeTypeOK
<1>2. \A u \in PipeThreads : pipePc'[u] = IF u = t THEN p ELSE pipePc[u]
  BY <1>1
<1> QED
  BY <1>2 DEF Putting, Taking, Reading

LEMMA TypeStepPipe == CountInv /\ [PipeNext]_pipeVars => PipeTypeOK'
<1> SUFFICES ASSUME PipeTypeOK, [PipeNext]_pipeVars PROVE PipeTypeOK'
  BY DEF CountInv
<1>1. CASE CreatePipe \/ CreateFails
  BY <1>1 DEF CreatePipe, CreateFails, PipeTypeOK, Reading
<1>2. CASE DeletePipe
  <2>1. Reading' = {} /\ pipePc' = pipePc /\ seen' = seen /\ raced' = raced
    BY <1>2 DEF DeletePipe, Reading
  <2>2. inPipe' = 0 /\ messageCount' = 0 /\ interrupted' = 0 /\ crowded' \in BOOLEAN
    BY <1>2 DEF DeletePipe
  <2> QED
    BY <2>1, <2>2 DEF PipeTypeOK
<1>3. CASE UNCHANGED pipeVars
  BY <1>3 DEF pipeVars, PipeTypeOK, Reading
<1>4. ASSUME NEW t \in PipeThreads,
             NEW p \in {"idle", "read", "inc", "inc2", "dec", "dec2"},
             PipeGoto(t, p),
             p \in {"read", "dec", "dec2"} => t \in PipeReaders,
             inPipe' \in Nat, messageCount' \in Int, interrupted' \in Nat,
             seen' \in [PipeThreads -> Int], raced' \in BOOLEAN, crowded' \in BOOLEAN
      PROVE  PipeTypeOK'
  <2>1. Reading' \subseteq Reading \cup {t}
        /\ (p \notin {"read", "dec", "dec2"} => Reading' \subseteq Reading)
    BY <1>4, OneMoves
  <2>2. pipePc' \in [PipeThreads -> {"idle", "read", "inc", "inc2", "dec", "dec2"}]
    BY <1>4 DEF PipeGoto, PipeTypeOK
  <2> QED
    BY <1>4, <2>1, <2>2 DEF PipeTypeOK
<1>5. ASSUME NEW t \in PipeWriters, WriteMessage(t) PROVE PipeTypeOK'
  <2>1. PipeGoto(t, "inc") /\ t \in PipeThreads
    BY <1>5 DEF WriteMessage, PipeThreads
  <2> QED
    BY <1>4, <1>5, <2>1 DEF WriteMessage, PipeTypeOK
<1>6. ASSUME NEW t \in PipeReaders, TestCount(t) PROVE PipeTypeOK'
  <2>1. PipeGoto(t, "read") /\ t \in PipeThreads /\ crowded' \in BOOLEAN
    BY <1>6 DEF TestCount, PipeThreads
  <2> QED
    BY <1>4, <1>6, <2>1 DEF TestCount, PipeTypeOK
<1>7. ASSUME NEW t \in PipeReaders, ReadMessage(t) \/ ReadInterrupted(t)
      PROVE  PipeTypeOK'
  <2>1. PipeGoto(t, "dec") /\ t \in PipeThreads
    BY <1>7 DEF ReadMessage, ReadInterrupted, PipeThreads
  <2>2. inPipe' \in Nat /\ interrupted' \in Nat
    BY <1>7 DEF ReadMessage, ReadInterrupted, PipeTypeOK
  <2> QED
    BY <1>4, <1>7, <2>1, <2>2 DEF ReadMessage, ReadInterrupted, PipeTypeOK
<1>8. ASSUME NEW t \in PipeThreads, LoadCount(t) PROVE PipeTypeOK'
  <2>1. seen' \in [PipeThreads -> Int]
    BY <1>8 DEF LoadCount, PipeTypeOK
  <2>2. CASE pipePc[t] = "inc"
    BY <1>4, <1>8, <2>1, <2>2 DEF LoadCount, PipeTypeOK
  <2>3. CASE pipePc[t] = "dec"
    <3>1. t \in PipeReaders
      BY <2>3 DEF PipeTypeOK, Reading
    <3> QED
      BY <1>4, <1>8, <2>1, <2>3, <3>1 DEF LoadCount, PipeTypeOK
  <2> QED
    BY <1>8, <2>2, <2>3 DEF LoadCount
<1>9. ASSUME NEW t \in PipeThreads, StoreCount(t) PROVE PipeTypeOK'
  <2>1. PipeGoto(t, "idle") /\ raced' \in BOOLEAN
    BY <1>9 DEF StoreCount
  <2>2. messageCount' \in Int /\ seen' \in [PipeThreads -> Int]
    BY <1>9 DEF StoreCount, Counted, PipeTypeOK
  <2> QED
    BY <1>4, <1>9, <2>1, <2>2 DEF StoreCount, PipeTypeOK
<1> QED
  BY <1>1, <1>2, <1>3, <1>5, <1>6, <1>7, <1>8, <1>9 DEF PipeNext

(* The count changes by what the thread that changes it had to count. *)
LEMMA BalanceStep ==
    ASSUME CountInv, [PipeNext]_pipeVars, ~raced' PROVE Balanced'
<1>0. PipeTypeOK /\ Putting \in SUBSET PipeThreads /\ Taking \in SUBSET PipeThreads
  BY DEF CountInv, Putting, Taking
<1>a. Cardinality(Putting) \in Nat /\ Cardinality(Taking) \in Nat
  BY CountsNatural
<1>b. inPipe \in Nat /\ messageCount \in Int /\ interrupted \in Nat
  BY <1>0 DEF PipeTypeOK
<1>c. ASSUME ~raced PROVE Balanced
  BY <1>c DEF CountInv
<1>1. CASE CreatePipe \/ CreateFails
  BY <1>1, <1>c DEF CreatePipe, CreateFails, Balanced, Putting, Taking
<1>2. CASE DeletePipe
  <2>1. Putting' = {} /\ Taking' = {}
    BY <1>2 DEF DeletePipe, Putting, Taking
  <2>2. Cardinality({}) = 0
    BY FS_EmptySet
  <2> QED
    BY <1>2, <2>1, <2>2 DEF DeletePipe, Balanced
<1>3. CASE UNCHANGED pipeVars
  BY <1>3, <1>c DEF pipeVars, Balanced, Putting, Taking
<1>4. ASSUME NEW t \in PipeWriters, WriteMessage(t) PROVE Balanced'
  <2>1. /\ pipePc[t] = "idle" /\ PipeGoto(t, "inc") /\ t \in PipeThreads /\ ~raced
        /\ inPipe' = inPipe + 1 /\ UNCHANGED <<messageCount, interrupted>>
    BY <1>4 DEF WriteMessage, PipeThreads
  <2>2. t \notin Putting /\ t \notin Taking
    BY <2>1 DEF Putting, Taking
  <2>3. Putting' = Putting \cup {t} /\ Taking' = Taking
    BY <1>0, <2>1, <2>2, OneMoves
  <2>4. Cardinality(Putting') = Cardinality(Putting) + 1
    BY <1>0, <2>2, <2>3, ThreadsCounted
  <2> QED
    BY <1>a, <1>b, <1>c, <2>1, <2>3, <2>4 DEF Balanced
<1>5. ASSUME NEW t \in PipeReaders, TestCount(t) PROVE Balanced'
  <2>1. /\ pipePc[t] = "idle" /\ PipeGoto(t, "read") /\ t \in PipeThreads /\ ~raced
        /\ UNCHANGED <<inPipe, messageCount, interrupted>>
    BY <1>5 DEF TestCount, PipeThreads
  <2>2. t \notin Putting /\ t \notin Taking
    BY <2>1 DEF Putting, Taking
  <2>3. Putting' = Putting /\ Taking' = Taking
    BY <1>0, <2>1, <2>2, OneMoves
  <2> QED
    BY <1>c, <2>1, <2>3 DEF Balanced
<1>6. ASSUME NEW t \in PipeReaders, ReadMessage(t) \/ ReadInterrupted(t)
      PROVE  Balanced'
  <2>1. /\ pipePc[t] = "read" /\ PipeGoto(t, "dec") /\ t \in PipeThreads /\ ~raced
        /\ messageCount' = messageCount
    BY <1>6 DEF ReadMessage, ReadInterrupted, PipeThreads
  <2>2. \/ inPipe' = inPipe - 1 /\ interrupted' = interrupted
        \/ inPipe' = inPipe /\ interrupted' = interrupted + 1
    BY <1>6 DEF ReadMessage, ReadInterrupted
  <2>3. t \notin Putting /\ t \notin Taking
    BY <2>1 DEF Putting, Taking
  <2>4. Putting' = Putting /\ Taking' = Taking \cup {t}
    BY <1>0, <2>1, <2>3, OneMoves
  <2>5. Cardinality(Taking') = Cardinality(Taking) + 1
    BY <1>0, <2>3, <2>4, ThreadsCounted
  <2>6. Balanced
    BY <1>c, <2>1
  <2> QED
    BY <1>a, <1>b, <2>1, <2>2, <2>4, <2>5, <2>6 DEF Balanced
<1>7. ASSUME NEW t \in PipeThreads, LoadCount(t) PROVE Balanced'
  <2>1. ~raced /\ UNCHANGED <<inPipe, messageCount, interrupted>>
    BY <1>7 DEF LoadCount
  <2>2. Putting' = Putting /\ Taking' = Taking
    BY <1>0, <1>7, OneMoves DEF LoadCount, Putting, Taking
  <2> QED
    BY <1>c, <2>1, <2>2 DEF Balanced
<1>8. ASSUME NEW t \in PipeThreads, StoreCount(t) PROVE Balanced'
  <2>1. /\ PipeGoto(t, "idle") /\ UNCHANGED <<inPipe, interrupted>>
        /\ ~raced /\ seen[t] = messageCount /\ messageCount' = Counted(t)
    BY <1>8, <1>0 DEF StoreCount, PipeTypeOK
  <2>2. Putting' = Putting \ {t} /\ Taking' = Taking \ {t}
    BY <1>0, <2>1, OneMoves
  <2>3. CASE pipePc[t] = "inc2"
    <3>1. t \in Putting /\ t \notin Taking /\ messageCount' = messageCount + 1
      BY <2>1, <2>3 DEF Putting, Taking, Counted
    <3>2. Cardinality(Putting') = Cardinality(Putting) - 1 /\ Taking' = Taking
      BY <1>0, <2>2, <3>1, ThreadsCounted
    <3> QED
      BY <1>a, <1>b, <1>c, <2>1, <3>1, <3>2 DEF Balanced
  <2>4. CASE pipePc[t] = "dec2"
    <3>1. t \notin Putting /\ t \in Taking /\ messageCount' = messageCount - 1
      BY <2>1, <2>4 DEF Putting, Taking, Counted
    <3>2. Cardinality(Taking') = Cardinality(Taking) - 1 /\ Putting' = Putting
      BY <1>0, <2>2, <3>1, ThreadsCounted
    <3> QED
      BY <1>a, <1>b, <1>c, <2>1, <3>1, <3>2 DEF Balanced
  <2> QED
    BY <1>8, <2>3, <2>4 DEF StoreCount
<1> QED
  BY <1>1, <1>2, <1>3, <1>4, <1>5, <1>6, <1>7, <1>8 DEF PipeNext

(* A reader goes by a count that nobody else is about to lower. *)
LEMMA OneReaderStep ==
    ASSUME CountInv, [PipeNext]_pipeVars, ~raced', ~crowded' PROVE OneReader'
<1>0. PipeTypeOK
  BY DEF CountInv
<1>c. ASSUME ~raced, ~crowded PROVE OneReader
  BY <1>c DEF CountInv
<1>1. CASE CreatePipe \/ CreateFails
  BY <1>1, <1>c DEF CreatePipe, CreateFails, OneReader, Reading
<1>2. CASE DeletePipe
  BY <1>2 DEF DeletePipe, OneReader, Reading
<1>3. CASE UNCHANGED pipeVars
  BY <1>3, <1>c DEF pipeVars, OneReader, Reading
<1>4. ASSUME NEW t \in PipeWriters, WriteMessage(t) PROVE OneReader'
  <2>1. /\ PipeGoto(t, "inc") /\ t \in PipeThreads /\ pipePc[t] = "idle"
        /\ ~raced /\ ~crowded /\ messageCount' = messageCount
    BY <1>4 DEF WriteMessage, PipeThreads
  <2>2. Reading' = Reading
    BY <1>0, <2>1, OneMoves DEF Reading
  <2> QED
    BY <1>c, <2>1, <2>2 DEF OneReader
<1>5. ASSUME NEW t \in PipeReaders, TestCount(t) PROVE OneReader'
  <2>1. /\ PipeGoto(t, "read") /\ t \in PipeThreads
        /\ ~raced /\ messageCount' = messageCount /\ messageCount # 0
    BY <1>5 DEF TestCount, PipeThreads, HasMessage
  <2>2. ~crowded /\ \A u \in PipeReaders : pipePc[u] = "idle"
    BY <1>5, <1>0 DEF TestCount, PipeTypeOK
  <2>3. Reading = {}
    BY <1>0, <2>2 DEF PipeTypeOK, Reading
  <2>4. Reading' = {t}
    BY <1>0, <2>1, <2>3, OneMoves
  <2> QED
    BY <1>0, <1>c, <2>1, <2>2, <2>4 DEF OneReader, PipeTypeOK
<1>6. ASSUME NEW t \in PipeReaders, ReadMessage(t) \/ ReadInterrupted(t)
      PROVE  OneReader'
  <2>1. /\ PipeGoto(t, "dec") /\ t \in PipeThreads /\ pipePc[t] = "read"
        /\ ~raced /\ ~crowded /\ messageCount' = messageCount
    BY <1>6 DEF ReadMessage, ReadInterrupted, PipeThreads
  <2>2. Reading' = Reading
    BY <1>0, <2>1, OneMoves DEF Reading
  <2> QED
    BY <1>c, <2>1, <2>2 DEF OneReader
<1>7. ASSUME NEW t \in PipeThreads, LoadCount(t) PROVE OneReader'
  <2>1. ~raced /\ ~crowded /\ messageCount' = messageCount
    BY <1>7 DEF LoadCount
  <2>2. Reading' = Reading
    BY <1>0, <1>7, OneMoves DEF LoadCount, Reading
  <2> QED
    BY <1>c, <2>1, <2>2 DEF OneReader
<1>8. ASSUME NEW t \in PipeThreads, StoreCount(t) PROVE OneReader'
  <2>1. /\ PipeGoto(t, "idle") /\ ~crowded
        /\ ~raced /\ seen[t] = messageCount /\ messageCount' = Counted(t)
    BY <1>8, <1>0 DEF StoreCount, PipeTypeOK
  <2>2. Reading' = Reading \ {t} /\ OneReader /\ messageCount \in Int
    BY <1>0, <1>c, <2>1, OneMoves DEF PipeTypeOK
  <2>3. CASE pipePc[t] = "inc2"
    <3>1. messageCount' = messageCount + 1
      BY <2>1, <2>3 DEF Counted
    <3> QED
      BY <2>2, <3>1 DEF OneReader
  <2>4. CASE pipePc[t] = "dec2"
    <3>1. messageCount' = messageCount - 1 /\ t \in Reading
      BY <2>1, <2>4 DEF Counted, Reading
    <3>2. Reading' = {} /\ messageCount > 0
      BY <2>2, <3>1 DEF OneReader
    <3> QED
      BY <2>2, <3>1, <3>2 DEF OneReader
  <2> QED
    BY <1>8, <2>3, <2>4 DEF StoreCount
<1> QED
  BY <1>1, <1>2, <1>3, <1>4, <1>5, <1>6, <1>7, <1>8 DEF PipeNext

LEMMA CountInvServes == CountInv => CountServes
<1> SUFFICES ASSUME CountInv PROVE CountServes
  OBVIOUS
<1>a. inPipe \in Nat /\ messageCount \in Int /\ interrupted \in Nat
  BY DEF CountInv, PipeTypeOK
<1>1. CountExact
  <2> SUFFICES ASSUME \A t \in PipeThreads : pipePc[t] = "idle", ~raced
               PROVE  messageCount = inPipe - interrupted
    BY DEF CountExact
  <2>1. Putting = {} /\ Taking = {}
    BY DEF Putting, Taking
  <2>2. Cardinality(Putting) = 0 /\ Cardinality(Taking) = 0
    BY <2>1, FS_EmptySet
  <2> QED
    BY <1>a, <2>2 DEF CountInv, Balanced
<1>2. ReadFindsMessage
  <2> SUFFICES ASSUME NEW t \in PipeReaders, pipePc[t] = "read", ~raced, ~crowded
               PROVE  inPipe # 0
    BY DEF ReadFindsMessage
  <2>1. t \in Reading
    BY DEF Reading, PipeThreads
  <2>2. OneReader /\ Balanced
    BY DEF CountInv
  <2>3. Taking = {}
    BY <2>1, <2>2 DEF OneReader, Taking, Reading
  <2>4. Cardinality(Taking) = 0 /\ Cardinality(Putting) \in Nat
    BY <2>3, FS_EmptySet, CountsNatural
  <2>5. messageCount > 0
    BY <2>1, <2>2 DEF OneReader
  <2> QED
    BY <1>a, <2>2, <2>4, <2>5 DEF Balanced
<1> QED
  BY <1>1, <1>2 DEF CountServes

(* The count that the calls of osa_pipe.c keep without a lock is exact     *)
(* between calls, and never sends one reader into an empty pipe, for any   *)
(* number of writers and readers and any capacity, until two calls change  *)
(* it at the same time or two readers go by it at once.                    *)
THEOREM PipeCountServes == PipeSpec => []CountServes
<1>1. CountInv /\ [PipeNext]_pipeVars => CountInv'
  BY TypeStepPipe, BalanceStep, OneReaderStep DEF CountInv
<1> QED
  BY <1>1, CountInit, CountInvServes, PTL DEF PipeSpec
-----------------------------------------------------------------------------
(* The list. *)
(* The pointers from p on are those of the sequence ch. *)
Linked(links, p, ch) ==
    /\ ch = <<>> => p = NULL
    /\ ch # <<>> => p = ch[1] /\ links[ch[Len(ch)]] = NULL
    /\ \A i \in 1 .. Len(ch) - 1 : links[ch[i]] = ch[i + 1]

(* Following the pointers gives the sequence they link.  That two walks    *)
(* agree at each step is an induction; here, at the first step where they  *)
(* would not.                                                              *)
LEMMA FromLinked ==
    ASSUME NEW links \in [Addresses -> Pointers], NEW p, NEW ch \in Seq(Addresses),
           Len(ch) <= Cardinality(Addresses), Linked(links, p, ch)
    PROVE  From(links, p) = ch
<1> DEFINE n == Cardinality(Addresses)
           step(w) == [i \in 1 .. n + 1 |-> IF i = 1 THEN p
                                            ELSE IF w[i - 1] = NULL THEN NULL
                                            ELSE links[w[i - 1]]]
           walk == [i \in 1 .. n + 1 |-> IF i <= Len(ch) THEN ch[i] ELSE NULL]
           at == CHOOSE w : w = step(w)
<1>1. n \in Nat /\ Len(ch) \in Nat /\ DOMAIN ch = 1 .. Len(ch)
  BY ListAssumption, FS_CardinalityType, LenProperties
<1>2. \A i \in 1 .. Len(ch) : ch[i] \in Addresses /\ ch[i] # NULL
  BY ListAssumption, ElementOfSeq
<1>3. walk = step(walk)
  <2>1. ASSUME NEW i \in 1 .. n + 1 PROVE walk[i] = step(walk)[i]
    <3>1. CASE i = 1
      BY <1>1, <3>1, EmptySeq, LenProperties DEF Linked
    <3>2. CASE i # 1
      <4>1. i - 1 \in 1 .. n + 1 /\ (i - 1) + 1 = i
        BY <1>1, <3>2
      <4>2. CASE i <= Len(ch)
        <5>1. walk[i - 1] = ch[i - 1] /\ walk[i] = ch[i] /\ ch[i - 1] # NULL
          BY <1>1, <1>2, <4>1, <4>2
        <5>2. links[ch[i - 1]] = ch[i]
          BY <1>1, <4>1, <4>2 DEF Linked
        <5> QED
          BY <3>2, <5>1, <5>2
      <4>3. CASE i = Len(ch) + 1
        <5>1. walk[i - 1] = ch[Len(ch)] /\ walk[i] = NULL /\ ch[Len(ch)] # NULL /\ ch # <<>>
          BY <1>1, <1>2, <4>1, <4>3
        <5>2. links[ch[Len(ch)]] = NULL
          BY <5>1 DEF Linked
        <5> QED
          BY <3>2, <5>1, <5>2
      <4>4. CASE i > Len(ch) + 1
        <5>1. walk[i - 1] = NULL /\ walk[i] = NULL
          BY <1>1, <4>1, <4>4
        <5> QED
          BY <3>2, <5>1
      <4> QED
        BY <1>1, <4>2, <4>3, <4>4
    <3> QED
      BY <3>1, <3>2
  <2> HIDE DEF n
  <2> QED
    BY <2>1
<1>4. at = step(at)
  <2> HIDE DEF walk, step
  <2> QED
    BY <1>3
<1> HIDE DEF at
<1>5. \A i \in 1 .. n + 1 : at[i] = walk[i]
  <2> DEFINE Apart == {i \in 1 .. n + 1 : at[i] # walk[i]}
  <2>1. SUFFICES ASSUME Apart # {} PROVE FALSE
    OBVIOUS
  <2>2. Apart \subseteq Nat
    OBVIOUS
  <2>3. PICK i \in Apart : \A j \in Apart : i <= j
    <3> HIDE DEF Apart
    <3> QED
      BY <2>1, <2>2, LeastNumber
  <2>4. i \in 1 .. n + 1 /\ at[i] = step(at)[i] /\ walk[i] = step(walk)[i]
    <3> HIDE DEF walk, step
    <3> QED
      BY <1>3, <1>4
  <2>5. i # 1 => at[i - 1] = walk[i - 1]
    <3> HIDE DEF walk
    <3> QED
      BY <1>1, <2>3
  <2>6. step(at)[i] = step(walk)[i]
    <3> HIDE DEF walk
    <3> QED
      BY <2>4, <2>5
  <2> QED
    BY <2>3, <2>4, <2>6
<1>6. {j \in 1 .. n + 1 : at[j] # NULL} = 1 .. Len(ch)
  BY <1>1, <1>2, <1>5
<1>7. Cardinality(1 .. Len(ch)) = Len(ch)
  <2>1. \A l \in Nat : Cardinality(1 .. l) = l
    BY FS_Interval
  <2> QED
    BY <1>1, <2>1
<1>8. From(links, p) = [i \in 1 .. Cardinality({j \in 1 .. n + 1 : at[j] # NULL}) |-> at[i]]
  BY DEF From, at
<1>9. [i \in 1 .. Len(ch) |-> at[i]] = ch
  <2>1. \A i \in 1 .. Len(ch) : at[i] = ch[i]
    BY <1>1, <1>5
  <2> HIDE DEF n
  <2> QED
    BY <1>1, <2>1
<1> QED
  BY <1>6, <1>7, <1>8, <1>9

(* What Without leaves. *)
LEMMA CutOut ==
    ASSUME NEW S, NEW q \in Seq(S), NEW i \in 1 .. Len(q)
    PROVE  /\ Without(q, i) \in Seq(S)
           /\ Len(Without(q, i)) = Len(q) - 1
           /\ \A k \in 1 .. Len(q) - 1 :
                 Without(q, i)[k] = IF k < i THEN q[k] ELSE q[k + 1]
<1> DEFINE a == SubSeq(q, 1, i - 1)
           b == SubSeq(q, i + 1, Len(q))
<1>1. Len(q) \in Nat /\ i \in Nat /\ i - 1 \in Int /\ i + 1 \in Int
  BY LenProperties
<1>2. \A k \in 1 .. Len(q) : q[k] \in S
  BY ElementOfSeq
<1>3. a \in Seq(S) /\ Len(a) = i - 1 /\ \A k \in 1 .. i - 1 : a[k] = q[k]
  <2>1. \A k \in 1 .. i - 1 : q[k] \in S
    BY <1>1, <1>2
  <2>2. /\ a \in Seq(S) /\ Len(a) = IF 1 <= i - 1 THEN (i - 1) - 1 + 1 ELSE 0
        /\ \A k \in 1 .. (i - 1) - 1 + 1 : a[k] = q[1 + k - 1]
    BY <1>1, <2>1, SubSeqProperties
  <2> HIDE DEF a
  <2> QED
    BY <1>1, <2>2
<1>4. b \in Seq(S) /\ Len(b) = Len(q) - i /\ \A k \in 1 .. Len(q) - i : b[k] = q[i + k]
  <2>1. \A k \in i + 1 .. Len(q) : q[k] \in S
    BY <1>1, <1>2
  <2>2. /\ b \in Seq(S) /\ Len(b) = IF i + 1 <= Len(q) THEN Len(q) - (i + 1) + 1 ELSE 0
        /\ \A k \in 1 .. Len(q) - (i + 1) + 1 : b[k] = q[(i + 1) + k - 1]
    BY <1>1, <2>1, SubSeqProperties
  <2> HIDE DEF b
  <2> QED
    BY <1>1, <2>2
<1> DEFINE c == a \o b
<1> HIDE DEF a, b
<1>5. /\ c \in Seq(S) /\ Len(c) = Len(a) + Len(b)
      /\ \A k \in 1 .. Len(a) + Len(b) :
            c[k] = IF k <= Len(a) THEN a[k] ELSE b[k - Len(a)]
  BY <1>3, <1>4, ConcatProperties
<1>6. Without(q, i) = c
  BY DEF Without, a, b
<1> HIDE DEF c
<1>7. ASSUME NEW k \in 1 .. Len(q) - 1
      PROVE  c[k] = IF k < i THEN q[k] ELSE q[k + 1]
  <2>1. k \in 1 .. Len(a) + Len(b) /\ k \in Int
    BY <1>1, <1>3, <1>4
  <2>2. CASE k < i
    <3>1. k <= Len(a) /\ k \in 1 .. i - 1
      BY <1>1, <1>3, <2>1, <2>2
    <3>2. c[k] = a[k] /\ a[k] = q[k]
      BY <1>3, <1>5, <2>1, <3>1
    <3> QED
      BY <2>2, <3>2
  <2>3. CASE ~(k < i)
    <3>1. /\ ~(k <= Len(a)) /\ k - Len(a) \in 1 .. Len(q) - i
          /\ i + (k - Len(a)) = k + 1
      BY <1>1, <1>3, <2>1, <2>3
    <3>2. c[k] = b[k - Len(a)] /\ b[k - Len(a)] = q[i + (k - Len(a))]
      BY <1>4, <1>5, <2>1, <3>1
    <3> QED
      BY <2>3, <3>1, <3>2
  <2> QED
    BY <2>2, <2>3
<1>8. Len(c) = Len(q) - 1
  BY <1>1, <1>3, <1>4, <1>5
<1> QED
  BY <1>5, <1>6, <1>7, <1>8

LEMMA MembersCut ==
    ASSUME NEW S, NEW q \in Seq(S), Distinct(q), NEW i \in 1 .. Len(q)
    PROVE  /\ Distinct(Without(q, i))
           /\ Members(Without(q, i)) = Members(q) \ {q[i]}
           /\ q[i] \in Members(q)
<1> DEFINE w == Without(q, i)
<1>1. Len(q) \in Nat /\ DOMAIN q = 1 .. Len(q)
  BY LenProperties
<1>2. /\ w \in Seq(S) /\ Len(w) = Len(q) - 1
      /\ \A k \in 1 .. Len(q) - 1 : w[k] = IF k < i THEN q[k] ELSE q[k + 1]
  BY CutOut
<1> HIDE DEF w
<1>3. DOMAIN w = 1 .. Len(q) - 1
  BY <1>1, <1>2, LenProperties
<1>4. ASSUME NEW k \in 1 .. Len(q) - 1
      PROVE  \E j \in 1 .. Len(q) : j # i /\ w[k] = q[j] /\ j = IF k < i THEN k ELSE k + 1
  BY <1>1, <1>2
<1>5. Distinct(w)
  <2> SUFFICES ASSUME NEW k \in 1 .. Len(q) - 1, NEW l \in 1 .. Len(q) - 1, k # l
               PROVE  w[k] # w[l]
    BY <1>3 DEF Distinct
  <2>1. PICK j \in 1 .. Len(q) : w[k] = q[j] /\ j = IF k < i THEN k ELSE k + 1
    BY <1>4
  <2>2. PICK m \in 1 .. Len(q) : w[l] = q[m] /\ m = IF l < i THEN l ELSE l + 1
    BY <1>4
  <2>3. j # m
    BY <1>1, <2>1, <2>2
  <2> QED
    BY <1>1, <2>1, <2>2, <2>3 DEF Distinct
<1>6. ASSUME NEW e \in Members(w) PROVE e \in Members(q) \ {q[i]}
  <2>1. PICK k \in 1 .. Len(q) - 1 : e = w[k]
    BY <1>3, <1>6 DEF Members
  <2>2. PICK j \in 1 .. Len(q) : j # i /\ w[k] = q[j]
    BY <1>4
  <2> QED
    BY <1>1, <2>1, <2>2 DEF Members, Distinct
<1>7. ASSUME NEW e \in Members(q) \ {q[i]} PROVE e \in Members(w)
  <2>1. PICK j \in 1 .. Len(q) : e = q[j]
    BY <1>1, <1>7 DEF Members
  <2>2. j # i
    BY <1>7, <2>1
  <2>3. PICK k \in 1 .. Len(q) - 1 : j = IF k < i THEN k ELSE k + 1
    <3>1. CASE j < i
      BY <1>1, <3>1
    <3>2. CASE ~(j < i)
      <4>1. j - 1 \in 1 .. Len(q) - 1 /\ ~(j - 1 < i) /\ (j - 1) + 1 = j
        BY <1>1, <2>2, <3>2
      <4> QED
        BY <4>1
    <3> QED
      BY <3>1, <3>2
  <2>4. w[k] = q[j]
    BY <1>2, <2>3
  <2> QED
    BY <1>3, <2>1, <2>4 DEF Members
<1>8. q[i] \in Members(q)
  BY <1>1 DEF Members
<1> QED
  BY <1>5, <1>6, <1>7, <1>8 DEF w

(* The two ways the code changes a list: an element behind the last ...    *)
LEMMA LinkedLonger ==
    ASSUME NEW links \in [Addresses -> Pointers], NEW p, NEW ch \in Seq(Addresses),
           Distinct(ch), ch # <<>>, Linked(links, p, ch),
           NEW a \in Addresses, a \notin Members(ch)
    PROVE  Linked([links EXCEPT ![ch[Len(ch)]] = a, ![a] = NULL], p, Append(ch, a))
<1> DEFINE n == Len(ch)
           new == [links EXCEPT ![ch[n]] = a, ![a] = NULL]
           q == Append(ch, a)
<1>1. n \in Nat /\ n > 0 /\ DOMAIN ch = 1 .. n
  BY SeqElements
<1>2. \A i \in 1 .. n : ch[i] \in Addresses /\ ch[i] # a
  BY <1>1, ElementOfSeq DEF Members
<1>3. q # <<>> /\ Len(q) = n + 1 /\ q[n + 1] = a /\ \A i \in 1 .. n : q[i] = ch[i]
  BY AppendProperties
<1>4. /\ new[a] = NULL /\ new[ch[n]] = a
      /\ \A b \in Addresses : b # a /\ b # ch[n] => new[b] = links[b]
  BY <1>1, <1>2
<1> HIDE DEF new, q
<1>5. ASSUME NEW i \in 1 .. (n + 1) - 1 PROVE new[q[i]] = q[i + 1]
  <2>1. CASE i = n
    BY <1>1, <1>3, <1>4, <2>1
  <2>2. CASE i # n
    <3> HIDE DEF n
    <3>1. i \in 1 .. n - 1 /\ i + 1 \in 1 .. n /\ i \in 1 .. n /\ n \in 1 .. n
      BY <1>1, <2>2
    <3>2. ch[i] # ch[n]
      BY <1>1, <2>2, <3>1 DEF Distinct
    <3>3. new[ch[i]] = links[ch[i]] /\ links[ch[i]] = ch[i + 1]
      BY <1>2, <1>4, <3>1, <3>2 DEF Linked, n
    <3> QED
      BY <1>3, <3>1, <3>3
  <2> QED
    BY <2>1, <2>2
<1>6. p = q[1] /\ new[q[n + 1]] = NULL
  BY <1>1, <1>3, <1>4 DEF Linked
<1>7. Linked(new, p, q)
  BY <1>3, <1>5, <1>6 DEF Linked
<1> QED
  BY <1>7 DEF new, q

(* ... and one taken out. *)
LEMMA LinkedCut ==
    ASSUME NEW links \in [Addresses -> Pointers], NEW p, NEW ch \in Seq(Addresses),
           Distinct(ch), Linked(links, p, ch), NEW i \in 1 .. Len(ch)
    PROVE  /\ i = 1 => Linked(links, links[ch[1]], Without(ch, i))
           /\ i # 1 => Linked([links EXCEPT ![ch[i - 1]] = links[ch[i]]], p, Without(ch, i))
<1> DEFINE n == Len(ch)
           w == Without(ch, i)
<1>1. n \in Nat /\ DOMAIN ch = 1 .. n /\ ch # <<>> /\ n >= 1
  BY LenProperties, EmptySeq
<1>2. \A k \in 1 .. n : ch[k] \in Addresses
  BY ElementOfSeq
<1>3. /\ w \in Seq(Addresses) /\ Len(w) = n - 1
      /\ \A k \in 1 .. n - 1 : w[k] = IF k < i THEN ch[k] ELSE ch[k + 1]
  BY CutOut
<1> HIDE DEF w
<1>4. w = <<>> <=> n = 1
  BY <1>1, <1>3, EmptySeq, LenProperties
<1>5. /\ p = ch[1] /\ links[ch[n]] = NULL
      /\ \A k \in 1 .. n - 1 : links[ch[k]] = ch[k + 1]
  BY <1>1 DEF Linked
<1>6. ASSUME i = 1 PROVE Linked(links, links[ch[1]], w)
  <2>1. \A k \in 1 .. n - 1 : w[k] = ch[k + 1]
    BY <1>1, <1>3, <1>6
  <2>2. ASSUME NEW k \in 1 .. (n - 1) - 1 PROVE links[w[k]] = w[k + 1]
    <3>1. k \in 1 .. n - 1 /\ k + 1 \in 1 .. n - 1
      BY <1>1
    <3> QED
      BY <1>5, <2>1, <3>1
  <2>3. n # 1 => links[ch[1]] = w[1] /\ links[w[n - 1]] = NULL
    <3> HAVE n # 1
    <3>1. 1 \in 1 .. n - 1 /\ n - 1 \in 1 .. n - 1 /\ (n - 1) + 1 = n
      BY <1>1
    <3> QED
      BY <1>5, <2>1, <3>1
  <2>4. n = 1 => links[ch[1]] = NULL
    BY <1>5
  <2> QED
    BY <1>3, <1>4, <2>2, <2>3, <2>4 DEF Linked
<1>7. ASSUME i # 1 PROVE Linked([links EXCEPT ![ch[i - 1]] = links[ch[i]]], p, w)
  <2> DEFINE new == [links EXCEPT ![ch[i - 1]] = links[ch[i]]]
  <2>1. i - 1 \in 1 .. n - 1 /\ i - 1 \in 1 .. n /\ n # 1 /\ i - 1 < i
        /\ 1 \in 1 .. n - 1 /\ 1 < i /\ n - 1 \in 1 .. n - 1
    BY <1>1, <1>7
  <2>2. /\ new[ch[i - 1]] = links[ch[i]]
        /\ \A b \in Addresses : b # ch[i - 1] => new[b] = links[b]
    BY <1>2, <2>1
  <2> HIDE DEF new
  <2>3. \A k \in 1 .. n : k # i - 1 => new[ch[k]] = links[ch[k]]
    BY <1>1, <1>2, <2>1, <2>2 DEF Distinct
  <2>4. ASSUME NEW k \in 1 .. (n - 1) - 1 PROVE new[w[k]] = w[k + 1]
    <3>1. k \in 1 .. n - 1 /\ k + 1 \in 1 .. n - 1 /\ k \in 1 .. n /\ k + 1 \in 1 .. n
      BY <1>1
    <3>2. CASE k < i - 1
      <4>1. w[k] = ch[k] /\ w[k + 1] = ch[k + 1] /\ k # i - 1
        BY <1>1, <1>3, <3>1, <3>2
      <4> QED
        BY <1>5, <2>3, <3>1, <4>1
    <3>3. CASE k = i - 1
      <4>1. w[k] = ch[i - 1] /\ w[k + 1] = ch[i + 1] /\ i \in 1 .. n - 1
        BY <1>1, <1>3, <3>1, <3>3
      <4> QED
        BY <1>5, <2>2, <4>1
    <3>4. CASE k > i - 1
      <4>1. w[k] = ch[k + 1] /\ w[k + 1] = ch[(k + 1) + 1] /\ k + 1 # i - 1
        BY <1>1, <1>3, <3>1, <3>4
      <4> QED
        BY <1>5, <2>3, <3>1, <4>1
    <3> QED
      BY <1>1, <3>2, <3>3, <3>4
  <2>5. p = w[1]
    BY <1>3, <1>5, <2>1
  <2>6. new[w[n - 1]] = NULL
    <3>1. CASE i = n
      <4>1. w[n - 1] = ch[i - 1]
        BY <1>3, <2>1, <3>1
      <4> QED
        BY <1>5, <2>2, <3>1, <4>1
    <3>2. CASE i # n
      <4>0. i \in 1 .. n
        OBVIOUS
      <4>1. ~(n - 1 < i) /\ (n - 1) + 1 = n /\ n \in 1 .. n /\ n # i - 1
        <5> HIDE DEF n
        <5> QED
          BY <1>1, <3>2, <4>0
      <4>2. w[n - 1] = ch[n]
        BY <1>3, <2>1, <4>1
      <4> QED
        BY <1>5, <2>3, <4>1, <4>2
    <3> QED
      BY <3>1, <3>2
  <2>7. Linked(new, p, w)
    BY <1>3, <1>4, <2>1, <2>4, <2>5, <2>6 DEF Linked
  <2> QED
    BY <2>7 DEF new
<1> QED
  BY <1>6, <1>7 DEF w

(* A sequence without repetition is as long as it has members. *)
LEMMA DistinctCounted ==
    ASSUME NEW S, NEW q \in Seq(S), Distinct(q)
    PROVE  IsFiniteSet(Members(q)) /\ Cardinality(Members(q)) = Len(q)
<1>1. Len(q) \in Nat /\ DOMAIN q = 1 .. Len(q) /\ q \in [1 .. Len(q) -> S]
  BY LenProperties
<1>2. IsFiniteSet(1 .. Len(q)) /\ Cardinality(1 .. Len(q)) = Len(q)
  BY <1>1, FS_Interval
<1>3. q \in Surjection(1 .. Len(q), Members(q))
  <2>1. q \in [1 .. Len(q) -> Members(q)]
    BY <1>1 DEF Members
  <2> QED
    BY <1>1, <2>1 DEF Surjection, Members
<1>4. q \in Injection(1 .. Len(q), Members(q))
  BY <1>1, <1>3 DEF Surjection, Injection, IsInjective, Distinct
<1> QED
  BY <1>2, <1>3, <1>4, FS_Surjection
-----------------------------------------------------------------------------
ListTyped ==
    /\ headNext \in Pointers /\ next \in [Addresses -> Pointers]
    /\ allocated \subseteq Addresses
    /\ start \in [ListThreads -> Pointers]
    /\ listPc \in [ListThreads -> {"idle", "remove"}]
    /\ stale \in [ListThreads -> SUBSET Addresses]
    /\ created \in BOOLEAN

(* The list is what is allocated, in some order, linked from the head on.  *)
ChainOK ==
    /\ Chain \in Seq(Addresses) /\ Distinct(Chain)
    /\ Linked(next, headNext, Chain)
    /\ Members(Chain) = allocated
    /\ ListElemCount = Len(Chain) /\ Len(Chain) <= MaxElem

(* A thread that is to remove an element begins at the head it read; it    *)
(* was NULL, or is the head still, or was freed and is stale.              *)
StartsAtHead ==
    \A t \in ListThreads : listPc[t] = "remove" =>
        created /\ start[t] \in stale[t] \cup {NULL, headNext}

ListInv ==
    /\ ListTyped /\ StartsAtHead
    /\ created /\ ~followed => ChainOK
    /\ ~created => allocated = {}

(* A sequence that is linked in the new state is its chain. *)
LEMMA ChainMade ==
    ASSUME next' \in [Addresses -> Pointers], NEW q \in Seq(Addresses), Distinct(q),
           Linked(next', headNext', q)
    PROVE  Chain' = q
<1>1. Members(q) \subseteq Addresses
  BY MembersTyped
<1>2. Len(q) <= Cardinality(Addresses)
  BY <1>1, DistinctCounted, FS_Subset, ListAssumption
<1>3. From(next', headNext') = q
  BY <1>2, FromLinked
<1> QED
  BY <1>3 DEF Chain

LEMMA EmptyChain ==
    ASSUME NEW links \in [Addresses -> Pointers]
    PROVE  /\ From(links, NULL) = <<>> /\ Linked(links, NULL, <<>>)
           /\ Distinct(<<>>) /\ Members(<<>>) = {}
<1>1. <<>> \in Seq(Addresses) /\ Len(<<>>) = 0 /\ DOMAIN <<>> = {}
  BY EmptySeq
<1>2. Linked(links, NULL, <<>>)
  BY <1>1 DEF Linked
<1>3. 0 <= Cardinality(Addresses)
  BY ListAssumption, FS_CardinalityType
<1> QED
  BY <1>1, <1>2, <1>3, FromLinked DEF Distinct, Members

(* What is inserted is the last of the list. *)
LEMMA InsertAppends ==
    ASSUME ListInv, ~followed, NEW t \in ListThreads, ListInsert(t)
    PROVE  /\ ChainOK' /\ allocated' \subseteq Addresses
           /\ headNext' \in Pointers /\ next' \in [Addresses -> Pointers]
           /\ \E a \in Addresses : Chain' = Append(Chain, a)
           /\ Chain # <<>> => headNext' = headNext
           /\ Chain = <<>> => headNext = NULL
<1> PICK ch : ch = Chain
  OBVIOUS
<1>1. /\ ch \in Seq(Addresses) /\ Distinct(ch) /\ Linked(next, headNext, ch)
      /\ Members(ch) = allocated /\ ListElemCount = Len(ch)
      /\ next \in [Addresses -> Pointers] /\ headNext \in Pointers
      /\ allocated \subseteq Addresses
  BY DEF ListInv, ListInsert, ChainOK, ListTyped
<1>2. PICK a \in Addresses \ allocated :
         /\ allocated' = allocated \cup {a}
         /\ IF ch = <<>>
            THEN headNext' = a /\ next' = [next EXCEPT ![a] = NULL]
            ELSE /\ next' = [next EXCEPT ![ch[Len(ch)]] = a, ![a] = NULL]
                 /\ UNCHANGED headNext
  BY DEF ListInsert
<1>3. Len(ch) \in Nat /\ Len(ch) < MaxElem /\ ListElemCount' = ListElemCount + 1
  BY <1>1, LenProperties DEF ListInsert, HasRoom
<1> DEFINE q == Append(ch, a)
<1>4. q \in Seq(Addresses) /\ Len(q) = Len(ch) + 1 /\ Distinct(q)
      /\ Members(q) = Members(ch) \cup {a} /\ q # <<>>
  BY <1>1, AppendProperties, MembersAppended
<1>5. /\ Linked(next', headNext', q) /\ next' \in [Addresses -> Pointers]
      /\ headNext' \in Pointers
  <2>1. CASE ch = <<>>
    <3>1. Len(ch) = 0 /\ q[1] = a /\ Len(q) = 1
      BY <1>1, <2>1, AppendProperties, EmptySeq
    <3>2. headNext' = a /\ next'[a] = NULL /\ next' \in [Addresses -> Pointers]
      BY <1>1, <1>2, <2>1 DEF Pointers
    <3> HIDE DEF q
    <3> QED
      BY <1>4, <3>1, <3>2 DEF Linked, Pointers
  <2>2. CASE ch # <<>>
    <3>1. /\ next' = [next EXCEPT ![ch[Len(ch)]] = a, ![a] = NULL]
          /\ headNext' = headNext
      BY <1>2, <2>2
    <3>2. next' \in [Addresses -> Pointers]
      BY <1>1, <3>1 DEF Pointers
    <3>3. Linked([next EXCEPT ![ch[Len(ch)]] = a, ![a] = NULL], headNext, q)
      BY <1>1, <2>2, LinkedLonger
    <3> QED
      BY <1>1, <3>1, <3>2, <3>3
  <2> QED
    BY <2>1, <2>2
<1>6. Chain' = q
  <2> HIDE DEF q
  <2> QED
    BY <1>4, <1>5, ChainMade
<1>7. ChainOK'
  <2>1. Len(q) <= MaxElem /\ ListElemCount' = Len(q)
    BY <1>1, <1>3, <1>4, ListAssumption
  <2> HIDE DEF q
  <2> QED
    BY <1>1, <1>2, <1>4, <1>5, <1>6, <2>1 DEF ChainOK
<1>8. ch = <<>> => headNext = NULL
  BY <1>1 DEF Linked
<1> QED
  BY <1>1, <1>2, <1>5, <1>6, <1>7, <1>8

(* What is removed is taken out of the list, and stale for who read it.    *)
LEMMA RemoveCuts ==
    ASSUME ListInv, ~followed, NEW t \in ListThreads, RemoveElem(t)
    PROVE  /\ ChainOK' /\ allocated' \subseteq Addresses
           /\ headNext' \in Pointers /\ next' \in [Addresses -> Pointers]
           /\ \E i \in DOMAIN Chain :
                 /\ Chain[i] = removing[t] /\ Chain' = Without(Chain, i)
                 /\ Forget(t, Chain[i]) /\ Chain[i] \in Addresses
                 /\ headNext' = headNext \/ Chain[i] = headNext
<1> PICK ch : ch = Chain
  OBVIOUS
<1>1. /\ ch \in Seq(Addresses) /\ Distinct(ch) /\ Linked(next, headNext, ch)
      /\ Members(ch) = allocated /\ ListElemCount = Len(ch) /\ Len(ch) <= MaxElem
      /\ next \in [Addresses -> Pointers] /\ headNext \in Pointers
      /\ allocated \subseteq Addresses
  BY DEF ListInv, StartsAtHead, RemoveElem, ChainOK, ListTyped
<1>2. PICK i \in DOMAIN From(next, start[t]) :
         LET walk == From(next, start[t]) IN
         /\ walk[i] = removing[t] /\ Unlink(walk, i)
         /\ allocated' = allocated \ {walk[i]} /\ Forget(t, walk[i])
  BY DEF RemoveElem
<1>3. start[t] = NULL \/ start[t] = headNext
  BY DEF ListInv, StartsAtHead, RemoveElem
<1>4. From(next, start[t]) = ch
  <2>1. From(next, NULL) = <<>> /\ DOMAIN <<>> = {}
    BY <1>1, EmptyChain
  <2>2. start[t] # NULL
    BY <1>2, <2>1
  <2> QED
    BY <1>3, <2>2 DEF Chain
<1>5. i \in 1 .. Len(ch) /\ Len(ch) \in Nat /\ DOMAIN ch = 1 .. Len(ch) /\ ch # <<>>
  BY <1>1, <1>2, <1>4, LenProperties, EmptySeq
<1>6. /\ ch[i] = removing[t] /\ Unlink(ch, i)
      /\ allocated' = allocated \ {ch[i]} /\ Forget(t, ch[i])
  BY <1>2, <1>4
<1>7. \A k \in 1 .. Len(ch) : ch[k] \in Addresses
  BY <1>1, ElementOfSeq
<1> DEFINE q == Without(ch, i)
<1>8. q \in Seq(Addresses) /\ Len(q) = Len(ch) - 1 /\ Distinct(q)
      /\ Members(q) = Members(ch) \ {ch[i]}
  BY <1>1, <1>5, CutOut, MembersCut
<1>9. /\ Linked(next', headNext', q) /\ next' \in [Addresses -> Pointers]
      /\ headNext' \in Pointers
      /\ headNext' = headNext \/ ch[i] = headNext
  <2>1. CASE i = 1
    <3>1. headNext' = next[ch[1]] /\ next' = next
      BY <1>6, <2>1 DEF Unlink
    <3>2. Linked(next, next[ch[1]], q)
      BY <1>1, <1>5, <2>1, LinkedCut
    <3>3. ch[1] = headNext /\ next[ch[1]] \in Pointers
      BY <1>1, <1>5, <1>7, <2>1 DEF Linked
    <3> QED
      BY <1>1, <2>1, <3>1, <3>2, <3>3
  <2>2. CASE i # 1
    <3>1. next' = [next EXCEPT ![ch[i - 1]] = next[ch[i]]] /\ headNext' = headNext
      BY <1>6, <2>2 DEF Unlink
    <3>2. Linked([next EXCEPT ![ch[i - 1]] = next[ch[i]]], headNext, q)
      BY <1>1, <1>5, <2>2, LinkedCut
    <3>3. next' \in [Addresses -> Pointers]
      BY <1>1, <1>5, <1>7, <3>1
    <3> QED
      BY <1>1, <3>1, <3>2, <3>3
  <2> QED
    BY <2>1, <2>2
<1>10. Chain' = q
  <2> HIDE DEF q
  <2> QED
    BY <1>8, <1>9, ChainMade
<1>11. ChainOK'
  <2>1. ListElemCount' = Len(q) /\ Len(q) <= MaxElem
    BY <1>1, <1>5, <1>8, ListAssumption DEF RemoveElem
  <2> HIDE DEF q
  <2> QED
    BY <1>1, <1>6, <1>8, <1>9, <1>10, <2>1 DEF ChainOK
<1>12. /\ i \in DOMAIN Chain /\ Chain[i] = removing[t]
       /\ Forget(t, Chain[i]) /\ Chain[i] \in Addresses
       /\ headNext' = headNext \/ Chain[i] = headNext
  BY <1>5, <1>6, <1>7, <1>9
<1>13. Chain' = Without(Chain, i)
  BY <1>10
<1>14. allocated' \subseteq Addresses
  BY <1>1, <1>6
<1> HIDE DEF q
<1>15. \E k \in DOMAIN Chain :
          /\ Chain[k] = removing[t] /\ Chain' = Without(Chain, k)
          /\ Forget(t, Chain[k]) /\ Chain[k] \in Addresses
          /\ headNext' = headNext \/ Chain[k] = headNext
  BY <1>12, <1>13
<1> QED
  BY <1>9, <1>11, <1>14, <1>15

LEMMA ListInvInit == ListInit => ListInv
<1> SUFFICES ASSUME ListInit PROVE ListInv
  OBVIOUS
<1>1. next \in [Addresses -> Pointers] /\ headNext = NULL
  BY DEF ListInit, Pointers
<1>2. Chain = <<>> /\ Linked(next, headNext, <<>>) /\ Distinct(<<>>) /\ Members(<<>>) = {}
  BY <1>1, EmptyChain DEF Chain
<1>3. <<>> \in Seq(Addresses) /\ Len(<<>>) = 0
  BY EmptySeq
<1>4. ChainOK
  BY <1>2, <1>3, ListAssumption DEF ListInit, ChainOK
<1> QED
  BY <1>1, <1>4 DEF ListInit, ListInv, ListTyped, StartsAtHead, Pointers

(* The chain stays as it is when pointers, blocks and count do. *)
LEMMA ChainUntouched ==
    ASSUME UNCHANGED <<headNext, next, allocated, ListElemCount>>
    PROVE  Chain' = Chain /\ (ChainOK => ChainOK')
  BY DEF Chain, ChainOK

LEMMA ListInvStep == ListInv /\ [ListNext]_listVars => ListInv'
<1> SUFFICES ASSUME ListInv, [ListNext]_listVars PROVE ListInv'
  OBVIOUS
<1>1. CASE ListCreate /\ ~followed
  <2>1. /\ next' \in [Addresses -> Pointers] /\ headNext' = NULL
        /\ allocated' = {} /\ ListElemCount' = 0 /\ created' /\ next' = next
    BY <1>1 DEF ListCreate, ListInv, ListTyped
  <2>2. /\ Linked(next', NULL, <<>>) /\ Distinct(<<>>) /\ Members(<<>>) = {}
        /\ <<>> \in Seq(Addresses) /\ Len(<<>>) = 0
    BY <2>1, EmptyChain, EmptySeq
  <2>3. Chain' = <<>>
    BY <2>1, <2>2, ChainMade
  <2>4. ChainOK'
    BY <2>1, <2>2, <2>3, ListAssumption DEF ChainOK
  <2>5. ListTyped'
    BY <1>1, <2>1 DEF ListCreate, ListInv, ListTyped, callVars, Pointers
  <2>6. StartsAtHead'
    BY <1>1 DEF ListCreate, ListInv, StartsAtHead, callVars
  <2> QED
    BY <2>1, <2>4, <2>5, <2>6 DEF ListInv
<1>2. CASE ListDelete /\ ~followed
  BY <1>2 DEF ListDelete, ListInv, ListTyped, StartsAtHead
<1>3. ASSUME NEW t \in ListThreads, ListInsert(t), ~followed PROVE ListInv'
  <2>1. /\ ChainOK' /\ allocated' \subseteq Addresses
        /\ headNext' \in Pointers /\ next' \in [Addresses -> Pointers]
        /\ headNext' = headNext \/ headNext = NULL
    BY <1>3, InsertAppends
  <2>2. UNCHANGED <<start, listPc, stale, created, followed>> /\ created
    BY <1>3 DEF ListInsert, callVars
  <2>3. StartsAtHead'
    BY <2>1, <2>2 DEF ListInv, StartsAtHead
  <2> QED
    BY <2>1, <2>2, <2>3 DEF ListInv, ListTyped
<1>4. ASSUME NEW t \in ListThreads, ListGetNextElem(t), ~followed PROVE ListInv'
  <2>1. ChainOK'
    BY <1>4, ChainUntouched DEF ListGetNextElem, ListInv
  <2>2. ListTyped' /\ created'
    <3>1. /\ created' = created /\ created
          /\ stale' \in [ListThreads -> SUBSET Addresses]
          /\ UNCHANGED <<headNext, next, allocated, start, listPc>>
      BY <1>4 DEF ListGetNextElem, ListInv, ListTyped
    <3> QED
      BY <3>1 DEF ListInv, ListTyped
  <2>3. StartsAtHead'
    BY <1>4 DEF ListGetNextElem, ListInv, ListTyped, StartsAtHead
  <2> QED
    BY <2>1, <2>2, <2>3 DEF ListInv
<1>5. ASSUME NEW t \in ListThreads, RemoveStart(t), ~followed PROVE ListInv'
  <2>1. ChainOK'
    BY <1>5, ChainUntouched DEF RemoveStart, ListInv
  <2>2. ListTyped' /\ created'
    BY <1>5 DEF RemoveStart, ListInv, ListTyped
  <2>3. StartsAtHead'
    BY <1>5 DEF RemoveStart, ListInv, ListTyped, StartsAtHead
  <2> QED
    BY <2>1, <2>2, <2>3 DEF ListInv
<1>6. ASSUME NEW t \in ListThreads, RemoveElem(t), ~followed PROVE ListInv'
  <2>1. /\ ChainOK' /\ allocated' \subseteq Addresses
        /\ headNext' \in Pointers /\ next' \in [Addresses -> Pointers]
    BY <1>6, RemoveCuts
  <2>2. PICK a \in Addresses : Forget(t, a) /\ (headNext' = headNext \/ a = headNext)
    BY <1>6, RemoveCuts
  <2>3. /\ listPc' = [listPc EXCEPT ![t] = "idle"] /\ start' = [start EXCEPT ![t] = NULL]
        /\ UNCHANGED <<created, followed>> /\ created
    BY <1>6 DEF RemoveElem, Returned, ListInv, StartsAtHead
  <2>4. ListTyped'
    <3>1. stale' \in [ListThreads -> SUBSET Addresses]
      BY <2>2 DEF Forget, ListInv, ListTyped
    <3> QED
      BY <2>1, <2>3, <3>1 DEF ListInv, ListTyped, Pointers
  <2>5. StartsAtHead'
    <3> SUFFICES ASSUME NEW u \in ListThreads, listPc'[u] = "remove"
                 PROVE  created' /\ start'[u] \in stale'[u] \cup {NULL, headNext'}
      BY DEF StartsAtHead
    <3>1. u # t /\ listPc[u] = "remove" /\ start'[u] = start[u]
      BY <2>3 DEF ListInv, ListTyped
    <3>2. stale'[u] = stale[u] \cup ({a} \cap {cursor[u], start[u]})
      BY <2>2, <3>1 DEF Forget
    <3>3. start[u] \in stale[u] \cup {NULL, headNext}
      BY <3>1 DEF ListInv, StartsAtHead
    <3> QED
      BY <2>2, <2>3, <3>1, <3>2, <3>3
  <2> QED
    BY <2>1, <2>3, <2>4, <2>5 DEF ListInv
<1>7. ASSUME NEW t \in ListThreads, RemoveNothing(t), ~followed PROVE ListInv'
  <2>1. ChainOK /\ created
    BY <1>7 DEF RemoveNothing, ListInv, StartsAtHead
  <2>2. ChainOK'
    BY <1>7, <2>1, ChainUntouched DEF RemoveNothing
  <2>3. ListTyped'
    BY <1>7 DEF RemoveNothing, Returned, ListInv, ListTyped, Pointers
  <2>4. StartsAtHead' /\ created'
    BY <1>7, <2>1 DEF RemoveNothing, Returned, ListInv, ListTyped, StartsAtHead
  <2> QED
    BY <2>2, <2>3, <2>4 DEF ListInv
<1>8. CASE UNCHANGED listVars
  <2>1. ListTyped' /\ StartsAtHead'
    BY <1>8 DEF listVars, ListInv, ListTyped, StartsAtHead
  <2>2. ChainOK => ChainOK'
    BY <1>8, ChainUntouched DEF listVars
  <2> QED
    BY <1>8, <2>1, <2>2 DEF ListInv, listVars
<1> QED
  BY <1>1, <1>2, <1>3, <1>4, <1>5, <1>6, <1>7, <1>8 DEF ListNext

LEMMA ChainIsSound == ListInv => ListSound
<1> SUFFICES ASSUME ListInv, created, ~followed
             PROVE  /\ InChain = allocated
                    /\ Len(Chain) = Cardinality(allocated)
                    /\ ListElemCount = Len(Chain) /\ ListElemCount <= MaxElem
  BY DEF ListSound
<1>1. ChainOK
  BY DEF ListInv
<1>2. InChain = Members(Chain)
  BY DEF InChain, Members
<1>3. Cardinality(Members(Chain)) = Len(Chain)
  BY <1>1, DistinctCounted DEF ChainOK
<1> QED
  BY <1>1, <1>2, <1>3 DEF ChainOK

LEMMA StepKeepsOrder == ListInv /\ [ListNext]_listVars => KeepsOrder
<1> SUFFICES ASSUME ListInv, [ListNext]_listVars, created, created', Chain' # Chain
             PROVE  \/ /\ Len(Chain') = Len(Chain) + 1
                       /\ SubSeq(Chain', 1, Len(Chain)) = Chain
                    \/ \E t \in ListThreads, i \in DOMAIN Chain :
                          /\ listPc[t] = "remove" /\ listPc'[t] = "idle"
                          /\ Chain[i] = removing[t] /\ Chain' = Without(Chain, i)
  BY DEF KeepsOrder
<1>1. ASSUME NEW t \in ListThreads, ListInsert(t), ~followed
      PROVE  Len(Chain') = Len(Chain) + 1 /\ SubSeq(Chain', 1, Len(Chain)) = Chain
  <2> PICK ch : ch = Chain
    OBVIOUS
  <2>1. ch \in Seq(Addresses)
    BY <1>1 DEF ListInv, ChainOK
  <2>2. PICK a \in Addresses : Chain' = Append(ch, a)
    BY <1>1, InsertAppends
  <2> DEFINE q == Append(ch, a)
  <2>3. /\ q \in Seq(Addresses) /\ Len(q) = Len(ch) + 1 /\ Len(ch) \in Nat
        /\ \A i \in 1 .. Len(ch) : q[i] = ch[i] /\ ch[i] \in Addresses
    BY <2>1, AppendProperties, LenProperties, ElementOfSeq
  <2> HIDE DEF q
  <2> DEFINE r == SubSeq(q, 1, Len(ch))
  <2>4. /\ r \in Seq(Addresses)
        /\ Len(r) = IF 1 <= Len(ch) THEN Len(ch) - 1 + 1 ELSE 0
        /\ \A i \in 1 .. Len(ch) - 1 + 1 : r[i] = q[1 + i - 1]
    BY <2>3, SubSeqProperties
  <2> HIDE DEF r
  <2>5. Len(r) = Len(ch) /\ \A i \in 1 .. Len(r) : r[i] = ch[i]
    BY <2>3, <2>4
  <2>6. r = ch
    BY <2>1, <2>4, <2>5, SeqEqual
  <2> QED
    BY <2>2, <2>3, <2>6 DEF q, r
<1>2. ASSUME NEW t \in ListThreads, RemoveElem(t), ~followed
      PROVE  \E i \in DOMAIN Chain :
                /\ listPc[t] = "remove" /\ listPc'[t] = "idle"
                /\ Chain[i] = removing[t] /\ Chain' = Without(Chain, i)
  <2>1. listPc[t] = "remove" /\ listPc'[t] = "idle"
    BY <1>2 DEF RemoveElem, Returned, ListInv, ListTyped
  <2>2. \E i \in DOMAIN Chain : Chain[i] = removing[t] /\ Chain' = Without(Chain, i)
    BY <1>2, RemoveCuts
  <2> QED
    BY <2>1, <2>2
<1>3. ASSUME NEW t \in ListThreads,
             ListGetNextElem(t) \/ RemoveStart(t) \/ RemoveNothing(t)
      PROVE  FALSE
  BY <1>3, ChainUntouched DEF ListGetNextElem, RemoveStart, RemoveNothing
<1>4. ~(ListCreate \/ ListDelete \/ UNCHANGED listVars)
  BY ChainUntouched DEF ListCreate, ListDelete, listVars
<1> QED
  BY <1>1, <1>2, <1>3, <1>4 DEF ListNext

(* As long as nobody follows a freed element, the list of osa_list.c is    *)
(* what was inserted and not removed, each element once, ListElemCount is  *)
(* their number, and each call changes one element and keeps the order of  *)
(* the others: for any threads, addresses and maximum, and although        *)
(* OSA_ListRemoveElem reads the head before it waits (:149).               *)
THEOREM ListStaysSound == ListSpec => ListKept
<1>1. ListInv /\ [ListNext]_listVars => [ListSound' /\ KeepsOrder]_listVars
  <2>1. ListInv' => ListSound'
    BY ChainIsSound, PTL
  <2> QED
    BY <2>1, ListInvStep, StepKeepsOrder
<1> QED
  BY <1>1, ListInvInit, ListInvStep, PTL DEF ListSpec, ListKept
-----------------------------------------------------------------------------
(* Whole files. *)
(* Whole chunks and one more are whole chunks, and whole chunks differ by  *)
(* a chunk at least.                                                       *)
LEMMA OneMoreChunk ==
    ASSUME NEW a \in Nat, NEW c \in Nat \ {0}, a % c = 0
    PROVE  (a + c) % c = 0
<1>1. PICK q \in Nat : a = c * q
  OBVIOUS
<1>2. a + c = c * (q + 1)
  BY <1>1
<1>3. (c * (q + 1)) % c = 0
  OBVIOUS
<1> QED
  BY <1>2, <1>3

LEMMA ChunksApart ==
    ASSUME NEW a \in Nat, NEW b \in Nat, NEW c \in Nat \ {0},
           a % c = 0, b % c = 0, a < b
    PROVE  a + c <= b
<1>1. PICK q \in Nat : a = c * q
  OBVIOUS
<1>2. PICK r \in Nat : b = c * r
  OBVIOUS
<1>3. q < r
  <2> SUFFICES ASSUME r <= q PROVE FALSE
    OBVIOUS
  <2>1. c * r <= c * q
    OBVIOUS
  <2> QED
    BY <1>1, <1>2, <2>1
<1>4. c * (q + 1) <= c * r /\ c * (q + 1) = a + c
  BY <1>1, <1>3
<1> QED
  BY <1>2, <1>4

(* What was read is whole chunks and less than was asked for; what is      *)
(* still to be written and what was written make up the size.              *)
FileInv ==
    /\ size \in Nat /\ length \in Nat
    /\ fileCall = "none" => fileSize = 0 /\ inKernel = 0
    /\ fileCall = "read" => /\ fileSize \in Nat /\ fileSize <= length
                            /\ fileSize % ReadPiece = 0
                            /\ size # 0 /\ Reachable => fileSize < size
    /\ fileCall = "write" /\ retVal = "SOK" /\ size < Int32Limit =>
          fileSize \in Nat /\ inKernel \in Nat /\ inKernel + fileSize = size

LEMMA PieceType == FileInv => ReadPiece \in Nat \ {0}
  BY FileAssumption DEF FileInv, ReadPiece, Smaller

LEMMA FileInvInit == FileInit => FileInv
  BY FileAssumption DEF FileInit, FileInv

(* One turn reads a piece, the rest of the file, or less: the piece never  *)
(* goes beyond what was asked for.                                         *)
LEMMA ReadTurnExact ==
    ASSUME FileInv, ReadTurn
    PROVE  /\ fileSize' \in Nat /\ fileSize' <= length
           /\ size # 0 /\ Reachable => fileSize' <= size
           /\ fileCall' # "done" => /\ fileSize' % ReadPiece = 0
                                    /\ size # 0 => fileSize' # size
           /\ fileCall' = "done" /\ ~short' =>
                 \/ fileSize' = length
                 \/ size # 0 /\ fileSize' = size
<1> DEFINE p == ReadPiece
           rest == length - fileSize
<1>1. p \in Nat \ {0} /\ size \in Nat /\ length \in Nat
  BY PieceType DEF FileInv
<1>2. /\ fileSize \in Nat /\ fileSize <= length /\ fileSize % p = 0
      /\ size # 0 /\ Reachable => fileSize < size
  BY DEF FileInv, ReadTurn
<1>3. PICK k \in 0 .. Smaller(p, rest) :
         /\ short' = (k < Smaller(p, rest))
         /\ fileSize' = fileSize + k
         /\ fileCall' = IF k # p \/ HasAll(fileSize') THEN "done" ELSE "read"
  BY DEF ReadTurn
<1>4. ASSUME size # 0, Reachable PROVE fileSize + p <= size
  <2>1. fileSize < size
    BY <1>2, <1>4
  <2>2. CASE size <= ReadChunk
    <3>1. p = size
      BY <1>1, <1>4, <2>2, FileAssumption DEF ReadPiece, Smaller
    <3>2. fileSize = 0
      BY <1>1, <1>2, <2>1, <3>1
    <3> QED
      BY <1>1, <3>1, <3>2
  <2>3. CASE ~(size <= ReadChunk)
    <3>1. p = ReadChunk /\ size % p = 0
      BY <1>1, <1>4, <2>3, FileAssumption DEF ReadPiece, Smaller, Reachable
    <3> HIDE DEF p
    <3> QED
      BY <1>1, <1>2, <2>1, <3>1, ChunksApart
  <2> QED
    BY <2>2, <2>3
<1> HIDE DEF p
<1>5. k \in Nat /\ k <= p /\ k <= rest /\ fileSize' = fileSize + k
  BY <1>1, <1>2, <1>3 DEF Smaller
<1>6. fileSize' \in Nat /\ fileSize' <= length
  BY <1>1, <1>2, <1>5
<1>7. ASSUME size # 0, Reachable PROVE fileSize' <= size
  BY <1>1, <1>2, <1>4, <1>5, <1>7
<1>8. ASSUME fileCall' # "done"
      PROVE  fileSize' % p = 0 /\ (size # 0 => fileSize' # size)
  <2>1. k = p /\ ~HasAll(fileSize')
    BY <1>3, <1>8
  <2>2. (fileSize + p) % p = 0
    BY <1>1, <1>2, OneMoreChunk
  <2> QED
    BY <1>3, <2>1, <2>2 DEF HasAll
<1>9. ASSUME fileCall' = "done", ~short'
      PROVE  fileSize' = length \/ (size # 0 /\ fileSize' = size)
  <2>1. ~(k < Smaller(p, rest))
    BY <1>3, <1>9
  <2>2. CASE k # p
    <3>1. k = rest
      BY <1>1, <1>2, <1>5, <2>1, <2>2 DEF Smaller
    <3> QED
      BY <1>1, <1>2, <1>5, <3>1
  <2>3. CASE k = p
    BY <1>3, <1>9, <2>3 DEF HasAll
  <2> QED
    BY <2>2, <2>3
<1> QED
  BY <1>6, <1>7, <1>8, <1>9 DEF p

LEMMA FileInvStep == FileInv /\ [FileNext]_fileVars => FileInv'
<1> SUFFICES ASSUME FileInv, [FileNext]_fileVars PROVE FileInv'
  OBVIOUS
<1>0. size \in Nat /\ length \in Nat
  BY DEF FileInv
<1>1. CASE OpenRefused
  BY <1>0, <1>1 DEF OpenRefused, FileInv
<1>2. CASE BeginRead
  <2>1. /\ fileCall' = "read" /\ UNCHANGED <<size, length>> /\ fileSize' = 0
        /\ ReadPiece' = ReadPiece /\ Reachable' = Reachable
    BY <1>2 DEF BeginRead, FileInv, ReadPiece, Reachable
  <2>2. ReadPiece \in Nat \ {0}
    BY PieceType
  <2>3. 0 % ReadPiece = 0
    BY <2>2
  <2> QED
    BY <1>0, <2>1, <2>3 DEF FileInv
<1>3. CASE ReadTurn
  <2>1. /\ UNCHANGED <<size, length>> /\ fileCall' \in {"done", "read"}
        /\ ReadPiece' = ReadPiece /\ Reachable' = Reachable
    BY <1>3 DEF ReadTurn, ReadPiece, Reachable
  <2>2. CASE fileCall' = "done"
    BY <1>0, <2>1, <2>2 DEF FileInv
  <2>3. CASE fileCall' = "read"
    <3>1. /\ fileSize' \in Nat /\ fileSize' <= length /\ fileSize' % ReadPiece = 0
          /\ size # 0 /\ Reachable => fileSize' <= size /\ fileSize' # size
      BY <1>3, <2>3, ReadTurnExact
    <3>2. size # 0 /\ Reachable => fileSize' < size
      BY <1>0, <3>1
    <3> QED
      BY <1>0, <2>1, <2>3, <3>1, <3>2 DEF FileInv
  <2> QED
    BY <2>1, <2>2, <2>3
<1>4. CASE BeginWrite
  <2>1. /\ UNCHANGED <<size, length>> /\ fileCall' \in {"done", "write"}
        /\ fileSize' = Signed(size) /\ inKernel' = 0
    BY <1>4 DEF BeginWrite, FileInv
  <2>2. size < Int32Limit => fileSize' = size
    BY <2>1 DEF Signed
  <2> QED
    BY <1>0, <2>1, <2>2 DEF FileInv
<1>5. CASE WriteTurn
  <2>1. PICK k \in 0 .. WritePiece :
           /\ inKernel' = inKernel + k
           /\ IF Short(k)
              THEN retVal' = "EFAIL" /\ UNCHANGED fileSize
              ELSE fileSize' = fileSize - WritePiece /\ UNCHANGED retVal
    BY <1>5 DEF WriteTurn
  <2>2. /\ UNCHANGED <<size, length, fileCall>> /\ fileCall = "write" /\ retVal = "SOK"
        /\ fileSize > 0
    BY <1>5 DEF WriteTurn
  <2>3. CASE retVal' # "SOK" \/ ~(size < Int32Limit)
    BY <1>0, <2>2, <2>3 DEF FileInv
  <2>4. CASE retVal' = "SOK" /\ size < Int32Limit
    <3>1. fileSize \in Nat /\ inKernel \in Nat /\ inKernel + fileSize = size
      BY <2>2, <2>4 DEF FileInv
    <3>2. k = WritePiece /\ fileSize' = fileSize - WritePiece
      BY <2>1, <2>4 DEF Short
    <3>3. WritePiece \in Nat /\ WritePiece <= fileSize
      BY <3>1, FileAssumption DEF WritePiece, Smaller
    <3>4. fileSize' \in Nat /\ inKernel' \in Nat /\ inKernel' + fileSize' = size
      BY <2>1, <3>1, <3>2, <3>3
    <3> QED
      BY <1>0, <2>2, <3>4 DEF FileInv
  <2> QED
    BY <2>3, <2>4
<1>6. CASE CloseWritten
  BY <1>0, <1>6 DEF CloseWritten, FileInv
<1>7. CASE UNCHANGED fileVars
  BY <1>7 DEF fileVars, FileInv, ReadPiece, Reachable
<1> QED
  BY <1>1, <1>2, <1>3, <1>4, <1>5, <1>6, <1>7 DEF FileNext

LEMMA StepReadsAsAsked == FileInv /\ FileNext => ReadAsAsked
<1> SUFFICES ASSUME FileInv, FileNext, fileCall = "read", Reachable
             PROVE  /\ size # 0 => fileSize' <= size
                    /\ (fileCall' = "done" /\ ~short') =>
                          fileSize' = IF size = 0 THEN length ELSE Smaller(size, length)
  BY DEF ReadAsAsked
<1>1. ReadTurn
  BY DEF FileNext, OpenRefused, BeginRead, BeginWrite, WriteTurn, CloseWritten
<1>2. size \in Nat /\ length \in Nat
  BY DEF FileInv
<1>3. size # 0 => fileSize' <= size
  BY <1>1, ReadTurnExact
<1>4. ASSUME fileCall' = "done", ~short'
      PROVE  fileSize' = IF size = 0 THEN length ELSE Smaller(size, length)
  <2>1. /\ fileSize' \in Nat /\ fileSize' <= length
        /\ fileSize' = length \/ (size # 0 /\ fileSize' = size)
    BY <1>1, <1>4, ReadTurnExact
  <2> QED
    BY <1>2, <1>3, <2>1 DEF Smaller
<1> QED
  BY <1>3, <1>4

LEMMA StepWritesAsReported == FileInv /\ FileNext => WrittenAsReported
<1> SUFFICES ASSUME FileInv, FileNext, fileCall = "write", fileCall' = "done", retVal = "SOK",
                    size < Int32Limit, inKernel' = inKernel
             PROVE  inKernel' = size
  BY DEF WrittenAsReported
<1>1. CloseWritten
  BY DEF FileNext, OpenRefused, BeginRead, BeginWrite, WriteTurn, ReadTurn
<1>2. fileSize \in Nat /\ inKernel \in Nat /\ inKernel + fileSize = size
  BY DEF FileInv
<1>3. fileSize <= 0
  BY <1>1 DEF CloseWritten
<1> QED
  BY <1>2, <1>3

(* The two functions of osa_file.c report a file as it is, for every chunk *)
(* size, every length and every point where a piece comes short: what is   *)
(* read is never more than was asked for, and all of it if the file has    *)
(* it and the request is whole chunks (:36-50); what is written is there   *)
(* whole, if its size is one an Int32 has (:95).                           *)
THEOREM FilesReported == FileSpec => FilesAsReported
<1>1. FileInv /\ [FileNext]_fileVars => [ReadAsAsked /\ WrittenAsReported]_fileVars
  BY StepReadsAsAsked, StepWritesAsReported
<1> QED
  BY <1>1, FileInvInit, FileInvStep, PTL DEF FileSpec, FilesAsReported
=============================================================================
