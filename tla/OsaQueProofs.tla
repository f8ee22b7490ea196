---------------------------- MODULE OsaQueProofs ----------------------------
(***************************************************************************)
(* Proofs about OsaQue, for any number of threads and values and every     *)
(* length of the ring.                                                     *)
(***************************************************************************)
EXTENDS OsaQue, FiniteSetTheorems, SequenceTheorems, TLAPS

(* The remainder as osa_que.c uses it: no index is ever as large as twice  *)
(* the length of the ring.                                                 *)
LEMMA Wrap ==
    \A x \in Nat : x < 2 * QueLen =>
        x % QueLen = IF x < QueLen THEN x ELSE x - QueLen
  BY QueLenAssumption

(* A signal leaves every thread at a place.                                *)
LEMMA SignalTyped ==
    ASSUME NEW t \in Threads, NEW w \in States, NEW k \in States,
           pc \in [Threads -> States], SignalAndLeave(t, w, k)
    PROVE  pc' \in [Threads -> States]
  BY DEF SignalAndLeave, States, At

LEMMA ReplyTyped ==
    \A op \in {"none", "put", "get"}, ok \in BOOLEAN, v \in Values \cup {NoValue} :
        Reply(op, ok, v) \in Replies
  BY DEF Reply, Replies

LEMMA TypeInit == Init => TypeOK
<1> SUFFICES ASSUME Init PROVE TypeOK
  OBVIOUS
<1>1. 0 \in Idx /\ 0 \in 0 .. QueLen
  BY QueLenAssumption DEF Idx
<1>2. reply \in [Threads -> Replies]
  BY ReplyTyped DEF Init
<1> QED
  BY <1>1, <1>2 DEF Init, TypeOK, States

(* A ring index moves on to a ring index. *)
LEMMA NextIndex == \A i \in Idx : (i + 1) % QueLen \in Idx
  BY Wrap, QueLenAssumption DEF Idx

LEMMA StoreTyped ==
    ASSUME TypeOK, NEW t \in Threads, NEW v \in Values, StorePut(t, v)
    PROVE  TypeOK'
<1> USE DEF TypeOK, StorePut
<1>1. queue' \in [Idx -> Values \cup {NoValue}] /\ curWr' \in Idx /\ curRd' \in Idx
  BY NextIndex
<1>2. count' \in 0 .. QueLen
  BY QueLenAssumption
<1>3. pc' \in [Threads -> States]
  BY SignalTyped DEF States
<1>4. arg' \in [Threads -> Values \cup {NoValue}] /\ reply' \in [Threads -> Replies]
  BY ReplyTyped
<1>5. \A u \in Threads : pc'[u] \in {"waitWr", "wokenWr"} => arg'[u] \in Values
  BY DEF SignalAndLeave, At, States
<1> QED
  BY <1>1, <1>2, <1>3, <1>4, <1>5

LEMMA FetchTyped ==
    ASSUME TypeOK, NEW t \in Threads, FetchGet(t), pc[t] \in {"idle", "wokenRd"}
    PROVE  TypeOK'
<1> USE DEF TypeOK, FetchGet
<1>1. curRd' \in Idx /\ curWr' \in Idx /\ queue' \in [Idx -> Values \cup {NoValue}]
  BY NextIndex
<1>2. count' \in 0 .. QueLen
  BY QueLenAssumption
<1>3. pc' \in [Threads -> States]
  BY SignalTyped DEF States
<1>4. arg' \in [Threads -> Values \cup {NoValue}] /\ reply' \in [Threads -> Replies]
  BY ReplyTyped
<1>5. \A u \in Threads : pc'[u] \in {"waitWr", "wokenWr"} => arg'[u] \in Values
  BY DEF SignalAndLeave, At, States
<1> QED
  BY <1>1, <1>2, <1>3, <1>4, <1>5

LEMMA TypeStep == TypeOK /\ [Next]_vars => TypeOK'
<1> SUFFICES ASSUME TypeOK, [Next]_vars PROVE TypeOK'
  OBVIOUS
<1>1. ASSUME NEW t \in Threads, NEW v \in Values,
             RefusePut(t, v) \/ BlockPut(t, v)
      PROVE  TypeOK'
  <2>1. CASE RefusePut(t, v)
    BY <2>1, ReplyTyped DEF TypeOK, RefusePut
  <2>2. CASE BlockPut(t, v)
    BY <2>2 DEF TypeOK, BlockPut, States
  <2> QED
    BY <1>1, <2>1, <2>2
<1>2. ASSUME NEW t \in Threads, RefuseGet(t) \/ BlockGet(t)
      PROVE  TypeOK'
  <2>1. CASE RefuseGet(t)
    BY <2>1, ReplyTyped DEF TypeOK, RefuseGet
  <2>2. CASE BlockGet(t)
    BY <2>2 DEF TypeOK, BlockGet, States
  <2> QED
    BY <1>2, <2>1, <2>2
<1>3. ASSUME NEW t \in Threads, SpuriousWakeup(t) PROVE TypeOK'
  BY <1>3 DEF TypeOK, SpuriousWakeup, States
<1>4. ASSUME NEW t \in Threads, NEW v \in Values, NEW timeout \in Timeouts,
             quePut(t, v, timeout)
      PROVE  TypeOK'
  BY <1>1, <1>4, StoreTyped DEF quePut
<1>5. ASSUME NEW t \in Threads, NEW timeout \in Timeouts, queGet(t, timeout)
      PROVE  TypeOK'
  BY <1>2, <1>5, FetchTyped DEF queGet
<1>6. ASSUME NEW t \in Threads, quePutResume(t) PROVE TypeOK'
  <2>1. arg[t] \in Values
    BY <1>6 DEF TypeOK, quePutResume
  <2> QED
    BY <1>1, <1>6, <2>1, StoreTyped DEF quePutResume
<1>7. ASSUME NEW t \in Threads, queGetResume(t) PROVE TypeOK'
  BY <1>2, <1>7, FetchTyped DEF queGetResume
<1>8. CASE UNCHANGED vars
  BY <1>8 DEF TypeOK, vars
<1> QED
  BY <1>3, <1>4, <1>5, <1>6, <1>7, <1>8 DEF Next, Resume

(* The fields of the ring, the places of the threads, the value a blocked  *)
(* put carries and the replies keep their types: osa_que.c:51-106.         *)
THEOREM QueTypeCorrect == Spec => []TypeOK
<1> QED
  BY TypeInit, TypeStep, PTL DEF Spec
-----------------------------------------------------------------------------
(* The slot after n further ones is n + 1 further on, counted from the     *)
(* first slot; and so is the slot n further on than the second.            *)
LEMMA WrapGrow ==
    ASSUME NEW i \in Idx, NEW n \in 0 .. QueLen - 1
    PROVE  (((i + n) % QueLen) + 1) % QueLen = (i + (n + 1)) % QueLen
<1> USE QueLenAssumption DEF Idx
<1> DEFINE m == (i + n) % QueLen
<1>1. i + n \in Nat /\ i + n < 2 * QueLen /\ i + (n + 1) \in Nat
  OBVIOUS
<1>2. m = IF i + n < QueLen THEN i + n ELSE i + n - QueLen
  BY <1>1, Wrap
<1>3. m \in Nat /\ m + 1 \in Nat /\ m + 1 < 2 * QueLen
  BY <1>1, <1>2
<1>4. (m + 1) % QueLen = IF m + 1 < QueLen THEN m + 1 ELSE m + 1 - QueLen
  BY <1>3, Wrap
<1>5. (i + (n + 1)) % QueLen = IF i + n + 1 < QueLen THEN i + n + 1 ELSE i + n + 1 - QueLen
  BY Wrap
<1> HIDE DEF m
<1> QED
  BY <1>2, <1>4, <1>5 DEF m

LEMMA WrapShift ==
    ASSUME NEW i \in Idx, NEW n \in 0 .. QueLen - 1
    PROVE  (((i + 1) % QueLen) + n) % QueLen = (i + (n + 1)) % QueLen
<1> USE QueLenAssumption DEF Idx
<1> DEFINE m == (i + 1) % QueLen
<1>1. m = IF i + 1 < QueLen THEN i + 1 ELSE i + 1 - QueLen
  BY Wrap
<1>2. m \in Idx
  BY NextIndex
<1>3. (i + (n + 1)) % QueLen = IF i + n + 1 < QueLen THEN i + n + 1 ELSE i + n + 1 - QueLen
  BY Wrap
<1> HIDE DEF m
<1>4. m + n \in Nat /\ m + n < 2 * QueLen
  BY <1>2
<1>5. (m + n) % QueLen = IF m + n < QueLen THEN m + n ELSE m + n - QueLen
  BY <1>2, <1>4, Wrap
<1>6. (m + n) % QueLen = (i + (n + 1)) % QueLen
  BY <1>1, <1>2, <1>3, <1>5
<1> QED
  BY <1>6 DEF m

(* Different distances from a slot lead to different slots. *)
LEMMA WrapDistinct ==
    ASSUME NEW i \in Idx, NEW n \in Idx, NEW k \in Idx, n < k
    PROVE  (i + n) % QueLen \in Idx /\ (i + n) % QueLen # (i + k) % QueLen
<1> USE QueLenAssumption DEF Idx
<1>1. (i + n) % QueLen = IF i + n < QueLen THEN i + n ELSE i + n - QueLen
  BY Wrap
<1>2. (i + k) % QueLen = IF i + k < QueLen THEN i + k ELSE i + k - QueLen
  BY Wrap
<1> QED
  BY <1>1, <1>2

LEMMA RingInit == Init => RingConsistent
  BY QueLenAssumption DEF Init, RingConsistent, Idx

LEMMA StoreRing ==
    ASSUME TypeOK, RingConsistent, NEW t \in Threads, NEW v \in Values,
           StorePut(t, v)
    PROVE  RingConsistent'
<1> USE QueLenAssumption DEF TypeOK, RingConsistent, StorePut, Idx
<1>1. curWr' = (curRd' + count') % QueLen
  BY WrapGrow
<1>2. ASSUME NEW i \in Idx, i < count
      PROVE  (curRd + i) % QueLen \in Idx /\ (curRd + i) % QueLen # curWr
  <2>1. count \in Idx
    OBVIOUS
  <2>2. (curRd + i) % QueLen \in Idx /\ (curRd + i) % QueLen # (curRd + count) % QueLen
    BY <1>2, <2>1, WrapDistinct
  <2> QED
    BY <2>2
<1>3. ASSUME NEW i \in Idx, i < count'
      PROVE  queue'[(curRd' + i) % QueLen] \in Values
  <2>1. CASE i < count
    BY <1>2, <2>1
  <2>2. CASE i = count
    BY <2>2
  <2> QED
    BY <1>3, <2>1, <2>2
<1> QED
  BY <1>1, <1>3

LEMMA FetchRing ==
    ASSUME TypeOK, RingConsistent, NEW t \in Threads, FetchGet(t)
    PROVE  RingConsistent'
<1> USE QueLenAssumption DEF TypeOK, RingConsistent, FetchGet, Idx
<1>1. curWr' = (curRd' + count') % QueLen
  <2>1. count - 1 \in 0 .. QueLen - 1 /\ (count - 1) + 1 = count
    OBVIOUS
  <2>2. (((curRd + 1) % QueLen) + (count - 1)) % QueLen = (curRd + ((count - 1) + 1)) % QueLen
    BY <2>1, WrapShift
  <2> QED
    BY <2>1, <2>2
<1>2. ASSUME NEW i \in Idx, i < count'
      PROVE  queue'[(curRd' + i) % QueLen] \in Values
  <2>1. i + 1 \in Idx /\ i + 1 < count
    BY <1>2
  <2>2. (curRd' + i) % QueLen = (curRd + (i + 1)) % QueLen
    BY WrapShift
  <2> QED
    BY <2>1, <2>2
<1> QED
  BY <1>1, <1>2

LEMMA RingStep == TypeOK /\ RingConsistent /\ [Next]_vars => RingConsistent'
<1> SUFFICES ASSUME TypeOK, RingConsistent, [Next]_vars
             PROVE  RingConsistent'
  OBVIOUS
<1>1. ASSUME UNCHANGED <<queue, curRd, curWr, count>> PROVE RingConsistent'
  BY <1>1 DEF RingConsistent
<1>2. ASSUME NEW t \in Threads, NEW v \in Values, NEW timeout \in Timeouts,
             quePut(t, v, timeout)
      PROVE  RingConsistent'
  BY <1>1, <1>2, StoreRing DEF quePut, RefusePut, BlockPut
<1>3. ASSUME NEW t \in Threads, NEW timeout \in Timeouts, queGet(t, timeout)
      PROVE  RingConsistent'
  BY <1>1, <1>3, FetchRing DEF queGet, RefuseGet, BlockGet
<1>4. ASSUME NEW t \in Threads, quePutResume(t) PROVE RingConsistent'
  <2>1. arg[t] \in Values
    BY <1>4 DEF TypeOK, quePutResume
  <2> QED
    BY <1>1, <1>4, <2>1, StoreRing DEF quePutResume, BlockPut
<1>5. ASSUME NEW t \in Threads, queGetResume(t) PROVE RingConsistent'
  BY <1>1, <1>5, FetchRing DEF queGetResume, BlockGet
<1>6. ASSUME NEW t \in Threads, SpuriousWakeup(t) PROVE RingConsistent'
  BY <1>1, <1>6 DEF SpuriousWakeup
<1>7. CASE UNCHANGED vars
  BY <1>1, <1>7 DEF vars
<1> QED
  BY <1>2, <1>3, <1>4, <1>5, <1>6, <1>7 DEF Next, Resume

(* The two indices and the count of osa_que.c, updated one by one by a put *)
(* (:59-61) and a get (:89-93), always describe the same values, also    *)
(* when the indices wrap at the end of the ring.                           *)
THEOREM RingKept == Spec => []RingConsistent
<1> QED
  BY TypeInit, TypeStep, RingInit, RingStep, PTL DEF Spec
-----------------------------------------------------------------------------
(* The places of the threads are counted by finite sets. *)
LEMMA AtFinite ==
    \A s : /\ IsFiniteSet(At(s)) /\ Cardinality(At(s)) \in Nat
           /\ IsFiniteSet(At(s)') /\ Cardinality(At(s)') \in Nat
<1> SUFFICES ASSUME NEW s
             PROVE  /\ IsFiniteSet(At(s)) /\ Cardinality(At(s)) \in Nat
                    /\ IsFiniteSet(At(s)') /\ Cardinality(At(s)') \in Nat
  OBVIOUS
<1>1. At(s) \in SUBSET Threads /\ At(s)' \in SUBSET Threads
  BY DEF At
<1> QED
  BY <1>1, ThreadsAssumption, FS_Subset, FS_CardinalityType

(* A signal that leaves somebody waiting has woken one thread more. *)
LEMMA SignalWakes ==
    ASSUME TypeOK, NEW t \in Threads,
           NEW w \in States \ {"idle"}, NEW k \in States \ {"idle", w},
           pc[t] \notin {w, k}, SignalAndLeave(t, w, k), At(w)' # {}
    PROVE  At(w) # {} /\ Cardinality(At(k)') = Cardinality(At(k)) + 1
<1>1. At(w)' \subseteq At(w)
  BY DEF SignalAndLeave, At, TypeOK
<1>2. PICK u \in At(w) : pc' = [pc EXCEPT ![t] = "idle", ![u] = k]
  BY <1>1 DEF SignalAndLeave
<1>3. At(k)' = At(k) \cup {u} /\ u \notin At(k)
  BY <1>2 DEF At, TypeOK
<1> QED
  BY <1>1, <1>3, AtFinite, FS_AddElement

(* It wakes nobody who waits for the other condition, and of the threads   *)
(* woken from that one at most the caller is gone.                         *)
LEMMA SignalSpares ==
    ASSUME TypeOK, NEW t \in Threads,
           NEW w \in States \ {"idle"}, NEW k \in States \ {"idle", w},
           NEW x \in States \ {"idle", w, k}, NEW y \in States \ {"idle", w, k, x},
           pc[t] \in {"idle", y}, SignalAndLeave(t, w, k)
    PROVE  At(x)' = At(x) /\ Cardinality(At(y)') >= Cardinality(At(y)) - 1
<1>1. At(x)' = At(x) /\ At(y)' = At(y) \ {t}
  BY DEF SignalAndLeave, At, TypeOK
<1>2. Cardinality(At(y) \ {t}) >= Cardinality(At(y)) - 1
  <2>1. IsFiniteSet(At(y)) /\ Cardinality(At(y)) \in Nat
    BY AtFinite
  <2> QED
    BY <2>1, FS_RemoveElement
<1> QED
  BY <1>1, <1>2

LEMMA WakeupInit == Init => NoLostWakeup
  BY DEF Init, NoLostWakeup, At

LEMMA StoreWakeup ==
    ASSUME TypeOK, NoLostWakeup, NEW t \in Threads, NEW v \in Values,
           StorePut(t, v), pc[t] \in {"idle", "wokenWr"}
    PROVE  NoLostWakeup'
<1> USE QueLenAssumption, AtFinite DEF NoLostWakeup, StorePut
<1>1. At("waitRd")' # {} => count' <= Cardinality(At("wokenRd")')
  <2>1. ASSUME At("waitRd")' # {}
        PROVE  At("waitRd") # {}
               /\ Cardinality(At("wokenRd")') = Cardinality(At("wokenRd")) + 1
    BY <2>1, SignalWakes DEF States
  <2> QED
    BY <2>1 DEF TypeOK
<1>2. At("waitWr")' # {} => QueLen - count' <= Cardinality(At("wokenWr")')
  <2>1. At("waitWr")' = At("waitWr")
        /\ Cardinality(At("wokenWr")') >= Cardinality(At("wokenWr")) - 1
    BY SignalSpares DEF States
  <2> QED
    BY <2>1 DEF TypeOK
<1> QED
  BY <1>1, <1>2

LEMMA FetchWakeup ==
    ASSUME TypeOK, NoLostWakeup, NEW t \in Threads,
           FetchGet(t), pc[t] \in {"idle", "wokenRd"}
    PROVE  NoLostWakeup'
<1> USE QueLenAssumption, AtFinite DEF NoLostWakeup, FetchGet
<1>1. At("waitWr")' # {} => QueLen - count' <= Cardinality(At("wokenWr")')
  <2>1. ASSUME At("waitWr")' # {}
        PROVE  At("waitWr") # {}
               /\ Cardinality(At("wokenWr")') = Cardinality(At("wokenWr")) + 1
    BY <2>1, SignalWakes DEF States
  <2> QED
    BY <2>1 DEF TypeOK
<1>2. At("waitRd")' # {} => count' <= Cardinality(At("wokenRd")')
  <2>1. At("waitRd")' = At("waitRd")
        /\ Cardinality(At("wokenRd")') >= Cardinality(At("wokenRd")) - 1
    BY SignalSpares DEF States
  <2> QED
    BY <2>1 DEF TypeOK
<1> QED
  BY <1>1, <1>2

(* Who goes to sleep leaves the other condition as it is, and sleeps only  *)
(* when there is nothing to be woken for.                                  *)
LEMMA BlockWakeup ==
    ASSUME TypeOK, NoLostWakeup, NEW t \in Threads,
           \/ BlockGet(t) /\ pc[t] \in {"idle", "wokenRd"}
           \/ (\E v \in Values : BlockPut(t, v)) /\ pc[t] \in {"idle", "wokenWr"}
    PROVE  NoLostWakeup'
<1>1. CASE BlockGet(t) /\ pc[t] \in {"idle", "wokenRd"}
  <2>1. At("waitWr")' = At("waitWr") /\ At("wokenWr")' = At("wokenWr")
    BY <1>1 DEF BlockGet, At, TypeOK
  <2>2. count' = 0 /\ Cardinality(At("wokenRd")') \in Nat
    BY <1>1, AtFinite DEF BlockGet
  <2> QED
    BY <1>1, <2>1, <2>2 DEF NoLostWakeup, BlockGet
<1>2. CASE (\E v \in Values : BlockPut(t, v)) /\ pc[t] \in {"idle", "wokenWr"}
  <2>1. At("waitRd")' = At("waitRd") /\ At("wokenRd")' = At("wokenRd")
    BY <1>2 DEF BlockPut, At, TypeOK
  <2>2. count' = QueLen /\ count' = count /\ Cardinality(At("wokenWr")') \in Nat
    BY <1>2, AtFinite, QueLenAssumption DEF BlockPut, TypeOK
  <2> QED
    BY <2>1, <2>2, QueLenAssumption DEF NoLostWakeup
<1> QED
  BY <1>1, <1>2

LEMMA SpuriousWakeupKeeps ==
    ASSUME TypeOK, NoLostWakeup, NEW t \in Threads, SpuriousWakeup(t)
    PROVE  NoLostWakeup'
<1>1. \A x \in {"wokenRd", "wokenWr"} :
         Cardinality(At(x)) <= Cardinality(At(x)')
  <2>1. ASSUME NEW x \in {"wokenRd", "wokenWr"} PROVE At(x) \subseteq At(x)'
    BY DEF SpuriousWakeup, At, TypeOK
  <2> QED
    BY <2>1, AtFinite, FS_Subset
<1>2. \A x \in {"waitRd", "waitWr"} : At(x)' \subseteq At(x)
  BY DEF SpuriousWakeup, At, TypeOK
<1>3. count' = count /\ count \in Nat /\ QueLen - count \in Nat
  BY QueLenAssumption DEF SpuriousWakeup, TypeOK
<1> QED
  BY <1>1, <1>2, <1>3, AtFinite DEF NoLostWakeup

LEMMA WakeupStep == TypeOK /\ NoLostWakeup /\ [Next]_vars => NoLostWakeup'
<1> SUFFICES ASSUME TypeOK, NoLostWakeup, [Next]_vars PROVE NoLostWakeup'
  OBVIOUS
<1>1. ASSUME UNCHANGED <<count, pc>> PROVE NoLostWakeup'
  BY <1>1 DEF NoLostWakeup, At
<1>2. ASSUME NEW t \in Threads, NEW v \in Values, NEW timeout \in Timeouts,
             quePut(t, v, timeout)
      PROVE  NoLostWakeup'
  BY <1>1, <1>2, StoreWakeup, BlockWakeup DEF quePut, RefusePut
<1>3. ASSUME NEW t \in Threads, NEW timeout \in Timeouts, queGet(t, timeout)
      PROVE  NoLostWakeup'
  BY <1>1, <1>3, FetchWakeup, BlockWakeup DEF queGet, RefuseGet
<1>4. ASSUME NEW t \in Threads, quePutResume(t) PROVE NoLostWakeup'
  <2>1. arg[t] \in Values
    BY <1>4 DEF TypeOK, quePutResume
  <2> QED
    BY <1>4, <2>1, StoreWakeup, BlockWakeup DEF quePutResume
<1>5. ASSUME NEW t \in Threads, queGetResume(t) PROVE NoLostWakeup'
  BY <1>5, FetchWakeup, BlockWakeup DEF queGetResume
<1>6. CASE UNCHANGED vars
  BY <1>1, <1>6 DEF vars
<1> QED
  BY <1>2, <1>3, <1>4, <1>5, <1>6, SpuriousWakeupKeeps DEF Next, Resume

(* One pthread_cond_signal for each put and each get (osa_que.c:63, :95)   *)
(* is enough for any number of threads, though others may overtake those   *)
(* that are woken: while a thread waits, whatever it could have is on its  *)
(* way to a woken one.                                                     *)
THEOREM WakeupsKept == Spec => []NoLostWakeup
<1> QED
  BY TypeInit, TypeStep, WakeupInit, WakeupStep, PTL DEF Spec
-----------------------------------------------------------------------------
(* The occupied slots, in the order of the read index, are a sequence.     *)
ItemsQueued ==
    /\ Items \in Seq(Values)
    /\ Len(Items) = count
    /\ \A i \in 1 .. count : Items[i] = queue[(curRd + i - 1) % QueLen]

LEMMA ItemsTyped == TypeOK /\ RingConsistent => ItemsQueued
<1> SUFFICES ASSUME TypeOK, RingConsistent PROVE ItemsQueued
  OBVIOUS
<1>1. count \in Nat /\ count <= QueLen
  BY QueLenAssumption DEF TypeOK
<1>2. ASSUME NEW i \in 1 .. count PROVE queue[(curRd + i - 1) % QueLen] \in Values
  <2>1. i - 1 \in Idx /\ i - 1 < count
    BY <1>1, QueLenAssumption DEF Idx
  <2>2. curRd + (i - 1) = curRd + i - 1
    BY <1>1 DEF TypeOK, Idx
  <2> QED
    BY <2>1, <2>2 DEF RingConsistent
<1>3. Items \in [1 .. count -> Values]
  BY <1>2 DEF Items
<1>4. Items \in Seq(Values)
  BY <1>1, <1>3, SeqDef
<1>5. Len(Items) = count
  BY <1>1, <1>3, <1>4, LenProperties
<1> QED
  BY <1>4, <1>5 DEF ItemsQueued, Items

LEMMA ItemsTypedNext == TypeOK' /\ RingConsistent' => ItemsQueued'
  BY ItemsTyped, PTL

(* A put appends to the sequence. *)
LEMMA StoreAppends ==
    ASSUME TypeOK, RingConsistent, NEW t \in Threads, NEW v \in Values,
           StorePut(t, v)
    PROVE  Fifo!PutAccepted(t, v)
<1> USE QueLenAssumption DEF ItemsQueued
<1>1. TypeOK' /\ RingConsistent'
  BY StoreTyped, StoreRing
<1>2. /\ Append(Items, v) \in Seq(Values)
      /\ Len(Append(Items, v)) = count + 1
      /\ \A i \in 1 .. count : Append(Items, v)[i] = Items[i]
      /\ Append(Items, v)[count + 1] = v
  BY ItemsTyped, AppendProperties
<1>3. count \in Nat /\ count' = count + 1 /\ curRd \in Idx /\ curRd' = curRd
  BY DEF TypeOK, StorePut
<1>4. ASSUME NEW i \in 1 .. count
      PROVE  Items'[i] = Append(Items, v)[i]
  <2>1. i - 1 \in Idx /\ count \in Idx /\ i - 1 < count
    BY <1>3 DEF Idx, TypeOK, StorePut
  <2>2. (curRd + (i - 1)) % QueLen \in Idx /\ (curRd + (i - 1)) % QueLen # curWr
    BY <1>3, <2>1, WrapDistinct DEF RingConsistent
  <2>3. curRd + (i - 1) = curRd + i - 1 /\ i \in 1 .. count'
    BY <1>3 DEF Idx
  <2>4. queue'[(curRd + i - 1) % QueLen] = queue[(curRd + i - 1) % QueLen]
    BY <2>2, <2>3 DEF StorePut, TypeOK
  <2> QED
    BY <1>1, <1>2, <1>3, <2>3, <2>4, ItemsTyped, ItemsTypedNext
<1>5. Items'[count + 1] = Append(Items, v)[count + 1]
  <2>1. count + 1 \in 1 .. count' /\ curRd' + (count + 1) - 1 = curRd + count
    BY <1>3 DEF Idx
  <2>2. Items'[count + 1] = queue'[curWr]
    BY <1>1, <2>1, ItemsTypedNext DEF RingConsistent
  <2> QED
    BY <1>2, <2>2 DEF StorePut, TypeOK
<1>6. Items' \in Seq(Values) /\ Len(Items') = Len(Append(Items, v))
  BY <1>1, <1>2, <1>3, ItemsTypedNext
<1>7. \A i \in 1 .. Len(Items') : Items'[i] = Append(Items, v)[i]
  <2>1. \A i \in 1 .. Len(Items') : i \in 1 .. count \/ i = count + 1
    BY <1>2, <1>3, <1>6
  <2> QED
    BY <1>4, <1>5, <2>1
<1>8. Items' = Append(Items, v)
  BY <1>2, <1>6, <1>7, SeqEqual
<1> QED
  BY <1>8, ItemsTyped DEF Fifo!PutAccepted, Fifo!Reply, Reply, StorePut

(* A get takes the first of the sequence off. *)
LEMMA FetchTakesFirst ==
    ASSUME TypeOK, RingConsistent, NEW t \in Threads, FetchGet(t),
           pc[t] \in {"idle", "wokenRd"}
    PROVE  Fifo!GetAnswered(t)
<1> USE QueLenAssumption DEF ItemsQueued
<1>1. TypeOK' /\ RingConsistent'
  BY FetchTyped, FetchRing
<1>2. count \in Nat \ {0} /\ count' = count - 1 /\ curRd \in Idx
      /\ curRd' = (curRd + 1) % QueLen /\ queue' = queue /\ count <= QueLen
  BY DEF TypeOK, FetchGet
<1>3. Items \in Seq(Values) /\ Len(Items) = count /\ Items # <<>>
  BY <1>2, ItemsTyped, EmptySeq
<1>4. Tail(Items) \in Seq(Values) /\ Len(Tail(Items)) = count - 1
      /\ \A i \in 1 .. count - 1 : Tail(Items)[i] = Items[i + 1]
  BY <1>3, HeadTailProperties
<1>5. ASSUME NEW i \in 1 .. count - 1
      PROVE  Items'[i] = Tail(Items)[i]
  <2>1. i - 1 \in 0 .. QueLen - 1 /\ (i - 1) + 1 = i /\ i + 1 \in 1 .. count
    BY <1>2
  <2>2. (curRd' + (i - 1)) % QueLen = (curRd + i) % QueLen
    BY <1>2, <2>1, WrapShift
  <2>3. curRd' + (i - 1) = curRd' + i - 1 /\ curRd + i = curRd + (i + 1) - 1
    BY <1>1, <1>2 DEF TypeOK, Idx
  <2>4. Items'[i] = queue'[(curRd' + i - 1) % QueLen]
    BY <1>1, <1>2, ItemsTypedNext
  <2>5. Items[i + 1] = queue[(curRd + (i + 1) - 1) % QueLen]
    BY <2>1, ItemsTyped
  <2> QED
    BY <1>2, <1>4, <2>2, <2>3, <2>4, <2>5
<1>6. Items' = Tail(Items)
  <2>1. Items' \in Seq(Values) /\ Len(Items') = Len(Tail(Items))
    BY <1>1, <1>2, <1>4, ItemsTypedNext
  <2>2. \A i \in 1 .. Len(Items') : Items'[i] = Tail(Items)[i]
    BY <1>4, <1>5, <2>1
  <2> QED
    BY <1>4, <2>1, <2>2, SeqEqual
<1>7. Head(Items) = queue[curRd]
  <2>1. 1 \in 1 .. count /\ curRd + 1 - 1 = curRd
    BY <1>2 DEF Idx
  <2>2. curRd % QueLen = curRd
    BY <1>2, Wrap DEF Idx
  <2> QED
    BY <1>3, <2>1, <2>2, ItemsTyped
<1> QED
  BY <1>3, <1>6, <1>7 DEF Fifo!GetAnswered, Fifo!Reply, Reply, FetchGet

LEMMA FifoInit == Init => Fifo!Init
<1> SUFFICES ASSUME Init PROVE Fifo!Init
  OBVIOUS
<1>1. Items = <<>>
  BY DEF Init, Items
<1> QED
  BY <1>1 DEF Init, Fifo!Init, Fifo!Reply, Reply

(* Blocking, waking and overtaking leave the sequence and the replies.     *)
LEMMA FifoStep ==
    TypeOK /\ RingConsistent /\ [Next]_vars => [Fifo!Next]_<<Items, reply>>
<1> SUFFICES ASSUME TypeOK, RingConsistent, [Next]_vars
             PROVE  Fifo!Next \/ UNCHANGED <<Items, reply>>
  OBVIOUS
<1> DEFINE Step == Fifo!Next \/ UNCHANGED <<Items, reply>>
<1>1. ASSUME UNCHANGED <<queue, curRd, count, reply>> PROVE Step
  BY <1>1 DEF Items
<1>2. ASSUME NEW t \in Threads, NEW v \in Values, RefusePut(t, v) PROVE Step
  <2>1. Len(Items) = QueLen /\ UNCHANGED Items
    BY <1>2, ItemsTyped, QueLenAssumption
       DEF RefusePut, TypeOK, Items, ItemsQueued
  <2> QED
    BY <1>2, <2>1 DEF RefusePut, Reply, Fifo!Next, Fifo!PutRefused, Fifo!Reply
<1>3. ASSUME NEW t \in Threads, RefuseGet(t) PROVE Step
  <2>1. Items = <<>> /\ UNCHANGED Items
    BY <1>3 DEF RefuseGet, Items
  <2> QED
    BY <1>3, <2>1 DEF RefuseGet, Reply, Fifo!Next, Fifo!GetRefused, Fifo!Reply
<1>4. ASSUME NEW t \in Threads, NEW v \in Values, NEW timeout \in Timeouts,
             quePut(t, v, timeout)
      PROVE  Step
  BY <1>1, <1>2, <1>4, StoreAppends DEF quePut, BlockPut, Fifo!Next
<1>5. ASSUME NEW t \in Threads, NEW timeout \in Timeouts, queGet(t, timeout)
      PROVE  Step
  BY <1>1, <1>3, <1>5, FetchTakesFirst DEF queGet, BlockGet, Fifo!Next
<1>6. ASSUME NEW t \in Threads, quePutResume(t) PROVE Step
  <2>1. arg[t] \in Values
    BY <1>6 DEF TypeOK, quePutResume
  <2> QED
    BY <1>1, <1>6, <2>1, StoreAppends DEF quePutResume, BlockPut, Fifo!Next
<1>7. ASSUME NEW t \in Threads, queGetResume(t) PROVE Step
  BY <1>1, <1>7, FetchTakesFirst DEF queGetResume, BlockGet, Fifo!Next
<1>8. ASSUME NEW t \in Threads, SpuriousWakeup(t) PROVE Step
  BY <1>1, <1>8 DEF SpuriousWakeup
<1>9. CASE UNCHANGED vars
  BY <1>1, <1>9 DEF vars
<1> QED
  BY <1>4, <1>5, <1>6, <1>7, <1>8, <1>9 DEF Next, Resume

(* To its callers the ring of osa_que.c is a first-in first-out buffer of  *)
(* QueLen values: each call that returns takes effect at once, and a call  *)
(* is refused only when the buffer is full or empty.                       *)
THEOREM QueIsFifo == Spec => FifoSpec
<1> QED
  BY TypeInit, TypeStep, RingInit, RingStep, FifoInit, FifoStep, PTL
     DEF Spec, FifoSpec, Fifo!Spec, Fifo!vars
=============================================================================
