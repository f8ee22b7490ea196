-------------------------- MODULE OsaExchangeProofs --------------------------
(***************************************************************************)
(* Proofs about the objects threads exchange things by: OsaBuf, for any    *)
(* number of writers, readers and buffers, OsaEvent, for any set of flags  *)
(* and any number of threads, and OsaMbx, for any tasks, memory and queues.*)
(***************************************************************************)
EXTENDS OsaBuf, OsaEvent, OsaMbx, QueueLemmas

(* The buffers a thread works on: two in the middle of a switch. *)
Hand(t) == {bufId[t], newBufId[t]} \ {Invalid}
InHands == UNION {Hand(t) : t \in Threads}

BufTypeOK ==
    /\ emptyQue \in Seq(Bufs) /\ fullQue \in Seq(Bufs)
    /\ bufId \in [Threads -> Bufs \cup {Invalid}]
    /\ newBufId \in [Threads -> Bufs \cup {Invalid}]
    /\ \A t \in Threads : bufId[t] = Invalid => newBufId[t] = Invalid

(* No buffer is in two places ... *)
QueuesApart ==
    /\ Distinct(emptyQue) /\ Distinct(fullQue)
    /\ Members(emptyQue) \cap Members(fullQue) = {}
HandsApart ==
    /\ \A t \in Threads : /\ Hand(t) \cap Members(emptyQue) = {}
                          /\ Hand(t) \cap Members(fullQue) = {}
                          /\ bufId[t] = newBufId[t] => bufId[t] = Invalid
    /\ \A t, u \in Threads : t # u => Hand(t) \cap Hand(u) = {}

(* ... and each is in one. *)
AllThere == Bufs \subseteq Members(emptyQue) \cup Members(fullQue) \cup InHands

BufInv == BufTypeOK /\ QueuesApart /\ HandsApart /\ AllThere

LEMMA BufsFacts == /\ IsFiniteSet(Bufs) /\ Cardinality(Bufs) = NumBuf
                   /\ Invalid \notin Bufs /\ NumBuf \in Nat \ {0}
  BY BufAssumption, FS_Interval DEF Bufs, Invalid

LEMMA InitBufs == ASSUME Init PROVE BufInv
<1> USE DEF Init
<1>1. emptyQue \in Seq(Bufs) /\ fullQue \in Seq(Bufs)
  BY BufAssumption DEF Bufs
<1>2. BufTypeOK
  BY <1>1 DEF BufTypeOK
<1>3. Members(emptyQue) = Bufs /\ Members(fullQue) = {}
  BY DEF Members
<1>4. QueuesApart
  BY <1>3 DEF QueuesApart, Distinct
<1>5. \A t \in Threads : Hand(t) = {}
  BY DEF Hand
<1>6. HandsApart
  BY <1>5 DEF HandsApart
<1> QED
  BY <1>2, <1>3, <1>4, <1>6 DEF BufInv, AllThere

(* What a step does to the places of the buffers: thread t's hand changes  *)
(* and no other.                                                           *)
OnlyHand(t) == /\ \A u \in Threads \ {t} : Hand(u)' = Hand(u)
               /\ \A u \in Threads \ {t} : UNCHANGED <<bufId[u], newBufId[u]>>

LEMMA InHandsOf ==
    ASSUME NEW t \in Threads, OnlyHand(t)
    PROVE  /\ Hand(t) \subseteq InHands /\ Hand(t)' \subseteq InHands'
           /\ \A b \in InHands : b \in Hand(t) \/ b \in InHands'
  BY DEF OnlyHand, InHands

(* A get: the head of a queue moves to the hand.                           *)
LEMMA GetKeeps ==
    ASSUME BufInv, NEW t \in Threads, OnlyHand(t), BufTypeOK',
           NEW b \in Bufs,
           Hand(t)' = Hand(t) \cup {b},
           bufId'[t] = newBufId'[t] => bufId'[t] = Invalid,
           \/ /\ emptyQue # <<>> /\ b = Head(emptyQue)
              /\ emptyQue' = Tail(emptyQue) /\ UNCHANGED fullQue
           \/ /\ fullQue # <<>> /\ b = Head(fullQue)
              /\ fullQue' = Tail(fullQue) /\ UNCHANGED emptyQue
    PROVE  BufInv'
<1> USE DEF BufInv, BufTypeOK
<1>1. /\ Distinct(emptyQue') /\ Distinct(fullQue')
      /\ \/ /\ b \in Members(emptyQue)
            /\ Members(emptyQue') = Members(emptyQue) \ {b}
            /\ Members(fullQue') = Members(fullQue)
         \/ /\ b \in Members(fullQue)
            /\ Members(fullQue') = Members(fullQue) \ {b}
            /\ Members(emptyQue') = Members(emptyQue)
  BY MembersRemoved DEF QueuesApart
<1>2. QueuesApart'
  BY <1>1 DEF QueuesApart
<1>3. \A u \in Threads : b \notin Hand(u)
  BY <1>1 DEF HandsApart
<1>4. HandsApart'
  <2>1. \A u \in Threads :
            \/ u = t
            \/ Hand(u)' = Hand(u) /\ UNCHANGED <<bufId[u], newBufId[u]>>
    BY DEF OnlyHand
  <2>2. ASSUME NEW u \in Threads
        PROVE  /\ Hand(u)' \cap Members(emptyQue') = {}
               /\ Hand(u)' \cap Members(fullQue') = {}
               /\ bufId'[u] = newBufId'[u] => bufId'[u] = Invalid
    BY <1>1, <1>3, <2>1 DEF HandsApart, QueuesApart
  <2>3. ASSUME NEW u \in Threads, NEW v \in Threads, u # v
        PROVE  Hand(u)' \cap Hand(v)' = {}
    BY <1>3, <2>1, <2>3 DEF HandsApart
  <2> QED
    BY <2>2, <2>3 DEF HandsApart
<1>5. AllThere'
  BY <1>1, InHandsOf DEF AllThere
<1> QED
  BY <1>2, <1>4, <1>5

(* A put: a buffer moves from the hand to the end of a queue.              *)
LEMMA PutKeeps ==
    ASSUME BufInv, NEW t \in Threads, OnlyHand(t), BufTypeOK',
           NEW b \in Bufs \cap Hand(t),
           Hand(t)' = Hand(t) \ {b},
           bufId'[t] = newBufId'[t] => bufId'[t] = Invalid,
           \/ emptyQue' = Append(emptyQue, b) /\ UNCHANGED fullQue
           \/ fullQue' = Append(fullQue, b) /\ UNCHANGED emptyQue
    PROVE  BufInv'
<1> USE DEF BufInv, BufTypeOK
<1>0. b \in Bufs /\ b \notin Members(emptyQue) /\ b \notin Members(fullQue)
  BY DEF HandsApart
<1>1. /\ Distinct(emptyQue') /\ Distinct(fullQue')
      /\ \/ /\ Members(emptyQue') = Members(emptyQue) \cup {b}
            /\ Members(fullQue') = Members(fullQue)
         \/ /\ Members(fullQue') = Members(fullQue) \cup {b}
            /\ Members(emptyQue') = Members(emptyQue)
  <2>1. Distinct(emptyQue) /\ Distinct(fullQue)
    BY DEF QueuesApart
  <2>2. CASE emptyQue' = Append(emptyQue, b) /\ UNCHANGED fullQue
    BY <1>0, <2>1, <2>2, MembersAppended
  <2>3. CASE fullQue' = Append(fullQue, b) /\ UNCHANGED emptyQue
    BY <1>0, <2>1, <2>3, MembersAppended
  <2> QED
    BY <2>2, <2>3
<1>2. QueuesApart'
  BY <1>0, <1>1 DEF QueuesApart
<1>3. HandsApart'
  <2>1. \A u \in Threads :
            \/ u = t
            \/ Hand(u)' = Hand(u) /\ UNCHANGED <<bufId[u], newBufId[u]>>
    BY DEF OnlyHand
  <2>2. \A u \in Threads : Hand(u)' \subseteq Hand(u) /\ b \notin Hand(u)'
    BY <2>1 DEF HandsApart
  <2>3. \A u \in Threads : bufId'[u] = newBufId'[u] => bufId'[u] = Invalid
    BY <2>1 DEF HandsApart
  <2> QED
    BY <1>1, <2>2, <2>3 DEF HandsApart
<1>4. AllThere'
  BY <1>1, InHandsOf DEF AllThere
<1> QED
  BY <1>2, <1>3, <1>4

(* Filling a buffer moves none. *)
LEMMA StayKeeps ==
    ASSUME BufInv, UNCHANGED <<emptyQue, fullQue, bufId, newBufId>>
    PROVE  BufInv'
<1>1. \A t \in Threads : Hand(t)' = Hand(t)
  BY DEF Hand
<1>2. InHands' = InHands
  BY <1>1 DEF InHands
<1>3. BufTypeOK' /\ QueuesApart'
  BY DEF BufInv, BufTypeOK, QueuesApart
<1>4. HandsApart'
  BY <1>1 DEF BufInv, HandsApart
<1> QED
  BY <1>2, <1>3, <1>4 DEF BufInv, AllThere

LEMMA ThreadKeeps ==
    ASSUME BufInv, NEW t \in Threads, Write(t) \/ Read(t)
    PROVE  BufInv'
<1>0. /\ emptyQue \in Seq(Bufs) /\ fullQue \in Seq(Bufs)
      /\ bufId \in [Threads -> Bufs \cup {Invalid}]
      /\ newBufId \in [Threads -> Bufs \cup {Invalid}]
      /\ Invalid \notin Bufs
      /\ bufId[t] = Invalid => newBufId[t] = Invalid
      /\ \A u \in Threads : bufId[u] = Invalid => newBufId[u] = Invalid
      /\ bufId[t] = newBufId[t] => bufId[t] = Invalid
  BY BufsFacts DEF BufInv, BufTypeOK, HandsApart
<1>1. CASE Fill(t)
  BY <1>1, StayKeeps DEF Fill
<1>2. CASE GetEmpty(t) \/ GetFull(t)
  <2>1. PICK b \in Bufs :
            /\ bufId[t] = Invalid /\ newBufId[t] = Invalid
            /\ bufId' = [bufId EXCEPT ![t] = b] /\ UNCHANGED newBufId
            /\ \/ /\ emptyQue # <<>> /\ b = Head(emptyQue)
                  /\ emptyQue' = Tail(emptyQue) /\ UNCHANGED fullQue
               \/ /\ fullQue # <<>> /\ b = Head(fullQue)
                  /\ fullQue' = Tail(fullQue) /\ UNCHANGED emptyQue
    BY <1>0, <1>2, SeqFacts DEF GetEmpty, GetFull, Free
  <2>2. OnlyHand(t)
    BY <1>0, <2>1 DEF OnlyHand, Hand
  <2>3. Hand(t)' = Hand(t) \cup {b} /\ (bufId'[t] = newBufId'[t] => bufId'[t] = Invalid)
    BY <1>0, <2>1 DEF Hand
  <2>4. BufTypeOK'
    BY <1>0, <2>1, SeqFacts DEF BufTypeOK
  <2> QED
    BY <2>1, <2>2, <2>3, <2>4, GetKeeps
<1>3. CASE SwitchFullGet(t) \/ SwitchEmptyGet(t)
  <2>1. PICK b \in Bufs :
            /\ bufId[t] # Invalid /\ newBufId[t] = Invalid
            /\ newBufId' = [newBufId EXCEPT ![t] = b] /\ UNCHANGED bufId
            /\ \/ /\ emptyQue # <<>> /\ b = Head(emptyQue)
                  /\ emptyQue' = Tail(emptyQue) /\ UNCHANGED fullQue
               \/ /\ fullQue # <<>> /\ b = Head(fullQue)
                  /\ fullQue' = Tail(fullQue) /\ UNCHANGED emptyQue
    BY <1>0, <1>3, SeqFacts DEF SwitchFullGet, SwitchEmptyGet, Free
  <2>2. OnlyHand(t)
    BY <1>0, <2>1 DEF OnlyHand, Hand
  <2>3. b # bufId[t]
    <3>1. b \in Members(emptyQue) \cup Members(fullQue)
      BY <1>0, <2>1, MembersRemoved DEF BufInv, QueuesApart
    <3>2. bufId[t] \in Hand(t)
      BY <2>1 DEF Hand
    <3> QED
      BY <3>1, <3>2 DEF BufInv, HandsApart
  <2>4. Hand(t)' = Hand(t) \cup {b} /\ (bufId'[t] = newBufId'[t] => bufId'[t] = Invalid)
    BY <1>0, <2>1, <2>3 DEF Hand
  <2>5. BufTypeOK'
    BY <1>0, <2>1, SeqFacts DEF BufTypeOK
  <2> QED
    BY <2>1, <2>2, <2>4, <2>5, GetKeeps
<1>4. CASE PutFull(t) \/ PutEmpty(t)
  <2>1. /\ bufId[t] # Invalid /\ newBufId[t] = Invalid
        /\ bufId' = [bufId EXCEPT ![t] = Invalid] /\ UNCHANGED newBufId
        /\ \/ emptyQue' = Append(emptyQue, bufId[t]) /\ UNCHANGED fullQue
           \/ fullQue' = Append(fullQue, bufId[t]) /\ UNCHANGED emptyQue
    BY <1>4 DEF PutFull, PutEmpty, Free
  <2>2. OnlyHand(t)
    BY <1>0, <2>1 DEF OnlyHand, Hand
  <2>3. /\ bufId[t] \in Bufs \cap Hand(t) /\ Hand(t)' = Hand(t) \ {bufId[t]}
        /\ bufId'[t] = newBufId'[t] => bufId'[t] = Invalid
    BY <1>0, <2>1 DEF Hand
  <2>4. BufTypeOK'
    BY <1>0, <2>1, SeqFacts DEF BufTypeOK
  <2> QED
    BY <2>1, <2>2, <2>3, <2>4, PutKeeps
<1>5. CASE SwitchFullPut(t) \/ SwitchEmptyPut(t)
  <2>1. /\ newBufId[t] # Invalid
        /\ bufId' = [bufId EXCEPT ![t] = newBufId[t]]
        /\ newBufId' = [newBufId EXCEPT ![t] = Invalid]
        /\ \/ emptyQue' = Append(emptyQue, bufId[t]) /\ UNCHANGED fullQue
           \/ fullQue' = Append(fullQue, bufId[t]) /\ UNCHANGED emptyQue
    BY <1>5 DEF SwitchFullPut, SwitchEmptyPut, Free
  <2>2. OnlyHand(t)
    BY <1>0, <2>1 DEF OnlyHand, Hand
  <2>3. /\ bufId[t] \in Bufs \cap Hand(t) /\ Hand(t)' = Hand(t) \ {bufId[t]}
        /\ bufId'[t] = newBufId'[t] => bufId'[t] = Invalid
    BY <1>0, <2>1 DEF Hand
  <2>4. BufTypeOK'
    BY <1>0, <2>1, SeqFacts DEF BufTypeOK
  <2> QED
    BY <2>1, <2>2, <2>3, <2>4, PutKeeps
<1> QED
  BY <1>1, <1>2, <1>3, <1>4, <1>5 DEF Write, Read

LEMMA NextBufs == ASSUME BufInv, [Next]_vars PROVE BufInv'
<1>1. CASE Next
  BY <1>1, ThreadKeeps DEF Next, Threads
<1>2. CASE UNCHANGED vars
  BY <1>2, StayKeeps DEF vars
<1> QED
  BY <1>1, <1>2
-----------------------------------------------------------------------------
(* A buffer in a hand is in one hand, and there once. *)
LEMMA HandsCounted ==
    ASSUME BufInv, NEW b \in Bufs
    PROVE  Cardinality({t \in Threads : bufId[t] = b})
               + Cardinality({t \in Threads : newBufId[t] = b})
               = IF b \in InHands THEN 1 ELSE 0
<1> DEFINE old == {t \in Threads : bufId[t] = b}
           new == {t \in Threads : newBufId[t] = b}
<1>0. b # Invalid
  BY BufsFacts
<1>1. CASE b \in InHands
  <2>1. PICK t \in Threads : b \in Hand(t)
    BY <1>1 DEF InHands
  <2>2. \A u \in Threads : b \in Hand(u) => u = t
    BY <2>1 DEF BufInv, HandsApart
  <2>3. \A u \in Threads : bufId[u] = b \/ newBufId[u] = b => u = t
    BY <1>0, <2>2 DEF Hand
  <2>4. \/ bufId[t] = b /\ newBufId[t] # b
        \/ bufId[t] # b /\ newBufId[t] = b
    BY <1>0, <2>1 DEF Hand, BufInv, HandsApart
  <2>5. \/ old = {t} /\ new = {}
        \/ old = {} /\ new = {t}
    BY <2>3, <2>4
  <2> HIDE DEF old, new
  <2>6. Cardinality({t}) = 1 /\ Cardinality({}) = 0
    BY FS_Singleton, FS_EmptySet
  <2>7. Cardinality(old) + Cardinality(new) = 1
    BY <2>5, <2>6
  <2> QED
    BY <1>1, <2>7 DEF old, new
<1>2. CASE b \notin InHands
  <2>1. old = {} /\ new = {}
    BY <1>0, <1>2 DEF InHands, Hand
  <2> QED
    BY <1>2, <2>1, FS_EmptySet
<1> QED
  BY <1>1, <1>2

(* No buffer is lost or doubled by any interleaving of gets, puts and the  *)
(* two steps of a switch.                                                  *)
THEOREM BuffersKept == Spec => []BuffersOnce
<1>1. BufInv => BuffersOnce
  <2> SUFFICES ASSUME BufInv, NEW b \in Bufs
               PROVE  Places(b) = 1
    BY DEF BuffersOnce
  <2>1. /\ Cardinality({i \in DOMAIN emptyQue : emptyQue[i] = b})
               = IF b \in Members(emptyQue) THEN 1 ELSE 0
        /\ Cardinality({i \in DOMAIN fullQue : fullQue[i] = b})
               = IF b \in Members(fullQue) THEN 1 ELSE 0
    BY MembersCounted DEF BufInv, BufTypeOK, QueuesApart
  <2>2. /\ ~(b \in Members(emptyQue) /\ b \in Members(fullQue))
        /\ ~(b \in InHands /\ b \in Members(emptyQue))
        /\ ~(b \in InHands /\ b \in Members(fullQue))
        /\ b \in Members(emptyQue) \cup Members(fullQue) \cup InHands
    BY DEF BufInv, QueuesApart, HandsApart, AllThere, InHands
  <2>3. Places(b) = Cardinality({i \in DOMAIN emptyQue : emptyQue[i] = b})
                      + Cardinality({i \in DOMAIN fullQue : fullQue[i] = b})
                      + (IF b \in InHands THEN 1 ELSE 0)
    <3> DEFINE old == Cardinality({t \in Threads : bufId[t] = b})
               new == Cardinality({t \in Threads : newBufId[t] = b})
    <3>1. IsFiniteSet(Threads)
      BY BufAssumption, FS_Union DEF Threads
    <3>2. old \in Nat /\ new \in Nat
      BY <3>1, FS_Subset, FS_CardinalityType
    <3>3. old + new = IF b \in InHands THEN 1 ELSE 0
      BY HandsCounted
    <3> HIDE DEF old, new
    <3>4. Places(b) = Cardinality({i \in DOMAIN emptyQue : emptyQue[i] = b})
                        + Cardinality({i \in DOMAIN fullQue : fullQue[i] = b})
                        + old + new
      BY DEF Places, old, new
    <3> QED
      BY <2>1, <3>2, <3>3, <3>4
  <2> QED
    BY <2>1, <2>2, <2>3
<1> QED
  BY <1>1, InitBufs, NextBufs, PTL DEF Spec

(* A put never waits: the buffer in the thread's hand is missing from both *)
(* queues, so neither is full.                                             *)
THEOREM PutsNeverBlock == Spec => []PutsFindRoom
<1>1. BufInv => PutsFindRoom
  <2> SUFFICES ASSUME BufInv, NEW t \in Threads, bufId[t] # Invalid
               PROVE  HasRoom(fullQue) /\ HasRoom(emptyQue)
    BY DEF PutsFindRoom
  <2>1. bufId[t] \in Bufs /\ bufId[t] \in Hand(t)
    BY DEF BufInv, BufTypeOK, Hand
  <2>2. bufId[t] \notin Members(fullQue) /\ bufId[t] \notin Members(emptyQue)
    BY <2>1 DEF BufInv, HandsApart
  <2> QED
    BY <2>1, <2>2, BufsFacts, RoomForMissing
       DEF BufInv, BufTypeOK, QueuesApart, HasRoom
<1> QED
  BY <1>1, InitBufs, NextBufs, PTL DEF Spec
-----------------------------------------------------------------------------
StampTypeOK == stamp \in [Bufs -> Nat] /\ fills \in Nat

LEMMA NextStamps ==
    ASSUME StampTypeOK, [Next]_vars
    PROVE  StampTypeOK'
<1>1. ASSUME NEW t \in Threads, Fill(t)
      PROVE  StampTypeOK'
  <2>1. fills \in Nat /\ fills' = fills + 1
    BY <1>1 DEF Fill, StampTypeOK
  <2>2. fills' \in Nat
    BY <2>1
  <2>3. stamp \in [Bufs -> Nat] /\ stamp' = [stamp EXCEPT ![bufId[t]] = fills']
    BY <1>1 DEF Fill, StampTypeOK
  <2>4. stamp' \in [Bufs -> Nat]
    BY <2>2, <2>3
  <2> QED
    BY <2>2, <2>4 DEF StampTypeOK
<1>2. ASSUME UNCHANGED <<stamp, fills>>
      PROVE  StampTypeOK'
  BY <1>2 DEF StampTypeOK
<1> QED
  BY <1>1, <1>2 DEF Next, Write, Read, Threads, vars, GetEmpty, GetFull, PutFull,
     PutEmpty, SwitchFullGet, SwitchFullPut, SwitchEmptyGet, SwitchEmptyPut

(* Writers fill only what they hold, and that is neither queued as full    *)
(* nor with a reader, so what a reader has or will get stays as it is.     *)
THEOREM ReadersUndisturbed == Spec => ReaderUndisturbed
<1> DEFINE ForReader(b) == \/ \E i \in DOMAIN fullQue : fullQue[i] = b
                           \/ \E t \in Readers : b \in {bufId[t], newBufId[t]}
           Undisturbed == \A b \in Bufs : ForReader(b) => stamp'[b] = stamp[b]
<1>1. Init => BufInv /\ StampTypeOK
  BY InitBufs DEF Init, StampTypeOK
<1>2. BufInv /\ StampTypeOK /\ [Next]_vars => (BufInv /\ StampTypeOK)'
  BY NextBufs, NextStamps
<1>3. BufInv /\ StampTypeOK /\ [Next]_vars => Undisturbed
  <2> SUFFICES ASSUME BufInv, StampTypeOK, [Next]_vars, NEW b \in Bufs, ForReader(b)
               PROVE  stamp'[b] = stamp[b]
    OBVIOUS
  <2>1. ASSUME NEW w \in Writers, Fill(w)
        PROVE  stamp'[b] = stamp[b]
    <3>1. w \in Threads /\ bufId[w] \in Hand(w)
      BY <2>1 DEF Fill, Hand, Threads
    <3>2. CASE \E i \in DOMAIN fullQue : fullQue[i] = b
      <4>1. b \in Members(fullQue)
        BY <3>2 DEF Members
      <4>2. b # bufId[w]
        BY <3>1, <4>1 DEF BufInv, HandsApart
      <4> QED
        BY <2>1, <4>2 DEF Fill, StampTypeOK
    <3>3. ASSUME NEW r \in Readers, b \in {bufId[r], newBufId[r]}
          PROVE  stamp'[b] = stamp[b]
      <4>0. b # Invalid /\ r \notin Writers
        BY BufAssumption, BufsFacts
      <4>1. r \in Threads /\ r # w /\ b \in Hand(r)
        BY <3>3, <4>0 DEF Threads, Hand
      <4>2. b # bufId[w]
        BY <3>1, <4>1 DEF BufInv, HandsApart
      <4> QED
        BY <2>1, <4>2 DEF Fill, StampTypeOK
    <3> QED
      BY <3>2, <3>3
  <2>2. \/ UNCHANGED stamp
        \/ \E w \in Writers : Fill(w)
    BY DEF Next, Write, Read, vars, GetEmpty, GetFull, PutFull, PutEmpty,
       SwitchFullGet, SwitchFullPut, SwitchEmptyGet, SwitchEmptyPut
  <2> QED
    BY <2>1, <2>2
<1>4. Undisturbed => [Undisturbed]_vars
  OBVIOUS
<1> QED
  BY <1>1, <1>2, <1>3, <1>4, PTL DEF Spec, ReaderUndisturbed
-----------------------------------------------------------------------------
(* Event flags. *)
Requests == [mask : Masks, op : Ops, timeout : Timeouts]
Replies == [ok : BOOLEAN, stored : BOOLEAN, events : SUBSET Flags]

LEMMA RepliesTyped ==
    /\ NoReply \in Replies
    /\ \A flags \in SUBSET Flags : Reply(TRUE, TRUE, flags) \in Replies
  BY DEF NoReply, Reply, Replies

LEMMA ConsumeTyped ==
    ASSUME eFlags \in SUBSET Flags, NEW r, Consume(r)
    PROVE  eFlags' \in SUBSET Flags
  BY DEF Consume

LEMMA TypeParts ==
    TypeOK <=> /\ eFlags \in SUBSET Flags
               /\ pc \in [Waiters -> {"idle", "wait", "woken"}]
               /\ req \in [Waiters -> Requests]
               /\ reply \in [Waiters -> Replies]
               /\ \A w \in Waiters : pc[w] # "idle" => req[w].timeout # "NO_SUSPEND"
  BY DEF TypeOK, Requests, Replies

(* There is a flag to wait for. *)
LEMMA TypeInit == ASSUME Flags # {}, EventInit PROVE TypeOK
<1>1. Request(Flags, "AND", "NO_SUSPEND") \in Requests
  BY DEF Request, Requests, Masks, Ops, Timeouts
<1>2. /\ eFlags = {} /\ pc = [w \in Waiters |-> "idle"]
      /\ reply = [w \in Waiters |-> NoReply]
      /\ req \in [Waiters -> Requests]
  BY <1>1 DEF EventInit
<1>3. /\ eFlags \in SUBSET Flags
      /\ pc \in [Waiters -> {"idle", "wait", "woken"}]
      /\ reply \in [Waiters -> Replies]
      /\ \A w \in Waiters : pc[w] = "idle"
  BY <1>2, RepliesTyped
<1> QED
  BY <1>2, <1>3, TypeParts

(* A step of one thread. *)
LEMMA OneThread ==
    ASSUME TypeOK, NEW w \in Waiters, NEW r \in Requests, NEW a \in Replies,
           NEW p \in {"idle", "wait", "woken"},
           p # "idle" => r.timeout # "NO_SUSPEND",
           eFlags' \in SUBSET Flags,
           pc' = [pc EXCEPT ![w] = p],
           req' = [req EXCEPT ![w] = r],
           reply' = [reply EXCEPT ![w] = a]
    PROVE  TypeOK'
<1>1. /\ pc \in [Waiters -> {"idle", "wait", "woken"}]
      /\ req \in [Waiters -> Requests]
      /\ reply \in [Waiters -> Replies]
      /\ \A u \in Waiters : pc[u] # "idle" => req[u].timeout # "NO_SUSPEND"
  BY TypeParts
<1>2. /\ eFlags' \in SUBSET Flags
      /\ pc' \in [Waiters -> {"idle", "wait", "woken"}]
      /\ req' \in [Waiters -> Requests]
      /\ reply' \in [Waiters -> Replies]
  BY <1>1
<1>3. \A u \in Waiters : pc'[u] # "idle" => req'[u].timeout # "NO_SUSPEND"
  BY <1>1
<1> QED
  BY <1>2, <1>3 DEF TypeOK, Requests, Replies

LEMMA TypeStep == ASSUME TypeOK, [EventNext]_eventVars PROVE TypeOK'
<1>0. /\ eFlags \in SUBSET Flags
      /\ pc \in [Waiters -> {"idle", "wait", "woken"}]
      /\ req \in [Waiters -> Requests]
      /\ reply \in [Waiters -> Replies]
      /\ \A w \in Waiters : pc[w] # "idle" => req[w].timeout # "NO_SUSPEND"
  BY TypeParts
<1>1. ASSUME NEW flags \in SUBSET Flags, NEW op \in Ops, EventSet(flags, op)
      PROVE  TypeOK'
  BY <1>1 DEF EventSet, Waiting, TypeOK
<1>2. ASSUME NEW w \in Waiters, NEW mask \in Masks, NEW op \in Ops,
             NEW timeout \in Timeouts,
             EventRetrieve(w, Request(mask, op, timeout))
      PROVE  TypeOK'
  <2> DEFINE r == Request(mask, op, timeout)
  <2>1. r \in Requests
    BY DEF Request, Requests
  <2> HIDE DEF r
  <2>2. EventRetrieve(w, r)
    BY <1>2 DEF r
  <2>3. eFlags' \in SUBSET Flags
    BY <1>0, <2>2, ConsumeTyped DEF EventRetrieve
  <2>4. PICK a \in Replies, p \in {"idle", "wait"} :
            /\ pc' = [pc EXCEPT ![w] = p]
            /\ reply' = [reply EXCEPT ![w] = a]
            /\ p # "idle" => r.timeout # "NO_SUSPEND"
    <3>1. pc[w] = "idle" /\ pc = [pc EXCEPT ![w] = "idle"]
      BY <1>0, <2>2 DEF EventRetrieve
    <3>2. Reply(TRUE, TRUE, eFlags) \in Replies /\ Reply(TRUE, TRUE, {}) \in Replies
      BY <1>0, RepliesTyped
    <3> QED
      BY <2>2, <3>1, <3>2, RepliesTyped DEF EventRetrieve
  <2>5. req' = [req EXCEPT ![w] = r]
    BY <2>2 DEF EventRetrieve
  <2> QED
    BY <2>1, <2>3, <2>4, <2>5, OneThread
<1>3. ASSUME NEW w \in Waiters,
             RetrieveResume(w) \/ TimeOut(w) \/ SpuriousWakeup(w)
      PROVE  TypeOK'
  <2>1. eFlags' \in SUBSET Flags
    BY <1>0, <1>3, ConsumeTyped DEF RetrieveResume, TimeOut, SpuriousWakeup
  <2>2. /\ req[w] \in Requests /\ req' = [req EXCEPT ![w] = req[w]]
        /\ reply[w] \in Replies /\ reply = [reply EXCEPT ![w] = reply[w]]
    BY <1>0, <1>3 DEF RetrieveResume, TimeOut, SpuriousWakeup
  <2>3. Reply(TRUE, TRUE, eFlags) \in Replies /\ Reply(TRUE, TRUE, {}) \in Replies
    BY <1>0, RepliesTyped
  <2>4. PICK a \in Replies, p \in {"idle", "wait", "woken"} :
            pc' = [pc EXCEPT ![w] = p] /\ reply' = [reply EXCEPT ![w] = a]
    <3>1. CASE RetrieveResume(w)
      <4>1. \E p \in {"idle", "wait"} : pc' = [pc EXCEPT ![w] = p]
        BY <3>1 DEF RetrieveResume
      <4>2. \E a \in Replies : reply' = [reply EXCEPT ![w] = a]
        BY <2>2, <2>3, <3>1, RepliesTyped DEF RetrieveResume
      <4> QED
        BY <4>1, <4>2
    <3>2. CASE TimeOut(w)
      BY <2>3, <3>2 DEF TimeOut
    <3>3. CASE SpuriousWakeup(w)
      BY <2>2, <3>3 DEF SpuriousWakeup
    <3> QED
      BY <1>3, <3>1, <3>2, <3>3
  <2>5. req[w].timeout # "NO_SUSPEND"
    BY <1>0, <1>3 DEF RetrieveResume, TimeOut, SpuriousWakeup
  <2> QED
    BY <2>1, <2>2, <2>4, <2>5, OneThread
<1>4. CASE UNCHANGED eventVars
  BY <1>4 DEF eventVars, TypeOK
<1> QED
  BY <1>1, <1>2, <1>3, <1>4 DEF EventNext

(* With at least one flag, the variables keep their types and only a call  *)
(* that may wait is found waiting.                                         *)
THEOREM EventTypeCorrect == Flags # {} /\ EventSpec => []TypeOK
<1>1. Flags # {} /\ EventInit => TypeOK
  BY TypeInit
<1>2. TypeOK /\ [EventNext]_eventVars => TypeOK'
  BY TypeStep
<1>3. SUFFICES ASSUME Flags # {}
               PROVE  EventSpec => []TypeOK
  OBVIOUS
<1> QED
  BY <1>1, <1>2, <1>3, PTL DEF EventSpec
-----------------------------------------------------------------------------
(* A reply with events is only given after a test of the flags, in the     *)
(* step that stores and perhaps resets them.                               *)
Whole(w) == /\ Matches(reply'[w].events, req'[w])
            /\ reply'[w].events = eFlags
            /\ eFlags' = IF Consumes(req'[w]) THEN {} ELSE eFlags

LEMMA ReportStep ==
    ASSUME TypeOK, [EventNext]_eventVars, NEW u \in Waiters, Reports(u)
    PROVE  Whole(u)
<1>0. /\ pc \in [Waiters -> {"idle", "wait", "woken"}]
      /\ req \in [Waiters -> Requests]
      /\ reply \in [Waiters -> Replies]
  BY DEF TypeOK, Requests, Replies
<1>1. reply'[u] # reply[u] /\ reply'[u].events # {}
  BY DEF Reports
<1>a. \A a : reply' = [reply EXCEPT ![u] = a] => reply'[u] = a
  BY <1>0
<1>b. Reply(TRUE, TRUE, {}).events = {} /\ NoReply.events = {}
  BY DEF Reply, NoReply
<1>2. ASSUME NEW w \in Waiters, NEW r, EventRetrieve(w, r)
      PROVE  Whole(u)
  <2>1. u = w
    BY <1>0, <1>1, <1>2 DEF EventRetrieve
  <2>2. req'[u] = r
    BY <1>0, <1>2, <2>1 DEF EventRetrieve
  <2>3. Matches(eFlags, r) /\ reply'[u] = Reply(TRUE, TRUE, eFlags) /\ Consume(r)
    BY <1>1, <1>2, <1>a, <1>b, <2>1 DEF EventRetrieve
  <2> QED
    BY <2>2, <2>3 DEF Whole, Reply, Consume
<1>3. ASSUME NEW w \in Waiters, RetrieveResume(w)
      PROVE  Whole(u)
  <2>1. u = w
    BY <1>0, <1>1, <1>3 DEF RetrieveResume
  <2>2. UNCHANGED req
    BY <1>3 DEF RetrieveResume
  <2>3. /\ Matches(eFlags, req[u]) /\ Consume(req[u])
        /\ reply'[u] = Reply(TRUE, TRUE, eFlags)
    BY <1>1, <1>3, <1>a, <1>b, <2>1 DEF RetrieveResume
  <2> QED
    BY <2>2, <2>3 DEF Whole, Reply, Consume
<1>4. ASSUME NEW w \in Waiters
      PROVE  ~TimeOut(w) /\ ~SpuriousWakeup(w)
  BY <1>0, <1>1, <1>4 DEF TimeOut, SpuriousWakeup, Reply
<1>5. ASSUME NEW flags, NEW op
      PROVE  ~EventSet(flags, op)
  BY <1>1 DEF EventSet
<1> QED
  BY <1>1, <1>2, <1>3, <1>4, <1>5 DEF EventNext, eventVars

(* What a call reports is all that is set when it returns, with what it    *)
(* asked for among it; then nothing is left if it consumes, and all if it  *)
(* does not.                                                               *)
THEOREM ReportsWhole == Flags # {} /\ EventSpec => RetrievedWhole
<1> DEFINE AllWhole == \A w \in Waiters : Reports(w) => Whole(w)
<1>1. Flags # {} /\ EventInit => TypeOK
  BY TypeInit
<1>2. TypeOK /\ [EventNext]_eventVars => TypeOK'
  BY TypeStep
<1>3. TypeOK /\ [EventNext]_eventVars => [AllWhole]_eventVars
  BY ReportStep
<1>4. [AllWhole]_eventVars
        => [\A w \in Waiters : Reports(w) =>
              /\ Matches(reply'[w].events, req'[w])
              /\ reply'[w].events = eFlags
              /\ eFlags' = IF Consumes(req'[w]) THEN {} ELSE eFlags]_eventVars
  BY DEF Whole
<1>5. SUFFICES ASSUME Flags # {}
               PROVE  EventSpec => RetrievedWhole
  OBVIOUS
<1> QED
  BY <1>1, <1>2, <1>3, <1>4, <1>5, PTL DEF EventSpec, RetrievedWhole
-----------------------------------------------------------------------------
(* Flags only come with EventSet, which wakes a waiter if there is one; it *)
(* is this one if there is no other.                                       *)
THEOREM LoneWaiterServed == Flags # {} /\ EventSpec => AloneServed
<1> DEFINE Served ==
        \A w \in Waiters :
            (pc[w] = "wait" /\ Alone(w) /\ Matches(eFlags', req[w]))
                => Matches(eFlags, req[w]) \/ pc'[w] # "wait"
<1>1. Flags # {} /\ EventInit => TypeOK
  BY TypeInit
<1>2. TypeOK /\ [EventNext]_eventVars => TypeOK'
  BY TypeStep
<1>3. TypeOK /\ [EventNext]_eventVars => Served
  <2> SUFFICES ASSUME TypeOK, [EventNext]_eventVars, NEW w \in Waiters, pc[w] = "wait",
                      Alone(w), Matches(eFlags', req[w]), ~Matches(eFlags, req[w])
               PROVE  pc'[w] # "wait"
    OBVIOUS
  <2>1. ~(eFlags' \subseteq eFlags)
    BY DEF Matches, TypeOK, Masks
  <2>2. PICK flags \in SUBSET Flags, op \in Ops : EventSet(flags, op)
    BY <2>1 DEF EventNext, eventVars, EventRetrieve, RetrieveResume, TimeOut,
       SpuriousWakeup, Consume
  <2>3. Waiting = {w}
    BY DEF Waiting, Alone
  <2>4. pc' = [pc EXCEPT ![w] = "woken"]
    BY <2>2, <2>3 DEF EventSet
  <2> QED
    BY <2>4 DEF TypeOK
<1>4. Served => [Served]_eventVars
  OBVIOUS
<1>5. SUFFICES ASSUME Flags # {}
               PROVE  EventSpec => AloneServed
  OBVIOUS
<1> QED
  BY <1>1, <1>2, <1>3, <1>4, <1>5, PTL DEF EventSpec, AloneServed
-----------------------------------------------------------------------------
(* Mailboxes.  The order of a message's life is the heart of it: while it  *)
(* waits for an answer its sender is in a call that knows it, and a        *)
(* parameter is shared only while that call lasts.                         *)

(* A message in memory, and a call. *)
SentMessages == [from : Tasks, wait : BOOLEAN, prm : Prms \cup {None}, status : AckValues]
MbxCalls == [kind : {"send", "broadcast"}, to : Seq(Tasks), wait : BOOLEAN,
             prm : Prms \cup {None}, sent : SUBSET Ids, ret : AckValues]
InCall(t) == mbxPc[t] \in {"send", "ackwait"}

BoxesOK ==
    /\ rcv \in [Tasks -> Seq(Ids)] /\ ack \in [Tasks -> Seq(Ids)]
    /\ \A t \in Tasks : Len(rcv[t]) <= QueLen /\ Len(ack[t]) <= QueLen
HeapOK == heap \in [Ids -> SentMessages \cup {Freed}] /\ prmLive \subseteq Prms
TasksOK ==
    /\ mbxPc \in [Tasks -> {"ready", "send", "ackwait", "flush", "flushAck"}]
    /\ cur \in [Tasks -> Ids \cup {None}]
    /\ calls \in [Tasks -> 0 .. MaxCalls]
CallsOK == call \in [Tasks -> MbxCalls]
MbxTyped == BoxesOK /\ HeapOK /\ TasksOK /\ CallsOK

(* Where a call is: a sender has a receiver left, and a call that has sent *)
(* to several, or waits for several, is a broadcast.                       *)
CallShape(t) ==
    /\ mbxPc[t] = "send" => call[t].to # <<>>
    /\ mbxPc[t] = "ackwait" => call[t].wait
    /\ mbxPc[t] = "send" /\ ~call[t].wait => call[t].sent = {}
    /\ mbxPc[t] = "send" /\ ~call[t].wait /\ call[t].prm # None => Len(call[t].to) = 1
    /\ InCall(t) /\ call[t].kind = "send" => \A m, n \in call[t].sent : m = n
    /\ mbxPc[t] = "send" /\ call[t].kind = "send" =>
          Len(call[t].to) = 1 /\ call[t].sent = {}
CallsShaped == \A t \in Tasks : CallShape(t)

(* The messages a task holds in each of its three places. *)
BoxKinds == {"rcv", "ack", "cur"}
Held(k, t) == CASE k = "rcv" -> Members(rcv[t])
                [] k = "ack" -> Members(ack[t])
                [] k = "cur" -> {cur[t]} \ {None}

(* No message is in two places; those that are in one are the live ones.   *)
BoxesDistinct == \A t \in Tasks : Distinct(rcv[t]) /\ Distinct(ack[t])
MessagesApart ==
    /\ \A k, l \in BoxKinds, t, u \in Tasks :
          k # l \/ t # u => Held(k, t) \cap Held(l, u) = {}
    /\ \A m \in Ids : m \in Live <=> \E k \in BoxKinds, t \in Tasks : m \in Held(k, t)

(* A message that waits for its answer is one its sender waits for, in     *)
(* whoever's hands it is; and the answers a task has are to its own.       *)
SenderWaits == \A m \in Live : heap[m].wait =>
    InCall(heap[m].from) /\ m \in call[heap[m].from].sent
AnswersOwn == \A t \in Tasks : \A m \in Members(ack[t]) :
    heap[m].wait /\ heap[m].from = t
AwaitedLive == \A t \in Tasks : InCall(t) => \A m \in call[t].sent :
    m \in Live /\ heap[m].wait /\ heap[m].from = t /\ heap[m].prm = call[t].prm

(* What points to a parameter: calls under way, each to its own, and       *)
(* messages; two of these only if both belong to one call.                 *)
PrmsLive ==
    /\ \A m \in Live : heap[m].prm \in prmLive \cup {None}
    /\ \A t \in Tasks : InCall(t) => call[t].prm \in prmLive \cup {None}
CallsOwnPrm == \A t, u \in Tasks :
    InCall(t) /\ InCall(u) /\ call[t].prm = call[u].prm /\ call[t].prm # None => t = u
SendersPrm == \A t \in Tasks, m \in Live :
    InCall(t) /\ heap[m].prm = call[t].prm /\ call[t].prm # None => m \in call[t].sent
SharedPrm == \A m, n \in Live :
    heap[m].prm = heap[n].prm /\ heap[m].prm # None /\ m # n =>
        \E t \in Tasks : InCall(t) /\ call[t].prm = heap[m].prm
PrmsPointed == \A p \in prmLive :
    \/ \E m \in Live : heap[m].prm = p
    \/ \E t \in Tasks : InCall(t) /\ call[t].prm = p

MailInv == MbxTyped /\ CallsShaped /\ BoxesDistinct /\ MessagesApart
AnswerInv == SenderWaits /\ AnswersOwn /\ AwaitedLive
PrmInv == PrmsLive /\ CallsOwnPrm /\ SendersPrm /\ SharedPrm /\ PrmsPointed
MbxInv == MailInv /\ AnswerInv /\ PrmInv
-----------------------------------------------------------------------------
LEMMA NullIsNothing ==
    /\ None \notin Tasks /\ None \notin Ids /\ None \notin Prms
    /\ Freed \notin SentMessages
  BY MbxAssumption DEF Freed, SentMessages

LEMMA MessageTyped ==
    ASSUME NEW t \in Tasks, NEW wait \in BOOLEAN, NEW prm \in Prms \cup {None}
    PROVE  /\ Message(t, wait, prm) \in SentMessages
           /\ Message(t, wait, prm).from = t /\ Message(t, wait, prm).wait = wait
           /\ Message(t, wait, prm).prm = prm
  BY MbxAssumption DEF Message, SentMessages

LEMMA LiveTyped == HeapOK => \A m \in Live : m \in Ids /\ heap[m] \in SentMessages
  BY DEF HeapOK, Live

(* What the steps do to the heap: free, answer or allocate one message.    *)
LEMMA HeapFreed ==
    ASSUME HeapOK, NEW m \in Ids, heap' = [heap EXCEPT ![m] = Freed]
    PROVE  /\ heap' \in [Ids -> SentMessages \cup {Freed}]
           /\ Live' = Live \ {m} /\ \A n \in Live' : heap'[n] = heap[n]
  BY DEF HeapOK, Live

LEMMA HeapAnswered ==
    ASSUME HeapOK, NEW m \in Live, NEW v \in AckValues,
           heap' = [heap EXCEPT ![m].status = v]
    PROVE  /\ heap' \in [Ids -> SentMessages \cup {Freed}]
           /\ Live' = Live
           /\ \A n \in Live : /\ heap'[n].from = heap[n].from
                              /\ heap'[n].wait = heap[n].wait
                              /\ heap'[n].prm = heap[n].prm
<1>1. m \in Ids /\ heap[m] \in SentMessages
  BY LiveTyped
<1>2. [heap[m] EXCEPT !.status = v] \in SentMessages
  BY <1>1 DEF SentMessages
<1>3. /\ \A n \in Ids : heap'[n] = IF n = m THEN [heap[m] EXCEPT !.status = v]
                                   ELSE heap[n]
      /\ heap' \in [Ids -> SentMessages \cup {Freed}]
  BY <1>1, <1>2 DEF HeapOK
<1>4. Live' = Live
  BY <1>1, <1>2, <1>3, NullIsNothing DEF Live
<1>5. /\ [heap[m] EXCEPT !.status = v].from = heap[m].from
      /\ [heap[m] EXCEPT !.status = v].wait = heap[m].wait
      /\ [heap[m] EXCEPT !.status = v].prm = heap[m].prm
  BY <1>1 DEF SentMessages
<1> QED
  BY <1>1, <1>3, <1>4, <1>5 DEF Live

LEMMA HeapSent ==
    ASSUME HeapOK, NEW m \in Ids, heap[m] = Freed, NEW x \in SentMessages,
           heap' = [heap EXCEPT ![m] = x]
    PROVE  /\ heap' \in [Ids -> SentMessages \cup {Freed}]
           /\ m \notin Live /\ Live' = Live \cup {m} /\ heap'[m] = x
           /\ \A n \in Live : heap'[n] = heap[n]
  BY NullIsNothing DEF HeapOK, Live

(* What they do to the places: a message is put, taken, or moved.          *)
Same(k, t) == Held(k, t)' = Held(k, t)

LEMMA PutApart ==
    ASSUME MessagesApart, NEW k \in BoxKinds, NEW t \in Tasks, NEW m \in Ids,
           m \notin Live, Live' = Live \cup {m},
           Held(k, t)' = Held(k, t) \cup {m},
           \A l \in BoxKinds, u \in Tasks : l # k \/ u # t => Same(l, u)
    PROVE  MessagesApart'
<1>1. \A l \in BoxKinds, u \in Tasks : m \notin Held(l, u)
  BY DEF MessagesApart
<1>2. \A l \in BoxKinds, u \in Tasks :
         Held(l, u)' = IF l = k /\ u = t THEN Held(l, u) \cup {m} ELSE Held(l, u)
  BY DEF Same
<1> QED
  BY <1>1, <1>2 DEF MessagesApart

LEMMA TakeApart ==
    ASSUME MessagesApart, NEW k \in BoxKinds, NEW t \in Tasks, NEW m \in Held(k, t),
           Live' = Live \ {m},
           Held(k, t)' = Held(k, t) \ {m},
           \A l \in BoxKinds, u \in Tasks : l # k \/ u # t => Same(l, u)
    PROVE  MessagesApart'
<1>1. \A l \in BoxKinds, u \in Tasks : l # k \/ u # t => m \notin Held(l, u)
  BY DEF MessagesApart
<1>2. \A l \in BoxKinds, u \in Tasks : Held(l, u)' = Held(l, u) \ {m}
  BY <1>1 DEF Same
<1> QED
  BY <1>1, <1>2 DEF MessagesApart

LEMMA MoveApart ==
    ASSUME MessagesApart, NEW k \in BoxKinds, NEW t \in Tasks, NEW m \in Held(k, t),
           NEW l \in BoxKinds, NEW u \in Tasks, k # l,
           Live' = Live,
           Held(k, t)' = Held(k, t) \ {m}, Held(l, u)' = Held(l, u) \cup {m},
           \A j \in BoxKinds, w \in Tasks :
               (j # k \/ w # t) /\ (j # l \/ w # u) => Same(j, w)
    PROVE  MessagesApart'
<1>1. \A j \in BoxKinds, w \in Tasks : j # k \/ w # t => m \notin Held(j, w)
  BY DEF MessagesApart
<1>2. \A j \in BoxKinds, w \in Tasks :
         Held(j, w)' = IF j = l /\ w = u THEN Held(j, w) \cup {m} ELSE Held(j, w) \ {m}
  BY <1>1 DEF Same
<1>3. \A i, j \in BoxKinds, v, w \in Tasks :
         i # j \/ v # w => Held(i, v)' \cap Held(j, w)' = {}
  BY <1>1, <1>2 DEF MessagesApart
<1>4. \A n \in Ids : n \in Live' <=> \E j \in BoxKinds, w \in Tasks : n \in Held(j, w)'
  <2> TAKE n \in Ids
  <2>1. n = m => n \in Live /\ n \in Held(l, u)'
    BY <1>2 DEF MessagesApart
  <2>2. n # m => \A j \in BoxKinds, w \in Tasks : n \in Held(j, w)' <=> n \in Held(j, w)
    BY <1>2
  <2> QED
    BY <2>1, <2>2 DEF MessagesApart
<1> QED
  BY <1>3, <1>4 DEF MessagesApart

LEMMA PlacesUnchanged ==
    ASSUME MessagesApart, UNCHANGED <<rcv, ack, cur, heap>> PROVE MessagesApart'
<1>1. \A k, t : Held(k, t)' = Held(k, t)
  BY DEF Held
<1>2. Live' = Live
  BY DEF Live
<1> QED
  BY <1>1, <1>2 DEF MessagesApart
-----------------------------------------------------------------------------
LEMMA InitMbx == MbxInit => MbxInv
<1> SUFFICES ASSUME MbxInit PROVE MbxInv
  OBVIOUS
<1>1. BoxesOK
  BY EmptySeq, MbxAssumption DEF MbxInit, BoxesOK
<1>2. HeapOK /\ Live = {}
  BY DEF MbxInit, HeapOK, Live
<1>3. TasksOK
  BY MbxAssumption DEF MbxInit, TasksOK
<1>4. Call("send", <<>>, FALSE, None) \in MbxCalls
  BY EmptySeq, MbxAssumption DEF Call, MbxCalls
<1>5. CallsOK
  BY <1>4 DEF MbxInit, CallsOK
<1>6. \A t \in Tasks : ~InCall(t)
  BY DEF MbxInit, InCall
<1>7. CallsShaped
  BY DEF MbxInit, CallsShaped, CallShape, InCall
<1>8. /\ \A t \in Tasks : Members(rcv[t]) = {} /\ Members(ack[t]) = {} /\ cur[t] = None
      /\ BoxesDistinct
  BY DEF MbxInit, Members, Distinct, BoxesDistinct
<1>9. MessagesApart
  BY <1>2, <1>8 DEF MessagesApart, Held, BoxKinds
<1>10. AnswerInv
  BY <1>2, <1>6, <1>8 DEF AnswerInv, SenderWaits, AnswersOwn, AwaitedLive
<1>11. PrmInv
  BY <1>2, <1>6 DEF MbxInit, PrmInv, PrmsLive, CallsOwnPrm, SendersPrm, SharedPrm,
                    PrmsPointed
<1> QED
  BY <1>1, <1>2, <1>3, <1>5, <1>7, <1>8, <1>9, <1>10, <1>11
     DEF MbxInv, MailInv, MbxTyped

(* What each step does, in the terms of the invariant. *)

(* A call begins: no message of the task is under way, and the parameter,  *)
(* if it is to be freed, is a new one.                                     *)
Begun(t, c) ==
    /\ mbxPc[t] = "ready" /\ mbxPc' = [mbxPc EXCEPT ![t] = "send"]
    /\ call' = [call EXCEPT ![t] = c]
    /\ c \in MbxCalls /\ c.sent = {} /\ c.to # <<>>
    /\ c.kind = "send" \/ (~c.wait /\ c.prm # None) => Len(c.to) = 1
    /\ c.prm \notin prmLive
    /\ prmLive' = prmLive \cup ({c.prm} \ {None})
    /\ calls' \in [Tasks -> 0 .. MaxCalls]
    /\ UNCHANGED <<rcv, ack, heap, cur>>

LEMMA CallTyped ==
    ASSUME NEW kind \in {"send", "broadcast"}, NEW to \in Seq(Tasks),
           NEW wait \in BOOLEAN, NEW prm \in Prms \cup {None}
    PROVE  LET c == Call(kind, to, wait, prm) IN
           /\ c \in MbxCalls /\ c.sent = {} /\ c.to = to
           /\ c.kind = kind /\ c.wait = wait /\ c.prm = prm
  BY MbxAssumption DEF Call, MbxCalls

GoneOn(c, to, sent) == [c EXCEPT !.to = to, !.sent = sent]
GotAnswer(c, sent, ret) == [c EXCEPT !.sent = sent, !.ret = ret]

LEMMA CallGoesOn ==
    ASSUME NEW c \in MbxCalls, NEW to \in Seq(Tasks), NEW sent \in SUBSET Ids
    PROVE  LET d == GoneOn(c, to, sent) IN
           /\ d \in MbxCalls /\ d.kind = c.kind /\ d.wait = c.wait /\ d.prm = c.prm
           /\ d.to = to /\ d.sent = sent
  BY DEF GoneOn, MbxCalls

LEMMA CallAnswered ==
    ASSUME NEW c \in MbxCalls, NEW sent \in SUBSET Ids, NEW ret \in AckValues
    PROVE  LET d == GotAnswer(c, sent, ret) IN
           /\ d \in MbxCalls /\ d.kind = c.kind /\ d.wait = c.wait /\ d.prm = c.prm
           /\ d.to = c.to /\ d.sent = sent
  BY DEF GotAnswer, MbxCalls

LEMMA BeginEffect ==
    ASSUME MbxTyped, NEW t \in Tasks, NEW c \in MbxCalls, Begin(t, c),
           c.sent = {}, c.to # <<>>, c.prm \in FreshPrms,
           c.kind = "send" \/ (~c.wait /\ c.prm # None) => Len(c.to) = 1
    PROVE  Begun(t, c)
<1>1. c.prm \notin prmLive
  BY NullIsNothing DEF FreshPrms, MbxTyped, HeapOK
<1>2. calls' \in [Tasks -> 0 .. MaxCalls]
  BY MbxAssumption DEF Begin, MbxTyped, TasksOK
<1> QED
  BY <1>1, <1>2 DEF Begin, Begun

LEMMA SendMsgEffect ==
    ASSUME MbxTyped, NEW t \in Tasks, SendMsg(t) \/ BroadcastMsg(t)
    PROVE  \E c \in MbxCalls : Begun(t, c)
<1>1. SendsTo[t] \subseteq Tasks /\ FreshPrms \subseteq Prms \cup {None}
  BY MbxAssumption DEF FreshPrms
<1>2. CASE SendMsg(t)
  <2>1. PICK u \in SendsTo[t], wait \in BOOLEAN, prm \in FreshPrms :
           Begin(t, Call("send", <<u>>, wait, prm))
    BY <1>2 DEF SendMsg
  <2> DEFINE to == <<u>>
             c == Call("send", to, wait, prm)
  <2>2. to \in Seq(Tasks) /\ to # <<>> /\ Len(to) = 1
    BY <1>1
  <2> HIDE DEF to
  <2>3. c \in MbxCalls /\ c.sent = {} /\ c.to = to /\ c.prm = prm
    BY <1>1, <2>2, CallTyped
  <2>4. Begin(t, c)
    BY <2>1 DEF to
  <2> HIDE DEF c
  <2> QED
    BY <2>2, <2>3, <2>4, BeginEffect
<1>3. CASE BroadcastMsg(t)
  <2>1. PICK to \in SetToSeqs(SendsTo[t]), wait \in BOOLEAN, prm \in FreshPrms :
           /\ to # <<>>
           /\ prm # None => wait \/ Len(to) = 1
           /\ Begin(t, Call("broadcast", to, wait, prm))
    BY <1>3 DEF BroadcastMsg
  <2> DEFINE c == Call("broadcast", to, wait, prm)
  <2>2. to \in Seq(Tasks)
    <3>1. IsFiniteSet(SendsTo[t]) /\ Cardinality(SendsTo[t]) \in Nat
      BY <1>1, MbxAssumption, FS_Subset, FS_CardinalityType
    <3>2. to \in [1 .. Cardinality(SendsTo[t]) -> SendsTo[t]]
      BY <2>1 DEF SetToSeqs
    <3> QED
      BY <1>1, <3>1, <3>2
  <2>3. /\ c \in MbxCalls /\ c.sent = {} /\ c.to = to
        /\ c.kind = "broadcast" /\ c.wait = wait /\ c.prm = prm
    BY <1>1, <2>2, CallTyped
  <2> HIDE DEF c
  <2>4. Begin(t, c)
    BY <2>1 DEF c
  <2>5. c.kind = "send" \/ (~c.wait /\ c.prm # None) => Len(c.to) = 1
    BY <2>1, <2>3
  <2> QED
    BY <2>1, <2>3, <2>4, <2>5, BeginEffect
<1> QED
  BY <1>2, <1>3

(* A message goes to the next receiver.  After the last one the call is    *)
(* over, or waits.                                                         *)
SentTo(t, u, m) ==
    LET c == call[t] d == call'[t] IN
    /\ mbxPc[t] = "send" /\ c.to # <<>>
    /\ m \notin Live /\ Live' = Live \cup {m}
    /\ heap' \in [Ids -> SentMessages \cup {Freed}]
    /\ heap'[m].from = t /\ heap'[m].wait = c.wait /\ heap'[m].prm = c.prm
    /\ \A n \in Live : heap'[n] = heap[n]
    /\ Len(rcv[u]) < QueLen /\ rcv' = [rcv EXCEPT ![u] = Append(rcv[u], m)]
    /\ call' \in [Tasks -> MbxCalls]
    /\ \A w \in Tasks \ {t} : call'[w] = call[w]
    /\ d.kind = c.kind /\ d.wait = c.wait /\ d.prm = c.prm /\ d.to = Tail(c.to)
    /\ d.sent = IF c.wait THEN c.sent \cup {m} ELSE c.sent
    /\ mbxPc' = [mbxPc EXCEPT ![t] = IF Len(c.to) > 1 THEN "send"
                                     ELSE IF c.wait THEN "ackwait" ELSE "ready"]
    /\ UNCHANGED <<ack, prmLive, cur, calls>>

LEMMA SendNextEffect ==
    ASSUME MbxTyped, CallsShaped, NEW t \in Tasks, SendNext(t)
    PROVE  \E u \in Tasks, m \in Ids : SentTo(t, u, m)
<1> DEFINE c == call[t]
           u == Head(c.to)
<1>1. /\ c \in MbxCalls /\ c.to # <<>> /\ mbxPc[t] = "send"
      /\ c.to \in Seq(Tasks) /\ c.wait \in BOOLEAN /\ c.prm \in Prms \cup {None}
      /\ c.sent \in SUBSET Ids
  BY DEF MbxTyped, CallsOK, CallsShaped, CallShape, SendNext, MbxCalls
<1>2. u \in Tasks /\ Tail(c.to) \in Seq(Tasks)
  BY <1>1, SeqFacts
<1>3. PICK m \in Ids :
         /\ heap[m] = Freed
         /\ heap' = [heap EXCEPT ![m] = Message(t, c.wait, c.prm)]
         /\ rcv' = [rcv EXCEPT ![u] = Append(@, m)]
         /\ call' = [call EXCEPT ![t] =
                [c EXCEPT !.to = Tail(@),
                          !.sent = IF c.wait THEN @ \cup {m} ELSE @]]
  BY DEF SendNext
<1>4. /\ Message(t, c.wait, c.prm) \in SentMessages
      /\ Message(t, c.wait, c.prm).from = t /\ Message(t, c.wait, c.prm).wait = c.wait
      /\ Message(t, c.wait, c.prm).prm = c.prm
  BY <1>1, MessageTyped
<1>5. /\ heap' \in [Ids -> SentMessages \cup {Freed}]
      /\ m \notin Live /\ Live' = Live \cup {m}
      /\ heap'[m] = Message(t, c.wait, c.prm)
      /\ \A n \in Live : heap'[n] = heap[n]
  <2>1. HeapOK
    BY DEF MbxTyped
  <2> QED
    BY <1>3, <1>4, <2>1, HeapSent
<1>6. call \in [Tasks -> MbxCalls]
  BY DEF MbxTyped, CallsOK
<1> DEFINE sent == IF c.wait THEN c.sent \cup {m} ELSE c.sent
           d == GoneOn(c, Tail(c.to), sent)
<1>7. /\ d \in MbxCalls /\ d.kind = c.kind /\ d.wait = c.wait /\ d.prm = c.prm
      /\ d.to = Tail(c.to) /\ d.sent = sent
  <2>1. sent \in SUBSET Ids
    BY <1>1
  <2>2. c \in MbxCalls /\ Tail(c.to) \in Seq(Tasks)
    BY <1>1, <1>2
  <2> HIDE DEF sent, c
  <2> QED
    BY <2>1, <2>2, CallGoesOn
<1>8. call' = [call EXCEPT ![t] = d]
  BY <1>3 DEF GoneOn
<1>9. /\ call' \in [Tasks -> MbxCalls]
      /\ \A w \in Tasks \ {t} : call'[w] = call[w]
      /\ call'[t] = d
  BY <1>6, <1>7, <1>8
<1>10. /\ Len(rcv[u]) < QueLen
       /\ mbxPc' = [mbxPc EXCEPT ![t] = IF Len(c.to) > 1 THEN "send"
                                        ELSE IF c.wait THEN "ackwait" ELSE "ready"]
       /\ UNCHANGED <<ack, prmLive, cur, calls>>
  BY DEF SendNext, QueHasRoom
<1>11. /\ call'[t].kind = c.kind /\ call'[t].wait = c.wait /\ call'[t].prm = c.prm
       /\ call'[t].to = Tail(c.to) /\ call'[t].sent = sent
  BY <1>7, <1>9
<1>12. rcv' = [rcv EXCEPT ![u] = Append(rcv[u], m)]
  BY <1>3
<1> HIDE DEF u, d
<1>13. SentTo(t, u, m)
  BY <1>1, <1>4, <1>5, <1>9, <1>10, <1>11, <1>12 DEF SentTo
<1> QED
  BY <1>2, <1>13

(* An answer arrives at a call that waits: it is one of its own, and the   *)
(* call is over when it was the last.                                      *)
Answered(t, m) ==
    LET c == call[t] d == call'[t] left == call[t].sent \ {m} IN
    /\ mbxPc[t] = "ackwait"
    /\ ack[t] # <<>> /\ m = Head(ack[t]) /\ m \in Live /\ m \in c.sent
    /\ Live' = Live \ {m} /\ heap' \in [Ids -> SentMessages \cup {Freed}]
    /\ \A n \in Live' : heap'[n] = heap[n]
    /\ IF left = {} THEN mbxPc' = [mbxPc EXCEPT ![t] = "ready"] ELSE mbxPc' = mbxPc
    /\ prmLive' = IF left = {} THEN prmLive \ {c.prm} ELSE prmLive
    /\ ack' = [ack EXCEPT ![t] = Tail(ack[t])]
    /\ call' \in [Tasks -> MbxCalls]
    /\ \A w \in Tasks \ {t} : call'[w] = call[w]
    /\ d.kind = c.kind /\ d.wait = c.wait /\ d.prm = c.prm /\ d.to = c.to
    /\ d.sent = left
    /\ UNCHANGED <<rcv, cur, calls>>

LEMMA RecvAckEffect ==
    ASSUME MbxInv, NEW t \in Tasks, RecvAck(t)
    PROVE  \E m \in Ids : Answered(t, m)
<1> DEFINE c == call[t]
           m == Head(ack[t])
           left == c.sent \ {m}
<1>0. MbxTyped /\ CallsShaped /\ MessagesApart /\ SenderWaits /\ AnswersOwn /\ AwaitedLive
  BY DEF MbxInv, MailInv, AnswerInv
<1>1. mbxPc[t] = "ackwait" /\ ack[t] # <<>> /\ ack[t] \in Seq(Ids) /\ call[t] \in MbxCalls
  BY <1>0 DEF RecvAck, MbxTyped, BoxesOK, CallsOK
<1>2. m \in Ids /\ m \in Members(ack[t])
  BY <1>1, SeqElements DEF Members
<1>3. m \in Live
  BY <1>0, <1>2 DEF MessagesApart, Held, BoxKinds
<1>4. m \in c.sent /\ heap[m].prm = c.prm /\ heap[m] \in SentMessages
  BY <1>0, <1>1, <1>2, <1>3, LiveTyped
     DEF SenderWaits, AnswersOwn, AwaitedLive, InCall, MbxTyped
<1>5. heap' = [heap EXCEPT ![m] = Freed]
  BY DEF RecvAck, FreeMsg
<1>6. /\ Live' = Live \ {m} /\ heap' \in [Ids -> SentMessages \cup {Freed}]
      /\ \A n \in Live' : heap'[n] = heap[n]
  BY <1>0, <1>2, <1>5, HeapFreed DEF MbxTyped
<1>7. c.kind = "send" => left = {}
  BY <1>0, <1>1, <1>4 DEF CallsShaped, CallShape, InCall
<1>8. prmLive' = IF left = {} THEN prmLive \ {c.prm} ELSE prmLive
  <2>1. CASE c.kind = "broadcast"
    BY <1>4, <2>1 DEF RecvAck
  <2>2. CASE c.kind # "broadcast"
    <3>1. left = {}
      BY <1>1, <1>7, <2>2 DEF MbxCalls
    <3>2. FreeMsg(m)
      BY <2>2 DEF RecvAck
    <3> QED
      BY <1>4, <3>1, <3>2 DEF FreeMsg
  <2> QED
    BY <2>1, <2>2
<1> DEFINE r == IF m \in c.sent /\ c.ret = 0 THEN heap[m].status ELSE c.ret
<1>9. r \in AckValues
  BY <1>1, <1>4 DEF MbxCalls, SentMessages
<1> DEFINE d == GotAnswer(c, left, r)
<1>10. /\ d \in MbxCalls /\ d.kind = c.kind /\ d.wait = c.wait /\ d.prm = c.prm
       /\ d.to = c.to /\ d.sent = left
  <2>1. c \in MbxCalls /\ left \in SUBSET Ids
    BY <1>1 DEF MbxCalls
  <2> QED
    BY <1>9, <2>1, CallAnswered
<1>11. call' = [call EXCEPT ![t] = d] /\ call \in [Tasks -> MbxCalls]
  BY <1>0 DEF RecvAck, GotAnswer, MbxTyped, CallsOK
<1>12. /\ call' \in [Tasks -> MbxCalls]
       /\ \A w \in Tasks \ {t} : call'[w] = call[w]
       /\ call'[t] = d
  BY <1>10, <1>11
<1>13. /\ IF left = {} THEN mbxPc' = [mbxPc EXCEPT ![t] = "ready"] ELSE mbxPc' = mbxPc
       /\ ack' = [ack EXCEPT ![t] = Tail(ack[t])]
       /\ UNCHANGED <<rcv, cur, calls>>
  BY DEF RecvAck
<1>14. /\ call'[t].kind = c.kind /\ call'[t].wait = c.wait /\ call'[t].prm = c.prm
       /\ call'[t].to = c.to /\ call'[t].sent = left
  BY <1>10, <1>12
<1> HIDE DEF d
<1>15. Answered(t, m)
  BY <1>1, <1>3, <1>4, <1>6, <1>8, <1>12, <1>13, <1>14 DEF Answered
<1> QED
  BY <1>2, <1>15

(* Steps of a task outside a call, which leave messages and calls alone.   *)
OutsideCalls ==
    /\ UNCHANGED call
    /\ \A t \in Tasks : mbxPc'[t] = mbxPc[t] \/ (~InCall(t) /\ ~InCall(t)')

LEMMA CallsKeepShape ==
    ASSUME CallsShaped, OutsideCalls
    PROVE  CallsShaped' /\ \A t \in Tasks : InCall(t)' = InCall(t)
<1>1. \A t \in Tasks : InCall(t)' = InCall(t)
  BY DEF OutsideCalls, InCall
<1>2. ASSUME NEW t \in Tasks PROVE CallShape(t)'
  <2>1. CASE mbxPc'[t] = mbxPc[t]
    BY <2>1 DEF OutsideCalls, CallsShaped, CallShape, InCall
  <2>2. CASE ~InCall(t) /\ ~InCall(t)'
    BY <2>2 DEF CallShape, InCall
  <2> QED
    BY <2>1, <2>2 DEF OutsideCalls
<1> QED
  BY <1>1, <1>2 DEF CallsShaped

(* The answers a task has are in memory.                                   *)
LEMMA AnswersLive ==
    ASSUME BoxesOK, MessagesApart
    PROVE  \A t \in Tasks : \A m \in Members(ack[t]) : m \in Live
<1>1. \A t \in Tasks : \A m \in Members(ack[t]) : m \in Ids
  BY MembersTyped DEF BoxesOK
<1> QED
  BY <1>1 DEF MessagesApart, Held, BoxKinds

LEMMA QuietKeeps ==
    ASSUME AnswerInv, PrmInv, HeapOK, UNCHANGED <<ack, heap, prmLive, call>>,
           \A t \in Tasks : InCall(t)' = InCall(t)
    PROVE  AnswerInv' /\ PrmInv'
<1>1. Live' = Live /\ \A m \in Live : heap[m].from \in Tasks
  BY LiveTyped DEF Live, SentMessages
<1>2. AnswerInv'
  BY <1>1 DEF AnswerInv, SenderWaits, AnswersOwn, AwaitedLive
<1>3. PrmInv'
  BY <1>1 DEF PrmInv, PrmsLive, CallsOwnPrm, SendersPrm, SharedPrm, PrmsPointed
<1> QED
  BY <1>2, <1>3

(* A message is sent back, or freed, whichever place it was in.            *)
SentBack(m) ==
    LET s == heap[m].from IN
    /\ m \in Live /\ heap[m].wait /\ s \in Tasks
    /\ Live' = Live /\ heap' \in [Ids -> SentMessages \cup {Freed}]
    /\ \A n \in Live : /\ heap'[n].from = heap[n].from
                       /\ heap'[n].wait = heap[n].wait
                       /\ heap'[n].prm = heap[n].prm
    /\ Len(ack[s]) < QueLen /\ ack' = [ack EXCEPT ![s] = Append(ack[s], m)]
    /\ prmLive' = prmLive

Dropped(m) ==
    /\ m \in Live /\ ~heap[m].wait
    /\ Live' = Live \ {m} /\ heap' \in [Ids -> SentMessages \cup {Freed}]
    /\ \A n \in Live' : heap'[n] = heap[n]
    /\ prmLive' = prmLive \ {heap[m].prm}
    /\ ack' = ack

LEMMA AckOrFreeEffect ==
    ASSUME HeapOK, NEW m \in Live, NEW v \in AckValues, AckOrFreeMsg(m, v)
    PROVE  SentBack(m) \/ Dropped(m)
<1>1. m \in Ids /\ heap[m] \in SentMessages /\ heap[m].from \in Tasks
  BY LiveTyped DEF SentMessages
<1>2. CASE heap[m].wait
  <2>1. /\ heap' = [heap EXCEPT ![m].status = v]
        /\ Len(ack[heap[m].from]) < QueLen
        /\ ack' = [ack EXCEPT ![heap[m].from] = Append(ack[heap[m].from], m)]
        /\ prmLive' = prmLive
    BY <1>2 DEF AckOrFreeMsg, QueHasRoom
  <2>2. /\ heap' \in [Ids -> SentMessages \cup {Freed}]
        /\ Live' = Live
        /\ \A n \in Live : /\ heap'[n].from = heap[n].from
                           /\ heap'[n].wait = heap[n].wait
                           /\ heap'[n].prm = heap[n].prm
    BY <2>1, HeapAnswered
  <2> QED
    BY <1>1, <1>2, <2>1, <2>2 DEF SentBack
<1>3. CASE ~heap[m].wait
  <2>1. /\ heap' = [heap EXCEPT ![m] = Freed]
        /\ prmLive' = prmLive \ {heap[m].prm} /\ ack' = ack
    BY <1>3 DEF AckOrFreeMsg, FreeMsg
  <2>2. /\ heap' \in [Ids -> SentMessages \cup {Freed}]
        /\ Live' = Live \ {m} /\ \A n \in Live' : heap'[n] = heap[n]
    BY <1>1, <2>1, HeapFreed
  <2> QED
    BY <1>3, <2>1, <2>2 DEF Dropped
<1> QED
  BY <1>2, <1>3

LEMMA SentBackKeeps ==
    ASSUME AnswerInv, PrmInv, BoxesOK, HeapOK, MessagesApart, NEW m \in Live, SentBack(m),
           UNCHANGED call, \A t \in Tasks : InCall(t)' = InCall(t)
    PROVE  AnswerInv' /\ PrmInv'
<1>1. \A n \in Live : n \in Ids /\ heap[n].from \in Tasks
  BY LiveTyped DEF SentMessages
<1>2. \A t \in Tasks : \A n \in Members(ack'[t]) :
         n \in Members(ack[t]) \/ (n = m /\ t = heap[m].from)
  BY <1>1, MembersAppended DEF SentBack, BoxesOK
<1>3. \A t \in Tasks : \A n \in Members(ack[t]) : n \in Live
  BY AnswersLive
<1>4. SenderWaits' /\ AwaitedLive'
  BY <1>1 DEF SentBack, AnswerInv, SenderWaits, AwaitedLive
<1>5. AnswersOwn'
  BY <1>1, <1>2, <1>3 DEF SentBack, AnswerInv, AnswersOwn
<1>6. PrmInv'
  BY DEF SentBack, PrmInv, PrmsLive, CallsOwnPrm, SendersPrm, SharedPrm, PrmsPointed
<1> QED
  BY <1>4, <1>5, <1>6 DEF AnswerInv

(* A freed message that nobody waits for was the last to point to its      *)
(* parameter: nothing that shares it is left.                              *)
LEMMA LastPointer ==
    ASSUME AnswerInv, PrmInv, NEW m \in Live, ~heap[m].wait, heap[m].prm # None
    PROVE  /\ \A n \in Live : n # m => heap[n].prm # heap[m].prm
           /\ \A t \in Tasks : InCall(t) => call[t].prm # heap[m].prm
<1>1. \A t \in Tasks : InCall(t) => call[t].prm # heap[m].prm
  BY DEF AnswerInv, PrmInv, SendersPrm, AwaitedLive
<1> QED
  BY <1>1 DEF PrmInv, SharedPrm

LEMMA DroppedKeeps ==
    ASSUME AnswerInv, PrmInv, BoxesOK, HeapOK, MessagesApart, NEW m \in Live, Dropped(m),
           UNCHANGED call, \A t \in Tasks : InCall(t)' = InCall(t)
    PROVE  AnswerInv' /\ PrmInv'
<1>1. \A n \in Live : n \in Ids /\ heap[n].from \in Tasks
  BY LiveTyped DEF SentMessages
<1>2. SenderWaits' /\ AwaitedLive'
  BY <1>1 DEF Dropped, AnswerInv, SenderWaits, AwaitedLive
<1>3. AnswersOwn'
  BY AnswersLive DEF Dropped, AnswerInv, AnswersOwn
<1>4. PrmsLive'
  <2>1. CASE heap[m].prm = None
    BY <2>1 DEF Dropped, PrmInv, PrmsLive
  <2>2. CASE heap[m].prm # None
    BY <2>2, LastPointer DEF Dropped, PrmInv, PrmsLive
  <2> QED
    BY <2>1, <2>2
<1>5. CallsOwnPrm' /\ SendersPrm' /\ SharedPrm'
  BY DEF Dropped, PrmInv, CallsOwnPrm, SendersPrm, SharedPrm
<1>6. PrmsPointed'
  BY DEF Dropped, PrmInv, PrmsPointed
<1> QED
  BY <1>2, <1>3, <1>4, <1>5, <1>6 DEF AnswerInv, PrmInv

LEMMA BegunKeeps ==
    ASSUME AnswerInv, PrmInv, MbxTyped, NEW t \in Tasks, NEW c \in MbxCalls, Begun(t, c)
    PROVE  AnswerInv' /\ PrmInv'
<1>1. /\ ~InCall(t) /\ InCall(t)' /\ call'[t] = c
      /\ \A u \in Tasks \ {t} : call'[u] = call[u] /\ InCall(u)' = InCall(u)
  BY DEF Begun, InCall, MbxTyped, TasksOK, CallsOK
<1>2. Live' = Live /\ heap' = heap /\ \A n \in Live : n \in Ids /\ heap[n].from \in Tasks
  BY LiveTyped DEF Begun, Live, SentMessages, MbxTyped
<1>3. AnswerInv'
  BY <1>1, <1>2 DEF Begun, AnswerInv, SenderWaits, AnswersOwn, AwaitedLive
<1>4. PrmsLive'
  <2>1. prmLive' = prmLive \cup ({c.prm} \ {None})
    BY DEF Begun
  <2> QED
    BY <1>1, <1>2, <2>1 DEF PrmInv, PrmsLive
<1>5. CallsOwnPrm' /\ SendersPrm'
  <2>1. c.prm \notin prmLive
    BY DEF Begun
  <2>2. c.sent = {}
    BY DEF Begun
  <2> QED
    BY <1>1, <1>2, <2>1 DEF PrmInv, PrmsLive, CallsOwnPrm, SendersPrm
<1>6. SharedPrm'
  BY <1>1, <1>2 DEF PrmInv, SharedPrm
<1>7. PrmsPointed'
  <2>1. \A p \in prmLive' : p \in prmLive \/ p = c.prm
    BY DEF Begun
  <2> QED
    BY <1>1, <1>2, <2>1 DEF PrmInv, PrmsPointed
<1> QED
  BY <1>3, <1>4, <1>5, <1>6, <1>7 DEF PrmInv

LEMMA SentToKeeps ==
    ASSUME AnswerInv, PrmInv, MbxTyped, CallsShaped, MessagesApart,
           NEW t \in Tasks, NEW u \in Tasks, NEW m \in Ids, SentTo(t, u, m)
    PROVE  AnswerInv' /\ PrmInv'
<1> DEFINE c == call[t]
           d == call'[t]
<1>1. /\ InCall(t) /\ mbxPc[t] = "send"
      /\ c.wait => InCall(t)'
      /\ \A w \in Tasks \ {t} : call'[w] = call[w] /\ InCall(w)' = InCall(w)
      /\ \A w \in Tasks : InCall(w)' => InCall(w)
  BY DEF SentTo, InCall, MbxTyped, TasksOK
<1>2. /\ m \notin Live /\ Live' = Live \cup {m}
      /\ heap'[m].from = t /\ heap'[m].wait = c.wait /\ heap'[m].prm = c.prm
      /\ \A n \in Live : heap'[n] = heap[n]
      /\ d.wait = c.wait /\ d.prm = c.prm
      /\ d.sent = IF c.wait THEN c.sent \cup {m} ELSE c.sent
      /\ ack' = ack /\ prmLive' = prmLive
  BY DEF SentTo
<1>3. \A n \in Live : n \in Ids /\ heap[n].from \in Tasks
  BY LiveTyped DEF SentMessages, MbxTyped
<1>4. ~c.wait => c.sent = {} /\ (c.prm # None => ~InCall(t)')
  <2>1. ~c.wait => c.sent = {} /\ (c.prm # None => Len(c.to) = 1)
    BY <1>1 DEF CallsShaped, CallShape
  <2>2. Len(c.to) = 1 /\ ~c.wait => ~InCall(t)'
    BY DEF SentTo, InCall, MbxTyped, TasksOK
  <2> QED
    BY <2>1, <2>2
<1> HIDE DEF c, d
<1>5. SenderWaits'
  <2>1. ASSUME NEW n \in Live', heap'[n].wait
        PROVE  /\ mbxPc'[heap'[n].from] \in {"send", "ackwait"}
               /\ n \in call'[heap'[n].from].sent
    <3>1. CASE n = m
      BY <1>1, <1>2, <2>1, <3>1 DEF d, InCall
    <3>2. CASE n # m /\ heap[n].from # t
      BY <1>1, <1>2, <1>3, <2>1, <3>2 DEF AnswerInv, SenderWaits, InCall
    <3>3. CASE n # m /\ heap[n].from = t
      <4>1. n \in Live /\ heap'[n] = heap[n] /\ n \in c.sent
        BY <1>2, <2>1, <3>3 DEF AnswerInv, SenderWaits, c
      <4>2. c.wait
        BY <1>4, <4>1
      <4> QED
        BY <1>1, <1>2, <3>3, <4>1, <4>2 DEF d, InCall
    <3> QED
      BY <3>1, <3>2, <3>3
  <2> QED
    BY <2>1 DEF SenderWaits, InCall
<1>6. AnswersOwn'
  BY <1>2, AnswersLive DEF AnswerInv, AnswersOwn, MbxTyped
<1>7. AwaitedLive'
  <2>1. ASSUME NEW w \in Tasks, InCall(w)', NEW n \in call'[w].sent
        PROVE  /\ n \in Live' /\ heap'[n].wait /\ heap'[n].from = w
               /\ heap'[n].prm = call'[w].prm
    <3>1. CASE w # t
      BY <1>1, <1>2, <2>1, <3>1 DEF AnswerInv, AwaitedLive
    <3>2. CASE w = t /\ n = m
      <4>1. c.wait
        BY <1>2, <1>4, <2>1, <3>2 DEF d
      <4> QED
        BY <1>2, <3>2, <4>1 DEF d
    <3>3. CASE w = t /\ n # m
      <4>1. n \in c.sent
        BY <1>2, <2>1, <3>3 DEF d
      <4> QED
        BY <1>1, <1>2, <3>3, <4>1 DEF AnswerInv, AwaitedLive, c, d
    <3> QED
      BY <3>1, <3>2, <3>3
  <2> QED
    BY <2>1 DEF AwaitedLive
<1>8. PrmsLive'
  BY <1>1, <1>2 DEF PrmInv, PrmsLive, c, d
<1>9. \A w \in Tasks : call'[w].prm = call[w].prm /\ call[w].sent \subseteq call'[w].sent
  BY <1>1, <1>2 DEF c, d
<1>10. CallsOwnPrm'
  BY <1>1, <1>9 DEF PrmInv, CallsOwnPrm
<1>11. SendersPrm'
  <2>1. ASSUME NEW w \in Tasks, NEW n \in Live', InCall(w)',
               heap'[n].prm = call'[w].prm, call'[w].prm # None
        PROVE  n \in call'[w].sent
    <3>1. CASE n = m
      <4>1. w = t
        BY <1>1, <1>2, <1>9, <2>1, <3>1 DEF PrmInv, CallsOwnPrm, c
      <4>2. c.wait
        BY <1>2, <1>4, <2>1, <3>1, <4>1
      <4> QED
        BY <1>2, <3>1, <4>1, <4>2 DEF d
    <3>2. CASE n # m
      BY <1>1, <1>2, <1>9, <2>1, <3>2 DEF PrmInv, SendersPrm
    <3> QED
      BY <3>1, <3>2
  <2> QED
    BY <2>1 DEF SendersPrm
<1>12. SharedPrm'
  <2>1. ASSUME NEW n \in Live, NEW p, heap[n].prm = p, p # None,
               InCall(t), call[t].prm = p
        PROVE  InCall(t)'
    <3>1. n \in c.sent
      BY <2>1 DEF PrmInv, SendersPrm, c
    <3> QED
      BY <1>1, <1>4, <3>1
  <2>2. ASSUME NEW k \in Live', NEW n \in Live', heap'[k].prm = heap'[n].prm,
               heap'[k].prm # None, k # n, n \in Live
        PROVE  \E w \in Tasks : InCall(w)' /\ call'[w].prm = heap'[k].prm
    <3>1. CASE k = m
      <4>1. InCall(t)'
        BY <1>1, <1>2, <2>1, <2>2, <3>1 DEF c
      <4> QED
        BY <1>2, <3>1, <4>1 DEF d
    <3>2. CASE k # m
      <4>1. PICK w \in Tasks : InCall(w) /\ call[w].prm = heap[k].prm
        BY <1>2, <2>2, <3>2 DEF PrmInv, SharedPrm
      <4>2. InCall(w)'
        BY <1>1, <1>2, <2>1, <2>2, <3>2, <4>1
      <4> QED
        BY <1>2, <1>9, <2>2, <3>2, <4>1, <4>2
    <3> QED
      BY <3>1, <3>2
  <2> QED
    BY <1>2, <2>2 DEF SharedPrm
<1>13. PrmsPointed'
  BY <1>1, <1>2, <1>9 DEF PrmInv, PrmsPointed, c
<1> QED
  BY <1>5, <1>6, <1>7, <1>8, <1>10, <1>11, <1>12, <1>13 DEF AnswerInv, PrmInv

LEMMA AnsweredKeeps ==
    ASSUME AnswerInv, PrmInv, MbxTyped, MessagesApart, BoxesDistinct,
           NEW t \in Tasks, NEW m \in Ids, Answered(t, m)
    PROVE  AnswerInv' /\ PrmInv'
<1> DEFINE c == call[t]
           d == call'[t]
           left == c.sent \ {m}
<1>1. /\ InCall(t) /\ InCall(t)' = (left # {})
      /\ \A w \in Tasks \ {t} : call'[w] = call[w] /\ InCall(w)' = InCall(w)
  BY DEF Answered, InCall, MbxTyped, TasksOK
<1>2. /\ m \in Live /\ m \in c.sent /\ Live' = Live \ {m}
      /\ \A n \in Live' : heap'[n] = heap[n]
      /\ d.wait = c.wait /\ d.prm = c.prm /\ d.sent = left
      /\ prmLive' = IF left = {} THEN prmLive \ {c.prm} ELSE prmLive
  BY DEF Answered
<1>3. \A n \in Live : n \in Ids /\ heap[n].from \in Tasks
  BY LiveTyped DEF SentMessages, MbxTyped
<1>4. heap[m].from = t /\ heap[m].prm = c.prm
  BY <1>1, <1>2 DEF AnswerInv, AwaitedLive
<1> HIDE DEF c, d, left
<1>5. \A w \in Tasks : /\ call'[w].prm = call[w].prm
                       /\ InCall(w) => call'[w].sent = call[w].sent \ {m}
                       /\ InCall(w)' => InCall(w)
  <2>1. ASSUME NEW w \in Tasks, w # t, InCall(w) PROVE m \notin call[w].sent
    BY <1>4, <2>1 DEF AnswerInv, AwaitedLive
  <2>2. \A w \in Tasks \ {t} : InCall(w) => call'[w].sent = call[w].sent \ {m}
    BY <1>1, <2>1
  <2> QED
    BY <1>1, <1>2, <2>2 DEF c, d, left
<1>6. SenderWaits'
  <2>1. ASSUME NEW n \in Live', heap[n].wait
        PROVE  /\ mbxPc'[heap[n].from] \in {"send", "ackwait"}
               /\ n \in call'[heap[n].from].sent
    <3>1. PICK w \in Tasks :
             w = heap[n].from /\ InCall(w) /\ n \in call[w].sent /\ n # m
      BY <1>2, <1>3, <2>1 DEF AnswerInv, SenderWaits
    <3>2. n \in call'[w].sent
      BY <1>5, <3>1
    <3>3. InCall(w)'
      BY <1>1, <3>1 DEF left, c
    <3> QED
      BY <3>1, <3>2, <3>3 DEF InCall
  <2> QED
    BY <1>2, <2>1 DEF SenderWaits, InCall
<1>7. AnswersOwn'
  <2>1. \A w \in Tasks : Members(ack'[w]) \subseteq Members(ack[w]) \ {m}
    <3>1. m \in Members(ack[t]) /\ Members(Tail(ack[t])) = Members(ack[t]) \ {m}
      BY MembersRemoved DEF Answered, MbxTyped, BoxesOK, BoxesDistinct
    <3>2. \A w \in Tasks \ {t} : m \notin Members(ack[w])
      BY <3>1 DEF MessagesApart, Held, BoxKinds
    <3> QED
      BY <3>1, <3>2 DEF Answered, MbxTyped, BoxesOK
  <2> QED
    BY <1>2, <2>1, AnswersLive DEF AnswerInv, AnswersOwn, MbxTyped
<1>8. AwaitedLive'
  BY <1>2, <1>5 DEF AnswerInv, AwaitedLive
<1>9. PrmsLive'
  <2>1. CASE left # {}
    BY <1>2, <1>5, <2>1 DEF PrmInv, PrmsLive
  <2>2. CASE left = {}
    <3>1. \A n \in Live' : heap[n].prm = None \/ heap[n].prm # c.prm
      BY <1>1, <1>2, <2>2 DEF PrmInv, SendersPrm, c, left
    <3>2. \A w \in Tasks : InCall(w)' => call[w].prm = None \/ call[w].prm # c.prm
      BY <1>1, <1>5, <2>2 DEF PrmInv, CallsOwnPrm, c
    <3> QED
      BY <1>2, <1>5, <2>2, <3>1, <3>2 DEF PrmInv, PrmsLive
  <2> QED
    BY <2>1, <2>2
<1>10. CallsOwnPrm'
  BY <1>5 DEF PrmInv, CallsOwnPrm
<1>11. SendersPrm'
  BY <1>2, <1>5 DEF PrmInv, SendersPrm
<1>12. SharedPrm'
  <2>1. ASSUME NEW k \in Live', NEW n \in Live', heap[k].prm = heap[n].prm,
               heap[k].prm # None, k # n
        PROVE  \E w \in Tasks : InCall(w)' /\ call'[w].prm = heap[k].prm
    <3>1. PICK w \in Tasks : InCall(w) /\ call[w].prm = heap[k].prm
      BY <1>2, <2>1 DEF PrmInv, SharedPrm
    <3>2. k \in call[w].sent /\ k # m
      BY <1>2, <2>1, <3>1 DEF PrmInv, SendersPrm
    <3>3. InCall(w)'
      BY <1>1, <3>1, <3>2 DEF left, c
    <3> QED
      BY <1>5, <3>1, <3>3
  <2> QED
    BY <1>2, <2>1 DEF SharedPrm
<1>13. PrmsPointed'
  <2>1. ASSUME NEW p \in prmLive'
        PROVE  \/ \E n \in Live' : heap[n].prm = p
               \/ \E w \in Tasks : InCall(w)' /\ call[w].prm = p
    <3>1. p \in prmLive /\ (left = {} => p # c.prm)
      BY <1>2
    <3>2. CASE \E n \in Live : heap[n].prm = p
      BY <1>1, <1>2, <1>4, <3>1, <3>2 DEF c
    <3>3. CASE \E w \in Tasks : InCall(w) /\ call[w].prm = p
      BY <1>1, <3>1, <3>3 DEF c
    <3> QED
      BY <3>1, <3>2, <3>3 DEF PrmInv, PrmsPointed
  <2> QED
    BY <1>2, <1>5, <2>1 DEF PrmsPointed
<1> QED
  BY <1>6, <1>7, <1>8, <1>9, <1>10, <1>11, <1>12, <1>13 DEF AnswerInv, PrmInv

(* The places of the messages.  A queue of each task, and what putting a   *)
(* message into one and taking one out does.                               *)
BoxOK(box) == /\ box \in [Tasks -> Seq(Ids)]
              /\ \A t \in Tasks : Len(box[t]) <= QueLen /\ Distinct(box[t])

LEMMA BoxesAre ==
    /\ BoxesOK /\ BoxesDistinct <=> BoxOK(rcv) /\ BoxOK(ack)
    /\ (BoxesOK /\ BoxesDistinct)' <=> BoxOK(rcv') /\ BoxOK(ack')
  BY DEF BoxesOK, BoxesDistinct, BoxOK

PutIn(box, u, m) == [box EXCEPT ![u] = Append(box[u], m)]
TakenFrom(box, u) == [box EXCEPT ![u] = Tail(box[u])]

LEMMA BoxPut ==
    ASSUME NEW box, BoxOK(box), NEW u \in Tasks, NEW m \in Ids,
           Len(box[u]) < QueLen, m \notin Members(box[u]),
           NEW new, new = PutIn(box, u, m)
    PROVE  /\ BoxOK(new)
           /\ Members(new[u]) = Members(box[u]) \cup {m}
           /\ \A t \in Tasks \ {u} : Members(new[t]) = Members(box[t])
<1>1. /\ Append(box[u], m) \in Seq(Ids) /\ Distinct(Append(box[u], m))
      /\ Members(Append(box[u], m)) = Members(box[u]) \cup {m}
      /\ Len(Append(box[u], m)) <= QueLen
  <2>1. box[u] \in Seq(Ids) /\ Distinct(box[u])
    BY DEF BoxOK
  <2>2. Append(box[u], m) \in Seq(Ids) /\ Len(Append(box[u], m)) = Len(box[u]) + 1
        /\ Len(box[u]) \in Nat
    BY <2>1, SeqFacts
  <2> QED
    BY <2>1, <2>2, MembersAppended, MbxAssumption
<1>2. /\ new[u] = Append(box[u], m) /\ \A t \in Tasks \ {u} : new[t] = box[t]
      /\ new \in [Tasks -> Seq(Ids)]
  BY <1>1 DEF BoxOK, PutIn
<1> QED
  BY <1>1, <1>2 DEF BoxOK

LEMMA BoxTaken ==
    ASSUME NEW box, BoxOK(box), NEW u \in Tasks, box[u] # <<>>,
           NEW new, new = TakenFrom(box, u)
    PROVE  /\ BoxOK(new) /\ Head(box[u]) \in Ids /\ Head(box[u]) \in Members(box[u])
           /\ Members(new[u]) = Members(box[u]) \ {Head(box[u])}
           /\ \A t \in Tasks \ {u} : Members(new[t]) = Members(box[t])
<1>1. /\ Tail(box[u]) \in Seq(Ids) /\ Distinct(Tail(box[u]))
      /\ Members(Tail(box[u])) = Members(box[u]) \ {Head(box[u])}
      /\ Head(box[u]) \in Members(box[u]) /\ Head(box[u]) \in Ids
      /\ Len(Tail(box[u])) <= QueLen
  <2>1. box[u] \in Seq(Ids) /\ Distinct(box[u]) /\ Len(box[u]) <= QueLen
    BY DEF BoxOK
  <2>2. /\ Head(box[u]) \in Ids /\ Tail(box[u]) \in Seq(Ids)
        /\ Len(Tail(box[u])) = Len(box[u]) - 1 /\ Len(box[u]) \in Nat
    BY <2>1, SeqFacts
  <2> QED
    BY <2>1, <2>2, MembersRemoved, MbxAssumption
<1>2. /\ new[u] = Tail(box[u]) /\ \A t \in Tasks \ {u} : new[t] = box[t]
      /\ new \in [Tasks -> Seq(Ids)]
  BY <1>1 DEF BoxOK, TakenFrom
<1> QED
  BY <1>1, <1>2 DEF BoxOK

LEMMA HeldIs ==
    \A t : /\ Held("rcv", t) = Members(rcv[t]) /\ Held("rcv", t)' = Members(rcv'[t])
           /\ Held("ack", t) = Members(ack[t]) /\ Held("ack", t)' = Members(ack'[t])
           /\ Held("cur", t) = {cur[t]} \ {None} /\ Held("cur", t)' = {cur'[t]} \ {None}
  BY DEF Held

(* A message leaves the queue it was received in, or the handler's hands.  *)
Leaves(k, t, m) ==
    \/ /\ k = "rcv" /\ rcv[t] # <<>> /\ m = Head(rcv[t])
       /\ rcv' = [rcv EXCEPT ![t] = Tail(rcv[t])] /\ cur' = cur
    \/ /\ k = "cur" /\ m = cur[t] /\ m # None
       /\ cur' = [cur EXCEPT ![t] = None] /\ rcv' = rcv

LEMMA LeavesEffect ==
    ASSUME MailInv, NEW k, NEW t \in Tasks, NEW m, Leaves(k, t, m)
    PROVE  /\ k \in {"rcv", "cur"} /\ m \in Live /\ m \in Ids
           /\ m \in Held(k, t) /\ Held(k, t)' = Held(k, t) \ {m}
           /\ \A j \in {"rcv", "cur"}, w \in Tasks : j # k \/ w # t => Same(j, w)
           /\ BoxOK(rcv') /\ cur' \in [Tasks -> Ids \cup {None}]
<1>1. BoxOK(rcv) /\ cur \in [Tasks -> Ids \cup {None}] /\ MessagesApart
  BY BoxesAre DEF MailInv, MbxTyped, TasksOK
<1>2. m \in Held(k, t) /\ m \in Ids =>  m \in Live
  BY <1>1, HeldIs DEF MessagesApart, BoxKinds, Leaves
<1>3. CASE k = "rcv"
  <2>1. /\ BoxOK(rcv') /\ m \in Ids /\ m \in Members(rcv[t])
        /\ Members(rcv'[t]) = Members(rcv[t]) \ {m}
        /\ \A w \in Tasks \ {t} : Members(rcv'[w]) = Members(rcv[w])
    <3>1. rcv[t] # <<>> /\ m = Head(rcv[t]) /\ rcv' = TakenFrom(rcv, t)
      BY <1>3 DEF Leaves, TakenFrom
    <3> QED
      BY <1>1, <3>1, BoxTaken
  <2>2. cur' = cur
    BY <1>3 DEF Leaves
  <2>3. m \in Held(k, t) /\ Held(k, t)' = Held(k, t) \ {m}
    BY <1>3, <2>1, HeldIs
  <2>4. \A w \in Tasks : Same("cur", w)
    BY <2>2, HeldIs DEF Same
  <2>5. \A w \in Tasks \ {t} : Same("rcv", w)
    BY <2>1, HeldIs DEF Same
  <2> QED
    BY <1>1, <1>2, <1>3, <2>1, <2>2, <2>3, <2>4, <2>5
<1>4. CASE k = "cur"
  <2>1. /\ m = cur[t] /\ m # None /\ rcv' = rcv
        /\ cur' = [cur EXCEPT ![t] = None]
    BY <1>4 DEF Leaves
  <2>2. /\ m \in Ids /\ cur'[t] = None /\ \A w \in Tasks \ {t} : cur'[w] = cur[w]
        /\ cur' \in [Tasks -> Ids \cup {None}]
    BY <1>1, <2>1
  <2>3. m \in Held(k, t) /\ Held(k, t)' = Held(k, t) \ {m}
    BY <1>4, <2>1, <2>2, HeldIs
  <2>4. \A w \in Tasks : Same("rcv", w) /\ (w # t => Same("cur", w))
    BY <2>1, <2>2, HeldIs DEF Same
  <2> QED
    BY <1>1, <1>2, <1>4, <2>1, <2>2, <2>3, <2>4
<1> QED
  BY <1>3, <1>4 DEF Leaves

LEMMA SentBackMail ==
    ASSUME MailInv, NEW k, NEW t \in Tasks, NEW m, Leaves(k, t, m), SentBack(m)
    PROVE  BoxOK(rcv') /\ BoxOK(ack') /\ MessagesApart'
<1>1. /\ k \in {"rcv", "cur"} /\ m \in Live /\ m \in Ids
      /\ m \in Held(k, t) /\ Held(k, t)' = Held(k, t) \ {m}
      /\ \A j \in {"rcv", "cur"}, w \in Tasks : j # k \/ w # t => Same(j, w)
      /\ BoxOK(rcv')
  BY LeavesEffect
<1>2. PICK s \in Tasks :
         /\ Len(ack[s]) < QueLen /\ Live' = Live
         /\ ack' = PutIn(ack, s, m)
  BY DEF SentBack, PutIn
<1>3. MessagesApart /\ BoxOK(ack)
  BY BoxesAre DEF MailInv, MbxTyped
<1>4. m \notin Members(ack[s])
  <2>1. m \notin Held("ack", s)
    BY <1>1, <1>3 DEF MessagesApart, BoxKinds
  <2> QED
    BY <2>1, HeldIs
<1>5. /\ BoxOK(ack') /\ Members(ack'[s]) = Members(ack[s]) \cup {m}
      /\ \A w \in Tasks \ {s} : Members(ack'[w]) = Members(ack[w])
  BY <1>1, <1>2, <1>3, <1>4, BoxPut
<1>6. /\ Held("ack", s)' = Held("ack", s) \cup {m}
      /\ \A w \in Tasks : w # s => Same("ack", w)
  <2>1. Held("ack", s)' = Held("ack", s) \cup {m}
    BY <1>5, HeldIs
  <2>2. \A w \in Tasks \ {s} : Same("ack", w)
    BY <1>5, HeldIs DEF Same
  <2> QED
    BY <2>1, <2>2
<1>7. \A j \in BoxKinds, w \in Tasks :
         (j # k \/ w # t) /\ (j # "ack" \/ w # s) => Same(j, w)
  BY <1>1, <1>6 DEF BoxKinds
<1>8. k \in BoxKinds /\ "ack" \in BoxKinds /\ k # "ack"
  BY <1>1 DEF BoxKinds
<1>9. MessagesApart'
  BY <1>1, <1>2, <1>3, <1>6, <1>7, <1>8, MoveApart
<1> QED
  BY <1>1, <1>5, <1>9

LEMMA DroppedMail ==
    ASSUME MailInv, NEW k, NEW t \in Tasks, NEW m, Leaves(k, t, m), Dropped(m)
    PROVE  BoxOK(rcv') /\ BoxOK(ack') /\ MessagesApart'
<1>1. /\ k \in {"rcv", "cur"} /\ m \in Live /\ m \in Ids
      /\ m \in Held(k, t) /\ Held(k, t)' = Held(k, t) \ {m}
      /\ \A j \in {"rcv", "cur"}, w \in Tasks : j # k \/ w # t => Same(j, w)
      /\ BoxOK(rcv')
  BY LeavesEffect
<1>2. Live' = Live \ {m} /\ ack' = ack
  BY DEF Dropped
<1>3. MessagesApart /\ BoxOK(ack)
  BY BoxesAre DEF MailInv, MbxTyped
<1>4. \A w \in Tasks : Same("ack", w)
  BY <1>2, HeldIs DEF Same
<1>5. \A j \in BoxKinds, w \in Tasks : j # k \/ w # t => Same(j, w)
  BY <1>1, <1>4 DEF BoxKinds
<1>6. k \in BoxKinds
  BY <1>1 DEF BoxKinds
<1>7. MessagesApart'
  BY <1>1, <1>2, <1>3, <1>5, <1>6, TakeApart
<1> QED
  BY <1>1, <1>2, <1>3, <1>7

(* A received message is handled, by the handler or by a flush.            *)
LEMMA HandledKeeps ==
    ASSUME MbxInv, NEW k, NEW t \in Tasks, NEW m, Leaves(k, t, m),
           NEW v \in AckValues, AckOrFreeMsg(m, v), UNCHANGED <<mbxPc, call, calls>>
    PROVE  MbxInv'
<1>1. MailInv /\ AnswerInv /\ PrmInv /\ HeapOK /\ BoxesOK /\ MessagesApart /\ CallsShaped
  BY DEF MbxInv, MailInv, MbxTyped
<1>2. m \in Live /\ m \in Ids /\ cur' \in [Tasks -> Ids \cup {None}]
  BY <1>1, LeavesEffect
<1>3. CallsShaped' /\ \A u \in Tasks : InCall(u)' = InCall(u)
  BY <1>1, CallsKeepShape DEF OutsideCalls
<1>4. SentBack(m) \/ Dropped(m)
  BY <1>1, <1>2, AckOrFreeEffect
<1>5. BoxOK(rcv') /\ BoxOK(ack') /\ MessagesApart'
  BY <1>1, <1>4, SentBackMail, DroppedMail
<1>6. AnswerInv' /\ PrmInv'
  BY <1>1, <1>2, <1>3, <1>4, SentBackKeeps, DroppedKeeps
<1>7. HeapOK' /\ TasksOK' /\ CallsOK'
  <2>1. heap' \in [Ids -> SentMessages \cup {Freed}]
    BY <1>4 DEF SentBack, Dropped
  <2>2. prmLive' \subseteq Prms
    BY <1>1, <1>4 DEF SentBack, Dropped, HeapOK
  <2> QED
    BY <1>2, <2>1, <2>2 DEF MbxInv, MailInv, MbxTyped, HeapOK, TasksOK, CallsOK
<1> QED
  BY <1>3, <1>5, <1>6, <1>7, BoxesAre DEF MbxInv, MailInv, MbxTyped
-----------------------------------------------------------------------------
LEMMA BegunMail ==
    ASSUME MbxInv, NEW t \in Tasks, NEW c \in MbxCalls, Begun(t, c) PROVE MailInv'
<1>1. MbxTyped /\ CallsShaped /\ BoxesDistinct /\ MessagesApart
  BY DEF MbxInv, MailInv
<1>2. BoxesOK' /\ BoxesDistinct'
  BY <1>1, BoxesAre DEF Begun, MbxTyped
<1>3. MessagesApart'
  BY <1>1, PlacesUnchanged DEF Begun
<1>4. HeapOK'
  <2>1. c.prm \in Prms \cup {None} /\ prmLive' = prmLive \cup ({c.prm} \ {None})
    BY DEF Begun, MbxCalls
  <2> QED
    BY <1>1, <2>1 DEF Begun, MbxTyped, HeapOK
<1>5. TasksOK' /\ CallsOK'
  BY <1>1 DEF Begun, MbxTyped, TasksOK, CallsOK
<1>6. ASSUME NEW u \in Tasks PROVE CallShape(u)'
  <2>1. CASE u = t
    <3>1. /\ mbxPc'[t] = "send" /\ call'[t] = c /\ c.sent = {} /\ c.to # <<>>
          /\ c.kind = "send" \/ (~c.wait /\ c.prm # None) => Len(c.to) = 1
      BY <1>1 DEF Begun, MbxTyped, TasksOK, CallsOK
    <3> QED
      BY <2>1, <3>1 DEF CallShape, InCall
  <2>2. CASE u # t
    <3>1. mbxPc'[u] = mbxPc[u] /\ call'[u] = call[u]
      BY <1>1, <2>2 DEF Begun, MbxTyped, TasksOK, CallsOK
    <3> QED
      BY <1>1, <3>1 DEF CallsShaped, CallShape, InCall
  <2> QED
    BY <2>1, <2>2
<1> QED
  BY <1>2, <1>3, <1>4, <1>5, <1>6 DEF MailInv, MbxTyped, CallsShaped

LEMMA SentToMail ==
    ASSUME MbxInv, NEW t \in Tasks, NEW u \in Tasks, NEW m \in Ids, SentTo(t, u, m)
    PROVE  MailInv'
<1> DEFINE c == call[t]
           d == call'[t]
<1>1. MbxTyped /\ CallsShaped /\ BoxOK(rcv) /\ BoxOK(ack) /\ MessagesApart
  BY BoxesAre DEF MbxInv, MailInv, MbxTyped
<1>2. /\ m \notin Live /\ Live' = Live \cup {m}
      /\ Len(rcv[u]) < QueLen /\ rcv' = PutIn(rcv, u, m)
      /\ ack' = ack /\ cur' = cur /\ prmLive' = prmLive
  BY DEF SentTo, PutIn
<1>3. m \notin Members(rcv[u])
  <2>1. m \notin Held("rcv", u)
    BY <1>1, <1>2 DEF MessagesApart, BoxKinds
  <2> QED
    BY <2>1, HeldIs
<1>4. /\ BoxOK(rcv') /\ Members(rcv'[u]) = Members(rcv[u]) \cup {m}
      /\ \A w \in Tasks \ {u} : Members(rcv'[w]) = Members(rcv[w])
  BY <1>1, <1>2, <1>3, BoxPut
<1>5. MessagesApart'
  <2>1. Held("rcv", u)' = Held("rcv", u) \cup {m}
    BY <1>4, HeldIs
  <2>2. \A w \in Tasks \ {u} : Same("rcv", w)
    BY <1>4, HeldIs DEF Same
  <2>3. \A w \in Tasks : Same("ack", w) /\ Same("cur", w)
    BY <1>2, HeldIs DEF Same
  <2>4. \A l \in BoxKinds, w \in Tasks : l # "rcv" \/ w # u => Same(l, w)
    BY <2>2, <2>3 DEF BoxKinds
  <2>5. "rcv" \in BoxKinds
    BY DEF BoxKinds
  <2> QED
    BY <1>1, <1>2, <2>1, <2>4, <2>5, PutApart
<1>6. HeapOK' /\ CallsOK'
  BY <1>1 DEF SentTo, MbxTyped, HeapOK, CallsOK
<1>7. TasksOK'
  BY <1>1 DEF SentTo, MbxTyped, TasksOK
<1>8. ASSUME NEW w \in Tasks PROVE CallShape(w)'
  <2>1. CASE w = t
    <3>1. /\ mbxPc[t] = "send"
          /\ mbxPc'[t] = IF Len(c.to) > 1 THEN "send"
                         ELSE IF c.wait THEN "ackwait" ELSE "ready"
          /\ d.kind = c.kind /\ d.wait = c.wait /\ d.prm = c.prm /\ d.to = Tail(c.to)
          /\ d.sent = IF c.wait THEN c.sent \cup {m} ELSE c.sent
          /\ c.to # <<>> /\ c.to \in Seq(Tasks)
      BY <1>1 DEF SentTo, MbxTyped, TasksOK, CallsOK, MbxCalls
    <3>2. /\ ~c.wait => c.sent = {}
          /\ ~c.wait /\ c.prm # None => Len(c.to) = 1
          /\ c.kind = "send" => Len(c.to) = 1 /\ c.sent = {}
      BY <1>1, <3>1 DEF CallsShaped, CallShape, InCall
    <3>3. \A n \in Nat : n = Len(c.to) /\ n > 1 => Tail(c.to) # <<>>
      BY <3>1, LongTail
    <3> HIDE DEF c, d
    <3>4. /\ mbxPc'[t] = "send" => d.to # <<>> /\ Len(c.to) # 1
          /\ mbxPc'[t] = "ackwait" => d.wait
          /\ ~d.wait => d.sent = {}
          /\ d.kind = "send" => \A i, j \in d.sent : i = j
      <4>1. mbxPc'[t] = "send" => d.to # <<>> /\ Len(c.to) # 1
        <5>1. PICK n \in Nat : n = Len(c.to)
          BY <3>1, LenProperties
        <5>2. mbxPc'[t] = "send" => n > 1
          BY <3>1, <5>1
        <5>3. n > 1 => Len(c.to) # 1
          <6>1. n > 1 => n # 1
            OBVIOUS
          <6> QED
            BY <5>1, <6>1, Zenon
        <5>4. d.to = Tail(c.to)
          BY <3>1
        <5>5. n > 1 => Tail(c.to) # <<>>
          BY <3>3, <5>1, Zenon
        <5>6. n > 1 => d.to # <<>>
          BY <5>4, <5>5, Zenon
        <5> QED
          BY <5>2, <5>3, <5>6
      <4>2. mbxPc'[t] = "ackwait" => d.wait
        BY <3>1
      <4>3. ~d.wait => d.sent = {}
        BY <3>1, <3>2
      <4>4. d.kind = "send" => d.sent \subseteq {m}
        BY <3>1, <3>2
      <4> QED
        BY <4>1, <4>2, <4>3, <4>4
    <3>5. mbxPc'[t] = "send" => d.kind # "send" /\ (~d.wait => d.prm = None)
      BY <3>1, <3>2, <3>4
    <3> QED
      BY <2>1, <3>4, <3>5 DEF d, CallShape, InCall
  <2>2. CASE w # t
    <3>1. mbxPc'[w] = mbxPc[w] /\ call'[w] = call[w]
      BY <1>1, <2>2 DEF SentTo, MbxTyped, TasksOK
    <3> QED
      BY <1>1, <3>1 DEF CallsShaped, CallShape, InCall
  <2> QED
    BY <2>1, <2>2
<1>9. BoxOK(ack')
  BY <1>1, <1>2
<1> QED
  BY <1>4, <1>5, <1>6, <1>7, <1>8, <1>9, BoxesAre DEF MailInv, MbxTyped, CallsShaped

LEMMA AnsweredMail ==
    ASSUME MbxInv, NEW t \in Tasks, NEW m \in Ids, Answered(t, m)
    PROVE  MailInv'
<1> DEFINE c == call[t]
           d == call'[t]
<1>1. MbxTyped /\ CallsShaped /\ BoxOK(rcv) /\ BoxOK(ack) /\ MessagesApart
  BY BoxesAre DEF MbxInv, MailInv, MbxTyped
<1>2. /\ Live' = Live \ {m} /\ ack[t] # <<>> /\ m = Head(ack[t])
      /\ ack' = TakenFrom(ack, t)
      /\ rcv' = rcv /\ cur' = cur
  BY DEF Answered, TakenFrom
<1>3. /\ BoxOK(ack') /\ m \in Members(ack[t])
      /\ Members(ack'[t]) = Members(ack[t]) \ {m}
      /\ \A w \in Tasks \ {t} : Members(ack'[w]) = Members(ack[w])
  BY <1>1, <1>2, BoxTaken
<1>4. MessagesApart'
  <2>1. m \in Held("ack", t) /\ Held("ack", t)' = Held("ack", t) \ {m}
    BY <1>3, HeldIs
  <2>2. \A w \in Tasks \ {t} : Same("ack", w)
    BY <1>3, HeldIs DEF Same
  <2>3. \A w \in Tasks : Same("rcv", w) /\ Same("cur", w)
    BY <1>2, HeldIs DEF Same
  <2>4. \A l \in BoxKinds, w \in Tasks : l # "ack" \/ w # t => Same(l, w)
    BY <2>2, <2>3 DEF BoxKinds
  <2>5. "ack" \in BoxKinds
    BY DEF BoxKinds
  <2> QED
    BY <1>1, <1>2, <2>1, <2>4, <2>5, TakeApart
<1>5. HeapOK' /\ CallsOK'
  BY <1>1 DEF Answered, MbxTyped, HeapOK, CallsOK
<1>6. TasksOK'
  BY <1>1 DEF Answered, MbxTyped, TasksOK
<1>7. ASSUME NEW w \in Tasks PROVE CallShape(w)'
  <2>1. CASE w = t
    <3>1. /\ mbxPc[t] = "ackwait" /\ mbxPc'[t] \in {"ackwait", "ready"}
          /\ d.kind = c.kind /\ d.wait = c.wait /\ d.sent \subseteq c.sent
      BY <1>1 DEF Answered, MbxTyped, TasksOK
    <3>2. c.wait /\ (c.kind = "send" => \A i, j \in c.sent : i = j)
      BY <1>1, <3>1 DEF CallsShaped, CallShape, InCall
    <3> HIDE DEF c, d
    <3>3. d.wait /\ (d.kind = "send" => \A i, j \in d.sent : i = j)
      BY <3>1, <3>2
    <3> QED
      BY <2>1, <3>1, <3>3 DEF d, CallShape, InCall
  <2>2. CASE w # t
    <3>1. mbxPc'[w] = mbxPc[w] /\ call'[w] = call[w]
      BY <1>1, <2>2 DEF Answered, MbxTyped, TasksOK
    <3> QED
      BY <1>1, <3>1 DEF CallsShaped, CallShape, InCall
  <2> QED
    BY <2>1, <2>2
<1>8. BoxOK(rcv')
  BY <1>1, <1>2
<1> QED
  BY <1>3, <1>4, <1>5, <1>6, <1>7, <1>8, BoxesAre DEF MailInv, MbxTyped, CallsShaped

LEMMA WaitMsgKeeps ==
    ASSUME MbxInv, NEW t \in Tasks, WaitMsg(t) PROVE MbxInv'
<1>1. MailInv /\ AnswerInv /\ PrmInv /\ HeapOK /\ CallsShaped /\ MessagesApart
  BY DEF MbxInv, MailInv, MbxTyped
<1>2. PICK n : n = Head(rcv[t])
  OBVIOUS
<1>3. /\ BoxOK(rcv) /\ BoxOK(ack) /\ cur \in [Tasks -> Ids \cup {None}]
      /\ ack' = ack /\ cur[t] = None /\ cur' = [cur EXCEPT ![t] = n]
  BY <1>1, <1>2, BoxesAre DEF WaitMsg, MailInv, MbxTyped, TasksOK
<1>4. /\ BoxOK(rcv') /\ n \in Ids /\ n \in Members(rcv[t])
      /\ Members(rcv'[t]) = Members(rcv[t]) \ {n}
      /\ \A w \in Tasks \ {t} : Members(rcv'[w]) = Members(rcv[w])
  <2>1. rcv[t] # <<>> /\ rcv' = TakenFrom(rcv, t)
    BY DEF WaitMsg, TakenFrom
  <2>2. BoxOK(rcv)
    BY <1>3
  <2>3. /\ BoxOK(rcv') /\ Head(rcv[t]) \in Ids /\ Head(rcv[t]) \in Members(rcv[t])
        /\ Members(rcv'[t]) = Members(rcv[t]) \ {Head(rcv[t])}
        /\ \A w \in Tasks \ {t} : Members(rcv'[w]) = Members(rcv[w])
    BY <2>1, <2>2, BoxTaken
  <2> QED
    BY <1>2, <2>3
<1>5. /\ cur'[t] = n /\ \A w \in Tasks \ {t} : cur'[w] = cur[w]
      /\ cur' \in [Tasks -> Ids \cup {None}]
  BY <1>3, <1>4
<1>6. MessagesApart'
  <2>1. n \in Held("rcv", t) /\ Held("rcv", t)' = Held("rcv", t) \ {n}
    BY <1>4, HeldIs
  <2>2. Held("cur", t)' = Held("cur", t) \cup {n}
    <3>1. cur[t] = None /\ cur'[t] = n /\ n # None
      BY <1>3, <1>4, <1>5, NullIsNothing
    <3> QED
      BY <3>1, HeldIs
  <2>3. \A w \in Tasks \ {t} : Same("rcv", w)
    BY <1>4, HeldIs DEF Same
  <2>4. \A w \in Tasks \ {t} : Same("cur", w)
    <3>1. \A w \in Tasks \ {t} : cur'[w] = cur[w]
      BY <1>5
    <3>2. ASSUME NEW w \in Tasks \ {t} PROVE Same("cur", w)
      <4>1. /\ Held("cur", w) = {cur[w]} \ {None}
            /\ Held("cur", w)' = {cur'[w]} \ {None}
        BY HeldIs
      <4> QED
        BY <3>1, <4>1 DEF Same
    <3> QED
      BY <3>2
  <2>5. \A w \in Tasks : Same("ack", w)
    BY <1>3, HeldIs DEF Same
  <2>6. \A j \in BoxKinds, w \in Tasks :
           (j # "rcv" \/ w # t) /\ (j # "cur" \/ w # t) => Same(j, w)
    BY <2>3, <2>4, <2>5 DEF BoxKinds
  <2>7. "rcv" \in BoxKinds /\ "cur" \in BoxKinds
    BY DEF BoxKinds
  <2>8. Live' = Live
    BY DEF WaitMsg, Live
  <2> QED
    BY <1>1, <2>1, <2>2, <2>6, <2>7, <2>8, MoveApart
<1>7. CallsShaped' /\ \A u \in Tasks : InCall(u)' = InCall(u)
  BY <1>1, CallsKeepShape DEF OutsideCalls, WaitMsg
<1>8. AnswerInv' /\ PrmInv'
  BY <1>1, <1>7, QuietKeeps DEF WaitMsg
<1>9. HeapOK' /\ TasksOK' /\ CallsOK'
  BY <1>5 DEF WaitMsg, MbxInv, MailInv, MbxTyped, HeapOK, TasksOK, CallsOK
<1>10. BoxOK(ack')
  BY <1>3
<1> QED
  BY <1>4, <1>6, <1>7, <1>8, <1>9, <1>10, BoxesAre DEF MbxInv, MailInv, MbxTyped

(* A flush that begins, or goes on to the answers, or ends.                *)
LEMMA FlushKeeps ==
    ASSUME MbxInv, NEW t \in Tasks,
           NEW from \in {"ready", "flush", "flushAck"}, mbxPc[t] = from,
           NEW to \in {"ready", "flush", "flushAck"}, mbxPc' = [mbxPc EXCEPT ![t] = to],
           calls' \in [Tasks -> 0 .. MaxCalls],
           UNCHANGED <<rcv, ack, heap, prmLive, cur, call>>
    PROVE  MbxInv'
<1>1. MailInv /\ AnswerInv /\ PrmInv /\ MbxTyped /\ CallsShaped /\ MessagesApart
  BY DEF MbxInv, MailInv
<1>2. OutsideCalls
  BY <1>1 DEF OutsideCalls, InCall, MbxTyped, TasksOK
<1>3. CallsShaped' /\ \A u \in Tasks : InCall(u)' = InCall(u)
  BY <1>1, <1>2, CallsKeepShape
<1>4. AnswerInv' /\ PrmInv'
  BY <1>1, <1>3, QuietKeeps DEF MbxTyped
<1>5. MessagesApart'
  BY <1>1, PlacesUnchanged
<1>6. BoxesOK' /\ BoxesDistinct'
  BY <1>1, BoxesAre DEF MailInv, MbxTyped
<1>7. HeapOK' /\ TasksOK' /\ CallsOK'
  BY <1>1 DEF MbxTyped, HeapOK, TasksOK, CallsOK
<1> QED
  BY <1>3, <1>4, <1>5, <1>6, <1>7 DEF MbxInv, MailInv, MbxTyped

(* Whoever is asked for an answer waits for it; so a task that flushes has *)
(* none, and its second loop does nothing.                                 *)
LEMMA AnsweredInCall ==
    ASSUME MbxInv, NEW t \in Tasks, NEW m \in Members(ack[t])
    PROVE  InCall(t) /\ m \in call[t].sent
<1>1. BoxesOK /\ MessagesApart /\ SenderWaits /\ AnswersOwn
  BY DEF MbxInv, MailInv, MbxTyped, AnswerInv
<1> QED
  BY <1>1, AnswersLive DEF SenderWaits, AnswersOwn

LEMMA FlushingHasNone ==
    ASSUME MbxInv, NEW t \in Tasks, mbxPc[t] = "flushAck" PROVE ack[t] = <<>>
<1> SUFFICES ASSUME ack[t] # <<>> PROVE FALSE
  OBVIOUS
<1>1. Head(ack[t]) \in Members(ack[t])
  BY MembersRemoved DEF MbxInv, MailInv, MbxTyped, BoxesOK, BoxesDistinct
<1> QED
  BY <1>1, AnsweredInCall DEF InCall

LEMMA MbxStep == MbxInv /\ [MbxNext]_mbxVars => MbxInv'
<1> SUFFICES ASSUME MbxInv, [MbxNext]_mbxVars PROVE MbxInv'
  OBVIOUS
<1>1. MailInv /\ AnswerInv /\ PrmInv /\ MbxTyped /\ CallsShaped /\ MessagesApart
      /\ BoxesDistinct
  BY DEF MbxInv, MailInv
<1>2. calls \in [Tasks -> 0 .. MaxCalls] /\ mbxPc \in [Tasks ->
          {"ready", "send", "ackwait", "flush", "flushAck"}]
  BY <1>1 DEF MbxTyped, TasksOK
<1>3. ASSUME NEW t \in Tasks, SendMsg(t) \/ BroadcastMsg(t) PROVE MbxInv'
  <2>1. PICK c \in MbxCalls : Begun(t, c)
    BY <1>1, <1>3, SendMsgEffect
  <2> QED
    BY <1>1, <2>1, BegunMail, BegunKeeps DEF MbxInv
<1>4. ASSUME NEW t \in Tasks, SendNext(t) PROVE MbxInv'
  <2>1. PICK u \in Tasks, m \in Ids : SentTo(t, u, m)
    BY <1>1, <1>4, SendNextEffect
  <2> QED
    BY <1>1, <2>1, SentToMail, SentToKeeps DEF MbxInv
<1>5. ASSUME NEW t \in Tasks, RecvAck(t) PROVE MbxInv'
  <2>1. PICK m \in Ids : Answered(t, m)
    BY <1>5, RecvAckEffect
  <2> QED
    BY <1>1, <2>1, AnsweredMail, AnsweredKeeps DEF MbxInv
<1>6. ASSUME NEW t \in Tasks, WaitMsg(t) PROVE MbxInv'
  BY <1>6, WaitMsgKeeps
<1>7. ASSUME NEW t \in Tasks, NEW v \in AckValues, Handled(t, v) PROVE MbxInv'
  <2>1. Leaves("cur", t, cur[t]) /\ AckOrFreeMsg(cur[t], v)
        /\ UNCHANGED <<mbxPc, call, calls>>
    BY <1>7 DEF Handled, Leaves
  <2> QED
    BY <2>1, HandledKeeps
<1>8. ASSUME NEW t \in Tasks, Flush(t) PROVE MbxInv'
  <2>1. calls' \in [Tasks -> 0 .. MaxCalls]
    BY <1>2, <1>8, MbxAssumption DEF Flush
  <2> QED
    BY <1>8, <2>1, FlushKeeps DEF Flush
<1>9. ASSUME NEW t \in Tasks, FlushNext(t) PROVE MbxInv'
  <2>1. CASE rcv[t] # <<>>
    <3>1. Leaves("rcv", t, Head(rcv[t])) /\ AckOrFreeMsg(Head(rcv[t]), 0)
          /\ UNCHANGED <<mbxPc, call, calls>>
      BY <1>9, <2>1 DEF FlushNext, Leaves
    <3> QED
      BY <3>1, HandledKeeps, MbxAssumption
  <2>2. CASE rcv[t] = <<>>
    <3>1. /\ mbxPc[t] = "flush" /\ mbxPc' = [mbxPc EXCEPT ![t] = "flushAck"]
          /\ calls' = calls /\ UNCHANGED <<rcv, ack, heap, prmLive, cur, call>>
      BY <1>9, <2>2 DEF FlushNext
    <3> QED
      BY <1>2, <3>1, FlushKeeps
  <2> QED
    BY <2>1, <2>2
<1>10. ASSUME NEW t \in Tasks, FlushAckNext(t) PROVE MbxInv'
  <2>1. ack[t] = <<>>
    BY <1>10, FlushingHasNone DEF FlushAckNext
  <2>2. /\ mbxPc[t] = "flushAck" /\ mbxPc' = [mbxPc EXCEPT ![t] = "ready"]
        /\ calls' = calls /\ UNCHANGED <<rcv, ack, heap, prmLive, cur, call>>
    BY <1>10, <2>1 DEF FlushAckNext
  <2> QED
    BY <1>2, <2>2, FlushKeeps
<1>11. CASE UNCHANGED mbxVars
  <2>1. UNCHANGED <<rcv, ack, heap, prmLive, cur, call, mbxPc, calls>>
    BY <1>11 DEF mbxVars
  <2>2. CallsShaped' /\ \A u \in Tasks : InCall(u)' = InCall(u)
    BY <1>1, <2>1, CallsKeepShape DEF OutsideCalls
  <2>3. AnswerInv' /\ PrmInv'
    BY <1>1, <2>1, <2>2, QuietKeeps DEF MbxTyped
  <2>4. MessagesApart'
    BY <1>1, <2>1, PlacesUnchanged
  <2>5. MbxTyped' /\ BoxesDistinct'
    BY <1>1, <2>1 DEF MbxTyped, BoxesOK, HeapOK, TasksOK, CallsOK, BoxesDistinct
  <2> QED
    BY <2>2, <2>3, <2>4, <2>5 DEF MbxInv, MailInv
<1> QED
  BY <1>3, <1>4, <1>5, <1>6, <1>7, <1>8, <1>9, <1>10, <1>11 DEF MbxNext, Continue, Choose

(* What the invariant says of the places, counted.                         *)
LEMMA PlacesCounted ==
    ASSUME NEW box, BoxOK(box), NEW m \in Ids,
           \A t, u \in Tasks : m \in Members(box[t]) /\ m \in Members(box[u]) => t = u
    PROVE  Cardinality(QueuePlaces(box, m)) =
               IF \E t \in Tasks : m \in Members(box[t]) THEN 1 ELSE 0
<1>1. CASE \E t \in Tasks : m \in Members(box[t])
  <2>1. PICK t \in Tasks : m \in Members(box[t])
    BY <1>1
  <2>2. PICK i \in DOMAIN box[t] : box[t][i] = m
    BY <2>1 DEF Members
  <2>3. i \in 1 .. QueLen
    <3>1. /\ DOMAIN box[t] = 1 .. Len(box[t]) /\ Len(box[t]) \in Nat
          /\ Len(box[t]) <= QueLen
      BY LenProperties DEF BoxOK
    <3> QED
      BY <2>2, <3>1, MbxAssumption
  <2>4. ASSUME NEW p \in QueuePlaces(box, m) PROVE p = <<t, i>>
    <3>1. PICK u \in Tasks, j \in 1 .. QueLen : p = <<u, j>>
      BY <2>4 DEF QueuePlaces
    <3>2. j \in DOMAIN box[u] /\ box[u][j] = m
      BY <2>4, <3>1 DEF QueuePlaces
    <3>3. u = t
      BY <2>1, <3>2 DEF Members
    <3>4. j = i
      BY <2>2, <3>2, <3>3 DEF BoxOK, Distinct
    <3> QED
      BY <3>1, <3>3, <3>4
  <2>5. <<t, i>> \in QueuePlaces(box, m)
    BY <2>2, <2>3 DEF QueuePlaces
  <2>6. QueuePlaces(box, m) = {<<t, i>>}
    BY <2>4, <2>5
  <2> QED
    BY <1>1, <2>6, FS_Singleton
<1>2. CASE ~ \E t \in Tasks : m \in Members(box[t])
  <2>1. QueuePlaces(box, m) = {}
    BY <1>2 DEF QueuePlaces, Members
  <2> QED
    BY <1>2, <2>1, FS_EmptySet
<1> QED
  BY <1>1, <1>2

LEMMA HandlersCounted ==
    ASSUME NEW m \in Ids, \A t, u \in Tasks : cur[t] = m /\ cur[u] = m => t = u
    PROVE  Cardinality({t \in Tasks : cur[t] = m}) =
               IF \E t \in Tasks : cur[t] = m THEN 1 ELSE 0
<1>1. CASE \E t \in Tasks : cur[t] = m
  <2>1. PICK t \in Tasks : cur[t] = m
    BY <1>1
  <2>2. {u \in Tasks : cur[u] = m} = {t}
    BY <2>1
  <2> QED
    BY <1>1, <2>2, FS_Singleton
<1>2. CASE ~ \E t \in Tasks : cur[t] = m
  <2>1. {u \in Tasks : cur[u] = m} = {}
    BY <1>2
  <2> QED
    BY <1>2, <2>1, FS_EmptySet
<1> QED
  BY <1>1, <1>2

LEMMA MbxInvOnce == MbxInv => MessagesOnce
<1> SUFFICES ASSUME MbxInv, NEW m \in Ids
             PROVE  MessagePlaces(m) = IF m \in Live THEN 1 ELSE 0
  BY DEF MessagesOnce
<1> DEFINE inRcv == \E t \in Tasks : m \in Members(rcv[t])
           inAck == \E t \in Tasks : m \in Members(ack[t])
           inCur == \E t \in Tasks : cur[t] = m
<1>1. BoxOK(rcv) /\ BoxOK(ack) /\ MessagesApart
  BY BoxesAre DEF MbxInv, MailInv, MbxTyped
<1>2. \A t \in Tasks : /\ m \in Held("rcv", t) <=> m \in Members(rcv[t])
                       /\ m \in Held("ack", t) <=> m \in Members(ack[t])
                       /\ m \in Held("cur", t) <=> cur[t] = m
  BY HeldIs, NullIsNothing
<1>3. \A k, l \in BoxKinds, t, u \in Tasks :
         m \in Held(k, t) /\ m \in Held(l, u) => k = l /\ t = u
  BY <1>1 DEF MessagesApart
<1>4. "rcv" \in BoxKinds /\ "ack" \in BoxKinds /\ "cur" \in BoxKinds
  BY DEF BoxKinds
<1>5. /\ \A t, u \in Tasks : m \in Members(rcv[t]) /\ m \in Members(rcv[u]) => t = u
      /\ \A t, u \in Tasks : m \in Members(ack[t]) /\ m \in Members(ack[u]) => t = u
      /\ \A t, u \in Tasks : cur[t] = m /\ cur[u] = m => t = u
  BY <1>2, <1>3, <1>4
<1>6. ~(inRcv /\ inAck) /\ ~(inRcv /\ inCur) /\ ~(inAck /\ inCur)
  BY <1>2, <1>3, <1>4
<1>7. m \in Live <=> inRcv \/ inAck \/ inCur
  BY <1>1, <1>2 DEF MessagesApart, BoxKinds
<1>8. /\ Cardinality(QueuePlaces(rcv, m)) = IF inRcv THEN 1 ELSE 0
      /\ Cardinality(QueuePlaces(ack, m)) = IF inAck THEN 1 ELSE 0
      /\ Cardinality({t \in Tasks : cur[t] = m}) = IF inCur THEN 1 ELSE 0
  BY <1>1, <1>5, PlacesCounted, HandlersCounted
<1> HIDE DEF inRcv, inAck, inCur
<1> QED
  BY <1>6, <1>7, <1>8 DEF MessagePlaces

LEMMA MbxInvOwned == MbxInv => HeapOwned
<1> SUFFICES ASSUME MbxInv PROVE HeapOwned
  OBVIOUS
<1>1. MbxTyped /\ PrmInv
  BY DEF MbxInv, MailInv
<1>2. MbxTypeOK
  BY <1>1, LiveTyped
     DEF MbxTypeOK, MbxTyped, BoxesOK, HeapOK, TasksOK, SentMessages
<1>3. PrmsOwned
  BY <1>1 DEF PrmInv, PrmsLive, PrmsPointed, PrmsOwned, InCall
<1> QED
  BY <1>2, <1>3, MbxInvOnce DEF HeapOwned

(* Whoever frees, answers, forgets or broadcasts: every message in memory  *)
(* is in one queue or one handler's hands, every parameter has what points *)
(* to it, and no queue is longer than its ring.                            *)
THEOREM MbxOwnsHeap == MbxSpec => []HeapOwned
<1>1. MbxSpec => []MbxInv
  BY InitMbx, MbxStep, PTL DEF MbxSpec
<1> QED
  BY <1>1, MbxInvOwned, PTL

(* An answer is always to a message of the call its task is in.            *)
THEOREM MbxAnswersExpected == MbxSpec => []AnswersExpected
<1>1. MbxSpec => []MbxInv
  BY InitMbx, MbxStep, PTL DEF MbxSpec
<1>2. MbxInv => AnswersExpected
  <2>1. \A t \in Tasks : \A i \in DOMAIN ack[t] : ack[t][i] \in Members(ack[t])
    BY DEF Members
  <2> QED
    BY <2>1, AnsweredInCall DEF AnswersExpected, InCall
<1> QED
  BY <1>1, <1>2, PTL
=============================================================================
