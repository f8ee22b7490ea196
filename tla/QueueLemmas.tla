---------------------------- MODULE QueueLemmas ----------------------------
(***************************************************************************)
(* What the proofs about the modules with queues need of sequences: what   *)
(* Append, Head and Tail do to the type, the length and the elements, and  *)
(* what is known of a queue that holds nothing twice.                      *)
(***************************************************************************)
EXTENDS Integers, Sequences, FiniteSets, SequenceTheorems, FiniteSetTheorems, TLAPS

(* The operations on sequences keep their type and change their length as  *)
(* expected.                                                               *)
LEMMA SeqFacts ==
    ASSUME NEW S, NEW s \in Seq(S)
    PROVE  /\ Len(s) \in Nat
           /\ \A e \in S : /\ Append(s, e) \in Seq(S)
                           /\ Len(Append(s, e)) = Len(s) + 1
           /\ s # <<>> => /\ Head(s) \in S
                          /\ Tail(s) \in Seq(S)
                          /\ Len(Tail(s)) = Len(s) - 1
                          /\ Len(s) > 0
  BY AppendProperties, HeadTailProperties, LenProperties, EmptySeq

(* More than one element leaves one behind. *)
LEMMA LongTail ==
    ASSUME NEW S, NEW q \in Seq(S), NEW n \in Nat, n = Len(q), n > 1
    PROVE  Tail(q) # <<>>
<1> DEFINE r == Tail(q)
<1>1. q # <<>> /\ Len(<<>>) = 0
  OBVIOUS
<1>2. Len(r) = n - 1
  BY <1>1, SeqFacts
<1> HIDE DEF r
<1>3. Len(r) # 0
  BY <1>2
<1>4. r # <<>>
  BY <1>1, <1>3, Zenon
<1> QED
  BY <1>4 DEF r

(* What the elements of a sequence are after an append or a removal. *)
LEMMA SeqElements ==
    ASSUME NEW S, NEW q \in Seq(S), NEW e \in S
    PROVE  /\ DOMAIN q = 1 .. Len(q) /\ Len(q) \in Nat
           /\ DOMAIN Append(q, e) = 1 .. Len(q) + 1
           /\ Append(q, e)[Len(q) + 1] = e
           /\ \A i \in 1 .. Len(q) : Append(q, e)[i] = q[i]
           /\ q # <<>> => /\ DOMAIN Tail(q) = 1 .. Len(q) - 1
                          /\ Len(q) > 0
                          /\ Head(q) = q[1]
                          /\ \A i \in 1 .. Len(q) - 1 : Tail(q)[i] = q[i + 1]
<1>1. DOMAIN q = 1 .. Len(q) /\ Len(q) \in Nat
  BY LenProperties
<1>2. /\ DOMAIN Append(q, e) = 1 .. Len(q) + 1
      /\ Append(q, e)[Len(q) + 1] = e
      /\ \A i \in 1 .. Len(q) : Append(q, e)[i] = q[i]
  BY AppendProperties, LenProperties
<1>3. ASSUME q # <<>>
      PROVE  /\ DOMAIN Tail(q) = 1 .. Len(q) - 1
             /\ Len(q) > 0
             /\ Head(q) = q[1]
             /\ \A i \in 1 .. Len(q) - 1 : Tail(q)[i] = q[i + 1]
  BY <1>3, HeadTailProperties, LenProperties, EmptySeq
<1> QED
  BY <1>1, <1>2, <1>3

-----------------------------------------------------------------------------
(* A queue without repetition, and its elements. *)
Distinct(q) == \A i, j \in DOMAIN q : i # j => q[i] # q[j]
Members(q) == {q[i] : i \in DOMAIN q}

(* What a put adds to the elements, and what a get takes from them. *)
LEMMA MembersAppended ==
    ASSUME NEW S, NEW q \in Seq(S), NEW f \in S
    PROVE  /\ Members(Append(q, f)) = Members(q) \cup {f}
           /\ Distinct(q) /\ f \notin Members(q) => Distinct(Append(q, f))
<1> DEFINE a == Append(q, f)
           n == Len(q)
<1>1. /\ DOMAIN q = 1 .. n /\ n \in Nat
      /\ DOMAIN a = 1 .. n + 1
      /\ a[n + 1] = f
      /\ \A i \in 1 .. n : a[i] = q[i]
  BY SeqElements
<1> HIDE DEF a, n
<1>2. \A i \in DOMAIN a : i \in DOMAIN q \/ i = n + 1
  BY <1>1
<1>3. \A i \in DOMAIN q : i \in DOMAIN a /\ i # n + 1
  BY <1>1
<1>4. n + 1 \in DOMAIN a
  BY <1>1
<1>5. Members(a) = Members(q) \cup {f}
  BY <1>1, <1>2, <1>3, <1>4 DEF Members
<1>6. Distinct(q) /\ f \notin Members(q) => Distinct(a)
  BY <1>1, <1>2 DEF Distinct, Members
<1> QED
  BY <1>5, <1>6 DEF a

LEMMA MembersRemoved ==
    ASSUME NEW S, NEW q \in Seq(S), q # <<>>, Distinct(q)
    PROVE  /\ Members(Tail(q)) = Members(q) \ {Head(q)}
           /\ Head(q) \in Members(q)
           /\ Distinct(Tail(q))
<1> DEFINE r == Tail(q)
           n == Len(q)
<1>0. PICK e \in S : TRUE
  BY SeqFacts
<1>1. /\ DOMAIN q = 1 .. n /\ n \in Nat
      /\ DOMAIN r = 1 .. n - 1
      /\ n > 0
      /\ Head(q) = q[1]
      /\ \A i \in 1 .. n - 1 : r[i] = q[i + 1]
  BY <1>0, SeqElements
<1> HIDE DEF r, n
<1>2. \A i \in DOMAIN r : i + 1 \in DOMAIN q /\ i + 1 # 1 /\ r[i] = q[i + 1]
  BY <1>1
<1>3. \A i \in DOMAIN q : i # 1 => i - 1 \in DOMAIN r /\ r[i - 1] = q[i]
  BY <1>1
<1>4. 1 \in DOMAIN q
  BY <1>1
<1>5. Members(r) \subseteq Members(q) \ {Head(q)}
  BY <1>1, <1>2, <1>4 DEF Members, Distinct
<1>6. Members(q) \ {Head(q)} \subseteq Members(r)
  <2> SUFFICES ASSUME NEW i \in DOMAIN q, q[i] # Head(q)
               PROVE  q[i] \in Members(r)
    BY DEF Members
  <2>1. i # 1
    BY <1>1
  <2> QED
    BY <1>3, <2>1 DEF Members
<1>7. Distinct(r)
  <2> SUFFICES ASSUME NEW i \in DOMAIN r, NEW j \in DOMAIN r, i # j
               PROVE  r[i] # r[j]
    BY DEF Distinct
  <2>1. i + 1 # j + 1
    BY <1>1
  <2> QED
    BY <1>2, <2>1 DEF Distinct
<1> QED
  BY <1>1, <1>4, <1>5, <1>6, <1>7 DEF r, Members

(* A value is counted once where it is an element, and not elsewhere. *)
LEMMA MembersCounted ==
    ASSUME NEW S, NEW q \in Seq(S), Distinct(q), NEW f
    PROVE  Cardinality({i \in DOMAIN q : q[i] = f}) = IF f \in Members(q) THEN 1 ELSE 0
<1>1. CASE f \in Members(q)
  <2>1. PICK i \in DOMAIN q : q[i] = f
    BY <1>1 DEF Members
  <2>2. {j \in DOMAIN q : q[j] = f} = {i}
    BY <2>1 DEF Distinct
  <2> QED
    BY <1>1, <2>2, FS_Singleton
<1>2. CASE f \notin Members(q)
  <2>1. {j \in DOMAIN q : q[j] = f} = {}
    BY <1>2 DEF Members
  <2> QED
    BY <1>2, <2>1, FS_EmptySet
<1> QED
  BY <1>1, <1>2

(* A queue that holds nothing twice and lacks an element of a finite set   *)
(* is shorter than the set is large.                                       *)
LEMMA RoomForMissing ==
    ASSUME NEW S, IsFiniteSet(S), NEW q \in Seq(S), Distinct(q),
           NEW e \in S, e \notin Members(q)
    PROVE  Len(q) < Cardinality(S)
<1>1. DOMAIN q = 1 .. Len(q) /\ Len(q) \in Nat
  BY LenProperties
<1>2. /\ IsFiniteSet(S \ {e}) /\ Cardinality(S \ {e}) = Cardinality(S) - 1
      /\ Cardinality(S) \in Nat
  BY FS_RemoveElement, FS_CardinalityType
<1>3. q \in Injection(1 .. Len(q), S \ {e})
  <2>1. \A i \in 1 .. Len(q) : q[i] \in S \ {e}
    BY <1>1, ElementOfSeq DEF Members
  <2>2. q = [i \in 1 .. Len(q) |-> q[i]]
    BY <1>1
  <2>3. q \in [1 .. Len(q) -> S \ {e}]
    BY <2>1, <2>2
  <2> QED
    BY <1>1, <2>3 DEF Injection, IsInjective, Distinct
<1>4. Cardinality(1 .. Len(q)) = Len(q)
  BY <1>1, FS_Interval
<1> QED
  BY <1>1, <1>2, <1>3, <1>4, FS_Injection
-----------------------------------------------------------------------------
(* Sequences of numbers that rise, and sets of numbers one of which lies   *)
(* before the other.                                                       *)
Rising(q) == \A i, j \in DOMAIN q : i < j => q[i] < q[j]
Before(A, B) == \A a \in A, b \in B : a < b

LEMMA MembersTyped == ASSUME NEW S, NEW q \in Seq(S) PROVE Members(q) \subseteq S
  BY ElementOfSeq, LenProperties DEF Members

LEMMA RisingAppended ==
    ASSUME NEW q \in Seq(Nat), Rising(q), NEW e \in Nat, Before(Members(q), {e})
    PROVE  Rising(Append(q, e))
<1> DEFINE a == Append(q, e)
           n == Len(q)
<1>1. /\ DOMAIN q = 1 .. n /\ n \in Nat
      /\ DOMAIN a = 1 .. n + 1
      /\ a[n + 1] = e
      /\ \A i \in 1 .. n : a[i] = q[i]
  BY SeqElements
<1> HIDE DEF a, n
<1>2. \A i \in DOMAIN q : q[i] < e
  BY DEF Before, Members
<1> SUFFICES ASSUME NEW i \in DOMAIN a, NEW j \in DOMAIN a, i < j
             PROVE  a[i] < a[j]
  BY DEF Rising, a
<1>3. i \in 1 .. n
  BY <1>1
<1>4. CASE j = n + 1
  BY <1>1, <1>2, <1>3, <1>4
<1>5. CASE j \in 1 .. n
  BY <1>1, <1>3, <1>5 DEF Rising
<1> QED
  BY <1>1, <1>4, <1>5

(* The oldest element of a rising sequence lies before the others. *)
LEMMA RisingRemoved ==
    ASSUME NEW q \in Seq(Nat), Rising(q), q # <<>>
    PROVE  /\ Rising(Tail(q))
           /\ Before({Head(q)}, Members(Tail(q)))
           /\ Members(Tail(q)) \subseteq Members(q)
           /\ Head(q) \in Members(q)
<1> DEFINE r == Tail(q)
           n == Len(q)
<1>1. /\ DOMAIN q = 1 .. n /\ n \in Nat
      /\ DOMAIN r = 1 .. n - 1
      /\ n > 0
      /\ Head(q) = q[1]
      /\ \A i \in 1 .. n - 1 : r[i] = q[i + 1]
  BY SeqElements, 0 \in Nat
<1> HIDE DEF r, n
<1>2. \A i \in DOMAIN r : i + 1 \in DOMAIN q /\ 1 < i + 1 /\ r[i] = q[i + 1]
  BY <1>1
<1>3. 1 \in DOMAIN q
  BY <1>1
<1>4. Rising(r)
  <2> SUFFICES ASSUME NEW i \in DOMAIN r, NEW j \in DOMAIN r, i < j
               PROVE  r[i] < r[j]
    BY DEF Rising
  <2>1. i + 1 < j + 1
    BY <1>1
  <2> QED
    BY <1>2, <2>1 DEF Rising
<1>5. Before({Head(q)}, Members(r))
  BY <1>1, <1>2, <1>3 DEF Before, Members, Rising
<1>6. Members(r) \subseteq Members(q)
  BY <1>2 DEF Members
<1>7. Head(q) \in Members(q)
  BY <1>1, <1>3 DEF Members
<1> QED
  BY <1>4, <1>5, <1>6, <1>7 DEF r

LEMMA RisingJoined ==
    ASSUME NEW q \in Seq(Nat), NEW r \in Seq(Nat), Rising(q), Rising(r),
           Before(Members(q), Members(r))
    PROVE  /\ q \o r \in Seq(Nat)
           /\ Rising(q \o r)
           /\ Members(q \o r) = Members(q) \cup Members(r)
<1> DEFINE c == q \o r
           n == Len(q)
           m == Len(r)
<1>1. /\ n \in Nat /\ m \in Nat /\ DOMAIN q = 1 .. n /\ DOMAIN r = 1 .. m
      /\ c \in Seq(Nat) /\ DOMAIN c = 1 .. n + m
      /\ \A i \in 1 .. n + m : c[i] = IF i <= n THEN q[i] ELSE r[i - n]
  <2>1. c \in Seq(Nat) /\ Len(c) = n + m
    BY ConcatProperties
  <2>2. DOMAIN c = 1 .. n + m
    BY <2>1, LenProperties
  <2>3. \A i \in 1 .. n + m : c[i] = IF i <= n THEN q[i] ELSE r[i - n]
    BY ConcatProperties
  <2> QED
    BY <2>1, <2>2, <2>3, LenProperties
<1> HIDE DEF c, n, m
<1>2. \A i \in DOMAIN c : \/ i \in DOMAIN q /\ c[i] = q[i]
                          \/ i - n \in DOMAIN r /\ n < i /\ c[i] = r[i - n]
  <2> SUFFICES ASSUME NEW i \in DOMAIN c
               PROVE  \/ i \in DOMAIN q /\ c[i] = q[i]
                      \/ i - n \in DOMAIN r /\ n < i /\ c[i] = r[i - n]
    OBVIOUS
  <2>1. i \in 1 .. n + m
    BY <1>1
  <2>2. CASE i <= n
    BY <1>1, <2>1, <2>2
  <2>3. CASE ~(i <= n)
    <3>1. i - n \in 1 .. m /\ n < i
      BY <1>1, <2>1, <2>3
    <3> QED
      BY <1>1, <2>1, <2>3, <3>1
  <2> QED
    BY <2>2, <2>3
<1>3. \A i \in DOMAIN q : i \in DOMAIN c /\ c[i] = q[i]
  BY <1>1
<1>4. \A i \in DOMAIN r : i + n \in DOMAIN c /\ c[i + n] = r[i]
  <2> SUFFICES ASSUME NEW i \in DOMAIN r
               PROVE  i + n \in DOMAIN c /\ c[i + n] = r[i]
    OBVIOUS
  <2>1. i \in 1 .. m
    BY <1>1
  <2>2. i + n \in 1 .. n + m /\ ~(i + n <= n) /\ (i + n) - n = i
    BY <1>1, <2>1
  <2> QED
    BY <1>1, <2>2
<1>5. Members(c) = Members(q) \cup Members(r)
  BY <1>2, <1>3, <1>4 DEF Members
<1>6. ASSUME NEW i \in DOMAIN c, NEW j \in DOMAIN c, i < j
      PROVE  c[i] < c[j]
  <2>1. CASE j \in DOMAIN q /\ c[j] = q[j]
    <3>1. i \in DOMAIN q /\ c[i] = q[i]
      BY <1>1, <1>2, <1>6, <2>1
    <3> QED
      BY <1>6, <2>1, <3>1 DEF Rising
  <2>2. CASE j - n \in DOMAIN r /\ n < j /\ c[j] = r[j - n]
    <3>1. CASE i \in DOMAIN q /\ c[i] = q[i]
      BY <2>2, <3>1 DEF Before, Members
    <3>2. CASE i - n \in DOMAIN r /\ n < i /\ c[i] = r[i - n]
      <4>1. i - n < j - n
        BY <1>1, <1>6
      <4> QED
        BY <2>2, <3>2, <4>1 DEF Rising
    <3> QED
      BY <1>2, <3>1, <3>2
  <2> QED
    BY <1>2, <2>1, <2>2
<1> QED
  BY <1>1, <1>5, <1>6 DEF c, Rising
=============================================================================
