------------------------------ MODULE OsaList ------------------------------
(***************************************************************************)
(* The global list of interface/src/osa_list.c.  A semaphore guards it, so *)
(* what happens between its wait and its signal is one step;               *)
(* OSA_ListRemoveElem reads Head.next before it waits.                     *)
(*                                                                         *)
(* A pointer is an address, which malloc gives out again after free.       *)
(* stale[t] has the pointers of t whose element was freed since t got      *)
(* them.  What a program does after it followed a stale pointer the model  *)
(* does not say: it stops there.                                           *)
(***************************************************************************)
EXTENDS Naturals, Sequences, FiniteSets

CONSTANTS ListThreads,
          Addresses,       \* bound: what malloc has
          NULL,
          MaxElem          \* maxElem of OSA_ListCreate

ASSUME ListAssumption ==
    IsFiniteSet(Addresses) /\ NULL \notin Addresses /\ MaxElem \in Nat

VARIABLES headNext,        \* Head.next
          next,            \* next of each element
          allocated,
          ListElemCount,
          created,         \* between OSA_ListCreate and OSA_ListDelete
          cursor,          \* what OSA_ListGetNextElem last gave a thread
          removing,        \* the pointer a thread asked to remove, or NULL
          start,           \* ptr of its OSA_ListRemoveElem
          listPc,          \* "idle" or "remove"
          stale,
          followed         \* a stale pointer was followed

listVars == <<headNext, next, allocated, ListElemCount, created, cursor,
              removing, start, listPc, stale, followed>>

Pointers == Addresses \cup {NULL}

(* The pointers from p on, until NULL. *)
From(links, p) ==
    LET n == Cardinality(Addresses)
        at[i \in 1 .. n + 1] == IF i = 1 THEN p
                                ELSE IF at[i - 1] = NULL THEN NULL
                                ELSE links[at[i - 1]]
    IN  [i \in 1 .. Cardinality({j \in 1 .. n + 1 : at[j] # NULL}) |-> at[i]]

Chain == From(next, headNext)

ListInit ==
    /\ headNext = NULL
    /\ next = [a \in Addresses |-> NULL]
    /\ allocated = {} /\ ListElemCount = 0
    /\ created = TRUE
    /\ cursor = [t \in ListThreads |-> NULL]
    /\ removing = [t \in ListThreads |-> NULL]
    /\ start = [t \in ListThreads |-> NULL]
    /\ listPc = [t \in ListThreads |-> "idle"]
    /\ stale = [t \in ListThreads |-> {}]
    /\ followed = FALSE

callVars == <<cursor, removing, start, listPc, stale>>

(* OSA_ListCreate; an element of a list before is leaked. *)
ListCreate ==
    /\ ~created
    /\ headNext' = NULL /\ ListElemCount' = 0
    /\ created' = TRUE
    /\ UNCHANGED <<next, allocated, callVars, followed>>

(* OSA_ListDelete.  It reads next of each element it has just freed, and   *)
(* leaves Head.next as it was.                                             *)
ListDelete ==
    /\ created
    /\ \A t \in ListThreads : listPc[t] = "idle"
    /\ allocated' = {} /\ ListElemCount' = 0
    /\ created' = FALSE
    /\ followed' = (headNext # NULL)
    /\ cursor' = [t \in ListThreads |-> NULL]
    /\ stale' = [t \in ListThreads |-> {}]
    /\ UNCHANGED <<headNext, next, removing, start, listPc>>

HasRoom(length) == length < MaxElem

(* OSA_ListInsert goes to the end of the list, counting.  (One that fails  *)
(* changes nothing.)                                                       *)
ListInsert(t) ==
    /\ created /\ listPc[t] = "idle"
    /\ HasRoom(Len(Chain))
    /\ \E a \in Addresses \ allocated :
          /\ allocated' = allocated \cup {a}
          /\ IF Chain = <<>>
             THEN headNext' = a /\ next' = [next EXCEPT ![a] = NULL]
             ELSE /\ next' = [next EXCEPT ![Chain[Len(Chain)]] = a, ![a] = NULL]
                  /\ UNCHANGED headNext
    /\ ListElemCount' = ListElemCount + 1
    /\ UNCHANGED <<created, callVars, followed>>

(* OSA_ListGetNextElem, from the head or from the element it gave last.    *)
ListGetNextElem(t) ==
    /\ created /\ listPc[t] = "idle"
    /\ \/ /\ cursor' = [cursor EXCEPT ![t] = headNext]
          /\ UNCHANGED followed
       \/ /\ cursor[t] # NULL
          /\ cursor' = [cursor EXCEPT ![t] = next[cursor[t]]]
          /\ followed' = (cursor[t] \in stale[t])
    /\ stale' = [stale EXCEPT ![t] = {}]
    /\ UNCHANGED <<headNext, next, allocated, ListElemCount, created, removing,
                   start, listPc>>

(* OSA_ListRemoveElem reads Head.next, ...  The caller names an element by *)
(* its pointer or by its data, new or old: either is an address.           *)
RemoveStart(t) ==
    /\ created /\ listPc[t] = "idle"
    /\ \E a \in Addresses : removing' = [removing EXCEPT ![t] = a]
    /\ start' = [start EXCEPT ![t] = headNext]
    /\ stale' = [stale EXCEPT ![t] = @ \ {headNext}]
    /\ listPc' = [listPc EXCEPT ![t] = "remove"]
    /\ cursor' = [cursor EXCEPT ![t] = NULL]
    /\ UNCHANGED <<headNext, next, allocated, ListElemCount, created, followed>>

(* Variant of Unlink: prev is not moved along. *)
UnlinkFirst(walk, i) == headNext' = next[walk[i]] /\ UNCHANGED next

(* prev->next = cur->next *)
Unlink(walk, i) ==
    IF i = 1 THEN headNext' = next[walk[i]] /\ UNCHANGED next
    ELSE next' = [next EXCEPT ![walk[i - 1]] = next[walk[i]]] /\ UNCHANGED headNext

(* Another thread may have freed what it points to.                        *)
Forget(t, a) ==
    stale' = [u \in ListThreads |-> IF u = t THEN {}
                                   ELSE stale[u] \cup ({a} \cap {cursor[u], start[u]})]

Returned(t) ==
    /\ listPc' = [listPc EXCEPT ![t] = "idle"]
    /\ start' = [start EXCEPT ![t] = NULL]
    /\ removing' = [removing EXCEPT ![t] = NULL]
    /\ UNCHANGED <<created, cursor>>

(* ... waits for the semaphore, and looks for the element from there on.   *)
RemoveElem(t) ==
    /\ listPc[t] = "remove" /\ start[t] \notin stale[t]
    /\ LET walk == From(next, start[t])
       IN  \E i \in DOMAIN walk :
              /\ walk[i] = removing[t]
              /\ Unlink(walk, i)
              /\ allocated' = allocated \ {walk[i]}
              /\ Forget(t, walk[i])
    /\ ListElemCount' = ListElemCount - 1
    /\ Returned(t)
    /\ UNCHANGED followed

RemoveNothing(t) ==
    /\ listPc[t] = "remove"
    /\ \/ /\ start[t] \in stale[t] /\ followed' = TRUE
       \/ /\ \A i \in DOMAIN From(next, start[t]) : From(next, start[t])[i] # removing[t]
          /\ start[t] \notin stale[t] /\ UNCHANGED followed
    /\ stale' = [stale EXCEPT ![t] = {}]
    /\ Returned(t)
    /\ UNCHANGED <<headNext, next, allocated, ListElemCount>>

ListNext ==
    /\ ~followed
    /\ \/ ListCreate \/ ListDelete
       \/ \E t \in ListThreads :
              ListInsert(t) \/ ListGetNextElem(t) \/ RemoveStart(t)
              \/ RemoveElem(t) \/ RemoveNothing(t)

ListSpec == ListInit /\ [][ListNext]_listVars
-----------------------------------------------------------------------------
InChain == {Chain[i] : i \in DOMAIN Chain}

(* As long as no freed element was followed, the list has every element    *)
(* that was not freed, once, ListElemCount is their number, and there are  *)
(* no more of them than the maximum.                                       *)
ListSound ==
    (created /\ ~followed) =>
        /\ InChain = allocated
        /\ Len(Chain) = Cardinality(allocated)
        /\ ListElemCount = Len(Chain) /\ ListElemCount <= MaxElem

Without(s, i) == SubSeq(s, 1, i - 1) \o SubSeq(s, i + 1, Len(s))

(* A call adds an element at the end or takes one out: that of the pointer *)
(* it was called with, though RemoveElem began with a Head.next read       *)
(* before it had the list to itself.  The others stay, in their order.     *)
KeepsOrder ==
    (created /\ created' /\ Chain' # Chain) =>
        \/ Len(Chain') = Len(Chain) + 1 /\ SubSeq(Chain', 1, Len(Chain)) = Chain
        \/ \E t \in ListThreads, i \in DOMAIN Chain :
              /\ listPc[t] = "remove" /\ listPc'[t] = "idle"
              /\ Chain[i] = removing[t] /\ Chain' = Without(Chain, i)

(* Each call leaves the list well formed and changes one element of it.    *)
ListKept == [][ListSound' /\ KeepsOrder]_listVars
=============================================================================
