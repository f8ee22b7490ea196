------------------------------ MODULE OsaEvent ------------------------------
(***************************************************************************)
(* The event flags of interface/src/osa_event.c: a set of flags, a mutex   *)
(* and one condition variable.  As in OsaQue, one action is one critical   *)
(* section.  A call that sets flags never waits, so only the threads that  *)
(* retrieve are modelled; any number of others may set.                    *)
(***************************************************************************)
EXTENDS FiniteSets

CONSTANTS Waiters,     \* the threads that call OSA_EventRetrieve
          Flags        \* the bits of eFlags, not none

VARIABLES eFlags,      \* the flags that are set
          pc,          \* pc[w]: "idle", "wait" (in the condition variable)
                       \* or "woken"
          req,         \* req[w]: what the last call of w asked for
          reply        \* reply[w]: what it was answered

eventVars == <<eFlags, pc, req, reply>>

Masks == (SUBSET Flags) \ {{}}
Ops == {"AND", "AND_CONSUME", "OR", "OR_CONSUME"}
Timeouts == {"NO_SUSPEND", "SUSPEND", "TIMED"}

Request(mask, op, timeout) == [mask |-> mask, op |-> op, timeout |-> timeout]

(* The status of a call, and what it stored in *pRetrievedEvents, if it    *)
(* did store something.                                                    *)
Reply(ok, stored, events) == [ok |-> ok, stored |-> stored, events |-> events]
NoReply == Reply(FALSE, FALSE, {})

Waiting == {w \in Waiters : pc[w] = "wait"}

(* isolatedFlags: all the requested flags are set, or one of them is. *)
Matches(flags, r) ==
    IF r.op \in {"AND", "AND_CONSUME"} THEN r.mask \subseteq flags
                                       ELSE r.mask \cap flags # {}

(* A retrieval that matches resets all the flags, those outside its mask   *)
(* too, if the operation consumes.                                         *)
Consumes(r) == r.op \in {"AND_CONSUME", "OR_CONSUME"}
Consume(r) == eFlags' = IF Consumes(r) THEN {} ELSE eFlags

EventInit ==
    /\ eFlags = {}
    /\ pc = [w \in Waiters |-> "idle"]
    /\ req = [w \in Waiters |-> Request(Flags, "AND", "NO_SUSPEND")]
    /\ reply = [w \in Waiters |-> NoReply]

(* Variant of EventSet that signals only when no flag was set before. *)
EventSetSignalIfEmpty(flags, op) ==
    /\ op \in {"AND", "OR"}
    /\ eFlags' = IF op = "AND" THEN eFlags \cap flags ELSE eFlags \cup flags
    /\ IF Waiting = {} \/ eFlags # {}
       THEN UNCHANGED pc
       ELSE \E w \in Waiting : pc' = [pc EXCEPT ![w] = "woken"]
    /\ UNCHANGED <<req, reply>>

(* OSA_EventSet.  It wakes one waiter, if there is any, whatever that one  *)
(* waits for.  An operation that consumes is refused and changes nothing.  *)
EventSet(flags, op) ==
    /\ op \in {"AND", "OR"}
    /\ eFlags' = IF op = "AND" THEN eFlags \cap flags ELSE eFlags \cup flags
    /\ IF Waiting = {}
       THEN UNCHANGED pc
       ELSE \E w \in Waiting : pc' = [pc EXCEPT ![w] = "woken"]
    /\ UNCHANGED <<req, reply>>

(* OSA_EventRetrieve up to its return or its first wait. *)
EventRetrieve(w, r) ==
    /\ pc[w] = "idle"
    /\ req' = [req EXCEPT ![w] = r]
    /\ \/ /\ Matches(eFlags, r)
          /\ reply' = [reply EXCEPT ![w] = Reply(TRUE, TRUE, eFlags)]
          /\ Consume(r)
          /\ UNCHANGED pc
       \/ /\ ~Matches(eFlags, r)
          /\ r.timeout = "NO_SUSPEND"
          /\ reply' = [reply EXCEPT ![w] = Reply(TRUE, TRUE, {})]
          /\ UNCHANGED <<eFlags, pc>>
       \/ /\ ~Matches(eFlags, r)
          /\ r.timeout # "NO_SUSPEND"
          /\ pc' = [pc EXCEPT ![w] = "wait"]
          /\ reply' = [reply EXCEPT ![w] = NoReply]
          /\ UNCHANGED eFlags

(* Variant of RetrieveResume that tests only once (if, not while). *)
RetrieveResumeUntested(w) ==
    /\ pc[w] = "woken"
    /\ pc' = [pc EXCEPT ![w] = "idle"]
    /\ Consume(req[w])
    /\ reply' = [reply EXCEPT ![w] = Reply(TRUE, TRUE, eFlags)]
    /\ UNCHANGED req

(* The wait returned: the flags are tested again.  After a timed wait the  *)
(* status keeps its first value, OSA_EFAIL, and nothing is stored in       *)
(* pRetrievedEvents.                                                       *)
RetrieveResume(w) ==
    /\ pc[w] = "woken"
    /\ \/ /\ Matches(eFlags, req[w])
          /\ pc' = [pc EXCEPT ![w] = "idle"]
          /\ Consume(req[w])
          /\ reply' = [reply EXCEPT ![w] = IF req[w].timeout = "TIMED" THEN NoReply
                                           ELSE Reply(TRUE, TRUE, eFlags)]
       \/ /\ ~Matches(eFlags, req[w])
          /\ pc' = [pc EXCEPT ![w] = "wait"]
          /\ UNCHANGED <<eFlags, reply>>
    /\ UNCHANGED req

(* pthread_cond_timedwait returns ETIMEDOUT: the flags are not looked at.  *)
TimeOut(w) ==
    /\ pc[w] = "wait"
    /\ req[w].timeout = "TIMED"
    /\ pc' = [pc EXCEPT ![w] = "idle"]
    /\ reply' = [reply EXCEPT ![w] = Reply(TRUE, TRUE, {})]
    /\ UNCHANGED <<eFlags, req>>

(* A wait that returns without a signal. *)
SpuriousWakeup(w) ==
    /\ pc[w] = "wait"
    /\ pc' = [pc EXCEPT ![w] = "woken"]
    /\ UNCHANGED <<eFlags, req, reply>>

EventNext ==
    \/ \E flags \in SUBSET Flags, op \in Ops : EventSet(flags, op)
    \/ \E w \in Waiters :
          \/ \E mask \in Masks, op \in Ops, timeout \in Timeouts :
                EventRetrieve(w, Request(mask, op, timeout))
          \/ RetrieveResume(w)
          \/ TimeOut(w)
          \/ SpuriousWakeup(w)

(* A thread that was woken gets the mutex and runs. *)
EventSpec == EventInit /\ [][EventNext]_eventVars
EventFairSpec == EventSpec /\ \A w \in Waiters : WF_eventVars(RetrieveResume(w))
-----------------------------------------------------------------------------
(* Every variable has its type; only calls that may wait do. *)
TypeOK ==
    /\ eFlags \in SUBSET Flags
    /\ pc \in [Waiters -> {"idle", "wait", "woken"}]
    /\ req \in [Waiters -> [mask : Masks, op : Ops, timeout : Timeouts]]
    /\ reply \in [Waiters -> [ok : BOOLEAN, stored : BOOLEAN,
                             events : SUBSET Flags]]
    /\ \A w \in Waiters : pc[w] # "idle" => req[w].timeout # "NO_SUSPEND"

(* What a call reports is all that is set when it returns, also flags that *)
(* it did not ask for, and enough of it to be what it asked for: a thread  *)
(* that was woken for nothing, or overtaken by one that consumed the       *)
(* flags, reports nothing.  A call that consumes leaves no flag to others, *)
(* one that does not leaves them all: no flag is reported to a consumer    *)
(* and to a later call, unless it is set again.                            *)
Reports(w) == reply'[w] # reply[w] /\ reply'[w].events # {}
RetrievedWhole ==
    [][\A w \in Waiters : Reports(w) =>
          /\ Matches(reply'[w].events, req'[w])
          /\ reply'[w].events = eFlags
          /\ eFlags' = IF Consumes(req'[w]) THEN {} ELSE eFlags]_eventVars

(* Whichever step makes the flags of a waiting thread match, that thread   *)
(* does not sleep through it if no other waits: the signal has nowhere     *)
(* else to go.  (With others it may: see WaiterServed.)                    *)
Alone(w) == \A u \in Waiters \ {w} : pc[u] # "wait"
AloneServed ==
    [][\A w \in Waiters :
          (pc[w] = "wait" /\ Alone(w) /\ Matches(eFlags', req[w]))
              => Matches(eFlags, req[w]) \/ pc'[w] # "wait"]_eventVars

(* osa_event.h:77-78: when an event is set, "Tasks waiting on this event   *)
(* will wake up".  A thread whose flags are set does not wait on: it is    *)
(* woken, or the flags go away.                                            *)
WaiterServed ==
    \A w \in Waiters :
        (pc[w] = "wait" /\ Matches(eFlags, req[w]))
            ~> (pc[w] # "wait" \/ ~Matches(eFlags, req[w]))

(* osa_event.h:101: pRetrievedEvents is the "Mask of the Event IDs         *)
(* retreived on success".  A call whose wait found its events succeeds and *)
(* reports them, the more so if it consumed them.                          *)
FoundIsReported ==
    [][\A w \in Waiters :
          (pc[w] = "woken" /\ pc'[w] = "idle")
              => reply'[w].ok /\ reply'[w].stored]_eventVars

(* osa_event.h:24-28 and 38-42: of a call with OSA_EVENT_AND_CONSUME "All  *)
(* events in the mask will be consumed", with OSA_EVENT_OR_CONSUME "All    *)
(* active events in the mask".  What the mask does not name stays set for  *)
(* whoever waits for it.                                                   *)
OnlyMaskConsumed ==
    [][\A w \in Waiters :
          Reports(w) /\ Consumes(req'[w]) => eFlags' = eFlags \ req'[w].mask]_eventVars
=============================================================================
