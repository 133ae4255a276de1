----------------------------- MODULE Semaphore ------------------------------
(***************************************************************************)
(* One key of the DistributedSemaphore and the tool calls that share it:   *)
(* the counter and the tickets in the storage, the stages of the call flow *)
(* that acquire a slot, run the tool's body under a timeout and release    *)
(* the slot, and the operator's forceReset.                                *)
(*                                                                         *)
(* Every storage call is one atomic step, an await between any two.  The   *)
(* notification of a release only shortens a queued call's sleep: a queued *)
(* call may try at any time, so it is left out, and so is the polling      *)
(* interval.                                                               *)
(***************************************************************************)
EXTENDS Integers, FiniteSets

CONSTANTS
  Calls,         \* tool calls, one acquire each
  Queueing,      \* those of an entity with a queueTimeoutMs above zero
  Nodes, NodeOf, \* the server process each call runs on
  MaxConcurrent,
  MaxFaults,     \* bound: rejected storage calls and node crashes together
  MaxResets      \* bound: calls of forceReset

ASSUME SemaphoreAssumption ==
  /\ IsFiniteSet(Calls) /\ Queueing \subseteq Calls
  /\ NodeOf \in [Calls -> Nodes]
  /\ MaxConcurrent \in Nat \ {0} /\ MaxFaults \in Nat /\ MaxResets \in Nat

VARIABLES
  count,     \* the counter, 0 when the key is absent
  tickets,   \* the calls whose ticket key is stored
  pc,        \* control of every call
  late,      \* the queued calls whose deadline has passed
  body,      \* the calls whose tool body is running
  resetting, \* a forceReset has yet to delete the tickets
  resets, faults

storeVars == <<count, tickets>>
vars == <<storeVars, pc, late, body, resetting, resets, faults>>

Init ==
  /\ count = 0 /\ tickets = {}
  /\ pc = [c \in Calls |-> "idle"]
  /\ late = {} /\ body = {}
  /\ resetting = FALSE /\ resets = 0 /\ faults = 0

\* Labels between a granted increment and the decrement that undoes it, and all
\* those with an increment to undo: "leaked" is a call that ended without.
SlotLabels == {"storing", "holding", "executing", "releasing", "leaving"}
CountedLabels == SlotLabels \cup {"backing", "leaked"}
EndLabels == {"done", "rejected", "timedOut", "failed", "leaked"}

Goto(c, l) == pc' = [pc EXCEPT ![c] = l]

----------------------------------------------------------------------------
(* acquire, tryAcquire and waitForSlot                                     *)

\* With a queueTimeoutMs of zero a refused attempt is final.
QueuesAnyway(c) == TRUE
Queues(c) == c \in Queueing

\* The loop of waitForSlot goes on until the deadline.
LoopsForever(c) == TRUE
LoopGoesOn(c) == c \notin late

GrantedOneTooMany(n) == n <= MaxConcurrent + 1
Granted(n) == n <= MaxConcurrent

\* The increment of tryAcquire, of a first attempt or of one in the queue.
Increment(c) ==
  /\ pc[c] = "idle" \/ (pc[c] = "queued" /\ LoopGoesOn(c))
  /\ count' = count + 1
  /\ Goto(c, IF Granted(count + 1) THEN "storing" ELSE "backing")
  /\ UNCHANGED <<tickets, late, body, resetting, resets, faults>>

StoreTicket(c) ==
  /\ pc[c] = "storing"
  /\ tickets' = tickets \cup {c}
  /\ Goto(c, "holding")
  /\ UNCHANGED <<count, late, body, resetting, resets, faults>>

\* Undoing the increment of a refused attempt.
KeepCount == count
UndoCount == count - 1
BackOff(c) ==
  /\ pc[c] = "backing"
  /\ count' = UndoCount
  /\ Goto(c, IF Queues(c) THEN "queued" ELSE "rejected")
  /\ UNCHANGED <<tickets, late, body, resetting, resets, faults>>

\* The deadline of a queued call, whether it sleeps or is in an attempt.
DeadlinePasses(c) ==
  /\ Queues(c) /\ c \notin late /\ pc[c] \in {"queued", "backing", "storing"}
  /\ late' = late \cup {c}
  /\ UNCHANGED <<storeVars, pc, body, resetting, resets, faults>>

\* QueueTimeoutError.
QueueTimesOut(c) ==
  /\ pc[c] = "queued" /\ c \in late
  /\ Goto(c, "timedOut")
  /\ UNCHANGED <<storeVars, late, body, resetting, resets, faults>>

----------------------------------------------------------------------------
(* The flow's execute stage                                                *)

StartBody(c) ==
  /\ pc[c] = "holding"
  /\ body' = body \cup {c}
  /\ Goto(c, "executing")
  /\ UNCHANGED <<storeVars, late, resetting, resets, faults>>

\* A stage before the body fails or responds: only the finalize stages follow.
SkipBody(c) ==
  /\ pc[c] = "holding"
  /\ Goto(c, "releasing")
  /\ UNCHANGED <<storeVars, late, body, resetting, resets, faults>>

\* A body that ends after its timeout ends unnoticed.
BodyEnds(c) ==
  /\ c \in body
  /\ body' = body \ {c}
  /\ pc' = [pc EXCEPT ![c] = IF @ = "executing" THEN "releasing" ELSE @]
  /\ UNCHANGED <<storeVars, late, resetting, resets, faults>>

\* withTimeout wins its race; nothing stops the body.
BodyTimesOut(c) ==
  /\ pc[c] = "executing"
  /\ Goto(c, "releasing")
  /\ UNCHANGED <<storeVars, late, body, resetting, resets, faults>>

----------------------------------------------------------------------------
(* release                                                                 *)

DeleteTicket(c) ==
  /\ pc[c] = "releasing"
  /\ tickets' = tickets \ {c}
  /\ Goto(c, "leaving")
  /\ UNCHANGED <<count, late, body, resetting, resets, faults>>

Decrement(c) ==
  /\ pc[c] = "leaving"
  /\ count' = count - 1
  /\ Goto(c, IF count - 1 < 0 THEN "zeroing" ELSE "done")
  /\ UNCHANGED <<tickets, late, body, resetting, resets, faults>>

\* The correction of a counter found negative.
Zero(c) ==
  /\ pc[c] = "zeroing"
  /\ count' = 0
  /\ Goto(c, "done")
  /\ UNCHANGED <<tickets, late, body, resetting, resets, faults>>

----------------------------------------------------------------------------
(* forceReset                                                              *)

ResetCounter ==
  /\ ~resetting /\ resets < MaxResets
  /\ count' = 0
  /\ resetting' = TRUE /\ resets' = resets + 1
  /\ UNCHANGED <<tickets, pc, late, body, faults>>

ResetTickets ==
  /\ resetting
  /\ tickets' = {}
  /\ resetting' = FALSE
  /\ UNCHANGED <<count, pc, late, body, resets, faults>>

----------------------------------------------------------------------------
(* Environment                                                             *)

\* Where a call ends when it dies, or its storage call is rejected, at label l.
EndOf(l) == IF l \in CountedLabels THEN "leaked" ELSE "failed"

Fault == faults < MaxFaults /\ faults' = faults + 1

\* A rejected call takes no effect and ends the handler that made it.  A release
\* that fails is logged and forgotten.
StorageFault(c) ==
  /\ pc[c] \in {"idle", "queued", "storing", "backing", "releasing", "leaving", "zeroing"}
  /\ Fault
  /\ Goto(c, EndOf(pc[c]))
  /\ UNCHANGED <<storeVars, late, body, resetting, resets>>

Crash(n) ==
  /\ Fault
  /\ pc' = [c \in Calls |->
              IF NodeOf[c] = n /\ pc[c] \notin EndLabels THEN EndOf(pc[c]) ELSE pc[c]]
  /\ body' = {c \in body : NodeOf[c] # n}
  /\ UNCHANGED <<storeVars, late, resetting, resets>>

\* The ticket's ttl passes, whether its call still runs or not.
ExpireTicket(c) ==
  /\ c \in tickets
  /\ tickets' = tickets \ {c}
  /\ UNCHANGED <<count, pc, late, body, resetting, resets, faults>>

Next ==
  \/ \E c \in Calls :
       \/ Increment(c) \/ StoreTicket(c) \/ BackOff(c) \/ DeadlinePasses(c) \/ QueueTimesOut(c)
       \/ StartBody(c) \/ SkipBody(c) \/ BodyEnds(c) \/ BodyTimesOut(c)
       \/ DeleteTicket(c) \/ Decrement(c) \/ Zero(c)
       \/ StorageFault(c) \/ ExpireTicket(c)
  \/ \E n \in Nodes : Crash(n)
  \/ ResetCounter \/ ResetTickets

Spec == Init /\ [][Next]_vars

\* The storage answers, and time passes.  No body ever has to end, and no
\* timeout need be configured.
Fairness ==
  \A c \in Calls :
    /\ WF_vars(BackOff(c)) /\ WF_vars(StoreTicket(c))
    /\ WF_vars(DeadlinePasses(c)) /\ WF_vars(QueueTimesOut(c)) /\ WF_vars(ExpireTicket(c))
FairSpec == Spec /\ Fairness

----------------------------------------------------------------------------
(* Properties                                                              *)

TypeOK ==
  /\ count \in Int /\ tickets \subseteq Calls
  /\ pc \in [Calls -> SlotLabels \cup EndLabels \cup {"idle", "backing", "queued", "zeroing"}]
  /\ late \subseteq Queueing /\ body \subseteq Calls
  /\ resetting \in BOOLEAN /\ resets \in Nat /\ faults \in Nat

\* The calls that were granted a slot and have not given it back, and those with
\* an increment nobody has undone.
Slots == {c \in Calls : pc[c] \in SlotLabels}
Counted == {c \in Calls : pc[c] \in CountedLabels}

\* Until a reset, the counter is exactly what the calls under way and the calls
\* that died added to it: a refused attempt, a crash or a rejected call never
\* makes it forget a slot.
CounterExact == resets = 0 => count = Cardinality(Counted)

\* Until a reset, no more slots are held than the limit allows, whatever
\* attempts overlap and whoever crashes.
SlotsBounded == resets = 0 => Cardinality(Slots) <= MaxConcurrent

\* A call that queues gets a slot or an error, however long the slots are held.
QueueReturns ==
  \A c \in Calls : pc[c] = "queued" ~> pc[c] \notin {"queued", "backing", "storing"}

\* Every step is one of the abstract limit: slots are entered one at a time and
\* only while there is room, or after an operator voided the limit.
Abstract == INSTANCE BoundedEntry
  WITH Entrants <- Calls, Limit <- MaxConcurrent, inside <- Slots, voided <- resets > 0
ImplementsLimit == Abstract!Spec

=============================================================================
