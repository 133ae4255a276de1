-------------------------- MODULE SemaphoreProofs ---------------------------
(***************************************************************************)
(* The safety properties of Semaphore and its refinement of BoundedEntry,  *)
(* for any calls, nodes, limit, faults and resets.                         *)
(***************************************************************************)
EXTENDS Semaphore, FiniteSetTheorems, TLAPS

\* The counter bounds the slots: as long as it is exact, a granted increment
\* finds room.  It is never found negative before a reset.
ZeroOnlyAfterReset == resets = 0 => \A c \in Calls : pc[c] # "zeroing"
Inv == TypeOK /\ CounterExact /\ SlotsBounded /\ ZeroOnlyAfterReset

----------------------------------------------------------------------------
(* The sets of slots and of counted calls                                  *)

LEMMA SlotFacts ==
  /\ IsFiniteSet(Slots) /\ IsFiniteSet(Counted) /\ Slots \subseteq Counted
  /\ Cardinality(Slots) \in Nat /\ Cardinality(Counted) \in Nat
  /\ Cardinality(Slots) <= Cardinality(Counted)
<1>1. Slots \subseteq Counted /\ Counted \subseteq Calls
  BY DEF Slots, Counted, CountedLabels
<1>2. IsFiniteSet(Calls)
  BY SemaphoreAssumption
<1>3. IsFiniteSet(Slots) /\ IsFiniteSet(Counted)
  BY <1>1, <1>2, FS_Subset
<1>4. Cardinality(Slots) <= Cardinality(Counted)
  BY <1>1, <1>3, FS_Subset
<1> QED BY <1>1, <1>3, <1>4, FS_CardinalityType

\* A step of one call moves only this call in or out of the sets.
LEMMA MoveFacts ==
  ASSUME TypeOK, NEW c \in Calls, NEW l, Goto(c, l)
  PROVE  /\ Slots' = IF l \in SlotLabels THEN Slots \cup {c} ELSE Slots \ {c}
         /\ Counted' = IF l \in CountedLabels THEN Counted \cup {c} ELSE Counted \ {c}
<1>1. pc'[c] = l /\ \A d \in Calls : d # c => pc'[d] = pc[d]
  BY DEF Goto, TypeOK
<1> QED BY <1>1 DEF Slots, Counted

\* Most steps change the label of one call within its class, and no counter.
LEMMA QuietMove ==
  ASSUME Inv, NEW c \in Calls, NEW l, Goto(c, l),
         pc[c] \in SlotLabels <=> l \in SlotLabels,
         pc[c] \in CountedLabels <=> l \in CountedLabels,
         UNCHANGED <<count, resets>>
  PROVE  CounterExact' /\ SlotsBounded' /\ Slots' = Slots
<1>1. Slots' = Slots /\ Counted' = Counted
  BY MoveFacts DEF Inv, Slots, Counted
<1> QED BY <1>1 DEF Inv, CounterExact, SlotsBounded

\* A call gives its slot back, or loses it, with its increment not undone.
LEMMA LeakMove ==
  ASSUME Inv, UNCHANGED <<count, resets>>, Slots' \subseteq Slots, Counted' = Counted
  PROVE  CounterExact' /\ SlotsBounded'
<1>1. Cardinality(Slots') <= Cardinality(Slots)
  BY SlotFacts, FS_Subset
<1>2. Cardinality(Slots') \in Nat
  BY SlotFacts, FS_Subset, FS_CardinalityType
<1> QED BY <1>1, <1>2, SlotFacts, SemaphoreAssumption DEF Inv, CounterExact, SlotsBounded

\* An increment of a call that had none to undo.
LEMMA IncrementCounts ==
  ASSUME Inv, NEW c \in Calls, Increment(c)
  PROVE  /\ CounterExact' /\ SlotsBounded'
         /\ Slots' = Slots \/ (c \notin Slots /\ Slots' = Slots \cup {c}
                                /\ (resets > 0 \/ Cardinality(Slots) < MaxConcurrent))
<1>1. /\ pc[c] \in {"idle", "queued"} /\ count' = count + 1 /\ resets' = resets
      /\ Goto(c, IF Granted(count + 1) THEN "storing" ELSE "backing")
  BY DEF Increment
<1>2. c \notin Slots /\ c \notin Counted
  BY <1>1 DEF Slots, Counted, CountedLabels, SlotLabels
<1>3. "storing" \in SlotLabels /\ "backing" \notin SlotLabels
      /\ "storing" \in CountedLabels /\ "backing" \in CountedLabels
  BY DEF SlotLabels, CountedLabels
<1>4. Counted' = Counted \cup {c}
  BY <1>1, <1>3, MoveFacts DEF Inv
<1>5. Slots' = IF Granted(count + 1) THEN Slots \cup {c} ELSE Slots
  BY <1>1, <1>2, <1>3, MoveFacts DEF Inv
<1>6. Cardinality(Counted') = Cardinality(Counted) + 1
  BY <1>2, <1>4, SlotFacts, FS_AddElement
<1>7. CounterExact'
  BY <1>1, <1>6 DEF Inv, CounterExact
<1>8. Cardinality(Slots \cup {c}) = Cardinality(Slots) + 1
  BY <1>2, SlotFacts, FS_AddElement
<1>9. resets > 0 \/ resets = 0
  BY DEF Inv, TypeOK
<1>10. Granted(count + 1) => resets > 0 \/ Cardinality(Slots) < MaxConcurrent
  <2> SUFFICES ASSUME Granted(count + 1), resets = 0
               PROVE  Cardinality(Slots) < MaxConcurrent
    BY <1>9
  <2>1. count = Cardinality(Counted) /\ count + 1 <= MaxConcurrent
    BY DEF Inv, CounterExact, Granted
  <2> QED BY <2>1, SlotFacts, SemaphoreAssumption
<1>11. SlotsBounded'
  <2> SUFFICES ASSUME resets = 0 PROVE Cardinality(Slots') <= MaxConcurrent
    BY <1>1 DEF SlotsBounded
  <2>1. Cardinality(Slots) <= MaxConcurrent
    BY DEF Inv, SlotsBounded
  <2>2. Granted(count + 1) => Cardinality(Slots) < MaxConcurrent
    BY <1>10
  <2> QED BY <1>5, <1>8, <2>1, <2>2, SlotFacts, SemaphoreAssumption
<1> QED BY <1>2, <1>5, <1>7, <1>10, <1>11

\* A decrement of a call with an increment to undo.
LEMMA DecrementCounts ==
  ASSUME Inv, NEW c \in Calls, NEW l, pc[c] \in {"backing", "leaving"}, Goto(c, l),
         l \notin CountedLabels, count' = count - 1, UNCHANGED resets
  PROVE  CounterExact' /\ SlotsBounded' /\ Slots' = Slots \ {c}
<1>1. c \in Counted /\ l \notin SlotLabels
  BY DEF Counted, CountedLabels, SlotLabels
<1>2. Counted' = Counted \ {c} /\ Slots' = Slots \ {c}
  BY <1>1, MoveFacts DEF Inv
<1>3. Cardinality(Counted') = Cardinality(Counted) - 1
  BY <1>1, <1>2, SlotFacts, FS_RemoveElement
<1>4. CounterExact'
  BY <1>3 DEF Inv, CounterExact
<1>5. Cardinality(Slots') <= Cardinality(Slots) /\ Cardinality(Slots') \in Nat
  BY <1>2, SlotFacts, FS_Subset, FS_CardinalityType
<1>6. SlotsBounded'
  BY <1>5, SlotFacts, SemaphoreAssumption DEF Inv, SlotsBounded
<1> QED BY <1>2, <1>4, <1>6

----------------------------------------------------------------------------
(* Types                                                                   *)

LEMMA TypeStep == TypeOK /\ [Next]_vars => TypeOK'
<1> SUFFICES ASSUME TypeOK, [Next]_vars PROVE TypeOK'
  OBVIOUS
<1> USE DEF TypeOK, SlotLabels, EndLabels
<1>1. CASE UNCHANGED vars
  BY <1>1 DEF vars, storeVars
<1>2. ASSUME NEW c \in Calls, Increment(c) \/ StoreTicket(c) \/ BackOff(c) PROVE TypeOK'
  BY <1>2 DEF Increment, StoreTicket, BackOff, UndoCount, Goto
<1>3. ASSUME NEW c \in Calls, DeadlinePasses(c) \/ QueueTimesOut(c) PROVE TypeOK'
  BY <1>3 DEF DeadlinePasses, Queues, QueueTimesOut, Goto, storeVars
<1>4. ASSUME NEW c \in Calls, StartBody(c) \/ SkipBody(c) \/ BodyTimesOut(c) PROVE TypeOK'
  BY <1>4 DEF StartBody, SkipBody, BodyTimesOut, Goto, storeVars
<1>5. ASSUME NEW c \in Calls, BodyEnds(c) PROVE TypeOK'
  BY <1>5 DEF BodyEnds, storeVars
<1>6. ASSUME NEW c \in Calls, DeleteTicket(c) \/ Decrement(c) \/ Zero(c) PROVE TypeOK'
  BY <1>6 DEF DeleteTicket, Decrement, Zero, Goto
<1>7. ASSUME NEW c \in Calls, StorageFault(c) PROVE TypeOK'
  BY <1>7 DEF StorageFault, Fault, Goto, EndOf, storeVars
<1>8. ASSUME NEW c \in Calls, ExpireTicket(c) PROVE TypeOK'
  BY <1>8 DEF ExpireTicket
<1>9. ASSUME NEW n \in Nodes, Crash(n) PROVE TypeOK'
  BY <1>9 DEF Crash, Fault, EndOf, storeVars
<1>10. CASE ResetCounter \/ ResetTickets
  <2>1. CASE ResetCounter
    BY <2>1 DEF ResetCounter
  <2>2. CASE ResetTickets
    BY <2>2 DEF ResetTickets
  <2> QED BY <1>10, <2>1, <2>2
<1> QED
  BY <1>1, <1>2, <1>3, <1>4, <1>5, <1>6, <1>7, <1>8, <1>9, <1>10 DEF Next

----------------------------------------------------------------------------
(* Every step keeps the count, and is a step of the abstract limit         *)

\* The abstract step of a concrete one.
Allowed ==
  \/ Slots' = Slots /\ (resets' > 0) = (resets > 0)
  \/ Abstract!Next

LEMMA LeaveAllowed ==
  ASSUME Slots' \subseteq Slots, UNCHANGED resets PROVE Abstract!Next
<1> DEFINE S == Slots \ Slots'
<1>1. S \in SUBSET Slots /\ Slots' = Slots \ S
  OBVIOUS
<1>2. Abstract!Leave(S)
  BY <1>1 DEF Abstract!Leave
<1> QED BY <1>1, <1>2 DEF Abstract!Next

LEMMA IncrementStep ==
  ASSUME Inv, NEW c \in Calls, Increment(c)
  PROVE  CounterExact' /\ SlotsBounded' /\ Allowed
<1>1. UNCHANGED resets
  BY DEF Increment
<1>2. CASE Slots' = Slots
  BY <1>1, <1>2, IncrementCounts DEF Allowed
<1>3. CASE /\ c \notin Slots /\ Slots' = Slots \cup {c}
           /\ resets > 0 \/ Cardinality(Slots) < MaxConcurrent
  <2>1. Abstract!Cardinality(Slots) = Cardinality(Slots)
    BY DEF Abstract!Cardinality, Cardinality
  <2>2. Abstract!Enter(c)
    BY <1>1, <1>3, <2>1 DEF Abstract!Enter
  <2> QED BY <2>2, IncrementCounts DEF Allowed, Abstract!Next
<1> QED BY <1>2, <1>3, IncrementCounts

\* Steps that hand the slot on from one stage to the next, or queue and give up.
LEMMA StageStep ==
  ASSUME Inv, NEW c \in Calls,
         \/ StoreTicket(c) \/ QueueTimesOut(c) \/ StartBody(c) \/ SkipBody(c)
         \/ BodyTimesOut(c) \/ DeleteTicket(c)
  PROVE  CounterExact' /\ SlotsBounded' /\ Allowed
<1>1. /\ UNCHANGED <<count, resets>>
      /\ \/ pc[c] = "storing" /\ Goto(c, "holding")
         \/ pc[c] = "queued" /\ Goto(c, "timedOut")
         \/ pc[c] = "holding" /\ Goto(c, "executing")
         \/ pc[c] \in {"holding", "executing"} /\ Goto(c, "releasing")
         \/ pc[c] = "releasing" /\ Goto(c, "leaving")
  BY DEF StoreTicket, QueueTimesOut, StartBody, SkipBody, BodyTimesOut, DeleteTicket, storeVars
<1>2. PICK l : /\ Goto(c, l)
               /\ pc[c] \in SlotLabels <=> l \in SlotLabels
               /\ pc[c] \in CountedLabels <=> l \in CountedLabels
  BY <1>1 DEF SlotLabels, CountedLabels
<1> QED BY <1>1, <1>2, QuietMove DEF Allowed

\* The body's end moves the call on only while its flow still waits for it.
LEMMA BodyEndsStep ==
  ASSUME Inv, NEW c \in Calls, BodyEnds(c)
  PROVE  CounterExact' /\ SlotsBounded' /\ Allowed
<1>1. UNCHANGED <<count, resets>>
  BY DEF BodyEnds, storeVars
<1>2. CASE pc[c] = "executing"
  <2>1. Goto(c, "releasing")
    BY <1>2 DEF BodyEnds, Goto
  <2> QED BY <1>1, <1>2, <2>1, QuietMove DEF Allowed, SlotLabels, CountedLabels
<1>3. CASE pc[c] # "executing"
  <2>1. pc' = pc
    BY <1>3 DEF BodyEnds, Inv, TypeOK
  <2>2. Slots' = Slots /\ Counted' = Counted
    BY <2>1 DEF Slots, Counted
  <2> QED BY <1>1, <2>2 DEF Inv, CounterExact, SlotsBounded, Allowed
<1> QED BY <1>2, <1>3

LEMMA UndoStep ==
  ASSUME Inv, NEW c \in Calls, BackOff(c) \/ Decrement(c)
  PROVE  CounterExact' /\ SlotsBounded' /\ Allowed
<1>1. PICK l : Goto(c, l) /\ l \in {"queued", "rejected", "zeroing", "done"}
  BY DEF BackOff, Decrement
<1>2. /\ pc[c] \in {"backing", "leaving"} /\ count' = count - 1 /\ UNCHANGED resets
      /\ l \notin CountedLabels
  BY <1>1 DEF BackOff, Decrement, UndoCount, CountedLabels, SlotLabels
<1>3. CounterExact' /\ SlotsBounded' /\ Slots' = Slots \ {c}
  BY <1>1, <1>2, DecrementCounts
<1>4. Abstract!Next
  BY <1>2, <1>3, LeaveAllowed
<1> QED BY <1>3, <1>4 DEF Allowed

\* Only a reset makes the counter negative: without one there is nothing to zero.
LEMMA ZeroStep ==
  ASSUME Inv, NEW c \in Calls, Zero(c)
  PROVE  CounterExact' /\ SlotsBounded' /\ Allowed
<1>1. pc[c] = "zeroing" /\ count' = 0 /\ Goto(c, "done") /\ UNCHANGED resets
  BY DEF Zero
<1>2. Slots' = Slots /\ Counted' = Counted
  BY <1>1, MoveFacts DEF Inv, Slots, Counted, SlotLabels, CountedLabels
<1>3. resets # 0
  BY <1>1 DEF Inv, ZeroOnlyAfterReset
<1> QED BY <1>1, <1>2, <1>3 DEF CounterExact, SlotsBounded, Allowed

\* A call that ends by a fault keeps its increment, and loses its slot.
LEMMA FaultStep ==
  ASSUME Inv, NEW c \in Calls, StorageFault(c)
  PROVE  CounterExact' /\ SlotsBounded' /\ Allowed
<1>1. Goto(c, EndOf(pc[c])) /\ UNCHANGED <<count, resets>>
  BY DEF StorageFault, storeVars
<1>2. /\ EndOf(pc[c]) \notin SlotLabels
      /\ pc[c] \in CountedLabels <=> EndOf(pc[c]) \in CountedLabels
  BY DEF EndOf, SlotLabels, CountedLabels
<1>3. Slots' = Slots \ {c} /\ Counted' = Counted
  BY <1>1, <1>2, MoveFacts DEF Inv, Counted
<1> QED BY <1>1, <1>3, LeakMove, LeaveAllowed DEF Allowed

LEMMA CrashStep ==
  ASSUME Inv, NEW n \in Nodes, Crash(n)
  PROVE  CounterExact' /\ SlotsBounded' /\ Allowed
<1>1. /\ pc' = [c \in Calls |->
                  IF NodeOf[c] = n /\ pc[c] \notin EndLabels THEN EndOf(pc[c]) ELSE pc[c]]
      /\ UNCHANGED <<count, resets>>
  BY DEF Crash, storeVars
<1>2. \A c \in Calls :
        /\ pc'[c] \in SlotLabels => pc[c] \in SlotLabels
        /\ pc[c] \in CountedLabels <=> pc'[c] \in CountedLabels
  BY <1>1 DEF EndOf, SlotLabels, CountedLabels, EndLabels
<1>3. Slots' \subseteq Slots /\ Counted' = Counted
  BY <1>2 DEF Slots, Counted
<1> QED BY <1>1, <1>3, LeakMove, LeaveAllowed DEF Allowed

LEMMA ResetStep ==
  ASSUME Inv, ResetCounter
  PROVE  CounterExact' /\ SlotsBounded' /\ Allowed
<1>1. resets' = resets + 1 /\ UNCHANGED pc /\ resets \in Nat
  BY DEF ResetCounter, Inv, TypeOK
<1>2. resets' # 0 /\ resets' > 0 /\ Slots' = Slots
  BY <1>1 DEF Slots
<1>3. Abstract!Void
  BY <1>2 DEF Abstract!Void
<1> QED BY <1>2, <1>3 DEF CounterExact, SlotsBounded, Allowed, Abstract!Next

\* Steps that move no call and no counter.
LEMMA IdleStep ==
  ASSUME Inv, UNCHANGED <<count, pc, resets>>
  PROVE  CounterExact' /\ SlotsBounded' /\ Allowed
<1>1. Slots' = Slots /\ Counted' = Counted
  BY DEF Slots, Counted
<1> QED BY <1>1 DEF Inv, CounterExact, SlotsBounded, Allowed

\* A counted call finds the counter above zero, so its decrement leaves it
\* nonnegative.
LEMMA ZeroOnlyAfterResetKeeps == Inv /\ [Next]_vars => ZeroOnlyAfterReset'
<1> SUFFICES ASSUME Inv, [Next]_vars, resets' = 0, NEW c \in Calls, pc'[c] = "zeroing"
             PROVE  FALSE
  BY DEF ZeroOnlyAfterReset
<1> USE DEF Inv, TypeOK
<1>1. resets = 0
  BY DEF Next, vars, storeVars, Increment, StoreTicket, BackOff, DeadlinePasses,
     QueueTimesOut, StartBody, SkipBody, BodyEnds, BodyTimesOut, DeleteTicket, Decrement,
     Zero, StorageFault, ExpireTicket, Crash, ResetCounter, ResetTickets
<1>2. pc[c] # "zeroing"
  BY <1>1 DEF ZeroOnlyAfterReset
<1>3. PICK d \in Calls : Decrement(d) /\ count - 1 < 0
  BY <1>2 DEF Next, vars, storeVars, Increment, StoreTicket, BackOff, DeadlinePasses,
     QueueTimesOut, StartBody, SkipBody, BodyEnds, BodyTimesOut, DeleteTicket, Decrement,
     Zero, StorageFault, ExpireTicket, Crash, ResetCounter, ResetTickets, Goto, EndOf
<1>4. d \in Counted
  BY <1>3 DEF Decrement, Counted, CountedLabels, SlotLabels
<1>5. count = Cardinality(Counted)
  BY <1>1 DEF CounterExact
<1>6. Cardinality(Counted) # 0
  BY <1>4, SlotFacts, FS_EmptySet
<1> QED BY <1>3, <1>5, <1>6, SlotFacts

LEMMA Step == Inv /\ [Next]_vars => Inv' /\ Allowed
<1> SUFFICES ASSUME Inv, [Next]_vars PROVE CounterExact' /\ SlotsBounded' /\ Allowed
  BY TypeStep, ZeroOnlyAfterResetKeeps DEF Inv
<1>1. CASE UNCHANGED vars
  BY <1>1, IdleStep DEF vars, storeVars
<1>2. ASSUME NEW c \in Calls,
             \/ StoreTicket(c) \/ QueueTimesOut(c) \/ StartBody(c) \/ SkipBody(c)
             \/ BodyTimesOut(c) \/ DeleteTicket(c)
      PROVE  CounterExact' /\ SlotsBounded' /\ Allowed
  BY <1>2, StageStep
<1>3. ASSUME NEW c \in Calls, Increment(c) \/ BodyEnds(c) \/ BackOff(c) \/ Decrement(c)
      PROVE  CounterExact' /\ SlotsBounded' /\ Allowed
  BY <1>3, IncrementStep, BodyEndsStep, UndoStep
<1>4. ASSUME NEW c \in Calls, Zero(c) \/ StorageFault(c)
      PROVE  CounterExact' /\ SlotsBounded' /\ Allowed
  BY <1>4, ZeroStep, FaultStep
<1>5. ASSUME NEW c \in Calls, DeadlinePasses(c) \/ ExpireTicket(c)
      PROVE  CounterExact' /\ SlotsBounded' /\ Allowed
  BY <1>5, IdleStep DEF DeadlinePasses, ExpireTicket, storeVars
<1>6. ASSUME NEW n \in Nodes, Crash(n) PROVE CounterExact' /\ SlotsBounded' /\ Allowed
  BY <1>6, CrashStep
<1>7. CASE ResetCounter
  BY <1>7, ResetStep
<1>8. CASE ResetTickets
  BY <1>8, IdleStep DEF ResetTickets
<1> QED BY <1>1, <1>2, <1>3, <1>4, <1>5, <1>6, <1>7, <1>8 DEF Next

LEMMA InitInv == Init => Inv /\ Abstract!Init
<1> SUFFICES ASSUME Init PROVE Inv /\ Abstract!Init
  OBVIOUS
<1>1. TypeOK
  <2>1. pc \in [Calls -> SlotLabels \cup EndLabels \cup {"idle", "backing", "queued", "zeroing"}]
    BY DEF Init
  <2>2. count \in Int /\ resets \in Nat /\ faults \in Nat
    BY DEF Init
  <2> QED BY <2>1, <2>2 DEF Init, TypeOK
<1>2. Slots = {} /\ Counted = {}
  BY DEF Init, Slots, Counted, SlotLabels, CountedLabels
<1>3. CounterExact /\ SlotsBounded
  BY <1>2, FS_EmptySet, SemaphoreAssumption DEF Init, CounterExact, SlotsBounded
<1>4. ZeroOnlyAfterReset
  BY DEF Init, ZeroOnlyAfterReset
<1>5. Abstract!Init
  BY <1>2 DEF Init, Abstract!Init
<1> QED BY <1>1, <1>3, <1>4, <1>5 DEF Inv

LEMMA Invariance == Spec => []Inv
BY InitInv, Step, PTL DEF Spec

----------------------------------------------------------------------------
(* The theorems                                                            *)

\* semaphore.ts: counter, tickets and calls keep their types.
THEOREM TypeCorrect == Spec => []TypeOK
<1>1. Inv => TypeOK
  BY DEF Inv
<1> QED BY <1>1, Invariance, PTL

\* semaphore.ts: the counter is the number of increments not undone, for any
\* interleaving of attempts, releases, crashes and rejected storage calls.
THEOREM CounterCorrect == Spec => []CounterExact
<1>1. Inv => CounterExact
  BY DEF Inv
<1> QED BY <1>1, Invariance, PTL

\* semaphore.ts: the increment, checked after the fact, admits no more calls than
\* the limit, although a refused attempt counts for a moment too.
THEOREM LimitCorrect == Spec => []SlotsBounded
<1>1. Inv => SlotsBounded
  BY DEF Inv
<1> QED BY <1>1, Invariance, PTL

\* The semaphore implements the abstract limit, with the calls between a granted
\* increment and its decrement as those inside, and a reset as its end.
THEOREM LimitImplemented == Spec => ImplementsLimit
<1>1. Inv /\ [Next]_vars => [Abstract!Next]_<<Slots, resets > 0>>
  BY Step DEF Allowed
<1> QED BY <1>1, InitInv, Invariance, PTL DEF Spec, ImplementsLimit, Abstract!Spec
=============================================================================
