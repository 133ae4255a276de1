----------------------------- MODULE Elicitation -----------------------------
(***************************************************************************)
(* The native elicitation of one session: elicit() calls ("asks") that run *)
(* on the node of the session's transport adapter, the session's pending   *)
(* record in the store, the result channel of every question, and the      *)
(* client's answers, which may reach the adapter's node or any other.      *)
(*                                                                         *)
(* The adapter keeps one slot (pendingElicit) and the store one record per *)
(* session, whatever the number of asks under way.  An action is the code  *)
(* between two awaits.  Sending the question and filling the slot are one  *)
(* action: only microtasks lie between them.                               *)
(***************************************************************************)
EXTENDS Naturals, FiniteSets

CONSTANTS
  Asks,      \* elicit() calls of the session, each with an elicitId of its own
  None,
  MaxFaults  \* bound: rejected sends and storage calls, lost messages, crashes

ASSUME ElicitationAssumption == None \notin Asks /\ MaxFaults \in Nat

VARIABLES
  pending, \* the session's record in the store: its question, or None
  slot,    \* the adapter's pendingElicit: its question, or None
  pc,      \* control of every ask
  seen,    \* the record a cancelling ask has found
  result,  \* what an ask's promise was settled with; an answer is its question
  sub,     \* the ask's subscription of its result channel
  inbox,   \* messages of the channel on their way to the adapter's node
  reply,   \* the client's answer to every question, then the flow that handles it
  found,   \* the record that flow has found
  faults

askVars == <<pc, seen, result>>
wireVars == <<sub, inbox>>
replyVars == <<reply, found>>
vars == <<pending, slot, askVars, wireVars, replyVars, faults>>

Init ==
  /\ pending = None /\ slot = None
  /\ pc = [a \in Asks |-> "idle"]
  /\ seen = [a \in Asks |-> None]
  /\ result = [a \in Asks |-> "none"]
  /\ sub = [a \in Asks |-> "none"]
  /\ inbox = [a \in Asks |-> {}]
  /\ reply = [a \in Asks |-> "unasked"]
  /\ found = [a \in Asks |-> None]
  /\ faults = 0

Fault == faults < MaxFaults /\ faults' = faults + 1

----------------------------------------------------------------------------
(* Settling a promise                                                      *)

\* Clearing the timer and the slot and dropping the subscription, if it was
\* confirmed: one that is not yet stays, and opens later with nobody to close it.
Unsubscribed(a) == [sub EXCEPT ![a] = IF @ = "open" THEN "closed" ELSE @]

Settle(a, r) ==
  /\ result' = [result EXCEPT ![a] = r]
  /\ slot' = None
  /\ sub' = Unsubscribed(a)

\* The settled flag: only a promise that still waits is settled by a message.
ListensAlways(a) == pc[a] \notin {"idle", "storing", "sending"}
Listens(a) == pc[a] = "waiting"

----------------------------------------------------------------------------
(* sendElicitRequest and cancelPendingElicit                               *)

\* A new ask cancels the one in the slot, then looks for its record.
Ask(a) ==
  /\ pc[a] = "idle"
  /\ \/ /\ slot = None
        /\ pc' = [pc EXCEPT ![a] = "storing"]
        /\ UNCHANGED <<slot, result, sub>>
     \/ /\ slot # None
        /\ pc' = [pc EXCEPT ![slot] = "done", ![a] = "checking"]
        /\ Settle(slot, "cancel")
  /\ UNCHANGED <<pending, seen, inbox, replyVars, faults>>

\* The slot is cleared once more when the cancellation is through, even if
\* another ask has filled it meanwhile.
CheckPending(a) ==
  /\ pc[a] = "checking"
  /\ seen' = [seen EXCEPT ![a] = pending]
  /\ \/ /\ pending = None /\ slot' = None
        /\ pc' = [pc EXCEPT ![a] = "storing"]
     \/ /\ pending # None /\ UNCHANGED slot
        /\ pc' = [pc EXCEPT ![a] = "cancelling"]
  /\ UNCHANGED <<pending, result, wireVars, replyVars, faults>>

\* A message is for those whose subscription the storage knows of.
Published(q, r) == IF sub[q] = "open" THEN [inbox EXCEPT ![q] = @ \cup {r}] ELSE inbox

PublishCancel(a) ==
  /\ pc[a] = "cancelling"
  /\ inbox' = Published(seen[a], "cancel")
  /\ pc' = [pc EXCEPT ![a] = "clearing"]
  /\ UNCHANGED <<pending, slot, seen, result, sub, replyVars, faults>>

ClearPending(a) ==
  /\ pc[a] = "clearing"
  /\ pending' = None /\ slot' = None
  /\ pc' = [pc EXCEPT ![a] = "storing"]
  /\ UNCHANGED <<seen, result, wireVars, replyVars, faults>>

StorePending(a) ==
  /\ pc[a] = "storing"
  /\ pending' = a
  /\ pc' = [pc EXCEPT ![a] = "sending"]
  /\ UNCHANGED <<slot, seen, result, wireVars, replyVars, faults>>

Send(a) ==
  /\ pc[a] = "sending"
  /\ reply' = [reply EXCEPT ![a] = "asked"]
  /\ slot' = a
  /\ sub' = [sub EXCEPT ![a] = "asked"]
  /\ pc' = [pc EXCEPT ![a] = "waiting"]
  /\ UNCHANGED <<pending, seen, result, inbox, found, faults>>

SendFails(a) ==
  /\ pc[a] = "sending"
  /\ pc' = [pc EXCEPT ![a] = "dropping"]
  /\ Fault
  /\ UNCHANGED <<pending, slot, seen, result, wireVars, replyVars>>

Subscribed(a) ==
  /\ sub[a] = "asked"
  /\ sub' = [sub EXCEPT ![a] = "open"]
  /\ UNCHANGED <<pending, slot, askVars, inbox, replyVars, faults>>

Deliver(a, r) ==
  /\ r \in inbox[a]
  /\ inbox' = [inbox EXCEPT ![a] = @ \ {r}]
  /\ \/ /\ sub[a] = "open" /\ Listens(a)
        /\ Settle(a, r)
        /\ pc' = [pc EXCEPT ![a] = "done"]
     \/ /\ ~(sub[a] = "open" /\ Listens(a))
        /\ UNCHANGED <<slot, pc, result, sub>>
  /\ UNCHANGED <<pending, seen, replyVars, faults>>

\* The timer starts with the wait, before the subscription is confirmed.
ArmedOnceSubscribed(a) == pc[a] = "waiting" /\ sub[a] = "open"
Armed(a) == pc[a] = "waiting"

\* The timeout callback does not go through the common cleanup.
KeptSlot == slot
ClearedSlot == None

TimesOut(a) ==
  /\ Armed(a)
  /\ slot' = ClearedSlot
  /\ sub' = Unsubscribed(a)
  /\ pc' = [pc EXCEPT ![a] = "expiring"]
  /\ UNCHANGED <<pending, seen, result, inbox, replyVars, faults>>

\* Removing the record, of whichever question it is, after a timeout
\* ("expiring"), a failed send ("dropping") or a failed subscription ("failing").
LeftInPlace == pending
Tombstone == "deleted"
Removed == None
GiveUp(a) ==
  /\ pc[a] \in {"expiring", "dropping", "failing"}
  /\ pending' = Removed
  /\ result' = [result EXCEPT ![a] = IF pc[a] = "expiring" THEN "timeout" ELSE "error"]
  /\ pc' = [pc EXCEPT ![a] = "done"]
  /\ UNCHANGED <<slot, seen, wireVars, replyVars, faults>>

----------------------------------------------------------------------------
(* handleIfElicitResult and ElicitationResultFlow                          *)

\* On the adapter's node the answer settles whatever ask is in the slot; on any
\* node the flow starts.
Answer(q, atHome) ==
  /\ reply[q] = "asked"
  /\ reply' = [reply EXCEPT ![q] = "looking"]
  /\ \/ /\ atHome /\ slot # None
        /\ Settle(slot, q)
        /\ pc' = [pc EXCEPT ![slot] = "done"]
     \/ /\ ~atHome \/ slot = None
        /\ UNCHANGED <<slot, pc, result, sub>>
  /\ UNCHANGED <<pending, seen, inbox, found, faults>>

\* "Elicitation not supported": the slot's promise is rejected and the record
\* stays; without a slot the response is not an elicitation result at all.
Refuse(q) ==
  /\ reply[q] = "asked"
  /\ reply' = [reply EXCEPT ![q] = "refused"]
  /\ \/ /\ slot # None
        /\ Settle(slot, "unsupported")
        /\ pc' = [pc EXCEPT ![slot] = "done"]
     \/ /\ slot = None
        /\ UNCHANGED <<slot, pc, result, sub>>
  /\ UNCHANGED <<pending, seen, inbox, found, faults>>

LookupPending(q) ==
  /\ reply[q] = "looking"
  /\ found' = [found EXCEPT ![q] = pending]
  /\ reply' = [reply EXCEPT ![q] = IF pending = None THEN "handled" ELSE "publishing"]
  /\ UNCHANGED <<pending, slot, askVars, wireVars, faults>>

\* The content does not match the record's schema: the flow throws.
InvalidContent(q) ==
  /\ reply[q] = "publishing"
  /\ reply' = [reply EXCEPT ![q] = "invalid"]
  /\ UNCHANGED <<pending, slot, askVars, wireVars, found, faults>>

PublishResult(q) ==
  /\ reply[q] = "publishing"
  /\ inbox' = Published(found[q], q)
  /\ reply' = [reply EXCEPT ![q] = "deleting"]
  /\ UNCHANGED <<pending, slot, askVars, sub, found, faults>>

DeletePending(q) ==
  /\ reply[q] = "deleting"
  /\ pending' = None
  /\ reply' = [reply EXCEPT ![q] = "handled"]
  /\ UNCHANGED <<slot, askVars, wireVars, found, faults>>

----------------------------------------------------------------------------
(* Environment                                                             *)

\* The record's ttl is that of the ask's timer.  getPending removes a record it finds
\* expired in a second call and by the session's id: by then a newer one, perhaps.
Over(q) == pc[q] \in {"expiring", "dropping", "failing", "done", "died"}
ReadsPending(a) == pc[a] = "checking" \/ reply[a] = "looking"
ExpirePending ==
  /\ pending # None
  /\ \/ Over(pending)
     \/ \E a, q \in Asks : ReadsPending(a) /\ Over(q)
  /\ pending' = None
  /\ UNCHANGED <<slot, askVars, wireVars, replyVars, faults>>

\* A rejected call of an ask: a rejected publish is swallowed, a rejected
\* removal after a failed send too, any other ends the ask with the error.
AskFault(a) ==
  /\ Fault
  /\ pc[a] \in {"checking", "cancelling", "clearing", "storing", "dropping"}
  /\ \/ /\ pc[a] = "cancelling"
        /\ pc' = [pc EXCEPT ![a] = "clearing"]
        /\ UNCHANGED result
     \/ /\ pc[a] # "cancelling"
        /\ pc' = [pc EXCEPT ![a] = "done"]
        /\ result' = [result EXCEPT ![a] = "error"]
  /\ UNCHANGED <<pending, slot, seen, wireVars, replyVars>>

SubscribeFails(a) ==
  /\ Fault
  /\ sub[a] = "asked"
  /\ sub' = [sub EXCEPT ![a] = "closed"]
  /\ \/ /\ Listens(a)
        /\ slot' = None
        /\ pc' = [pc EXCEPT ![a] = "failing"]
     \/ /\ ~Listens(a)
        /\ UNCHANGED <<slot, pc>>
  /\ UNCHANGED <<pending, seen, result, inbox, replyVars>>

ReplyFault(q) ==
  /\ Fault
  /\ reply[q] \in {"looking", "publishing", "deleting"}
  /\ reply' = [reply EXCEPT ![q] = IF reply[q] = "publishing" THEN "deleting" ELSE "handled"]
  /\ UNCHANGED <<pending, slot, askVars, wireVars, found>>

LoseMessage(a, r) ==
  /\ Fault
  /\ r \in inbox[a]
  /\ inbox' = [inbox EXCEPT ![a] = @ \ {r}]
  /\ UNCHANGED <<pending, slot, askVars, sub, replyVars>>

\* The node exits: a crash, or a removal that is rejected in the callback of the
\* timer or of the failed subscription, where nothing catches it.
UnderWay(a) == pc[a] \notin {"idle", "done", "died"}
Crash ==
  /\ Fault
  /\ pc' = [a \in Asks |-> IF UnderWay(a) THEN "died" ELSE pc[a]]
  /\ slot' = None
  /\ sub' = [a \in Asks |-> IF sub[a] = "none" THEN "none" ELSE "closed"]
  /\ inbox' = [a \in Asks |-> {}]
  /\ UNCHANGED <<pending, seen, result, replyVars>>

Next ==
  \/ \E a \in Asks :
       \/ Ask(a) \/ CheckPending(a) \/ PublishCancel(a) \/ ClearPending(a)
       \/ StorePending(a) \/ Send(a) \/ SendFails(a) \/ Subscribed(a)
       \/ TimesOut(a) \/ GiveUp(a)
       \/ \E atHome \in BOOLEAN : Answer(a, atHome)
       \/ Refuse(a) \/ LookupPending(a) \/ InvalidContent(a) \/ PublishResult(a)
       \/ DeletePending(a)
       \/ AskFault(a) \/ SubscribeFails(a) \/ ReplyFault(a)
       \/ \E r \in Asks \cup {"cancel"} : Deliver(a, r) \/ LoseMessage(a, r)
  \/ ExpirePending \/ Crash

Spec == Init /\ [][Next]_vars

\* The storage answers or rejects, and timers fire.  Neither the client nor the
\* channel owes anything.
AskSteps(a) ==
  CheckPending(a) \/ PublishCancel(a) \/ ClearPending(a) \/ StorePending(a) \/ Send(a) \/ GiveUp(a)
FairSpec == Spec /\ \A a \in Asks : WF_vars(AskSteps(a)) /\ WF_vars(TimesOut(a))

----------------------------------------------------------------------------
(* Properties                                                              *)

Results == {"none", "cancel", "timeout", "error", "unsupported"}
AskLabels == {"idle", "checking", "cancelling", "clearing", "storing", "sending",
              "waiting", "expiring", "dropping", "failing", "done", "died"}
ReplyLabels == {"unasked", "asked", "looking", "publishing", "deleting", "handled",
                "invalid", "refused"}

TypeOK ==
  /\ pending \in Asks \cup {None} /\ slot \in Asks \cup {None}
  /\ pc \in [Asks -> AskLabels]
  /\ seen \in [Asks -> Asks \cup {None}]
  /\ result \in [Asks -> Asks \cup Results]
  /\ sub \in [Asks -> {"none", "asked", "open", "closed"}]
  /\ inbox \in [Asks -> SUBSET (Asks \cup {"cancel"})]
  /\ reply \in [Asks -> ReplyLabels]
  /\ found \in [Asks -> Asks \cup {None}]
  /\ faults \in Nat

\* What is in the slot still waits: an answer that reaches the adapter is never
\* spent on a promise that is settled already.
SlotWaits == slot # None => pc[slot] = "waiting"

\* A promise is settled once: of the answer at the adapter, the message of the
\* channel, the cancellation by a newer ask, the timer and the error paths, the
\* first decides what the tool sees, also when a subscription opened too late to
\* be closed goes on delivering.
SettledOnce == [][\A a \in Asks : result[a] # "none" => result'[a] = result[a]]_vars

\* Until something fails, a record names a question that is still open, or
\* somebody is about to remove it: no answer can be routed to a question that
\* is over.  A refused question leaves its record to the ttl, and so does an
\* answer with invalid content.
Remover(a) == pc[a] \in {"checking", "cancelling", "clearing", "expiring", "dropping", "failing"}
Handler(q) == reply[q] \in {"looking", "publishing", "deleting"}
LeavesRecord(q) == reply[q] \in {"refused", "invalid"}
RecordIsOpen ==
  (pending # None /\ faults = 0 /\ \A q \in Asks : ~LeavesRecord(q)) =>
     \/ pc[pending] \in {"sending", "waiting"}
     \/ \E a \in Asks : Remover(a) \/ Handler(a)

\* An ask never goes back, whatever the other asks, the answers and the faults do to it:
\* it makes finitely many steps, which with a step of its own to take wherever it stands
\* is why AsksReturn holds.
Stage == [idle |-> 0, checking |-> 1, cancelling |-> 2, clearing |-> 3, storing |-> 4,
          sending |-> 5, waiting |-> 6, expiring |-> 7, dropping |-> 7, failing |-> 7,
          done |-> 8, died |-> 8]
AsksGoForward == [][\A a \in Asks : pc'[a] # pc[a] => Stage[pc[a]] < Stage[pc'[a]]]_vars

\* Every elicit() returns, whatever the client does, the channel loses or the
\* other asks of the session overwrite; else a tool call would hang for ever.
AsksReturn == \A a \in Asks : UnderWay(a) ~> ~UnderWay(a)

=============================================================================
