------------------------- MODULE ElicitationFallback -------------------------
(***************************************************************************)
(* Elicitation for clients that do not support it: a tool that asks is     *)
(* aborted, its call is stored under the question's elicitId, and a call   *)
(* of sendElicitationResult runs the tool again, from its start, with the  *)
(* answer injected.  The call that asked waits for that run's result, or   *)
(* has returned instructions.                                              *)
(*                                                                         *)
(* Every run of the tool belongs to a call and asks at most once without   *)
(* an injected answer, which ends it: so a call also names the question    *)
(* its run has asked.  The tool asks at most Steps questions, in order.    *)
(***************************************************************************)
EXTENDS Naturals, FiniteSets

CONSTANTS
  Original,  \* the tools/call
  Answerers, \* the calls of sendElicitationResult
  Steps,     \* most questions the tool asks in one execution
  None,
  MaxFaults  \* bound: rejected storage calls, lost messages, deaths of a call

Calls == Answerers \cup {Original}

ASSUME FallbackAssumption ==
  /\ Original \notin Answerers /\ None \notin Calls
  /\ Steps \in Nat \ {0} /\ MaxFaults \in Nat

VARIABLES
  stored,  \* calls whose pending fallback is in the store
  expired, \* those whose expiresAt has passed
  pc,      \* control of every call
  target,  \* the call whose question an answerer answers
  used,    \* the question of its run that took an answerer's answer, 0 if none
  asked,   \* the question at which the run of a call was aborted, 0 if none
  inner,   \* what the tool's run gave a call
  sub,     \* a waiting call's subscription of its result channel
  inbox,   \* messages on their way to it
  faults

storeVars == <<stored, expired>>
runVars == <<target, used, asked>>
wireVars == <<sub, inbox>>
vars == <<storeVars, pc, runVars, inner, wireVars, faults>>

Init ==
  /\ stored = {} /\ expired = {}
  /\ pc = [c \in Calls |-> "idle"]
  /\ target = [c \in Calls |-> None]
  /\ used = [c \in Calls |-> 0] /\ asked = [c \in Calls |-> 0]
  /\ inner = [c \in Calls |-> "none"]
  /\ sub = [c \in Calls |-> "none"] /\ inbox = [c \in Calls |-> {}]
  /\ faults = 0

Goto(c, l) == pc' = [pc EXCEPT ![c] = l]

\* The run of the tool is over for its call: an answerer has yet to publish.
Finish(c, r) ==
  /\ inner' = [inner EXCEPT ![c] = r]
  /\ Goto(c, IF c = Original THEN "done" ELSE "publishing")

Fault == faults < MaxFaults /\ faults' = faults + 1

----------------------------------------------------------------------------
(* SendElicitationResultTool.execute up to the run                         *)

StartOriginal ==
  /\ pc[Original] = "idle"
  /\ Goto(Original, "running")
  /\ UNCHANGED <<storeVars, runVars, inner, wireVars, faults>>

\* The language model answers a question it was told of, by the notification of a
\* waiting call or the instructions a call returned.
Told(c) == asked[c] # 0 /\ pc[c] # "storing"
StartAnswer(d, c) ==
  /\ pc[d] = "idle" /\ Told(c)
  /\ target' = [target EXCEPT ![d] = c]
  /\ Goto(d, "looking")
  /\ UNCHANGED <<storeVars, used, asked, inner, wireVars, faults>>

Lookup(d) ==
  /\ pc[d] = "looking"
  /\ Goto(d, IF target[d] \in stored \ expired THEN "resolving" ELSE "done")
  /\ UNCHANGED <<storeVars, runVars, inner, wireVars, faults>>

\* setResolvedResult: nothing ever reads what it stores.
RunsAtOnce == "running"
RemovesFirst == "deleting"
Resolve(d) ==
  /\ pc[d] = "resolving"
  /\ Goto(d, RemovesFirst)
  /\ UNCHANGED <<storeVars, runVars, inner, wireVars, faults>>

DeleteRecord(d) ==
  /\ pc[d] = "deleting"
  /\ stored' = stored \ {target[d]}
  /\ Goto(d, "running")
  /\ UNCHANGED <<expired, runVars, inner, wireVars, faults>>

----------------------------------------------------------------------------
(* A run of the tool                                                       *)

\* The first elicit() of a run takes the injected answer, whatever it asks.
Injected(c) == c # Original /\ used[c] = 0
TakeAnswer(c) ==
  /\ pc[c] = "running" /\ Injected(c)
  /\ used' = [used EXCEPT ![c] = 1]
  /\ UNCHANGED <<storeVars, pc, target, asked, inner, wireVars, faults>>

AskNext(c) ==
  /\ pc[c] = "running" /\ ~Injected(c) /\ used[c] < Steps
  /\ asked' = [asked EXCEPT ![c] = used[c] + 1]
  /\ Goto(c, "storing")
  /\ UNCHANGED <<storeVars, target, used, inner, wireVars, faults>>

\* The answers decide which questions come, so a run may end at any.
Execute(c) ==
  /\ pc[c] = "running" /\ ~Injected(c)
  /\ Finish(c, "executed")
  /\ UNCHANGED <<storeVars, runVars, wireVars, faults>>

ToolThrows(c) ==
  /\ pc[c] = "running"
  /\ Finish(c, "failed")
  /\ UNCHANGED <<storeVars, runVars, wireVars, faults>>

\* After storing the call: over a transport that can be kept open the flow
\* notifies, starts its timer and subscribes, at one go; else it returns
\* instructions as the run's result.
StoreAndWait(c) ==
  /\ pc[c] = "storing"
  /\ stored' = stored \cup {c}
  /\ sub' = [sub EXCEPT ![c] = "asked"]
  /\ Goto(c, "waiting")
  /\ UNCHANGED <<expired, runVars, inner, inbox, faults>>

StoreAndInstruct(c) ==
  /\ pc[c] = "storing"
  /\ stored' = stored \cup {c}
  /\ Finish(c, "instructions")
  /\ UNCHANGED <<expired, runVars, wireVars, faults>>

----------------------------------------------------------------------------
(* handleWaitingFallback                                                   *)

Unsubscribed(c) == [sub EXCEPT ![c] = IF @ = "open" THEN "closed" ELSE @]

\* A subscription that is confirmed after the wait is over is dropped at once.
KeptOpen(c) == "open"
Confirmed(c) == IF pc[c] = "waiting" THEN "open" ELSE "closed"
Subscribed(c) ==
  /\ sub[c] = "asked"
  /\ sub' = [sub EXCEPT ![c] = Confirmed(c)]
  /\ UNCHANGED <<storeVars, pc, runVars, inner, inbox, faults>>

Deliver(c, r) ==
  /\ r \in inbox[c]
  /\ inbox' = [inbox EXCEPT ![c] = @ \ {r}]
  /\ \/ /\ sub[c] = "open" /\ pc[c] = "waiting"
        /\ sub' = Unsubscribed(c)
        /\ Finish(c, r)
     \/ /\ ~(sub[c] = "open" /\ pc[c] = "waiting")
        /\ UNCHANGED <<sub, pc, inner>>
  /\ UNCHANGED <<storeVars, runVars, faults>>

\* The timer starts after expiresAt was computed from the same ttl.
WaitsForConfirmation(c) == c \in expired /\ sub[c] # "asked"
Due(c) == c \in expired
TimesOut(c) ==
  /\ pc[c] = "waiting" /\ Due(c)
  /\ sub' = Unsubscribed(c)
  /\ Finish(c, "timeout")
  /\ UNCHANGED <<storeVars, runVars, inbox, faults>>

----------------------------------------------------------------------------
(* SendElicitationResultTool.execute after the run                         *)

ToSubscriber(c, r) == IF sub[c] = "open" THEN [inbox EXCEPT ![c] = @ \cup {r}] ELSE inbox

\* What the run gave is published as it is, a timeout or instructions included.
PublishesSuccess(d) == "executed"
PublishesFlag(d) == "success"
Outcome(d) == inner[d]
Publish(d) ==
  /\ pc[d] = "publishing"
  /\ inbox' = ToSubscriber(target[d], Outcome(d))
  /\ Goto(d, "cleaning")
  /\ UNCHANGED <<storeVars, runVars, inner, sub, faults>>

\* The catch block after a rejected clean-up: a failure follows the success.
Retract(d) ==
  /\ pc[d] = "retracting"
  /\ inbox' = ToSubscriber(target[d], "failed")
  /\ Goto(d, "dropping")
  /\ UNCHANGED <<storeVars, runVars, inner, sub, faults>>

CleanUp(d) ==
  /\ pc[d] \in {"cleaning", "dropping"}
  /\ Goto(d, "done")
  /\ UNCHANGED <<storeVars, runVars, inner, wireVars, faults>>

----------------------------------------------------------------------------
(* Environment                                                             *)

ExpireRecord(c) ==
  /\ asked[c] # 0 /\ pc[c] # "storing" /\ c \notin expired
  /\ expired' = expired \cup {c}
  /\ stored' = stored \ {c}
  /\ UNCHANGED <<pc, runVars, inner, wireVars, faults>>

\* A rejected call before the run ends the answerer, one while storing fails the
\* run; a rejected publish is swallowed; a rejected clean-up is one more error.
StorageFault(c) ==
  /\ Fault
  /\ \/ /\ pc[c] \in {"looking", "resolving", "deleting", "dropping"}
        /\ Goto(c, "done") /\ UNCHANGED inner
     \/ /\ pc[c] = "storing"
        /\ Finish(c, "failed")
     \/ /\ pc[c] \in {"publishing", "retracting"}
        /\ Goto(c, IF pc[c] = "publishing" THEN "cleaning" ELSE "dropping")
        /\ UNCHANGED inner
     \/ /\ pc[c] = "cleaning"
        /\ Goto(c, IF inner[c] = "failed" THEN "done" ELSE "retracting")
        /\ UNCHANGED inner
  /\ UNCHANGED <<storeVars, runVars, wireVars>>

SubscribeFails(c) ==
  /\ Fault
  /\ sub[c] = "asked"
  /\ sub' = [sub EXCEPT ![c] = "closed"]
  /\ IF pc[c] = "waiting" THEN Finish(c, "failed") ELSE UNCHANGED <<pc, inner>>
  /\ UNCHANGED <<storeVars, runVars, inbox>>

LoseMessage(c, r) ==
  /\ Fault
  /\ r \in inbox[c]
  /\ inbox' = [inbox EXCEPT ![c] = @ \ {r}]
  /\ UNCHANGED <<storeVars, pc, runVars, inner, sub>>

\* The node of a call exits.
EndLabels == {"done", "died"}
Die(c) ==
  /\ Fault
  /\ pc[c] \notin EndLabels \cup {"idle"}
  /\ Goto(c, "died")
  /\ sub' = [sub EXCEPT ![c] = IF @ = "none" THEN @ ELSE "closed"]
  /\ UNCHANGED <<storeVars, runVars, inner, inbox>>

Messages == {"executed", "instructions", "timeout", "failed"}

CallSteps(c) ==
  \/ Lookup(c) \/ Resolve(c) \/ DeleteRecord(c)
  \/ TakeAnswer(c) \/ AskNext(c) \/ Execute(c) \/ ToolThrows(c)
  \/ StoreAndWait(c) \/ StoreAndInstruct(c) \/ TimesOut(c)
  \/ Publish(c) \/ Retract(c) \/ CleanUp(c)

Next ==
  \/ StartOriginal
  \/ \E d \in Answerers, c \in Calls : StartAnswer(d, c)
  \/ \E c \in Calls :
       \/ CallSteps(c) \/ Subscribed(c) \/ ExpireRecord(c)
       \/ StorageFault(c) \/ SubscribeFails(c) \/ Die(c)
       \/ \E r \in Messages : Deliver(c, r) \/ LoseMessage(c, r)

Spec == Init /\ [][Next]_vars

\* The storage answers or rejects, the tool's code ends, time passes.  Nobody
\* owes an answer, and the channel owes no message.
FairSpec == Spec /\ \A c \in Calls : WF_vars(CallSteps(c)) /\ WF_vars(ExpireRecord(c))

----------------------------------------------------------------------------
(* Properties                                                              *)

AnswerLabels == {"looking", "resolving", "deleting", "publishing", "cleaning",
                 "retracting", "dropping"}
RunLabels == {"running", "storing", "waiting"}
TypeOK ==
  /\ stored \subseteq Calls /\ expired \subseteq Calls
  /\ pc \in [Calls -> AnswerLabels \cup RunLabels \cup EndLabels \cup {"idle"}]
  /\ target \in [Calls -> Calls \cup {None}]
  /\ used \in [Calls -> 0..1] /\ asked \in [Calls -> 0..Steps]
  /\ inner \in [Calls -> Messages \cup {"none"}]
  /\ sub \in [Calls -> {"none", "asked", "open", "closed"}]
  /\ inbox \in [Calls -> SUBSET Messages]
  /\ faults \in Nat

\* A re-invocation has taken its question: as long as the tool runs for an
\* answer, and ever after, no further answer to the same question finds a
\* record, so only answers that overlap before the removal can run it twice.
TakenLabels == RunLabels \cup {"publishing", "cleaning", "retracting", "dropping"}
RunTookRecord ==
  \A d \in Answerers : pc[d] \in TakenLabels => target[d] \notin stored

\* A call whose run was aborted reports an execution only if a re-invocation for
\* its own question reports one, down a chain of re-invocations that ends in a
\* run of the whole tool; never on account of a timeout, instructions or a failure.
ExecutedByAnswer ==
  \A c \in Calls : (inner[c] = "executed" /\ asked[c] # 0) =>
     \E d \in Answerers : target[d] = c /\ inner[d] = "executed"

\* An execution that a call reports has happened: among the calls that answered it, those
\* that answered them, and so on, one ran the tool to its end and was not aborted by a
\* question.
HoldsAnswers(S) == \A d \in Answerers : target[d] \in S => d \in S
ExecutionHappened ==
  \A S \in SUBSET Calls :
    HoldsAnswers(S) /\ (\E c \in S : inner[c] = "executed") =>
      \E d \in S : inner[d] = "executed" /\ asked[d] = 0

\* Nobody is subscribed for a call that waits no longer, also when the wait ended
\* before its subscription was confirmed.
NoIdleSubscription == \A c \in Calls : sub[c] = "open" => pc[c] = "waiting"

\* A call never goes back: no fault, retraction or answer starts a run, a wait or a
\* publication a second time, so that every call makes finitely many steps.
Stage == [idle |-> 0, looking |-> 1, resolving |-> 2, deleting |-> 3, running |-> 4,
          storing |-> 5, waiting |-> 6, publishing |-> 7, cleaning |-> 8, retracting |-> 9,
          dropping |-> 10, done |-> 11, died |-> 11]
CallsGoForward == [][\A c \in Calls : pc'[c] # pc[c] => Stage[pc[c]] < Stage[pc'[c]]]_vars

\* Every call returns, down the chain of runs that wait for one another, whatever
\* answers come and whatever is lost.
CallsReturn == \A c \in Calls : pc[c] # "idle" ~> pc[c] \in EndLabels

=============================================================================
