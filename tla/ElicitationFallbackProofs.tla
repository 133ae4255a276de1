---------------------- MODULE ElicitationFallbackProofs ----------------------
(***************************************************************************)
(* The safety properties of ElicitationFallback, for any number of answers,*)
(* questions and faults.                                                   *)
(***************************************************************************)
EXTENDS ElicitationFallback, TLAPS

\* The steps between a question and a published result are an answerer's own,
\* and only an outcome is published.
OnlyAnswerers ==
  /\ pc[Original] \notin AnswerLabels
  /\ \A d \in Answerers : /\ pc[d] # "idle" => target[d] \in Calls
                          /\ pc[d] = "publishing" => inner[d] # "none"

\* A run asks once, and asking ends it: its record is stored once, before anybody
\* can answer.
PostLabels == {"waiting", "publishing", "cleaning", "retracting", "dropping", "done", "died"}
AskedIsOver == \A c \in Calls : asked[c] # 0 => pc[c] \in PostLabels \cup {"storing"}
TargetIsOver == \A d \in Answerers : target[d] # None => pc[target[d]] \in PostLabels

\* The outcome of a run is final, and so is what its message says.
InnerIsFinal ==
  \A c \in Calls : inner[c] # "none" => pc[c] \in PostLabels \ {"waiting"}
ExecutedMessages ==
  \A c \in Calls : "executed" \in inbox[c] =>
     \E d \in Answerers : target[d] = c /\ inner[d] = "executed"

Inv ==
  /\ TypeOK /\ OnlyAnswerers /\ AskedIsOver /\ TargetIsOver /\ InnerIsFinal
  /\ RunTookRecord /\ ExecutedMessages /\ ExecutedByAnswer /\ NoIdleSubscription

----------------------------------------------------------------------------
(* One lemma per conjunct, one step per action                             *)

\* Every step keeps the types and the owners of the labels.
LEMMA TypeStep ==
  ASSUME TypeOK, OnlyAnswerers, [Next]_vars
  PROVE  (TypeOK /\ OnlyAnswerers)'
<1> USE FallbackAssumption DEF TypeOK, Calls, AnswerLabels, RunLabels, EndLabels, Messages,
    OnlyAnswerers, storeVars, runVars, wireVars
<1>1. ASSUME StartOriginal PROVE (TypeOK /\ OnlyAnswerers)'
  BY <1>1 DEF StartOriginal, Goto
<1>2. ASSUME NEW d \in Answerers, NEW c \in Calls, StartAnswer(d, c) PROVE (TypeOK /\ OnlyAnswerers)'
  BY <1>2 DEF StartAnswer, Told, Goto
<1>3. ASSUME NEW c \in Calls, Lookup(c) PROVE (TypeOK /\ OnlyAnswerers)'
  BY <1>3 DEF Lookup, Goto
<1>4. ASSUME NEW c \in Calls, Resolve(c) PROVE (TypeOK /\ OnlyAnswerers)'
  BY <1>4 DEF Resolve, Goto, RemovesFirst
<1>5. ASSUME NEW c \in Calls, DeleteRecord(c) PROVE (TypeOK /\ OnlyAnswerers)'
  BY <1>5 DEF DeleteRecord, Goto
<1>6. ASSUME NEW c \in Calls, TakeAnswer(c) PROVE (TypeOK /\ OnlyAnswerers)'
  BY <1>6 DEF TakeAnswer, Injected
<1>7. ASSUME NEW c \in Calls, AskNext(c) PROVE (TypeOK /\ OnlyAnswerers)'
  BY <1>7 DEF AskNext, Goto, Injected
<1>8. ASSUME NEW c \in Calls, Execute(c) PROVE (TypeOK /\ OnlyAnswerers)'
  BY <1>8 DEF Execute, Finish, Goto
<1>9. ASSUME NEW c \in Calls, ToolThrows(c) PROVE (TypeOK /\ OnlyAnswerers)'
  BY <1>9 DEF ToolThrows, Finish, Goto
<1>10. ASSUME NEW c \in Calls, StoreAndWait(c) PROVE (TypeOK /\ OnlyAnswerers)'
  BY <1>10 DEF StoreAndWait, Goto
<1>11. ASSUME NEW c \in Calls, StoreAndInstruct(c) PROVE (TypeOK /\ OnlyAnswerers)'
  BY <1>11 DEF StoreAndInstruct, Finish, Goto
<1>12. ASSUME NEW c \in Calls, TimesOut(c) PROVE (TypeOK /\ OnlyAnswerers)'
  BY <1>12 DEF TimesOut, Finish, Goto, Unsubscribed
<1>13. ASSUME NEW c \in Calls, Publish(c) PROVE (TypeOK /\ OnlyAnswerers)'
  BY <1>13 DEF Publish, Goto, ToSubscriber, Outcome
<1>14. ASSUME NEW c \in Calls, Retract(c) PROVE (TypeOK /\ OnlyAnswerers)'
  BY <1>14 DEF Retract, Goto, ToSubscriber
<1>15. ASSUME NEW c \in Calls, CleanUp(c) PROVE (TypeOK /\ OnlyAnswerers)'
  BY <1>15 DEF CleanUp, Goto
<1>16. ASSUME NEW c \in Calls, Subscribed(c) PROVE (TypeOK /\ OnlyAnswerers)'
  BY <1>16 DEF Subscribed, Confirmed
<1>17. ASSUME NEW c \in Calls, ExpireRecord(c) PROVE (TypeOK /\ OnlyAnswerers)'
  BY <1>17 DEF ExpireRecord
<1>18. ASSUME NEW c \in Calls, StorageFault(c) PROVE (TypeOK /\ OnlyAnswerers)'
  BY <1>18 DEF StorageFault, Fault, Finish, Goto
<1>19. ASSUME NEW c \in Calls, SubscribeFails(c) PROVE (TypeOK /\ OnlyAnswerers)'
  BY <1>19 DEF SubscribeFails, Fault, Finish, Goto
<1>20. ASSUME NEW c \in Calls, Die(c) PROVE (TypeOK /\ OnlyAnswerers)'
  BY <1>20 DEF Die, Fault, Goto
<1>21. ASSUME NEW c \in Calls, NEW r \in Messages, Deliver(c, r) PROVE (TypeOK /\ OnlyAnswerers)'
  BY <1>21 DEF Deliver, Finish, Goto, Unsubscribed
<1>22. ASSUME NEW c \in Calls, NEW r \in Messages, LoseMessage(c, r) PROVE (TypeOK /\ OnlyAnswerers)'
  BY <1>22 DEF LoseMessage, Fault
<1>23. CASE UNCHANGED vars
  BY <1>23 DEF vars
<1> QED BY <1>1, <1>2, <1>3, <1>4, <1>5, <1>6, <1>7, <1>8, <1>9, <1>10, <1>11, <1>12, <1>13,
    <1>14, <1>15, <1>16, <1>17, <1>18, <1>19, <1>20, <1>21, <1>22, <1>23 DEF Next, CallSteps

\* No step leads back to the run.
LEMMA AskedStep ==
  ASSUME TypeOK, OnlyAnswerers, AskedIsOver, TargetIsOver, [Next]_vars
  PROVE  (AskedIsOver /\ TargetIsOver)'
<1> USE FallbackAssumption DEF TypeOK, Calls, AnswerLabels, RunLabels, EndLabels, Messages,
    OnlyAnswerers, AskedIsOver, TargetIsOver, PostLabels, storeVars, runVars, wireVars
<1>1. ASSUME StartOriginal PROVE (AskedIsOver /\ TargetIsOver)'
  BY <1>1 DEF StartOriginal, Goto
<1>2. ASSUME NEW d \in Answerers, NEW c \in Calls, StartAnswer(d, c) PROVE (AskedIsOver /\ TargetIsOver)'
  BY <1>2 DEF StartAnswer, Told, Goto
<1>3. ASSUME NEW c \in Calls, Lookup(c) PROVE (AskedIsOver /\ TargetIsOver)'
  BY <1>3 DEF Lookup, Goto
<1>4. ASSUME NEW c \in Calls, Resolve(c) PROVE (AskedIsOver /\ TargetIsOver)'
  BY <1>4 DEF Resolve, Goto, RemovesFirst
<1>5. ASSUME NEW c \in Calls, DeleteRecord(c) PROVE (AskedIsOver /\ TargetIsOver)'
  BY <1>5 DEF DeleteRecord, Goto
<1>6. ASSUME NEW c \in Calls, TakeAnswer(c) PROVE (AskedIsOver /\ TargetIsOver)'
  BY <1>6 DEF TakeAnswer, Injected
<1>7. ASSUME NEW c \in Calls, AskNext(c) PROVE (AskedIsOver /\ TargetIsOver)'
  BY <1>7 DEF AskNext, Goto, Injected
<1>8. ASSUME NEW c \in Calls, Execute(c) PROVE (AskedIsOver /\ TargetIsOver)'
  BY <1>8 DEF Execute, Finish, Goto
<1>9. ASSUME NEW c \in Calls, ToolThrows(c) PROVE (AskedIsOver /\ TargetIsOver)'
  BY <1>9 DEF ToolThrows, Finish, Goto
<1>10. ASSUME NEW c \in Calls, StoreAndWait(c) PROVE (AskedIsOver /\ TargetIsOver)'
  BY <1>10 DEF StoreAndWait, Goto
<1>11. ASSUME NEW c \in Calls, StoreAndInstruct(c) PROVE (AskedIsOver /\ TargetIsOver)'
  BY <1>11 DEF StoreAndInstruct, Finish, Goto
<1>12. ASSUME NEW c \in Calls, TimesOut(c) PROVE (AskedIsOver /\ TargetIsOver)'
  BY <1>12 DEF TimesOut, Finish, Goto, Unsubscribed
<1>13. ASSUME NEW c \in Calls, Publish(c) PROVE (AskedIsOver /\ TargetIsOver)'
  BY <1>13 DEF Publish, Goto, ToSubscriber, Outcome
<1>14. ASSUME NEW c \in Calls, Retract(c) PROVE (AskedIsOver /\ TargetIsOver)'
  BY <1>14 DEF Retract, Goto, ToSubscriber
<1>15. ASSUME NEW c \in Calls, CleanUp(c) PROVE (AskedIsOver /\ TargetIsOver)'
  BY <1>15 DEF CleanUp, Goto
<1>16. ASSUME NEW c \in Calls, Subscribed(c) PROVE (AskedIsOver /\ TargetIsOver)'
  BY <1>16 DEF Subscribed, Confirmed
<1>17. ASSUME NEW c \in Calls, ExpireRecord(c) PROVE (AskedIsOver /\ TargetIsOver)'
  BY <1>17 DEF ExpireRecord
<1>18. ASSUME NEW c \in Calls, StorageFault(c) PROVE (AskedIsOver /\ TargetIsOver)'
  BY <1>18 DEF StorageFault, Fault, Finish, Goto
<1>19. ASSUME NEW c \in Calls, SubscribeFails(c) PROVE (AskedIsOver /\ TargetIsOver)'
  BY <1>19 DEF SubscribeFails, Fault, Finish, Goto
<1>20. ASSUME NEW c \in Calls, Die(c) PROVE (AskedIsOver /\ TargetIsOver)'
  BY <1>20 DEF Die, Fault, Goto
<1>21. ASSUME NEW c \in Calls, NEW r \in Messages, Deliver(c, r) PROVE (AskedIsOver /\ TargetIsOver)'
  BY <1>21 DEF Deliver, Finish, Goto, Unsubscribed
<1>22. ASSUME NEW c \in Calls, NEW r \in Messages, LoseMessage(c, r) PROVE (AskedIsOver /\ TargetIsOver)'
  BY <1>22 DEF LoseMessage, Fault
<1>23. CASE UNCHANGED vars
  BY <1>23 DEF vars
<1> QED BY <1>1, <1>2, <1>3, <1>4, <1>5, <1>6, <1>7, <1>8, <1>9, <1>10, <1>11, <1>12, <1>13,
    <1>14, <1>15, <1>16, <1>17, <1>18, <1>19, <1>20, <1>21, <1>22, <1>23 DEF Next, CallSteps

\* A run that is over is not over again.
LEMMA InnerStep ==
  ASSUME TypeOK, InnerIsFinal, [Next]_vars
  PROVE  InnerIsFinal'
<1> USE FallbackAssumption DEF TypeOK, Calls, AnswerLabels, RunLabels, EndLabels, Messages,
    InnerIsFinal, PostLabels, storeVars, runVars, wireVars
<1>1. ASSUME StartOriginal PROVE InnerIsFinal'
  BY <1>1 DEF StartOriginal, Goto
<1>2. ASSUME NEW d \in Answerers, NEW c \in Calls, StartAnswer(d, c) PROVE InnerIsFinal'
  BY <1>2 DEF StartAnswer, Told, Goto
<1>3. ASSUME NEW c \in Calls, Lookup(c) PROVE InnerIsFinal'
  BY <1>3 DEF Lookup, Goto
<1>4. ASSUME NEW c \in Calls, Resolve(c) PROVE InnerIsFinal'
  BY <1>4 DEF Resolve, Goto, RemovesFirst
<1>5. ASSUME NEW c \in Calls, DeleteRecord(c) PROVE InnerIsFinal'
  BY <1>5 DEF DeleteRecord, Goto
<1>6. ASSUME NEW c \in Calls, TakeAnswer(c) PROVE InnerIsFinal'
  BY <1>6 DEF TakeAnswer, Injected
<1>7. ASSUME NEW c \in Calls, AskNext(c) PROVE InnerIsFinal'
  BY <1>7 DEF AskNext, Goto, Injected
<1>8. ASSUME NEW c \in Calls, Execute(c) PROVE InnerIsFinal'
  BY <1>8 DEF Execute, Finish, Goto
<1>9. ASSUME NEW c \in Calls, ToolThrows(c) PROVE InnerIsFinal'
  BY <1>9 DEF ToolThrows, Finish, Goto
<1>10. ASSUME NEW c \in Calls, StoreAndWait(c) PROVE InnerIsFinal'
  BY <1>10 DEF StoreAndWait, Goto
<1>11. ASSUME NEW c \in Calls, StoreAndInstruct(c) PROVE InnerIsFinal'
  BY <1>11 DEF StoreAndInstruct, Finish, Goto
<1>12. ASSUME NEW c \in Calls, TimesOut(c) PROVE InnerIsFinal'
  BY <1>12 DEF TimesOut, Finish, Goto, Unsubscribed
<1>13. ASSUME NEW c \in Calls, Publish(c) PROVE InnerIsFinal'
  BY <1>13 DEF Publish, Goto, ToSubscriber, Outcome
<1>14. ASSUME NEW c \in Calls, Retract(c) PROVE InnerIsFinal'
  BY <1>14 DEF Retract, Goto, ToSubscriber
<1>15. ASSUME NEW c \in Calls, CleanUp(c) PROVE InnerIsFinal'
  BY <1>15 DEF CleanUp, Goto
<1>16. ASSUME NEW c \in Calls, Subscribed(c) PROVE InnerIsFinal'
  BY <1>16 DEF Subscribed, Confirmed
<1>17. ASSUME NEW c \in Calls, ExpireRecord(c) PROVE InnerIsFinal'
  BY <1>17 DEF ExpireRecord
<1>18. ASSUME NEW c \in Calls, StorageFault(c) PROVE InnerIsFinal'
  BY <1>18 DEF StorageFault, Fault, Finish, Goto
<1>19. ASSUME NEW c \in Calls, SubscribeFails(c) PROVE InnerIsFinal'
  BY <1>19 DEF SubscribeFails, Fault, Finish, Goto
<1>20. ASSUME NEW c \in Calls, Die(c) PROVE InnerIsFinal'
  BY <1>20 DEF Die, Fault, Goto
<1>21. ASSUME NEW c \in Calls, NEW r \in Messages, Deliver(c, r) PROVE InnerIsFinal'
  BY <1>21 DEF Deliver, Finish, Goto, Unsubscribed
<1>22. ASSUME NEW c \in Calls, NEW r \in Messages, LoseMessage(c, r) PROVE InnerIsFinal'
  BY <1>22 DEF LoseMessage, Fault
<1>23. CASE UNCHANGED vars
  BY <1>23 DEF vars
<1> QED BY <1>1, <1>2, <1>3, <1>4, <1>5, <1>6, <1>7, <1>8, <1>9, <1>10, <1>11, <1>12, <1>13,
    <1>14, <1>15, <1>16, <1>17, <1>18, <1>19, <1>20, <1>21, <1>22, <1>23 DEF Next, CallSteps

\* A record is stored before it has answerers, and removed before they run.
LEMMA RecordStep ==
  ASSUME TypeOK, OnlyAnswerers, AskedIsOver, TargetIsOver, RunTookRecord, [Next]_vars
  PROVE  RunTookRecord'
<1> USE FallbackAssumption DEF TypeOK, Calls, AnswerLabels, RunLabels, EndLabels, Messages,
    OnlyAnswerers, AskedIsOver, TargetIsOver, PostLabels, RunTookRecord, TakenLabels, storeVars,
    runVars, wireVars
<1>1. ASSUME StartOriginal PROVE RunTookRecord'
  BY <1>1 DEF StartOriginal, Goto
<1>2. ASSUME NEW d \in Answerers, NEW c \in Calls, StartAnswer(d, c) PROVE RunTookRecord'
  BY <1>2 DEF StartAnswer, Told, Goto
<1>3. ASSUME NEW c \in Calls, Lookup(c) PROVE RunTookRecord'
  BY <1>3 DEF Lookup, Goto
<1>4. ASSUME NEW c \in Calls, Resolve(c) PROVE RunTookRecord'
  BY <1>4 DEF Resolve, Goto, RemovesFirst
<1>5. ASSUME NEW c \in Calls, DeleteRecord(c) PROVE RunTookRecord'
  BY <1>5 DEF DeleteRecord, Goto
<1>6. ASSUME NEW c \in Calls, TakeAnswer(c) PROVE RunTookRecord'
  BY <1>6 DEF TakeAnswer, Injected
<1>7. ASSUME NEW c \in Calls, AskNext(c) PROVE RunTookRecord'
  BY <1>7 DEF AskNext, Goto, Injected
<1>8. ASSUME NEW c \in Calls, Execute(c) PROVE RunTookRecord'
  BY <1>8 DEF Execute, Finish, Goto
<1>9. ASSUME NEW c \in Calls, ToolThrows(c) PROVE RunTookRecord'
  BY <1>9 DEF ToolThrows, Finish, Goto
<1>10. ASSUME NEW c \in Calls, StoreAndWait(c) PROVE RunTookRecord'
  BY <1>10 DEF StoreAndWait, Goto
<1>11. ASSUME NEW c \in Calls, StoreAndInstruct(c) PROVE RunTookRecord'
  BY <1>11 DEF StoreAndInstruct, Finish, Goto
<1>12. ASSUME NEW c \in Calls, TimesOut(c) PROVE RunTookRecord'
  BY <1>12 DEF TimesOut, Finish, Goto, Unsubscribed
<1>13. ASSUME NEW c \in Calls, Publish(c) PROVE RunTookRecord'
  BY <1>13 DEF Publish, Goto, ToSubscriber, Outcome
<1>14. ASSUME NEW c \in Calls, Retract(c) PROVE RunTookRecord'
  BY <1>14 DEF Retract, Goto, ToSubscriber
<1>15. ASSUME NEW c \in Calls, CleanUp(c) PROVE RunTookRecord'
  BY <1>15 DEF CleanUp, Goto
<1>16. ASSUME NEW c \in Calls, Subscribed(c) PROVE RunTookRecord'
  BY <1>16 DEF Subscribed, Confirmed
<1>17. ASSUME NEW c \in Calls, ExpireRecord(c) PROVE RunTookRecord'
  BY <1>17 DEF ExpireRecord
<1>18. ASSUME NEW c \in Calls, StorageFault(c) PROVE RunTookRecord'
  BY <1>18 DEF StorageFault, Fault, Finish, Goto
<1>19. ASSUME NEW c \in Calls, SubscribeFails(c) PROVE RunTookRecord'
  BY <1>19 DEF SubscribeFails, Fault, Finish, Goto
<1>20. ASSUME NEW c \in Calls, Die(c) PROVE RunTookRecord'
  BY <1>20 DEF Die, Fault, Goto
<1>21. ASSUME NEW c \in Calls, NEW r \in Messages, Deliver(c, r) PROVE RunTookRecord'
  BY <1>21 DEF Deliver, Finish, Goto, Unsubscribed
<1>22. ASSUME NEW c \in Calls, NEW r \in Messages, LoseMessage(c, r) PROVE RunTookRecord'
  BY <1>22 DEF LoseMessage, Fault
<1>23. CASE UNCHANGED vars
  BY <1>23 DEF vars
<1> QED BY <1>1, <1>2, <1>3, <1>4, <1>5, <1>6, <1>7, <1>8, <1>9, <1>10, <1>11, <1>12, <1>13,
    <1>14, <1>15, <1>16, <1>17, <1>18, <1>19, <1>20, <1>21, <1>22, <1>23 DEF Next, CallSteps

\* An execution is reported by the call whose run it was, and handed on.
LEMMA ExecutedStep ==
  ASSUME Inv, [Next]_vars
  PROVE  (ExecutedMessages /\ ExecutedByAnswer)'
<1> USE FallbackAssumption DEF TypeOK, Calls, AnswerLabels, RunLabels, EndLabels, Messages,
    OnlyAnswerers, AskedIsOver, TargetIsOver, PostLabels, Inv, InnerIsFinal, ExecutedMessages,
    ExecutedByAnswer, storeVars, runVars, wireVars
<1>1. ASSUME StartOriginal PROVE (ExecutedMessages /\ ExecutedByAnswer)'
  BY <1>1 DEF StartOriginal, Goto
<1>2. ASSUME NEW d \in Answerers, NEW c \in Calls, StartAnswer(d, c) PROVE (ExecutedMessages /\ ExecutedByAnswer)'
  BY <1>2 DEF StartAnswer, Told, Goto
<1>3. ASSUME NEW c \in Calls, Lookup(c) PROVE (ExecutedMessages /\ ExecutedByAnswer)'
  BY <1>3 DEF Lookup, Goto
<1>4. ASSUME NEW c \in Calls, Resolve(c) PROVE (ExecutedMessages /\ ExecutedByAnswer)'
  BY <1>4 DEF Resolve, Goto, RemovesFirst
<1>5. ASSUME NEW c \in Calls, DeleteRecord(c) PROVE (ExecutedMessages /\ ExecutedByAnswer)'
  BY <1>5 DEF DeleteRecord, Goto
<1>6. ASSUME NEW c \in Calls, TakeAnswer(c) PROVE (ExecutedMessages /\ ExecutedByAnswer)'
  BY <1>6 DEF TakeAnswer, Injected
<1>7. ASSUME NEW c \in Calls, AskNext(c) PROVE (ExecutedMessages /\ ExecutedByAnswer)'
  BY <1>7 DEF AskNext, Goto, Injected
<1>8. ASSUME NEW c \in Calls, Execute(c) PROVE (ExecutedMessages /\ ExecutedByAnswer)'
  BY <1>8 DEF Execute, Finish, Goto
<1>9. ASSUME NEW c \in Calls, ToolThrows(c) PROVE (ExecutedMessages /\ ExecutedByAnswer)'
  BY <1>9 DEF ToolThrows, Finish, Goto
<1>10. ASSUME NEW c \in Calls, StoreAndWait(c) PROVE (ExecutedMessages /\ ExecutedByAnswer)'
  BY <1>10 DEF StoreAndWait, Goto
<1>11. ASSUME NEW c \in Calls, StoreAndInstruct(c) PROVE (ExecutedMessages /\ ExecutedByAnswer)'
  BY <1>11 DEF StoreAndInstruct, Finish, Goto
<1>12. ASSUME NEW c \in Calls, TimesOut(c) PROVE (ExecutedMessages /\ ExecutedByAnswer)'
  BY <1>12 DEF TimesOut, Finish, Goto, Unsubscribed
<1>13. ASSUME NEW c \in Calls, Publish(c) PROVE (ExecutedMessages /\ ExecutedByAnswer)'
  BY <1>13 DEF Publish, Goto, ToSubscriber, Outcome
<1>14. ASSUME NEW c \in Calls, Retract(c) PROVE (ExecutedMessages /\ ExecutedByAnswer)'
  BY <1>14 DEF Retract, Goto, ToSubscriber
<1>15. ASSUME NEW c \in Calls, CleanUp(c) PROVE (ExecutedMessages /\ ExecutedByAnswer)'
  BY <1>15 DEF CleanUp, Goto
<1>16. ASSUME NEW c \in Calls, Subscribed(c) PROVE (ExecutedMessages /\ ExecutedByAnswer)'
  BY <1>16 DEF Subscribed, Confirmed
<1>17. ASSUME NEW c \in Calls, ExpireRecord(c) PROVE (ExecutedMessages /\ ExecutedByAnswer)'
  BY <1>17 DEF ExpireRecord
<1>18. ASSUME NEW c \in Calls, StorageFault(c) PROVE (ExecutedMessages /\ ExecutedByAnswer)'
  BY <1>18 DEF StorageFault, Fault, Finish, Goto
<1>19. ASSUME NEW c \in Calls, SubscribeFails(c) PROVE (ExecutedMessages /\ ExecutedByAnswer)'
  BY <1>19 DEF SubscribeFails, Fault, Finish, Goto
<1>20. ASSUME NEW c \in Calls, Die(c) PROVE (ExecutedMessages /\ ExecutedByAnswer)'
  BY <1>20 DEF Die, Fault, Goto
<1>21. ASSUME NEW c \in Calls, NEW r \in Messages, Deliver(c, r) PROVE (ExecutedMessages /\ ExecutedByAnswer)'
  BY <1>21 DEF Deliver, Finish, Goto, Unsubscribed
<1>22. ASSUME NEW c \in Calls, NEW r \in Messages, LoseMessage(c, r) PROVE (ExecutedMessages /\ ExecutedByAnswer)'
  BY <1>22 DEF LoseMessage, Fault
<1>23. CASE UNCHANGED vars
  BY <1>23 DEF vars
<1> QED BY <1>1, <1>2, <1>3, <1>4, <1>5, <1>6, <1>7, <1>8, <1>9, <1>10, <1>11, <1>12, <1>13,
    <1>14, <1>15, <1>16, <1>17, <1>18, <1>19, <1>20, <1>21, <1>22, <1>23 DEF Next, CallSteps

\* What ends a wait ends its subscription, or comes before the confirmation.
LEMMA SubscriptionStep ==
  ASSUME TypeOK, NoIdleSubscription, [Next]_vars
  PROVE  NoIdleSubscription'
<1> USE FallbackAssumption DEF TypeOK, Calls, AnswerLabels, RunLabels, EndLabels, Messages,
    NoIdleSubscription, storeVars, runVars, wireVars
<1>1. ASSUME StartOriginal PROVE NoIdleSubscription'
  BY <1>1 DEF StartOriginal, Goto
<1>2. ASSUME NEW d \in Answerers, NEW c \in Calls, StartAnswer(d, c) PROVE NoIdleSubscription'
  BY <1>2 DEF StartAnswer, Told, Goto
<1>3. ASSUME NEW c \in Calls, Lookup(c) PROVE NoIdleSubscription'
  BY <1>3 DEF Lookup, Goto
<1>4. ASSUME NEW c \in Calls, Resolve(c) PROVE NoIdleSubscription'
  BY <1>4 DEF Resolve, Goto, RemovesFirst
<1>5. ASSUME NEW c \in Calls, DeleteRecord(c) PROVE NoIdleSubscription'
  BY <1>5 DEF DeleteRecord, Goto
<1>6. ASSUME NEW c \in Calls, TakeAnswer(c) PROVE NoIdleSubscription'
  BY <1>6 DEF TakeAnswer, Injected
<1>7. ASSUME NEW c \in Calls, AskNext(c) PROVE NoIdleSubscription'
  BY <1>7 DEF AskNext, Goto, Injected
<1>8. ASSUME NEW c \in Calls, Execute(c) PROVE NoIdleSubscription'
  BY <1>8 DEF Execute, Finish, Goto
<1>9. ASSUME NEW c \in Calls, ToolThrows(c) PROVE NoIdleSubscription'
  BY <1>9 DEF ToolThrows, Finish, Goto
<1>10. ASSUME NEW c \in Calls, StoreAndWait(c) PROVE NoIdleSubscription'
  BY <1>10 DEF StoreAndWait, Goto
<1>11. ASSUME NEW c \in Calls, StoreAndInstruct(c) PROVE NoIdleSubscription'
  BY <1>11 DEF StoreAndInstruct, Finish, Goto
<1>12. ASSUME NEW c \in Calls, TimesOut(c) PROVE NoIdleSubscription'
  BY <1>12 DEF TimesOut, Finish, Goto, Unsubscribed
<1>13. ASSUME NEW c \in Calls, Publish(c) PROVE NoIdleSubscription'
  BY <1>13 DEF Publish, Goto, ToSubscriber, Outcome
<1>14. ASSUME NEW c \in Calls, Retract(c) PROVE NoIdleSubscription'
  BY <1>14 DEF Retract, Goto, ToSubscriber
<1>15. ASSUME NEW c \in Calls, CleanUp(c) PROVE NoIdleSubscription'
  BY <1>15 DEF CleanUp, Goto
<1>16. ASSUME NEW c \in Calls, Subscribed(c) PROVE NoIdleSubscription'
  BY <1>16 DEF Subscribed, Confirmed
<1>17. ASSUME NEW c \in Calls, ExpireRecord(c) PROVE NoIdleSubscription'
  BY <1>17 DEF ExpireRecord
<1>18. ASSUME NEW c \in Calls, StorageFault(c) PROVE NoIdleSubscription'
  BY <1>18 DEF StorageFault, Fault, Finish, Goto
<1>19. ASSUME NEW c \in Calls, SubscribeFails(c) PROVE NoIdleSubscription'
  BY <1>19 DEF SubscribeFails, Fault, Finish, Goto
<1>20. ASSUME NEW c \in Calls, Die(c) PROVE NoIdleSubscription'
  BY <1>20 DEF Die, Fault, Goto
<1>21. ASSUME NEW c \in Calls, NEW r \in Messages, Deliver(c, r) PROVE NoIdleSubscription'
  BY <1>21 DEF Deliver, Finish, Goto, Unsubscribed
<1>22. ASSUME NEW c \in Calls, NEW r \in Messages, LoseMessage(c, r) PROVE NoIdleSubscription'
  BY <1>22 DEF LoseMessage, Fault
<1>23. CASE UNCHANGED vars
  BY <1>23 DEF vars
<1> QED BY <1>1, <1>2, <1>3, <1>4, <1>5, <1>6, <1>7, <1>8, <1>9, <1>10, <1>11, <1>12, <1>13,
    <1>14, <1>15, <1>16, <1>17, <1>18, <1>19, <1>20, <1>21, <1>22, <1>23 DEF Next, CallSteps

----------------------------------------------------------------------------
(* Chains of re-invocations                                                *)

\* No ring of calls answers one another: in every set of calls there is one that none of
\* the set answers.  A call can be answered only once its run has asked, and a call that
\* answers has not run yet.
NoRing ==
  \A S \in SUBSET Calls : S # {} => \E c \in S : \A d \in S \cap Answerers : target[d] # c

LEMMA TargetsStand ==
  ASSUME [Next]_vars, \A d \in Answerers, c \in Calls : ~StartAnswer(d, c)
  PROVE  UNCHANGED target
BY DEF vars, storeVars, runVars, wireVars, Next, CallSteps, StartOriginal, Lookup, Resolve,
   DeleteRecord, TakeAnswer, AskNext, Execute, ToolThrows, StoreAndWait, StoreAndInstruct,
   TimesOut, Publish, Retract, CleanUp, Subscribed, ExpireRecord, StorageFault, SubscribeFails,
   Die, Deliver, LoseMessage

LEMMA NoRingStep ==
  ASSUME TypeOK, AskedIsOver, TargetIsOver, NoRing, [Next]_vars
  PROVE  NoRing'
<1>1. CASE UNCHANGED target
  BY <1>1 DEF NoRing
<1>2. ASSUME NEW d \in Answerers, NEW c \in Calls, StartAnswer(d, c) PROVE NoRing'
  <2>1. /\ pc[d] = "idle" /\ asked[c] # 0 /\ target' = [target EXCEPT ![d] = c]
        /\ target \in [Calls -> Calls \cup {None}] /\ d \in Calls
    BY <1>2 DEF StartAnswer, Told, TypeOK, Calls
  <2>2. c # d
    BY <2>1 DEF AskedIsOver, PostLabels
  <2>3. \A e \in Answerers : target[e] # d
    BY <2>1, FallbackAssumption DEF TargetIsOver, PostLabels
  <2>4. \A e \in Answerers : e # d => target'[e] = target[e]
    BY <2>1 DEF Calls
  <2>5. target'[d] = c
    BY <2>1
  <2>6. ASSUME NEW S \in SUBSET Calls, S # {}
        PROVE  \E x \in S : \A e \in S \cap Answerers : target'[e] # x
    <3>1. CASE d \in S
      BY <2>2, <2>3, <2>4, <2>5, <3>1
    <3>2. CASE d \notin S
      BY <2>4, <2>6, <3>2 DEF NoRing
    <3> QED BY <3>1, <3>2
  <2> QED BY <2>6 DEF NoRing
<1> QED BY <1>1, <1>2, TargetsStand

LEMMA ExecutionIsFound ==
  ASSUME ExecutedByAnswer, NoRing
  PROVE  ExecutionHappened
<1> SUFFICES ASSUME NEW S \in SUBSET Calls, HoldsAnswers(S), \E c \in S : inner[c] = "executed"
             PROVE  \E d \in S : inner[d] = "executed" /\ asked[d] = 0
  BY DEF ExecutionHappened
<1> DEFINE T == {c \in S : inner[c] = "executed"}
<1>1. PICK c \in T : \A d \in T \cap Answerers : target[d] # c
  <2>1. T # {} /\ T \in SUBSET Calls
    OBVIOUS
  <2> QED BY <2>1 DEF NoRing
<1>2. ASSUME asked[c] # 0 PROVE FALSE
  <2>1. PICK d \in Answerers : target[d] = c /\ inner[d] = "executed"
    BY <1>2 DEF ExecutedByAnswer
  <2>2. d \in T
    BY <2>1 DEF HoldsAnswers
  <2> QED BY <1>1, <2>1, <2>2
<1> QED BY <1>2

----------------------------------------------------------------------------
(* Theorems                                                                *)

THEOREM InvHolds == Spec => []Inv
<1>1. Init => Inv
  BY FallbackAssumption
     DEF Init, Inv, TypeOK, OnlyAnswerers, AskedIsOver, TargetIsOver, InnerIsFinal, RunTookRecord,
         ExecutedMessages, ExecutedByAnswer, NoIdleSubscription, Calls, AnswerLabels, RunLabels,
         EndLabels, Messages, PostLabels, TakenLabels
<1>2. Inv /\ [Next]_vars => Inv'
  <2> SUFFICES ASSUME Inv, [Next]_vars PROVE Inv'
    OBVIOUS
  <2>1. /\ TypeOK /\ OnlyAnswerers /\ AskedIsOver /\ TargetIsOver /\ InnerIsFinal
        /\ RunTookRecord /\ NoIdleSubscription
    BY DEF Inv
  <2>2. /\ TypeOK' /\ OnlyAnswerers' /\ AskedIsOver' /\ TargetIsOver' /\ InnerIsFinal'
        /\ RunTookRecord' /\ ExecutedMessages' /\ ExecutedByAnswer' /\ NoIdleSubscription'
    BY <2>1, TypeStep, AskedStep, InnerStep, RecordStep, ExecutedStep, SubscriptionStep
  <2> QED BY <2>2 DEF Inv
<1> QED BY <1>1, <1>2, PTL DEF Spec

\* Type correctness.
THEOREM TypeCorrect == Spec => []TypeOK
BY InvHolds, PTL DEF Inv

\* As long as the tool runs for an answer, and after, its question has no record.
THEOREM RunTookRecordHolds == Spec => []RunTookRecord
BY InvHolds, PTL DEF Inv

\* A call reports an execution on account of an answer to its own question only.
THEOREM ExecutedByAnswerHolds == Spec => []ExecutedByAnswer
BY InvHolds, PTL DEF Inv

\* No subscription outlives the wait it was made for.
THEOREM NoIdleSubscriptionHolds == Spec => []NoIdleSubscription
BY InvHolds, PTL DEF Inv

\* No ring of calls waits for one another, and a reported execution goes back, down the
\* chain of re-invocations, to a run of the tool that reached its end.
THEOREM ExecutionHappenedHolds == Spec => []ExecutionHappened
<1>1. Init => NoRing
  BY FallbackAssumption DEF Init, NoRing, Calls
<1>2. Inv /\ NoRing /\ [Next]_vars => NoRing'
  BY NoRingStep DEF Inv
<1>3. Inv /\ NoRing => ExecutionHappened
  BY ExecutionIsFound DEF Inv
<1> QED BY <1>1, <1>2, <1>3, InvHolds, PTL DEF Spec

----------------------------------------------------------------------------
(* Calls go forward                                                        *)

Forward == \A c \in Calls : pc'[c] # pc[c] => Stage[pc[c]] < Stage[pc'[c]]

\* One step per action.
LEMMA ForwardStep ==
  ASSUME TypeOK, OnlyAnswerers, [Next]_vars
  PROVE  Forward
<1> USE FallbackAssumption DEF Forward, Stage, TypeOK, Calls, AnswerLabels, RunLabels, EndLabels, Messages,
    OnlyAnswerers, storeVars, runVars, wireVars
<1>1. ASSUME StartOriginal PROVE Forward
  BY <1>1 DEF StartOriginal, Goto
<1>2. ASSUME NEW d \in Answerers, NEW c \in Calls, StartAnswer(d, c) PROVE Forward
  BY <1>2 DEF StartAnswer, Told, Goto
<1>3. ASSUME NEW c \in Calls, Lookup(c) PROVE Forward
  BY <1>3 DEF Lookup, Goto
<1>4. ASSUME NEW c \in Calls, Resolve(c) PROVE Forward
  BY <1>4 DEF Resolve, Goto, RemovesFirst
<1>5. ASSUME NEW c \in Calls, DeleteRecord(c) PROVE Forward
  BY <1>5 DEF DeleteRecord, Goto
<1>6. ASSUME NEW c \in Calls, TakeAnswer(c) PROVE Forward
  BY <1>6 DEF TakeAnswer, Injected
<1>7. ASSUME NEW c \in Calls, AskNext(c) PROVE Forward
  BY <1>7 DEF AskNext, Goto, Injected
<1>8. ASSUME NEW c \in Calls, Execute(c) PROVE Forward
  BY <1>8 DEF Execute, Finish, Goto
<1>9. ASSUME NEW c \in Calls, ToolThrows(c) PROVE Forward
  BY <1>9 DEF ToolThrows, Finish, Goto
<1>10. ASSUME NEW c \in Calls, StoreAndWait(c) PROVE Forward
  BY <1>10 DEF StoreAndWait, Goto
<1>11. ASSUME NEW c \in Calls, StoreAndInstruct(c) PROVE Forward
  BY <1>11 DEF StoreAndInstruct, Finish, Goto
<1>12. ASSUME NEW c \in Calls, TimesOut(c) PROVE Forward
  BY <1>12 DEF TimesOut, Finish, Goto, Unsubscribed
<1>13. ASSUME NEW c \in Calls, Publish(c) PROVE Forward
  BY <1>13 DEF Publish, Goto, ToSubscriber, Outcome
<1>14. ASSUME NEW c \in Calls, Retract(c) PROVE Forward
  BY <1>14 DEF Retract, Goto, ToSubscriber
<1>15. ASSUME NEW c \in Calls, CleanUp(c) PROVE Forward
  BY <1>15 DEF CleanUp, Goto
<1>16. ASSUME NEW c \in Calls, Subscribed(c) PROVE Forward
  BY <1>16 DEF Subscribed, Confirmed
<1>17. ASSUME NEW c \in Calls, ExpireRecord(c) PROVE Forward
  BY <1>17 DEF ExpireRecord
<1>18. ASSUME NEW c \in Calls, StorageFault(c) PROVE Forward
  BY <1>18 DEF StorageFault, Fault, Finish, Goto
<1>19. ASSUME NEW c \in Calls, SubscribeFails(c) PROVE Forward
  BY <1>19 DEF SubscribeFails, Fault, Finish, Goto
<1>20. ASSUME NEW c \in Calls, Die(c) PROVE Forward
  BY <1>20 DEF Die, Fault, Goto
<1>21. ASSUME NEW c \in Calls, NEW r \in Messages, Deliver(c, r) PROVE Forward
  BY <1>21 DEF Deliver, Finish, Goto, Unsubscribed
<1>22. ASSUME NEW c \in Calls, NEW r \in Messages, LoseMessage(c, r) PROVE Forward
  BY <1>22 DEF LoseMessage, Fault
<1>23. CASE UNCHANGED vars
  BY <1>23 DEF vars
<1> QED BY <1>1, <1>2, <1>3, <1>4, <1>5, <1>6, <1>7, <1>8, <1>9, <1>10, <1>11, <1>12, <1>13,
    <1>14, <1>15, <1>16, <1>17, <1>18, <1>19, <1>20, <1>21, <1>22, <1>23 DEF Next, CallSteps

\* No call goes back, for any number of answers, questions and faults.
THEOREM CallsGoForwardHolds == Spec => CallsGoForward
<1>1. Inv /\ [Next]_vars => [Forward]_vars
  BY ForwardStep DEF Inv
<1> QED BY <1>1, InvHolds, PTL DEF Spec, CallsGoForward, Forward
=============================================================================
