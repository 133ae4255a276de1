-------------------------- MODULE ElicitationProofs --------------------------
(***************************************************************************)
(* The safety properties of Elicitation, for any number of asks and faults *)
(* of a session.                                                           *)
(***************************************************************************)
EXTENDS Elicitation, TLAPS

\* A promise that is settled is over, whoever settled it: this is what makes
\* every later settlement a different ask's.
ResultIsFinal == \A a \in Asks : result[a] # "none" => pc[a] = "done"

\* Nothing precedes the question: until it is sent, its channel and its answer are
\* unused.
EarlyLabels == {"idle", "checking", "cancelling", "clearing", "storing", "sending", "dropping"}
QuietBeforeSend ==
  \A a \in Asks : pc[a] \in EarlyLabels => sub[a] = "none" /\ inbox[a] = {} /\ reply[a] = "unasked"

\* A message that travels to the stored question comes from somebody who has yet
\* to remove the record.
PublisherRemoves ==
  (faults = 0 /\ pending # None /\ inbox[pending] # {}) =>
     \E a \in Asks : pc[a] = "clearing" \/ reply[a] = "deleting"

Inv == TypeOK /\ SlotWaits /\ ResultIsFinal
RecordInv == TypeOK /\ SlotWaits /\ QuietBeforeSend /\ PublisherRemoves /\ RecordIsOpen

----------------------------------------------------------------------------
(* One lemma per conjunct, one step per action                             *)

\* Every step keeps the types.
LEMMA TypeStep ==
  ASSUME TypeOK, [Next]_vars
  PROVE  TypeOK'
<1> USE ElicitationAssumption DEF TypeOK, AskLabels, ReplyLabels, Results, askVars, wireVars,
    replyVars
<1>1. ASSUME NEW a \in Asks, Ask(a) PROVE TypeOK'
  BY <1>1 DEF Ask, Settle, Unsubscribed
<1>2. ASSUME NEW a \in Asks, CheckPending(a) PROVE TypeOK'
  BY <1>2 DEF CheckPending
<1>3. ASSUME NEW a \in Asks, PublishCancel(a) PROVE TypeOK'
  BY <1>3 DEF PublishCancel, Published
<1>4. ASSUME NEW a \in Asks, ClearPending(a) PROVE TypeOK'
  BY <1>4 DEF ClearPending
<1>5. ASSUME NEW a \in Asks, StorePending(a) PROVE TypeOK'
  BY <1>5 DEF StorePending
<1>6. ASSUME NEW a \in Asks, Send(a) PROVE TypeOK'
  BY <1>6 DEF Send
<1>7. ASSUME NEW a \in Asks, SendFails(a) PROVE TypeOK'
  BY <1>7 DEF SendFails, Fault
<1>8. ASSUME NEW a \in Asks, Subscribed(a) PROVE TypeOK'
  BY <1>8 DEF Subscribed
<1>9. ASSUME NEW a \in Asks, TimesOut(a) PROVE TypeOK'
  BY <1>9 DEF TimesOut, Armed, ClearedSlot, Unsubscribed
<1>10. ASSUME NEW a \in Asks, GiveUp(a) PROVE TypeOK'
  BY <1>10 DEF GiveUp, Removed
<1>11. ASSUME NEW a \in Asks, Refuse(a) PROVE TypeOK'
  BY <1>11 DEF Refuse, Settle, Unsubscribed
<1>12. ASSUME NEW a \in Asks, LookupPending(a) PROVE TypeOK'
  BY <1>12 DEF LookupPending
<1>13. ASSUME NEW a \in Asks, InvalidContent(a) PROVE TypeOK'
  BY <1>13 DEF InvalidContent
<1>14. ASSUME NEW a \in Asks, PublishResult(a) PROVE TypeOK'
  BY <1>14 DEF PublishResult, Published
<1>15. ASSUME NEW a \in Asks, DeletePending(a) PROVE TypeOK'
  BY <1>15 DEF DeletePending
<1>16. ASSUME NEW a \in Asks, AskFault(a) PROVE TypeOK'
  BY <1>16 DEF AskFault, Fault
<1>17. ASSUME NEW a \in Asks, SubscribeFails(a) PROVE TypeOK'
  BY <1>17 DEF SubscribeFails, Fault, Listens
<1>18. ASSUME NEW a \in Asks, ReplyFault(a) PROVE TypeOK'
  BY <1>18 DEF ReplyFault, Fault
<1>19. ASSUME NEW a \in Asks, NEW atHome \in BOOLEAN, Answer(a, atHome) PROVE TypeOK'
  BY <1>19 DEF Answer, Settle, Unsubscribed
<1>20. ASSUME NEW a \in Asks, NEW r \in Asks \cup {"cancel"}, Deliver(a, r) PROVE TypeOK'
  BY <1>20 DEF Deliver, Settle, Unsubscribed, Listens
<1>21. ASSUME NEW a \in Asks, NEW r \in Asks \cup {"cancel"}, LoseMessage(a, r) PROVE TypeOK'
  BY <1>21 DEF LoseMessage, Fault
<1>22. ASSUME ExpirePending PROVE TypeOK'
  BY <1>22 DEF ExpirePending
<1>23. ASSUME Crash PROVE TypeOK'
  BY <1>23 DEF Crash, Fault, UnderWay
<1>24. CASE UNCHANGED vars
  BY <1>24 DEF vars
<1> QED BY <1>1, <1>2, <1>3, <1>4, <1>5, <1>6, <1>7, <1>8, <1>9, <1>10, <1>11, <1>12, <1>13,
    <1>14, <1>15, <1>16, <1>17, <1>18, <1>19, <1>20, <1>21, <1>22, <1>23, <1>24 DEF Next

\* The slot is cleared with the promise it holds.
LEMMA SlotStep ==
  ASSUME TypeOK, SlotWaits, [Next]_vars
  PROVE  SlotWaits'
<1> USE ElicitationAssumption DEF SlotWaits, TypeOK, AskLabels, ReplyLabels, Results, askVars,
    wireVars, replyVars
<1>1. ASSUME NEW a \in Asks, Ask(a) PROVE SlotWaits'
  BY <1>1 DEF Ask, Settle, Unsubscribed
<1>2. ASSUME NEW a \in Asks, CheckPending(a) PROVE SlotWaits'
  BY <1>2 DEF CheckPending
<1>3. ASSUME NEW a \in Asks, PublishCancel(a) PROVE SlotWaits'
  BY <1>3 DEF PublishCancel, Published
<1>4. ASSUME NEW a \in Asks, ClearPending(a) PROVE SlotWaits'
  BY <1>4 DEF ClearPending
<1>5. ASSUME NEW a \in Asks, StorePending(a) PROVE SlotWaits'
  BY <1>5 DEF StorePending
<1>6. ASSUME NEW a \in Asks, Send(a) PROVE SlotWaits'
  BY <1>6 DEF Send
<1>7. ASSUME NEW a \in Asks, SendFails(a) PROVE SlotWaits'
  BY <1>7 DEF SendFails, Fault
<1>8. ASSUME NEW a \in Asks, Subscribed(a) PROVE SlotWaits'
  BY <1>8 DEF Subscribed
<1>9. ASSUME NEW a \in Asks, TimesOut(a) PROVE SlotWaits'
  BY <1>9 DEF TimesOut, Armed, ClearedSlot, Unsubscribed
<1>10. ASSUME NEW a \in Asks, GiveUp(a) PROVE SlotWaits'
  BY <1>10 DEF GiveUp, Removed
<1>11. ASSUME NEW a \in Asks, Refuse(a) PROVE SlotWaits'
  BY <1>11 DEF Refuse, Settle, Unsubscribed
<1>12. ASSUME NEW a \in Asks, LookupPending(a) PROVE SlotWaits'
  BY <1>12 DEF LookupPending
<1>13. ASSUME NEW a \in Asks, InvalidContent(a) PROVE SlotWaits'
  BY <1>13 DEF InvalidContent
<1>14. ASSUME NEW a \in Asks, PublishResult(a) PROVE SlotWaits'
  BY <1>14 DEF PublishResult, Published
<1>15. ASSUME NEW a \in Asks, DeletePending(a) PROVE SlotWaits'
  BY <1>15 DEF DeletePending
<1>16. ASSUME NEW a \in Asks, AskFault(a) PROVE SlotWaits'
  BY <1>16 DEF AskFault, Fault
<1>17. ASSUME NEW a \in Asks, SubscribeFails(a) PROVE SlotWaits'
  BY <1>17 DEF SubscribeFails, Fault, Listens
<1>18. ASSUME NEW a \in Asks, ReplyFault(a) PROVE SlotWaits'
  BY <1>18 DEF ReplyFault, Fault
<1>19. ASSUME NEW a \in Asks, NEW atHome \in BOOLEAN, Answer(a, atHome) PROVE SlotWaits'
  BY <1>19 DEF Answer, Settle, Unsubscribed
<1>20. ASSUME NEW a \in Asks, NEW r \in Asks \cup {"cancel"}, Deliver(a, r) PROVE SlotWaits'
  BY <1>20 DEF Deliver, Settle, Unsubscribed, Listens
<1>21. ASSUME NEW a \in Asks, NEW r \in Asks \cup {"cancel"}, LoseMessage(a, r) PROVE SlotWaits'
  BY <1>21 DEF LoseMessage, Fault
<1>22. ASSUME ExpirePending PROVE SlotWaits'
  BY <1>22 DEF ExpirePending
<1>23. ASSUME Crash PROVE SlotWaits'
  BY <1>23 DEF Crash, Fault, UnderWay
<1>24. CASE UNCHANGED vars
  BY <1>24 DEF vars
<1> QED BY <1>1, <1>2, <1>3, <1>4, <1>5, <1>6, <1>7, <1>8, <1>9, <1>10, <1>11, <1>12, <1>13,
    <1>14, <1>15, <1>16, <1>17, <1>18, <1>19, <1>20, <1>21, <1>22, <1>23, <1>24 DEF Next

\* Only an ask that is under way gets a result.
LEMMA ResultStep ==
  ASSUME TypeOK, SlotWaits, ResultIsFinal, [Next]_vars
  PROVE  ResultIsFinal'
<1> USE ElicitationAssumption DEF ResultIsFinal, SlotWaits, TypeOK, AskLabels, ReplyLabels,
    Results, askVars, wireVars, replyVars
<1>1. ASSUME NEW a \in Asks, Ask(a) PROVE ResultIsFinal'
  BY <1>1 DEF Ask, Settle, Unsubscribed
<1>2. ASSUME NEW a \in Asks, CheckPending(a) PROVE ResultIsFinal'
  BY <1>2 DEF CheckPending
<1>3. ASSUME NEW a \in Asks, PublishCancel(a) PROVE ResultIsFinal'
  BY <1>3 DEF PublishCancel, Published
<1>4. ASSUME NEW a \in Asks, ClearPending(a) PROVE ResultIsFinal'
  BY <1>4 DEF ClearPending
<1>5. ASSUME NEW a \in Asks, StorePending(a) PROVE ResultIsFinal'
  BY <1>5 DEF StorePending
<1>6. ASSUME NEW a \in Asks, Send(a) PROVE ResultIsFinal'
  BY <1>6 DEF Send
<1>7. ASSUME NEW a \in Asks, SendFails(a) PROVE ResultIsFinal'
  BY <1>7 DEF SendFails, Fault
<1>8. ASSUME NEW a \in Asks, Subscribed(a) PROVE ResultIsFinal'
  BY <1>8 DEF Subscribed
<1>9. ASSUME NEW a \in Asks, TimesOut(a) PROVE ResultIsFinal'
  BY <1>9 DEF TimesOut, Armed, ClearedSlot, Unsubscribed
<1>10. ASSUME NEW a \in Asks, GiveUp(a) PROVE ResultIsFinal'
  BY <1>10 DEF GiveUp, Removed
<1>11. ASSUME NEW a \in Asks, Refuse(a) PROVE ResultIsFinal'
  BY <1>11 DEF Refuse, Settle, Unsubscribed
<1>12. ASSUME NEW a \in Asks, LookupPending(a) PROVE ResultIsFinal'
  BY <1>12 DEF LookupPending
<1>13. ASSUME NEW a \in Asks, InvalidContent(a) PROVE ResultIsFinal'
  BY <1>13 DEF InvalidContent
<1>14. ASSUME NEW a \in Asks, PublishResult(a) PROVE ResultIsFinal'
  BY <1>14 DEF PublishResult, Published
<1>15. ASSUME NEW a \in Asks, DeletePending(a) PROVE ResultIsFinal'
  BY <1>15 DEF DeletePending
<1>16. ASSUME NEW a \in Asks, AskFault(a) PROVE ResultIsFinal'
  BY <1>16 DEF AskFault, Fault
<1>17. ASSUME NEW a \in Asks, SubscribeFails(a) PROVE ResultIsFinal'
  BY <1>17 DEF SubscribeFails, Fault, Listens
<1>18. ASSUME NEW a \in Asks, ReplyFault(a) PROVE ResultIsFinal'
  BY <1>18 DEF ReplyFault, Fault
<1>19. ASSUME NEW a \in Asks, NEW atHome \in BOOLEAN, Answer(a, atHome) PROVE ResultIsFinal'
  BY <1>19 DEF Answer, Settle, Unsubscribed
<1>20. ASSUME NEW a \in Asks, NEW r \in Asks \cup {"cancel"}, Deliver(a, r) PROVE ResultIsFinal'
  BY <1>20 DEF Deliver, Settle, Unsubscribed, Listens
<1>21. ASSUME NEW a \in Asks, NEW r \in Asks \cup {"cancel"}, LoseMessage(a, r) PROVE ResultIsFinal'
  BY <1>21 DEF LoseMessage, Fault
<1>22. ASSUME ExpirePending PROVE ResultIsFinal'
  BY <1>22 DEF ExpirePending
<1>23. ASSUME Crash PROVE ResultIsFinal'
  BY <1>23 DEF Crash, Fault, UnderWay
<1>24. CASE UNCHANGED vars
  BY <1>24 DEF vars
<1> QED BY <1>1, <1>2, <1>3, <1>4, <1>5, <1>6, <1>7, <1>8, <1>9, <1>10, <1>11, <1>12, <1>13,
    <1>14, <1>15, <1>16, <1>17, <1>18, <1>19, <1>20, <1>21, <1>22, <1>23, <1>24 DEF Next

\* Only Send subscribes, and only subscribers get messages.
LEMMA QuietStep ==
  ASSUME TypeOK, SlotWaits, QuietBeforeSend, [Next]_vars
  PROVE  QuietBeforeSend'
<1> USE ElicitationAssumption DEF QuietBeforeSend, EarlyLabels, SlotWaits, TypeOK, AskLabels,
    ReplyLabels, Results, askVars, wireVars, replyVars
<1>1. ASSUME NEW a \in Asks, Ask(a) PROVE QuietBeforeSend'
  BY <1>1 DEF Ask, Settle, Unsubscribed
<1>2. ASSUME NEW a \in Asks, CheckPending(a) PROVE QuietBeforeSend'
  BY <1>2 DEF CheckPending
<1>3. ASSUME NEW a \in Asks, PublishCancel(a) PROVE QuietBeforeSend'
  BY <1>3 DEF PublishCancel, Published
<1>4. ASSUME NEW a \in Asks, ClearPending(a) PROVE QuietBeforeSend'
  BY <1>4 DEF ClearPending
<1>5. ASSUME NEW a \in Asks, StorePending(a) PROVE QuietBeforeSend'
  BY <1>5 DEF StorePending
<1>6. ASSUME NEW a \in Asks, Send(a) PROVE QuietBeforeSend'
  BY <1>6 DEF Send
<1>7. ASSUME NEW a \in Asks, SendFails(a) PROVE QuietBeforeSend'
  BY <1>7 DEF SendFails, Fault
<1>8. ASSUME NEW a \in Asks, Subscribed(a) PROVE QuietBeforeSend'
  BY <1>8 DEF Subscribed
<1>9. ASSUME NEW a \in Asks, TimesOut(a) PROVE QuietBeforeSend'
  BY <1>9 DEF TimesOut, Armed, ClearedSlot, Unsubscribed
<1>10. ASSUME NEW a \in Asks, GiveUp(a) PROVE QuietBeforeSend'
  BY <1>10 DEF GiveUp, Removed
<1>11. ASSUME NEW a \in Asks, Refuse(a) PROVE QuietBeforeSend'
  BY <1>11 DEF Refuse, Settle, Unsubscribed
<1>12. ASSUME NEW a \in Asks, LookupPending(a) PROVE QuietBeforeSend'
  BY <1>12 DEF LookupPending
<1>13. ASSUME NEW a \in Asks, InvalidContent(a) PROVE QuietBeforeSend'
  BY <1>13 DEF InvalidContent
<1>14. ASSUME NEW a \in Asks, PublishResult(a) PROVE QuietBeforeSend'
  BY <1>14 DEF PublishResult, Published
<1>15. ASSUME NEW a \in Asks, DeletePending(a) PROVE QuietBeforeSend'
  BY <1>15 DEF DeletePending
<1>16. ASSUME NEW a \in Asks, AskFault(a) PROVE QuietBeforeSend'
  BY <1>16 DEF AskFault, Fault
<1>17. ASSUME NEW a \in Asks, SubscribeFails(a) PROVE QuietBeforeSend'
  BY <1>17 DEF SubscribeFails, Fault, Listens
<1>18. ASSUME NEW a \in Asks, ReplyFault(a) PROVE QuietBeforeSend'
  BY <1>18 DEF ReplyFault, Fault
<1>19. ASSUME NEW a \in Asks, NEW atHome \in BOOLEAN, Answer(a, atHome) PROVE QuietBeforeSend'
  BY <1>19 DEF Answer, Settle, Unsubscribed
<1>20. ASSUME NEW a \in Asks, NEW r \in Asks \cup {"cancel"}, Deliver(a, r) PROVE QuietBeforeSend'
  BY <1>20 DEF Deliver, Settle, Unsubscribed, Listens
<1>21. ASSUME NEW a \in Asks, NEW r \in Asks \cup {"cancel"}, LoseMessage(a, r) PROVE QuietBeforeSend'
  BY <1>21 DEF LoseMessage, Fault
<1>22. ASSUME ExpirePending PROVE QuietBeforeSend'
  BY <1>22 DEF ExpirePending
<1>23. ASSUME Crash PROVE QuietBeforeSend'
  BY <1>23 DEF Crash, Fault, UnderWay
<1>24. CASE UNCHANGED vars
  BY <1>24 DEF vars
<1> QED BY <1>1, <1>2, <1>3, <1>4, <1>5, <1>6, <1>7, <1>8, <1>9, <1>10, <1>11, <1>12, <1>13,
    <1>14, <1>15, <1>16, <1>17, <1>18, <1>19, <1>20, <1>21, <1>22, <1>23, <1>24 DEF Next

\* A publisher removes the record in its next step; a record is stored before its
\* channel is used.
LEMMA PublisherStep ==
  ASSUME TypeOK, SlotWaits, QuietBeforeSend, PublisherRemoves, [Next]_vars
  PROVE  PublisherRemoves'
<1> USE ElicitationAssumption DEF PublisherRemoves, QuietBeforeSend, EarlyLabels, SlotWaits,
    TypeOK, AskLabels, ReplyLabels, Results, askVars, wireVars, replyVars
<1>1. ASSUME NEW a \in Asks, Ask(a) PROVE PublisherRemoves'
  BY <1>1 DEF Ask, Settle, Unsubscribed
<1>2. ASSUME NEW a \in Asks, CheckPending(a) PROVE PublisherRemoves'
  BY <1>2 DEF CheckPending
<1>3. ASSUME NEW a \in Asks, PublishCancel(a) PROVE PublisherRemoves'
  BY <1>3 DEF PublishCancel, Published
<1>4. ASSUME NEW a \in Asks, ClearPending(a) PROVE PublisherRemoves'
  BY <1>4 DEF ClearPending
<1>5. ASSUME NEW a \in Asks, StorePending(a) PROVE PublisherRemoves'
  BY <1>5 DEF StorePending
<1>6. ASSUME NEW a \in Asks, Send(a) PROVE PublisherRemoves'
  BY <1>6 DEF Send
<1>7. ASSUME NEW a \in Asks, SendFails(a) PROVE PublisherRemoves'
  BY <1>7 DEF SendFails, Fault
<1>8. ASSUME NEW a \in Asks, Subscribed(a) PROVE PublisherRemoves'
  BY <1>8 DEF Subscribed
<1>9. ASSUME NEW a \in Asks, TimesOut(a) PROVE PublisherRemoves'
  BY <1>9 DEF TimesOut, Armed, ClearedSlot, Unsubscribed
<1>10. ASSUME NEW a \in Asks, GiveUp(a) PROVE PublisherRemoves'
  BY <1>10 DEF GiveUp, Removed
<1>11. ASSUME NEW a \in Asks, Refuse(a) PROVE PublisherRemoves'
  BY <1>11 DEF Refuse, Settle, Unsubscribed
<1>12. ASSUME NEW a \in Asks, LookupPending(a) PROVE PublisherRemoves'
  BY <1>12 DEF LookupPending
<1>13. ASSUME NEW a \in Asks, InvalidContent(a) PROVE PublisherRemoves'
  BY <1>13 DEF InvalidContent
<1>14. ASSUME NEW a \in Asks, PublishResult(a) PROVE PublisherRemoves'
  BY <1>14 DEF PublishResult, Published
<1>15. ASSUME NEW a \in Asks, DeletePending(a) PROVE PublisherRemoves'
  BY <1>15 DEF DeletePending
<1>16. ASSUME NEW a \in Asks, AskFault(a) PROVE PublisherRemoves'
  BY <1>16 DEF AskFault, Fault
<1>17. ASSUME NEW a \in Asks, SubscribeFails(a) PROVE PublisherRemoves'
  BY <1>17 DEF SubscribeFails, Fault, Listens
<1>18. ASSUME NEW a \in Asks, ReplyFault(a) PROVE PublisherRemoves'
  BY <1>18 DEF ReplyFault, Fault
<1>19. ASSUME NEW a \in Asks, NEW atHome \in BOOLEAN, Answer(a, atHome) PROVE PublisherRemoves'
  BY <1>19 DEF Answer, Settle, Unsubscribed
<1>20. ASSUME NEW a \in Asks, NEW r \in Asks \cup {"cancel"}, Deliver(a, r) PROVE PublisherRemoves'
  BY <1>20 DEF Deliver, Settle, Unsubscribed, Listens
<1>21. ASSUME NEW a \in Asks, NEW r \in Asks \cup {"cancel"}, LoseMessage(a, r) PROVE PublisherRemoves'
  BY <1>21 DEF LoseMessage, Fault
<1>22. ASSUME ExpirePending PROVE PublisherRemoves'
  BY <1>22 DEF ExpirePending
<1>23. ASSUME Crash PROVE PublisherRemoves'
  BY <1>23 DEF Crash, Fault, UnderWay
<1>24. CASE UNCHANGED vars
  BY <1>24 DEF vars
<1> QED BY <1>1, <1>2, <1>3, <1>4, <1>5, <1>6, <1>7, <1>8, <1>9, <1>10, <1>11, <1>12, <1>13,
    <1>14, <1>15, <1>16, <1>17, <1>18, <1>19, <1>20, <1>21, <1>22, <1>23, <1>24 DEF Next

\* Whatever ends the stored question has a remover, or becomes one.
LEMMA RecordStep ==
  ASSUME RecordInv, [Next]_vars
  PROVE  RecordIsOpen'
<1> USE ElicitationAssumption DEF RecordIsOpen, Remover, Handler, LeavesRecord, RecordInv,
    PublisherRemoves, QuietBeforeSend, EarlyLabels, SlotWaits, TypeOK, AskLabels, ReplyLabels,
    Results, askVars, wireVars, replyVars
<1>1. ASSUME NEW a \in Asks, Ask(a) PROVE RecordIsOpen'
  BY <1>1 DEF Ask, Settle, Unsubscribed
<1>2. ASSUME NEW a \in Asks, CheckPending(a) PROVE RecordIsOpen'
  BY <1>2 DEF CheckPending
<1>3. ASSUME NEW a \in Asks, PublishCancel(a) PROVE RecordIsOpen'
  BY <1>3 DEF PublishCancel, Published
<1>4. ASSUME NEW a \in Asks, ClearPending(a) PROVE RecordIsOpen'
  BY <1>4 DEF ClearPending
<1>5. ASSUME NEW a \in Asks, StorePending(a) PROVE RecordIsOpen'
  BY <1>5 DEF StorePending
<1>6. ASSUME NEW a \in Asks, Send(a) PROVE RecordIsOpen'
  BY <1>6 DEF Send
<1>7. ASSUME NEW a \in Asks, SendFails(a) PROVE RecordIsOpen'
  BY <1>7 DEF SendFails, Fault
<1>8. ASSUME NEW a \in Asks, Subscribed(a) PROVE RecordIsOpen'
  BY <1>8 DEF Subscribed
<1>9. ASSUME NEW a \in Asks, TimesOut(a) PROVE RecordIsOpen'
  BY <1>9 DEF TimesOut, Armed, ClearedSlot, Unsubscribed
<1>10. ASSUME NEW a \in Asks, GiveUp(a) PROVE RecordIsOpen'
  BY <1>10 DEF GiveUp, Removed
<1>11. ASSUME NEW a \in Asks, Refuse(a) PROVE RecordIsOpen'
  BY <1>11 DEF Refuse, Settle, Unsubscribed
<1>12. ASSUME NEW a \in Asks, LookupPending(a) PROVE RecordIsOpen'
  BY <1>12 DEF LookupPending
<1>13. ASSUME NEW a \in Asks, InvalidContent(a) PROVE RecordIsOpen'
  BY <1>13 DEF InvalidContent
<1>14. ASSUME NEW a \in Asks, PublishResult(a) PROVE RecordIsOpen'
  BY <1>14 DEF PublishResult, Published
<1>15. ASSUME NEW a \in Asks, DeletePending(a) PROVE RecordIsOpen'
  BY <1>15 DEF DeletePending
<1>16. ASSUME NEW a \in Asks, AskFault(a) PROVE RecordIsOpen'
  BY <1>16 DEF AskFault, Fault
<1>17. ASSUME NEW a \in Asks, SubscribeFails(a) PROVE RecordIsOpen'
  BY <1>17 DEF SubscribeFails, Fault, Listens
<1>18. ASSUME NEW a \in Asks, ReplyFault(a) PROVE RecordIsOpen'
  BY <1>18 DEF ReplyFault, Fault
<1>19. ASSUME NEW a \in Asks, NEW atHome \in BOOLEAN, Answer(a, atHome) PROVE RecordIsOpen'
  BY <1>19 DEF Answer, Settle, Unsubscribed
<1>20. ASSUME NEW a \in Asks, NEW r \in Asks \cup {"cancel"}, Deliver(a, r) PROVE RecordIsOpen'
  BY <1>20 DEF Deliver, Settle, Unsubscribed, Listens
<1>21. ASSUME NEW a \in Asks, NEW r \in Asks \cup {"cancel"}, LoseMessage(a, r) PROVE RecordIsOpen'
  BY <1>21 DEF LoseMessage, Fault
<1>22. ASSUME ExpirePending PROVE RecordIsOpen'
  BY <1>22 DEF ExpirePending
<1>23. ASSUME Crash PROVE RecordIsOpen'
  BY <1>23 DEF Crash, Fault, UnderWay
<1>24. CASE UNCHANGED vars
  BY <1>24 DEF vars
<1> QED BY <1>1, <1>2, <1>3, <1>4, <1>5, <1>6, <1>7, <1>8, <1>9, <1>10, <1>11, <1>12, <1>13,
    <1>14, <1>15, <1>16, <1>17, <1>18, <1>19, <1>20, <1>21, <1>22, <1>23, <1>24 DEF Next

----------------------------------------------------------------------------
(* Theorems                                                                *)

THEOREM InvHolds == Spec => []Inv
<1>1. Init => Inv
  BY ElicitationAssumption
     DEF Init, Inv, TypeOK, SlotWaits, ResultIsFinal, AskLabels, ReplyLabels, Results
<1>2. Inv /\ [Next]_vars => Inv'
  BY TypeStep, SlotStep, ResultStep DEF Inv
<1> QED BY <1>1, <1>2, PTL DEF Spec

\* Type correctness.
THEOREM TypeCorrect == Spec => []TypeOK
BY InvHolds, PTL DEF Inv

\* An answer that reaches the adapter is spent on a promise that still waits.
THEOREM SlotAlwaysWaits == Spec => []SlotWaits
BY InvHolds, PTL DEF Inv

\* A settled ask is done, and no action gives a done ask a result.
LEMMA SettledStep ==
  ASSUME Inv, [Next]_vars
  PROVE  \A b \in Asks : result[b] # "none" => result'[b] = result[b]
<1> USE ElicitationAssumption DEF Inv, ResultIsFinal, SlotWaits, TypeOK, AskLabels, ReplyLabels,
    Results, askVars, wireVars, replyVars
<1>1. ASSUME NEW a \in Asks, Ask(a) PROVE \A b \in Asks : result[b] # "none" => result'[b] = result[b]
  BY <1>1 DEF Ask, Settle, Unsubscribed
<1>2. ASSUME NEW a \in Asks, CheckPending(a) PROVE \A b \in Asks : result[b] # "none" => result'[b] = result[b]
  BY <1>2 DEF CheckPending
<1>3. ASSUME NEW a \in Asks, PublishCancel(a) PROVE \A b \in Asks : result[b] # "none" => result'[b] = result[b]
  BY <1>3 DEF PublishCancel, Published
<1>4. ASSUME NEW a \in Asks, ClearPending(a) PROVE \A b \in Asks : result[b] # "none" => result'[b] = result[b]
  BY <1>4 DEF ClearPending
<1>5. ASSUME NEW a \in Asks, StorePending(a) PROVE \A b \in Asks : result[b] # "none" => result'[b] = result[b]
  BY <1>5 DEF StorePending
<1>6. ASSUME NEW a \in Asks, Send(a) PROVE \A b \in Asks : result[b] # "none" => result'[b] = result[b]
  BY <1>6 DEF Send
<1>7. ASSUME NEW a \in Asks, SendFails(a) PROVE \A b \in Asks : result[b] # "none" => result'[b] = result[b]
  BY <1>7 DEF SendFails, Fault
<1>8. ASSUME NEW a \in Asks, Subscribed(a) PROVE \A b \in Asks : result[b] # "none" => result'[b] = result[b]
  BY <1>8 DEF Subscribed
<1>9. ASSUME NEW a \in Asks, TimesOut(a) PROVE \A b \in Asks : result[b] # "none" => result'[b] = result[b]
  BY <1>9 DEF TimesOut, Armed, ClearedSlot, Unsubscribed
<1>10. ASSUME NEW a \in Asks, GiveUp(a) PROVE \A b \in Asks : result[b] # "none" => result'[b] = result[b]
  BY <1>10 DEF GiveUp, Removed
<1>11. ASSUME NEW a \in Asks, Refuse(a) PROVE \A b \in Asks : result[b] # "none" => result'[b] = result[b]
  BY <1>11 DEF Refuse, Settle, Unsubscribed
<1>12. ASSUME NEW a \in Asks, LookupPending(a) PROVE \A b \in Asks : result[b] # "none" => result'[b] = result[b]
  BY <1>12 DEF LookupPending
<1>13. ASSUME NEW a \in Asks, InvalidContent(a) PROVE \A b \in Asks : result[b] # "none" => result'[b] = result[b]
  BY <1>13 DEF InvalidContent
<1>14. ASSUME NEW a \in Asks, PublishResult(a) PROVE \A b \in Asks : result[b] # "none" => result'[b] = result[b]
  BY <1>14 DEF PublishResult, Published
<1>15. ASSUME NEW a \in Asks, DeletePending(a) PROVE \A b \in Asks : result[b] # "none" => result'[b] = result[b]
  BY <1>15 DEF DeletePending
<1>16. ASSUME NEW a \in Asks, AskFault(a) PROVE \A b \in Asks : result[b] # "none" => result'[b] = result[b]
  BY <1>16 DEF AskFault, Fault
<1>17. ASSUME NEW a \in Asks, SubscribeFails(a) PROVE \A b \in Asks : result[b] # "none" => result'[b] = result[b]
  BY <1>17 DEF SubscribeFails, Fault, Listens
<1>18. ASSUME NEW a \in Asks, ReplyFault(a) PROVE \A b \in Asks : result[b] # "none" => result'[b] = result[b]
  BY <1>18 DEF ReplyFault, Fault
<1>19. ASSUME NEW a \in Asks, NEW atHome \in BOOLEAN, Answer(a, atHome) PROVE \A b \in Asks : result[b] # "none" => result'[b] = result[b]
  BY <1>19 DEF Answer, Settle, Unsubscribed
<1>20. ASSUME NEW a \in Asks, NEW r \in Asks \cup {"cancel"}, Deliver(a, r) PROVE \A b \in Asks : result[b] # "none" => result'[b] = result[b]
  BY <1>20 DEF Deliver, Settle, Unsubscribed, Listens
<1>21. ASSUME NEW a \in Asks, NEW r \in Asks \cup {"cancel"}, LoseMessage(a, r) PROVE \A b \in Asks : result[b] # "none" => result'[b] = result[b]
  BY <1>21 DEF LoseMessage, Fault
<1>22. ASSUME ExpirePending PROVE \A b \in Asks : result[b] # "none" => result'[b] = result[b]
  BY <1>22 DEF ExpirePending
<1>23. ASSUME Crash PROVE \A b \in Asks : result[b] # "none" => result'[b] = result[b]
  BY <1>23 DEF Crash, Fault, UnderWay
<1>24. CASE UNCHANGED vars
  BY <1>24 DEF vars
<1> QED BY <1>1, <1>2, <1>3, <1>4, <1>5, <1>6, <1>7, <1>8, <1>9, <1>10, <1>11, <1>12, <1>13,
    <1>14, <1>15, <1>16, <1>17, <1>18, <1>19, <1>20, <1>21, <1>22, <1>23, <1>24 DEF Next

\* Each elicit() is settled once, for any number of asks, answers and faults.
THEOREM SettledOnceHolds == Spec => SettledOnce
<1>1. Inv /\ [Next]_vars => [\A a \in Asks : result[a] # "none" => result'[a] = result[a]]_vars
  BY SettledStep
<1> QED BY <1>1, InvHolds, PTL DEF Spec, SettledOnce

THEOREM RecordInvHolds == Spec => []RecordInv
<1>1. Init => RecordInv
  BY ElicitationAssumption
     DEF Init, RecordInv, TypeOK, SlotWaits, QuietBeforeSend, PublisherRemoves, RecordIsOpen,
         AskLabels, ReplyLabels, Results
<1>2. RecordInv /\ [Next]_vars => RecordInv'
  <2> SUFFICES ASSUME RecordInv, [Next]_vars PROVE RecordInv'
    OBVIOUS
  <2>1. TypeOK /\ SlotWaits /\ QuietBeforeSend /\ PublisherRemoves
    BY DEF RecordInv
  <2>2. TypeOK' /\ SlotWaits' /\ QuietBeforeSend' /\ PublisherRemoves' /\ RecordIsOpen'
    BY <2>1, TypeStep, SlotStep, QuietStep, PublisherStep, RecordStep
  <2> QED BY <2>2 DEF RecordInv
<1> QED BY <1>1, <1>2, PTL DEF Spec

\* No record outlives its question without somebody about to remove it.
THEOREM RecordIsOpenHolds == Spec => []RecordIsOpen
BY RecordInvHolds, PTL DEF RecordInv

----------------------------------------------------------------------------
(* Asks go forward                                                         *)

Forward == \A a \in Asks : pc'[a] # pc[a] => Stage[pc[a]] < Stage[pc'[a]]

\* One step per action: the labels of the ask it moves, and those of the ask in the slot,
\* which waits.
LEMMA ForwardStep ==
  ASSUME Inv, [Next]_vars
  PROVE  Forward
<1> USE ElicitationAssumption DEF Forward, Stage, Inv, SlotWaits, TypeOK, AskLabels, ReplyLabels,
    Results, askVars, wireVars, replyVars
<1>1. ASSUME NEW a \in Asks, Ask(a) PROVE Forward
  BY <1>1 DEF Ask, Settle, Unsubscribed
<1>2. ASSUME NEW a \in Asks, CheckPending(a) PROVE Forward
  BY <1>2 DEF CheckPending
<1>3. ASSUME NEW a \in Asks, PublishCancel(a) PROVE Forward
  BY <1>3 DEF PublishCancel, Published
<1>4. ASSUME NEW a \in Asks, ClearPending(a) PROVE Forward
  BY <1>4 DEF ClearPending
<1>5. ASSUME NEW a \in Asks, StorePending(a) PROVE Forward
  BY <1>5 DEF StorePending
<1>6. ASSUME NEW a \in Asks, Send(a) PROVE Forward
  BY <1>6 DEF Send
<1>7. ASSUME NEW a \in Asks, SendFails(a) PROVE Forward
  BY <1>7 DEF SendFails, Fault
<1>8. ASSUME NEW a \in Asks, Subscribed(a) PROVE Forward
  BY <1>8 DEF Subscribed
<1>9. ASSUME NEW a \in Asks, TimesOut(a) PROVE Forward
  BY <1>9 DEF TimesOut, Armed, ClearedSlot, Unsubscribed
<1>10. ASSUME NEW a \in Asks, GiveUp(a) PROVE Forward
  BY <1>10 DEF GiveUp, Removed
<1>11. ASSUME NEW a \in Asks, Refuse(a) PROVE Forward
  BY <1>11 DEF Refuse, Settle, Unsubscribed
<1>12. ASSUME NEW a \in Asks, LookupPending(a) PROVE Forward
  BY <1>12 DEF LookupPending
<1>13. ASSUME NEW a \in Asks, InvalidContent(a) PROVE Forward
  BY <1>13 DEF InvalidContent
<1>14. ASSUME NEW a \in Asks, PublishResult(a) PROVE Forward
  BY <1>14 DEF PublishResult, Published
<1>15. ASSUME NEW a \in Asks, DeletePending(a) PROVE Forward
  BY <1>15 DEF DeletePending
<1>16. ASSUME NEW a \in Asks, AskFault(a) PROVE Forward
  BY <1>16 DEF AskFault, Fault
<1>17. ASSUME NEW a \in Asks, SubscribeFails(a) PROVE Forward
  BY <1>17 DEF SubscribeFails, Fault, Listens
<1>18. ASSUME NEW a \in Asks, ReplyFault(a) PROVE Forward
  BY <1>18 DEF ReplyFault, Fault
<1>19. ASSUME NEW a \in Asks, NEW atHome \in BOOLEAN, Answer(a, atHome) PROVE Forward
  BY <1>19 DEF Answer, Settle, Unsubscribed
<1>20. ASSUME NEW a \in Asks, NEW r \in Asks \cup {"cancel"}, Deliver(a, r) PROVE Forward
  BY <1>20 DEF Deliver, Settle, Unsubscribed, Listens
<1>21. ASSUME NEW a \in Asks, NEW r \in Asks \cup {"cancel"}, LoseMessage(a, r) PROVE Forward
  BY <1>21 DEF LoseMessage, Fault
<1>22. ASSUME ExpirePending PROVE Forward
  BY <1>22 DEF ExpirePending
<1>23. ASSUME Crash PROVE Forward
  BY <1>23 DEF Crash, Fault, UnderWay
<1>24. CASE UNCHANGED vars
  BY <1>24 DEF vars
<1> QED BY <1>1, <1>2, <1>3, <1>4, <1>5, <1>6, <1>7, <1>8, <1>9, <1>10, <1>11, <1>12, <1>13,
    <1>14, <1>15, <1>16, <1>17, <1>18, <1>19, <1>20, <1>21, <1>22, <1>23, <1>24 DEF Next

\* No ask goes back, for any number of asks, answers and faults.
THEOREM AsksGoForwardHolds == Spec => AsksGoForward
<1>1. Inv /\ [Next]_vars => [Forward]_vars
  BY ForwardStep
<1> QED BY <1>1, InvHolds, PTL DEF Spec, AsksGoForward, Forward
=============================================================================
