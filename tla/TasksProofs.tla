---------------------------- MODULE TasksProofs ----------------------------
(***************************************************************************)
(* The safety properties of Tasks, for any number of nodes, cancellers and *)
(* waiters and any number of storage faults and crashes.                   *)
(***************************************************************************)
EXTENDS Tasks, TLAPS

----------------------------------------------------------------------------
(* The inductive invariant                                                 *)

\* The labels each kind of process can be at.
Labels(p) ==
  IF p = Creator
    THEN {"idle", "execRead", "execWrite", "failRead", "failWrite",
          "dispatch", "responded", "rejected", "dead"}
  ELSE IF p = Runner
    THEN {"idle", "scheduled", "subscribing", "running", "check", "finishRead",
          "finishWrite", "failRead", "failWrite", "publish", "cleanup", "done", "dead"}
  ELSE IF p \in Cancellers
    THEN {"idle", "cancelRead", "cancelWrite", "signal", "publish", "ok", "refused", "dead"}
  ELSE WaiterLabels
PcOK == \A p \in Processes : pc[p] \in Labels(p)

\* An unsubscribe handle stands for a handler of a channel that is not off.
HandlesCounted == \A n \in Nodes : handle[n] => handlers[n] > 0 /\ channel[n] # "off"

\* Nothing is stored before the create flow runs, and the runner is not started
\* before that flow has written the executor.
CreatorFirst ==
  /\ pc[Creator] = "idle" =>
       rec = Absent /\ \A c \in Cancellers : pc[c] \in {"idle", "dead"}
  /\ pc[Creator] \in {"idle", "execRead", "execWrite", "failRead", "failWrite", "dispatch"}
       => pc[Runner] = "idle"

\* Every record a writer may still write back fits, and before the runner is
\* started none has an outcome, so the create flow's "failed" never covers one.
SnapshotsFit ==
  /\ \A p \in Writers : OutcomeFits(snap[p])
  /\ pc[Runner] \in {"finishRead", "finishWrite"} => OutcomeFits(final)
  /\ pc[Runner] = "idle" =>
       rec.outcome = "none" /\ \A p \in Writers : snap[p].outcome = "none"

\* A waiter that is still subscribing has its callback in the node's set.
OpeningJoined ==
  \A w \in Waiters : pc[w] = "opening" => w \in callbacks[NodeOf[w]]

\* What still has to write when the record says "working": the create flow, or a
\* runner before its last write.  Where executeTask or the create flow is in its
\* error path a storage call has failed, and a second failure is needed to leave it
\* without a write.  Both die together, and the runner's last write is terminal.
Closing == {"scheduled", "subscribing", "running", "check",
            "finishRead", "finishWrite", "failRead", "failWrite", "dead"}
CloserLeft ==
  rec.status = "working" /\ faults <= 1 =>
    \/ pc[Creator] \in {"execRead", "execWrite", "failRead", "failWrite", "dispatch"}
    \/ pc[Creator] \in {"responded", "dead"} /\ pc[Runner] \in Closing
ErrorsCounted ==
  \A p \in {Creator, Runner} : pc[p] \in {"failRead", "failWrite"} => faults >= 1
RunnerStarted ==
  pc[Creator] # "dead" /\ pc[Runner] # "idle" => pc[Creator] = "responded"
DieTogether == pc[Creator] = "dead" => pc[Runner] = "dead"
FinalCloses == pc[Runner] \in {"finishRead", "finishWrite"} => IsTerminal(final)

Inv1 == TypeOK /\ PcOK /\ HandlesCounted
Inv2 == CreatorFirst /\ SnapshotsFit /\ OutcomeMatchesStatus
Inv3 == OpeningJoined /\ ListenersStayConnected
Inv4 == CloserLeft /\ ErrorsCounted /\ RunnerStarted /\ DieTogether /\ FinalCloses

----------------------------------------------------------------------------
LEMMA UpdateLabels ==
  /\ Reading = {"execRead", "failRead", "finishRead", "cancelRead"}
  /\ Writing = {"execWrite", "failWrite", "finishWrite", "cancelWrite"}
  /\ WriteOf["execRead"] = "execWrite" /\ WriteOf["failRead"] = "failWrite"
  /\ WriteOf["finishRead"] = "finishWrite" /\ WriteOf["cancelRead"] = "cancelWrite"
BY DEF Reading, Writing, WriteOf

LEMMA ProcessFacts ==
  /\ Creator \in Writers /\ Runner \in Writers /\ Creator # Runner
  /\ \A c \in Cancellers : c \in Writers /\ c # Creator /\ c # Runner
  /\ \A w \in Waiters : w \notin Writers
  /\ Writers \subseteq Processes /\ Waiters \subseteq Processes
  /\ NodeOf \in [Processes -> Nodes] /\ Home \in Nodes
BY TasksAssumption DEF Writers, Processes

\* A settled waiter was told a record or a refusal; the counts stay natural.
LEMMA SettleType ==
  ASSUME Inv1, NEW n \in Nodes, NEW S \in SUBSET Waiters,
         NEW r \in Answers \ {NoAnswer}, Settle(n, S, r)
  PROVE  /\ answer' \in [Waiters -> Answers]
         /\ callbacks' \in [Nodes -> SUBSET Waiters]
         /\ handle' \in [Nodes -> BOOLEAN]
         /\ channel' \in [Nodes -> {"off", "opening", "on", "broken"}]
         /\ handlers' \in [Nodes -> Nat]
         /\ HandlesCounted'
<1> DEFINE gone == CanUnsubscribe(S) \cap callbacks[n]
           drop == DropsHandle(n, gone)
<1>1. drop => handle[n] /\ handlers[n] > 0
  BY DEF Inv1, HandlesCounted, DropsHandle
<1>2. /\ answer' = [w \in Waiters |-> IF w \in S THEN r ELSE answer[w]]
      /\ callbacks' = [callbacks EXCEPT ![n] = @ \ gone]
      /\ handle' = [handle EXCEPT ![n] = @ /\ ~drop]
      /\ handlers' = [handlers EXCEPT ![n] = IF drop THEN @ - 1 ELSE @]
      /\ channel' = [channel EXCEPT ![n] = IF drop /\ handlers[n] = 1 THEN "off" ELSE @]
  BY DEF Settle
<1>3. drop \in BOOLEAN
  BY DEF DropsHandle
<1> HIDE DEF gone, drop
<1>4. answer' \in [Waiters -> Answers]
  BY <1>2 DEF Inv1, TypeOK
<1>5. callbacks' \in [Nodes -> SUBSET Waiters]
  BY <1>2 DEF Inv1, TypeOK
<1>6. handle' \in [Nodes -> BOOLEAN]
  BY <1>2, <1>3 DEF Inv1, TypeOK
<1>7. channel' \in [Nodes -> {"off", "opening", "on", "broken"}]
  BY <1>2 DEF Inv1, TypeOK
<1>8. handlers' \in [Nodes -> Nat]
  BY <1>1, <1>2 DEF Inv1, TypeOK
<1>9. HandlesCounted'
  <2> SUFFICES ASSUME NEW m \in Nodes, handle'[m]
               PROVE  handlers'[m] > 0 /\ channel'[m] # "off"
    BY DEF HandlesCounted
  <2>1. CASE m = n
    <3>1. handle[n] /\ ~drop
      BY <1>2, <2>1 DEF Inv1, TypeOK
    <3>2. handlers'[m] = handlers[n] /\ channel'[m] = channel[n]
      BY <1>2, <2>1, <3>1 DEF Inv1, TypeOK
    <3> QED BY <3>1, <3>2 DEF Inv1, HandlesCounted
  <2>2. CASE m # n
    BY <1>2, <2>2 DEF Inv1, TypeOK, HandlesCounted
  <2> QED BY <2>1, <2>2
<1> QED BY <1>4, <1>5, <1>6, <1>7, <1>8, <1>9

LEMMA GotoType ==
  ASSUME Inv1, NEW p \in Processes, NEW l \in Labels(p), Goto(p, l)
  PROVE  pc' \in [Processes -> WriterLabels \cup WaiterLabels] /\ PcOK'
<1>1. Labels(p) \subseteq WriterLabels \cup WaiterLabels
  BY UpdateLabels DEF Labels, WriterLabels
<1>2. pc' = [pc EXCEPT ![p] = l]
  BY DEF Goto
<1>3. pc \in [Processes -> WriterLabels \cup WaiterLabels] /\ PcOK
  BY DEF Inv1, TypeOK
<1>4. pc' \in [Processes -> WriterLabels \cup WaiterLabels]
  BY <1>1, <1>2, <1>3
<1>5. PcOK'
  BY <1>2, <1>3 DEF PcOK, Labels
<1> QED BY <1>4, <1>5

LEMMA RecordFacts ==
  /\ Absent \in Records /\ Working \in Records /\ Failed \in Records
  /\ Records \subseteq Answers \ {NoAnswer}
  /\ Rejected \in Answers \ {NoAnswer}
BY DEF Absent, Working, Failed, Records, Status, Terminal, Outcomes, ToolResults,
       Answers, NoAnswer, Rejected

\* Both ways a terminal message leaves keep the types of what it touches.
LEMMA PublishType ==
  ASSUME Inv1, NEW n \in Nodes, NEW r \in Records, PublishTerminal(n, r)
  PROVE  /\ answer' \in [Waiters -> Answers]
         /\ callbacks' \in [Nodes -> SUBSET Waiters]
         /\ handle' \in [Nodes -> BOOLEAN]
         /\ channel' \in [Nodes -> {"off", "opening", "on", "broken"}]
         /\ handlers' \in [Nodes -> Nat]
         /\ inbox' \in [Nodes -> Seq(Records)]
         /\ faults' \in Nat
         /\ HandlesCounted'
<1>1. CASE Broadcast(r)
  <2>1. inbox' \in [Nodes -> Seq(Records)]
    BY <1>1 DEF Broadcast, Inv1, TypeOK
  <2> QED BY <1>1, <2>1 DEF Broadcast, waiterVars, Inv1, TypeOK, HandlesCounted
<1>2. CASE FanOutLocal(n, r)
  <2>1. Hearers(n, r) \in SUBSET Waiters
    BY DEF Hearers, Inv1, TypeOK
  <2>2. Settle(n, Hearers(n, r), r) /\ inbox' = inbox /\ faults' = faults + 1
    BY <1>2 DEF FanOutLocal
  <2>3. r \in Answers \ {NoAnswer}
    BY RecordFacts
  <2>4. faults' \in Nat /\ inbox' \in [Nodes -> Seq(Records)]
    BY <2>2 DEF Inv1, TypeOK
  <2> QED BY <2>1, <2>2, <2>3, <2>4, SettleType
<1> QED BY <1>1, <1>2 DEF PublishTerminal

\* What an update writes back is a record.
LEMMA MergedType ==
  ASSUME Inv1, NEW p \in Writers, NEW r \in Records
  PROVE  Merged(p, r) \in Records
<1>1. final \in Records
  BY DEF Inv1, TypeOK
<1>2. [r EXCEPT !.status = "cancelled"] \in Records /\ [r EXCEPT !.status = "failed"] \in Records
  BY DEF Records, Status, Terminal
<1> QED BY <1>1, <1>2, RecordFacts DEF Merged

LEMMA FinalPatchType ==
  ASSUME NEW o \in Outcomes, NEW ab \in BOOLEAN
  PROVE  FinalPatch(o, ab) \in Records /\ OutcomeFits(FinalPatch(o, ab))
BY DEF FinalPatch, FinalStatus, Records, Status, Terminal, Outcomes, ToolResults, OutcomeFits

\* Where an update, and a rejected storage call, send each kind of writer.
LEMMA AfterUpdateLabel ==
  ASSUME Inv1, NEW p \in Writers, pc[p] \in Reading \cup Writing, NEW r
  PROVE  AfterUpdate(p, r) \in Labels(p)
BY ProcessFacts, UpdateLabels DEF Inv1, PcOK, Labels, AfterUpdate, Writers

LEMMA AfterFaultLabel ==
  ASSUME NEW p \in Writers
  PROVE  AfterFault(p) \in Labels(p)
BY ProcessFacts DEF Labels, AfterFault, Writers

LEMMA WriteOfLabel ==
  ASSUME Inv1, NEW p \in Writers, pc[p] \in Reading
  PROVE  WriteOf[pc[p]] \in Labels(p)
BY ProcessFacts, UpdateLabels DEF Inv1, PcOK, Labels, Writers

----------------------------------------------------------------------------
(* Types, labels and handles                                               *)

LEMMA InitInv1 == Init => Inv1
<1> SUFFICES ASSUME Init PROVE Inv1
  OBVIOUS
<1>1. pc \in [Processes -> WriterLabels \cup WaiterLabels] /\ PcOK
  BY DEF Init, PcOK, Labels, WriterLabels, WaiterLabels
<1>2. answer \in [Waiters -> Answers]
  BY DEF Init, Answers
<1>3. /\ rec \in Records /\ final \in Records /\ snap \in [Writers -> Records]
  BY RecordFacts DEF Init
<1>4. inbox \in [Nodes -> Seq(Records)]
  BY DEF Init
<1> QED BY <1>1, <1>2, <1>3, <1>4 DEF Init, Inv1, TypeOK, HandlesCounted

\* The steps of the writers keep the types.
LEMMA WriterInv1 ==
  ASSUME Inv1, NEW p \in Writers, UpdateRead(p) \/ UpdateWrite(p) \/ WriterFault(p)
  PROVE  Inv1'
<1> p \in Processes
  BY ProcessFacts
<1> USE DEF storeVars, writerVars, runnerVars, waiterVars
<1>1. CASE UpdateRead(p)
  <2> DEFINE l == IF rec = Absent THEN AfterUpdate(p, Absent) ELSE WriteOf[pc[p]]
  <2>1. l \in Labels(p)
    BY <1>1, AfterUpdateLabel, WriteOfLabel DEF UpdateRead
  <2>2. Goto(p, l)
    BY <1>1 DEF UpdateRead
  <2>3. pc' \in [Processes -> WriterLabels \cup WaiterLabels] /\ PcOK'
    BY <2>1, <2>2, GotoType
  <2> QED BY <1>1, <2>3 DEF UpdateRead, Inv1, TypeOK, HandlesCounted
<1>2. CASE UpdateWrite(p)
  <2> DEFINE r == IF expired THEN Absent ELSE Merged(p, snap[p])
  <2>1. r \in Records
    <3>1. snap[p] \in Records
      BY DEF Inv1, TypeOK
    <3> QED BY <3>1, MergedType, RecordFacts
  <2>2. /\ rec' = r /\ snap' = [snap EXCEPT ![p] = r]
        /\ Goto(p, AfterUpdate(p, r)) /\ pc[p] \in Writing
        /\ UNCHANGED <<expired, final, runnerVars, waiterVars, inbox, faults>>
    BY <1>2 DEF UpdateWrite
  <2> HIDE DEF r
  <2>3. AfterUpdate(p, r) \in Labels(p)
    BY <2>2, AfterUpdateLabel
  <2>4. pc' \in [Processes -> WriterLabels \cup WaiterLabels] /\ PcOK'
    BY <2>2, <2>3, GotoType
  <2> QED BY <2>1, <2>2, <2>4 DEF Inv1, TypeOK, HandlesCounted
<1>3. CASE WriterFault(p)
  <2>1. pc' \in [Processes -> WriterLabels \cup WaiterLabels] /\ PcOK'
    BY <1>3, AfterFaultLabel, GotoType DEF WriterFault
  <2> QED BY <1>3, <2>1 DEF WriterFault, Inv1, TypeOK, HandlesCounted
<1> QED BY <1>1, <1>2, <1>3

\* So do the steps of the create flow and of the runner.
LEMMA RunnerInv1 ==
  ASSUME Inv1,
         \/ CreateTask \/ RunInBackground
         \/ StartExecution \/ CancelSubscribed \/ ToolReturns \/ CheckStored
         \/ RunnerPublish \/ Cleanup \/ DeliverCancel
  PROVE  Inv1'
<1> Creator \in Processes /\ Runner \in Processes /\ Creator # Runner /\ Home \in Nodes
  BY ProcessFacts
<1> USE DEF storeVars, writerVars, runnerVars, waiterVars
<1>1. CASE CreateTask
  <2>1. pc' \in [Processes -> WriterLabels \cup WaiterLabels] /\ PcOK'
    BY <1>1, GotoType DEF CreateTask, Labels
  <2> QED BY <1>1, <2>1, RecordFacts DEF CreateTask, Inv1, TypeOK, HandlesCounted
<1>2. CASE RunInBackground
  <2>1. pc' = [pc EXCEPT ![Creator] = "responded", ![Runner] = "scheduled"]
    BY <1>2 DEF RunInBackground
  <2>2. PcOK'
    BY <2>1 DEF Inv1, TypeOK, PcOK, Labels
  <2>3. pc' \in [Processes -> WriterLabels \cup WaiterLabels]
    BY <2>1 DEF Inv1, TypeOK, WriterLabels
  <2> QED BY <1>2, <2>2, <2>3, RecordFacts DEF RunInBackground, Inv1, TypeOK, HandlesCounted
<1>3. CASE StartExecution
  <2>1. pc' \in [Processes -> WriterLabels \cup WaiterLabels] /\ PcOK'
    BY <1>3, GotoType DEF StartExecution, Labels
  <2> QED BY <1>3, <2>1 DEF StartExecution, Inv1, TypeOK, HandlesCounted
<1>4. CASE CancelSubscribed
  <2>1. pc' \in [Processes -> WriterLabels \cup WaiterLabels] /\ PcOK'
    BY <1>4, GotoType DEF CancelSubscribed, Labels
  <2> QED BY <1>4, <2>1 DEF CancelSubscribed, Inv1, TypeOK, HandlesCounted
<1>5. CASE ToolReturns
  <2>1. pc' \in [Processes -> WriterLabels \cup WaiterLabels] /\ PcOK'
    BY <1>5, GotoType DEF ToolReturns, Labels
  <2>2. final' \in Records
    BY <1>5 DEF ToolReturns, Records, Status, Outcomes
  <2> QED BY <1>5, <2>1, <2>2 DEF ToolReturns, Inv1, TypeOK, HandlesCounted
<1>6. CASE CheckStored
  <2> DEFINE l == CASE rec = Absent -> "cleanup"
                    [] IsTerminal(rec) -> "publish"
                    [] OTHER -> "finishRead"
  <2>1. l \in Labels(Runner) /\ Goto(Runner, l)
    BY <1>6 DEF CheckStored, Labels
  <2>2. pc' \in [Processes -> WriterLabels \cup WaiterLabels] /\ PcOK'
    BY <2>1, GotoType
  <2>3. final.outcome \in Outcomes /\ aborted \in BOOLEAN
    BY DEF Inv1, TypeOK, Records
  <2>4. final' \in Records
    BY <1>6, <2>3, FinalPatchType DEF CheckStored
  <2> QED BY <1>6, <2>2, <2>4 DEF CheckStored, Inv1, TypeOK, HandlesCounted
<1>7. CASE RunnerPublish
  <2>1. pc' \in [Processes -> WriterLabels \cup WaiterLabels] /\ PcOK'
    BY <1>7, GotoType DEF RunnerPublish, Labels
  <2>2. snap[Runner] \in Records /\ PublishTerminal(Home, snap[Runner])
    BY <1>7, ProcessFacts DEF RunnerPublish, Inv1, TypeOK
  <2>3. UNCHANGED <<rec, expired, final, tracked, aborted, listening, cancelMsg>>
        /\ snap' = [snap EXCEPT ![Runner] = Absent]
    BY <1>7 DEF RunnerPublish
  <2>4. snap' \in [Writers -> Records]
    BY <2>3, RecordFacts DEF Inv1, TypeOK
  <2> QED BY <2>1, <2>2, <2>3, <2>4, PublishType DEF Inv1, TypeOK
<1>8. CASE Cleanup
  <2>1. pc' \in [Processes -> WriterLabels \cup WaiterLabels] /\ PcOK'
    BY <1>8, GotoType DEF Cleanup, Labels
  <2> QED BY <1>8, <2>1, RecordFacts DEF Cleanup, Inv1, TypeOK, HandlesCounted
<1>9. CASE DeliverCancel
  BY <1>9 DEF DeliverCancel, Inv1, TypeOK, PcOK, HandlesCounted
<1> QED BY <1>1, <1>2, <1>3, <1>4, <1>5, <1>6, <1>7, <1>8, <1>9

\* So do the steps of tasks/cancel.
LEMMA CancelInv1 ==
  ASSUME Inv1, NEW c \in Cancellers, CancelGet(c) \/ CancelSignal(c) \/ CancelPublish(c)
  PROVE  Inv1'
<1> c \in Writers /\ c \in Processes /\ c # Creator /\ c # Runner /\ NodeOf[c] \in Nodes
  BY ProcessFacts
<1> USE DEF storeVars, writerVars, runnerVars, waiterVars
<1>1. CASE CancelGet(c)
  <2> DEFINE l == IF CancelAllowed(rec) THEN "cancelRead" ELSE "refused"
  <2>1. l \in Labels(c) /\ Goto(c, l)
    BY <1>1 DEF CancelGet, Labels
  <2>2. pc' \in [Processes -> WriterLabels \cup WaiterLabels] /\ PcOK'
    BY <2>1, GotoType
  <2> QED BY <1>1, <2>2 DEF CancelGet, Inv1, TypeOK, HandlesCounted
<1>2. CASE CancelSignal(c)
  <2>1. pc' \in [Processes -> WriterLabels \cup WaiterLabels] /\ PcOK'
    BY <1>2, GotoType DEF CancelSignal, Labels
  <2>2. aborted' \in BOOLEAN /\ cancelMsg' \in BOOLEAN /\ faults' \in Nat
    BY <1>2 DEF CancelSignal, Inv1, TypeOK
  <2>3. UNCHANGED <<rec, expired, snap, final, tracked, listening, waiterVars, inbox>>
    BY <1>2 DEF CancelSignal
  <2> QED BY <2>1, <2>2, <2>3 DEF Inv1, TypeOK, HandlesCounted
<1>3. CASE CancelPublish(c)
  <2>1. pc' \in [Processes -> WriterLabels \cup WaiterLabels] /\ PcOK'
    BY <1>3, GotoType DEF CancelPublish, Labels
  <2>2. snap[c] \in Records /\ PublishTerminal(NodeOf[c], snap[c])
    BY <1>3 DEF CancelPublish, Inv1, TypeOK
  <2>3. UNCHANGED <<rec, expired, final, tracked, aborted, listening, cancelMsg>>
        /\ snap' = [snap EXCEPT ![c] = Absent]
    BY <1>3 DEF CancelPublish
  <2>4. snap' \in [Writers -> Records]
    BY <2>3, RecordFacts DEF Inv1, TypeOK
  <2> QED BY <2>1, <2>2, <2>3, <2>4, PublishType DEF Inv1, TypeOK
<1> QED BY <1>1, <1>2, <1>3

\* So do the steps of tasks/result.
LEMMA WaiterInv1 ==
  ASSUME Inv1, NEW w \in Waiters,
         ResultGet(w) \/ Subscribed(w) \/ ResultRead(w) \/ WaiterFault(w)
  PROVE  Inv1'
<1> DEFINE n == NodeOf[w]
<1> w \in Processes /\ n \in Nodes /\ Labels(w) = WaiterLabels
  BY ProcessFacts DEF Labels, Writers
<1> USE DEF storeVars, writerVars, runnerVars, waiterVars
<1> HIDE DEF n
<1>1. CASE ResultGet(w)
  <2>1. \E l \in {"done", "recheck", "opening"} : Goto(w, l)
    BY <1>1 DEF ResultGet
  <2>2. pc' \in [Processes -> WriterLabels \cup WaiterLabels] /\ PcOK'
    BY <2>1, GotoType DEF WaiterLabels
  <2>3. answer' \in [Waiters -> Answers]
    BY <1>1, RecordFacts DEF ResultGet, Inv1, TypeOK
  <2>4. /\ callbacks' \in [Nodes -> SUBSET Waiters]
        /\ handle' \in [Nodes -> BOOLEAN]
        /\ channel' \in [Nodes -> {"off", "opening", "on", "broken"}]
        /\ handlers' \in [Nodes -> Nat]
        /\ HandlesCounted'
    <3>1. CASE UNCHANGED <<callbacks, handle, channel, handlers>>
      BY <3>1 DEF Inv1, TypeOK, HandlesCounted
    <3>2. CASE callbacks' = [callbacks EXCEPT ![n] = @ \cup {w}]
      <4>1. callbacks' \in [Nodes -> SUBSET Waiters]
        BY <3>2 DEF Inv1, TypeOK
      <4>2. CASE UNCHANGED <<handle, channel, handlers>>
        BY <4>1, <4>2 DEF Inv1, TypeOK, HandlesCounted
      <4>3. CASE /\ ~handle[n] /\ channel' = [channel EXCEPT ![n] = "opening"]
                 /\ UNCHANGED <<handle, handlers>>
        BY <4>1, <4>3 DEF Inv1, TypeOK, HandlesCounted
      <4>4. CASE /\ channel[n] # "off" /\ handlers' = [handlers EXCEPT ![n] = @ + 1]
                 /\ handle' = [handle EXCEPT ![n] = TRUE] /\ UNCHANGED channel
        BY <4>1, <4>4 DEF Inv1, TypeOK, HandlesCounted
      <4> QED BY <1>1, <3>2, <4>2, <4>3, <4>4 DEF ResultGet, n
    <3> QED BY <1>1, <3>1, <3>2 DEF ResultGet, n
  <2>5. UNCHANGED <<storeVars, writerVars, runnerVars, inbox, faults>>
    BY <1>1 DEF ResultGet
  <2> QED BY <2>2, <2>3, <2>4, <2>5 DEF Inv1, TypeOK
<1>2. CASE Subscribed(w)
  <2>1. \E l \in {"done", "recheck"} : Goto(w, l)
    BY <1>2 DEF Subscribed
  <2>2. pc' \in [Processes -> WriterLabels \cup WaiterLabels] /\ PcOK'
    BY <2>1, GotoType DEF WaiterLabels
  <2>3. /\ handle' \in [Nodes -> BOOLEAN]
        /\ channel' \in [Nodes -> {"off", "opening", "on", "broken"}]
        /\ handlers' \in [Nodes -> Nat]
        /\ HandlesCounted'
    BY <1>2 DEF Subscribed, Inv1, TypeOK, HandlesCounted, n
  <2>4. UNCHANGED <<storeVars, writerVars, runnerVars, answer, callbacks, inbox, faults>>
    BY <1>2 DEF Subscribed
  <2> QED BY <2>2, <2>3, <2>4 DEF Inv1, TypeOK
<1>3. CASE ResultRead(w)
  <2>1. UNCHANGED <<storeVars, writerVars, runnerVars, inbox, faults>>
    BY <1>3 DEF ResultRead
  <2>2. \E l \in {"done", "polling"} : Goto(w, l)
    BY <1>3 DEF ResultRead, AfterLiveRead
  <2>3. pc' \in [Processes -> WriterLabels \cup WaiterLabels] /\ PcOK'
    BY <2>2, GotoType DEF WaiterLabels
  <2>4. CASE rec.status = "working"
    <3>1. UNCHANGED waiterVars
      BY <1>3, <2>4 DEF ResultRead
    <3> QED BY <2>1, <2>3, <3>1 DEF Inv1, TypeOK, HandlesCounted
  <2>5. CASE rec.status # "working"
    <3>1. Settle(n, {w}, rec) /\ rec \in Answers \ {NoAnswer}
      BY <1>3, <2>5, RecordFacts DEF ResultRead, n, Inv1, TypeOK
    <3> QED BY <2>1, <2>3, <3>1, SettleType DEF Inv1, TypeOK
  <2> QED BY <2>4, <2>5
<1>4. CASE WaiterFault(w)
  <2>1. pc' \in [Processes -> WriterLabels \cup WaiterLabels] /\ PcOK'
    BY <1>4, GotoType DEF WaiterFault, WaiterLabels
  <2>2. UNCHANGED <<storeVars, writerVars, runnerVars, inbox>> /\ faults' = faults + 1
    BY <1>4 DEF WaiterFault
  <2>3. CASE Settle(n, {w}, Rejected)
    <3>1. faults' \in Nat
      BY <2>2 DEF Inv1, TypeOK
    <3>2. Rejected \in Answers \ {NoAnswer} /\ {w} \in SUBSET Waiters
      BY RecordFacts
    <3> QED BY <2>1, <2>2, <2>3, <3>1, <3>2, SettleType DEF Inv1, TypeOK
  <2>4. CASE /\ answer' = [answer EXCEPT ![w] = IF @ = NoAnswer THEN Rejected ELSE @]
             /\ channel' = [channel EXCEPT ![n] = "broken"]
             /\ UNCHANGED <<callbacks, handle, handlers>>
    <3>1. answer' \in [Waiters -> Answers]
      BY <2>4, RecordFacts DEF Inv1, TypeOK
    <3>2. channel' \in [Nodes -> {"off", "opening", "on", "broken"}] /\ HandlesCounted'
      BY <2>4 DEF Inv1, TypeOK, HandlesCounted
    <3> QED BY <2>1, <2>2, <2>4, <3>1, <3>2 DEF Inv1, TypeOK
  <2> QED BY <1>4, <2>3, <2>4 DEF WaiterFault, n
<1> QED BY <1>1, <1>2, <1>3, <1>4

\* So do deliveries, expiry and crashes.
LEMMA EnvironmentInv1 ==
  ASSUME Inv1, Expire \/ \E n \in Nodes : DeliverTerminal(n) \/ Crash(n)
  PROVE  Inv1'
<1> USE DEF storeVars, writerVars, runnerVars, waiterVars
<1>1. CASE Expire
  BY <1>1, RecordFacts DEF Expire, Inv1, TypeOK, PcOK, HandlesCounted
<1>2. ASSUME NEW n \in Nodes, DeliverTerminal(n) PROVE Inv1'
  <2>1. Head(inbox[n]) \in Records /\ inbox' \in [Nodes -> Seq(Records)]
    BY <1>2 DEF DeliverTerminal, Inv1, TypeOK
  <2>2. UNCHANGED <<storeVars, pc, writerVars, runnerVars, faults>>
    BY <1>2 DEF DeliverTerminal
  <2>3. CASE handlers[n] > 0
    <3> DEFINE r == Head(inbox[n])
    <3>1. Settle(n, Hearers(n, r), r)
      BY <1>2, <2>3 DEF DeliverTerminal
    <3>2. Hearers(n, r) \in SUBSET Waiters
      BY DEF Hearers, Inv1, TypeOK
    <3>3. r \in Answers \ {NoAnswer}
      BY <2>1, RecordFacts
    <3> HIDE DEF r
    <3> QED BY <2>1, <2>2, <3>1, <3>2, <3>3, SettleType DEF Inv1, TypeOK, PcOK
  <2>4. CASE ~(handlers[n] > 0)
    BY <1>2, <2>1, <2>2, <2>4 DEF DeliverTerminal, Inv1, TypeOK, PcOK, HandlesCounted
  <2> QED BY <2>3, <2>4
<1>3. ASSUME NEW n \in Nodes, Crash(n) PROVE Inv1'
  <2>1. pc' = [p \in Processes |-> IF NodeOf[p] = n THEN "dead" ELSE pc[p]]
    BY <1>3 DEF Crash
  <2>2. pc' \in [Processes -> WriterLabels \cup WaiterLabels]
    BY <2>1 DEF Inv1, TypeOK, WriterLabels
  <2>3. PcOK'
    BY <2>1 DEF Inv1, PcOK, Labels, WaiterLabels
  <2>4. HandlesCounted'
    BY <1>3 DEF Crash, Inv1, TypeOK, HandlesCounted
  <2>5. /\ callbacks' \in [Nodes -> SUBSET Waiters]
        /\ handle' \in [Nodes -> BOOLEAN]
        /\ channel' \in [Nodes -> {"off", "opening", "on", "broken"}]
        /\ handlers' \in [Nodes -> Nat]
        /\ inbox' \in [Nodes -> Seq(Records)]
    BY <1>3 DEF Crash, Inv1, TypeOK
  <2> QED BY <1>3, <2>2, <2>3, <2>4, <2>5 DEF Crash, Inv1, TypeOK
<1> QED BY <1>1, <1>2, <1>3

LEMMA StepInv1 == Inv1 /\ [Next]_vars => Inv1'
<1> SUFFICES ASSUME Inv1, [Next]_vars PROVE Inv1'
  OBVIOUS
<1>1. CASE Next
  BY <1>1, WriterInv1, RunnerInv1, CancelInv1, WaiterInv1, EnvironmentInv1 DEF Next
<1>2. CASE UNCHANGED vars
  BY <1>2 DEF vars, storeVars, writerVars, runnerVars, waiterVars, Inv1, TypeOK, PcOK,
              HandlesCounted
<1> QED BY <1>1, <1>2

\* Every reachable state is well typed: in particular an adapter never counts
\* fewer than zero handlers, because a handle always stands for one.
THEOREM TypeCorrect == Spec => []TypeOK
<1>1. Inv1 => TypeOK
  BY DEF Inv1
<1> QED BY <1>1, InitInv1, StepInv1, PTL DEF Spec

----------------------------------------------------------------------------
(* Outcomes                                                                *)

LEMMA InitInv2 == Init => Inv2
BY ProcessFacts DEF Init, Inv2, CreatorFirst, SnapshotsFit, OutcomeMatchesStatus,
   OutcomeFits, Absent

\* What a writer writes back fits, and has no outcome while the runner is idle.
LEMMA MergedFits ==
  ASSUME Inv1, Inv2, NEW p \in Writers, pc[p] \in Writing
  PROVE  LET r == IF expired THEN Absent ELSE Merged(p, snap[p])
         IN  OutcomeFits(r) /\ (pc[Runner] = "idle" => r.outcome = "none")
<1> DEFINE s == snap[p]
<1>1. s \in Records /\ OutcomeFits(s) /\ pc[p] \in Labels(p)
  BY ProcessFacts DEF Inv1, Inv2, TypeOK, PcOK, SnapshotsFit
<1>2. pc[Runner] = "idle" => s.outcome = "none"
  BY DEF Inv2, SnapshotsFit
<1>3. OutcomeFits(Absent) /\ Absent.outcome = "none"
  BY DEF OutcomeFits, Absent
<1>4. CASE pc[p] = "execWrite"
  BY <1>1, <1>2, <1>3, <1>4 DEF Merged
<1>5. CASE pc[p] = "cancelWrite"
  <2>1. Merged(p, s) = [s EXCEPT !.status = "cancelled"]
    BY <1>5 DEF Merged
  <2>2. Merged(p, s).status = "cancelled" /\ Merged(p, s).outcome = s.outcome
    BY <2>1, <1>1 DEF Records
  <2>3. OutcomeFits(Merged(p, s))
    BY <2>2 DEF OutcomeFits
  <2> QED BY <2>2, <2>3, <1>2, <1>3
<1>6. CASE pc[p] = "failWrite" /\ p = Creator
  <2>1. Merged(p, s) = [s EXCEPT !.status = "failed"]
    BY <1>6, ProcessFacts DEF Merged
  <2>2. pc[Runner] = "idle"
    BY <1>6 DEF Inv2, CreatorFirst
  <2>3. Merged(p, s).status = "failed" /\ Merged(p, s).outcome = "none"
    BY <2>1, <2>2, <1>1, <1>2 DEF Records
  <2> QED BY <2>3, <1>3 DEF OutcomeFits
<1>7. CASE pc[p] = "failWrite" /\ p = Runner
  <2>1. Merged(p, s) = Failed
    BY <1>7, ProcessFacts DEF Merged
  <2> QED BY <2>1, <1>3, <1>7 DEF Failed, OutcomeFits
<1>8. CASE pc[p] = "finishWrite" /\ p = Runner
  <2>1. Merged(p, s) = final
    BY <1>8 DEF Merged
  <2> QED BY <2>1, <1>3, <1>8 DEF Inv2, SnapshotsFit
<1>9. \/ pc[p] = "execWrite" \/ pc[p] = "cancelWrite"
      \/ pc[p] = "failWrite" /\ (p = Creator \/ p = Runner)
      \/ pc[p] = "finishWrite" /\ p = Runner
  BY <1>1, UpdateLabels DEF Labels, Writers
<1> QED BY <1>4, <1>5, <1>6, <1>7, <1>8, <1>9

\* The labels of the create flow before it starts the runner.
BeforeRun == {"idle", "execRead", "execWrite", "failRead", "failWrite", "dispatch"}

\* A step that writes no record keeps Inv2 if the runner does not become about
\* to finish and nobody goes back to before its start.
LEMMA FrameInv2 ==
  ASSUME Inv2, rec' = rec,
         \A p \in Writers : snap'[p] = snap[p] \/ snap'[p] = Absent,
         pc'[Creator] = pc[Creator] \/ pc'[Creator] \notin BeforeRun,
         \A c \in Cancellers : pc'[c] = pc[c] \/ pc'[c] = "dead" \/ pc'[Creator] # "idle",
         \/ pc'[Runner] = pc[Runner] /\ final' = final
         \/ /\ pc'[Runner] \notin {"idle", "finishRead", "finishWrite"}
            /\ pc[Runner] # "idle" \/ pc'[Creator] \notin BeforeRun
  PROVE  Inv2'
<1>1. OutcomeMatchesStatus'
  BY DEF Inv2, OutcomeMatchesStatus, OutcomeFits
<1>2. CreatorFirst'
  BY DEF Inv2, CreatorFirst, BeforeRun
<1>3. \A p \in Writers : OutcomeFits(snap'[p])
  BY DEF Inv2, SnapshotsFit, OutcomeFits, Absent
<1>4. pc'[Runner] \in {"finishRead", "finishWrite"} => OutcomeFits(final')
  BY DEF Inv2, SnapshotsFit
<1>5. pc'[Runner] = "idle" => rec'.outcome = "none" /\ \A p \in Writers : snap'[p].outcome = "none"
  BY DEF Inv2, SnapshotsFit, Absent
<1> QED BY <1>1, <1>2, <1>3, <1>4, <1>5 DEF Inv2, SnapshotsFit, OutcomeFits

LEMMA WriterInv2 ==
  ASSUME Inv1, Inv2, NEW p \in Writers, UpdateRead(p) \/ UpdateWrite(p) \/ WriterFault(p)
  PROVE  Inv2'
<1> p \in Processes /\ Creator \in Processes /\ Runner \in Processes /\ Creator # Runner
  BY ProcessFacts
<1>0. pc \in [Processes -> WriterLabels \cup WaiterLabels] /\ snap \in [Writers -> Records]
  BY DEF Inv1, TypeOK
<1>1. CASE UpdateRead(p)
  <2> DEFINE l == IF rec = Absent THEN AfterUpdate(p, Absent) ELSE WriteOf[pc[p]]
  <2>1. /\ rec' = rec /\ final' = final /\ snap' = [snap EXCEPT ![p] = rec]
        /\ pc' = [pc EXCEPT ![p] = l] /\ pc[p] \in Reading
    BY <1>1 DEF UpdateRead, Goto, storeVars
  <2>2. l \notin {"idle", "finishRead"} /\ (l = "finishWrite" => pc[p] = "finishRead")
    BY <2>1, UpdateLabels, ProcessFacts DEF AfterUpdate, Writers
  <2>3. p = Creator => pc[Runner] = "idle"
    BY <2>1, UpdateLabels DEF Inv1, Inv2, PcOK, Labels, CreatorFirst
  <2>4. p = Runner => pc[Runner] # "idle"
    BY <2>1, UpdateLabels
  <2> HIDE DEF l
  <2>5. CreatorFirst'
    <3>1. pc'[Creator] = "idle" => pc[Creator] = "idle"
      BY <2>1, <2>2, <1>0
    <3>2. pc[Creator] # "idle"
      BY <2>1, UpdateLabels, ProcessFacts DEF Inv2, CreatorFirst, Writers
    <3> QED BY <3>1, <3>2, <2>1, <2>2, <2>3, <2>4, <1>0 DEF Inv2, CreatorFirst
  <2>6. OutcomeMatchesStatus'
    BY <2>1 DEF Inv2, OutcomeMatchesStatus, OutcomeFits
  <2>7. \A q \in Writers : OutcomeFits(snap'[q]) /\ (pc[Runner] = "idle" => snap'[q].outcome = "none")
    BY <2>1, <1>0 DEF Inv2, OutcomeMatchesStatus, SnapshotsFit
  <2>8. pc'[Runner] = "idle" => pc[Runner] = "idle"
    BY <2>1, <2>2, <1>0
  <2>9. pc'[Runner] \in {"finishRead", "finishWrite"} => OutcomeFits(final')
    BY <2>1, <2>2, <1>0 DEF Inv2, SnapshotsFit
  <2> QED BY <2>1, <2>5, <2>6, <2>7, <2>8, <2>9 DEF Inv2, SnapshotsFit, OutcomeFits
<1>2. CASE UpdateWrite(p)
  <2> DEFINE r == IF expired THEN Absent ELSE Merged(p, snap[p])
             l == AfterUpdate(p, r)
  <2>1. /\ rec' = r /\ final' = final /\ snap' = [snap EXCEPT ![p] = r]
        /\ pc' = [pc EXCEPT ![p] = l] /\ pc[p] \in Writing
    BY <1>2 DEF UpdateWrite, Goto
  <2>2. OutcomeFits(r) /\ (pc[Runner] = "idle" => r.outcome = "none")
    BY <2>1, MergedFits
  <2>3. l \notin {"idle", "finishRead", "finishWrite"}
    BY DEF AfterUpdate
  <2>4. p = Creator => pc[Runner] = "idle"
    BY <2>1, UpdateLabels DEF Inv1, Inv2, PcOK, Labels, CreatorFirst
  <2>5. p = Runner => pc[Runner] # "idle"
    BY <2>1, UpdateLabels
  <2>6. pc[Creator] # "idle"
    BY <2>1, UpdateLabels, ProcessFacts DEF Inv2, CreatorFirst, Writers
  <2> HIDE DEF r, l
  <2>7. CreatorFirst'
    BY <2>1, <2>3, <2>4, <2>5, <2>6, <1>0 DEF Inv2, CreatorFirst
  <2>8. \A q \in Writers : OutcomeFits(snap'[q]) /\ (pc[Runner] = "idle" => snap'[q].outcome = "none")
    BY <2>1, <2>2, <1>0 DEF Inv2, SnapshotsFit
  <2>9. pc'[Runner] = "idle" => pc[Runner] = "idle"
    BY <2>1, <2>3, <1>0
  <2>10. pc'[Runner] \in {"finishRead", "finishWrite"} => OutcomeFits(final')
    BY <2>1, <2>3, <1>0 DEF Inv2, SnapshotsFit
  <2> QED BY <2>1, <2>2, <2>7, <2>8, <2>9, <2>10
          DEF Inv2, SnapshotsFit, OutcomeFits, OutcomeMatchesStatus
<1>3. CASE WriterFault(p)
  <2>1. /\ UNCHANGED <<rec, snap, final>> /\ pc' = [pc EXCEPT ![p] = AfterFault(p)]
        /\ pc[Creator] # "idle" \/ p = Creator
    BY <1>3, UpdateLabels, ProcessFacts
       DEF WriterFault, Goto, storeVars, writerVars, Announced, Inv2, CreatorFirst, Writers
  <2>2. AfterFault(p) \notin {"idle", "finishRead", "finishWrite", "execRead"}
    BY DEF AfterFault
  <2>3. p = Runner => pc[Runner] # "idle"
    BY <1>3, UpdateLabels, ProcessFacts DEF WriterFault
  <2>4. p = Creator => pc[Creator] \in BeforeRun
    BY <1>3, UpdateLabels, ProcessFacts DEF WriterFault, Inv1, PcOK, Labels, BeforeRun
  <2>5. CreatorFirst'
    BY <2>1, <2>2, <2>3, <2>4, <1>0 DEF Inv2, CreatorFirst, BeforeRun
  <2>6. OutcomeMatchesStatus'
    BY <2>1 DEF Inv2, OutcomeMatchesStatus, OutcomeFits
  <2>7. pc'[Runner] = "idle" => pc[Runner] = "idle"
    BY <2>1, <2>2, <1>0
  <2>8. pc'[Runner] \in {"finishRead", "finishWrite"} => OutcomeFits(final')
    BY <2>1, <2>2, <1>0 DEF Inv2, SnapshotsFit
  <2> QED BY <2>1, <2>5, <2>6, <2>7, <2>8 DEF Inv2, SnapshotsFit, OutcomeFits
<1> QED BY <1>1, <1>2, <1>3

LEMMA RunnerInv2 ==
  ASSUME Inv1, Inv2,
         \/ CreateTask \/ RunInBackground
         \/ StartExecution \/ CancelSubscribed \/ ToolReturns \/ CheckStored
         \/ RunnerPublish \/ Cleanup \/ DeliverCancel
  PROVE  Inv2'
<1> Creator \in Processes /\ Runner \in Processes /\ Creator # Runner
    /\ Creator \in Writers /\ Runner \in Writers
    /\ \A c \in Cancellers : c \in Processes /\ c # Creator /\ c # Runner
  BY ProcessFacts
<1>0. pc \in [Processes -> WriterLabels \cup WaiterLabels] /\ snap \in [Writers -> Records]
      /\ final \in Records /\ aborted \in BOOLEAN
  BY DEF Inv1, TypeOK
<1> USE DEF storeVars, writerVars, Goto
<1>1. CASE CreateTask
  <2>1. /\ pc[Creator] = "idle" /\ pc' = [pc EXCEPT ![Creator] = "execRead"]
        /\ rec' = Working \/ rec' = rec
        /\ UNCHANGED <<snap, final>>
    BY <1>1 DEF CreateTask
  <2>2. CreatorFirst'
    BY <2>1, <1>0 DEF Inv2, CreatorFirst
  <2>3. OutcomeMatchesStatus' /\ (pc[Runner] = "idle" => rec'.outcome = "none")
    BY <2>1 DEF Inv2, OutcomeMatchesStatus, OutcomeFits, SnapshotsFit, Working
  <2>4. pc'[Runner] = pc[Runner]
    BY <2>1, <1>0
  <2> QED BY <2>1, <2>2, <2>3, <2>4 DEF Inv2, SnapshotsFit, OutcomeFits
<1>2. CASE RunInBackground
  <2>1. pc'[Creator] = "responded" /\ pc'[Runner] = "scheduled"
    BY <1>2, <1>0 DEF RunInBackground
  <2> QED BY <1>2, <2>1, <1>0, FrameInv2 DEF RunInBackground, BeforeRun
<1>3. CASE CheckStored
  <2>1. /\ rec' = rec /\ snap' = [snap EXCEPT ![Runner] = rec]
        /\ final' = FinalPatch(final.outcome, aborted) /\ pc[Runner] = "check"
        /\ \E l \in {"cleanup", "publish", "finishRead"} : pc' = [pc EXCEPT ![Runner] = l]
    <3> DEFINE l == CASE rec = Absent -> "cleanup"
                      [] IsTerminal(rec) -> "publish"
                      [] OTHER -> "finishRead"
    <3>1. l \in {"cleanup", "publish", "finishRead"}
      OBVIOUS
    <3>2. pc' = [pc EXCEPT ![Runner] = l]
      BY <1>3 DEF CheckStored
    <3> HIDE DEF l
    <3> QED BY <1>3, <3>1, <3>2 DEF CheckStored
  <2>2. OutcomeFits(final')
    BY <2>1, <1>0, FinalPatchType DEF Records
  <2>3. CreatorFirst'
    BY <2>1, <1>0 DEF Inv2, CreatorFirst
  <2>4. \A q \in Writers : OutcomeFits(snap'[q])
    BY <2>1, <1>0 DEF Inv2, OutcomeMatchesStatus, SnapshotsFit
  <2>5. pc'[Runner] # "idle"
    BY <2>1, <1>0
  <2>6. OutcomeMatchesStatus'
    BY <2>1 DEF Inv2, OutcomeMatchesStatus, OutcomeFits
  <2> QED BY <2>2, <2>3, <2>4, <2>5, <2>6 DEF Inv2, SnapshotsFit, OutcomeFits
<1>4. CASE DeliverCancel
  BY <1>4, FrameInv2 DEF DeliverCancel
<1>5. CASE StartExecution \/ CancelSubscribed \/ ToolReturns \/ RunnerPublish \/ Cleanup
  <2>1. /\ rec' = rec /\ pc[Runner] # "idle"
        /\ snap' = snap \/ snap' = [snap EXCEPT ![Runner] = Absent]
        /\ \E l \in {"subscribing", "running", "check", "cleanup", "done"} :
             pc' = [pc EXCEPT ![Runner] = l]
    BY <1>5 DEF StartExecution, CancelSubscribed, ToolReturns, RunnerPublish, Cleanup
  <2>2. \A p \in Writers : snap'[p] = snap[p] \/ snap'[p] = Absent
    BY <2>1, <1>0
  <2>3. pc'[Runner] \notin {"idle", "finishRead", "finishWrite"}
    BY <2>1, <1>0
  <2>4. pc'[Creator] = pc[Creator] /\ \A c \in Cancellers : pc'[c] = pc[c]
    BY <2>1, <1>0
  <2> QED BY <2>1, <2>2, <2>3, <2>4, FrameInv2
<1> QED BY <1>1, <1>2, <1>3, <1>4, <1>5

LEMMA CancelInv2 ==
  ASSUME Inv1, Inv2, NEW c \in Cancellers, CancelGet(c) \/ CancelSignal(c) \/ CancelPublish(c)
  PROVE  Inv2'
<1> /\ c \in Processes /\ c \in Writers /\ c # Creator /\ c # Runner
    /\ Creator \in Processes /\ Runner \in Processes
    /\ \A d \in Cancellers : d \in Processes
  BY ProcessFacts
<1>0. pc \in [Processes -> WriterLabels \cup WaiterLabels] /\ snap \in [Writers -> Records]
  BY DEF Inv1, TypeOK
<1>1. /\ rec' = rec /\ final' = final
      /\ snap' = snap \/ snap' = [snap EXCEPT ![c] = Absent]
      /\ \E l \in {"cancelRead", "refused", "publish", "ok"} : pc' = [pc EXCEPT ![c] = l]
      /\ pc[Creator] # "idle"
  BY DEF CancelGet, CancelSignal, CancelPublish, Goto, storeVars, writerVars, Announced,
         Inv2, CreatorFirst
<1>2. pc'[Creator] = pc[Creator] /\ pc'[Runner] = pc[Runner]
  BY <1>0, <1>1
<1>3. \A p \in Writers : snap'[p] = snap[p] \/ snap'[p] = Absent
  BY <1>0, <1>1
<1> QED BY <1>1, <1>2, <1>3, FrameInv2

LEMMA OthersInv2 ==
  ASSUME Inv1, Inv2,
         \/ \E w \in Waiters : ResultGet(w) \/ Subscribed(w) \/ ResultRead(w) \/ WaiterFault(w)
         \/ \E n \in Nodes : DeliverTerminal(n)
  PROVE  Inv2'
<1>0. pc \in [Processes -> WriterLabels \cup WaiterLabels]
  BY DEF Inv1, TypeOK
<1>1. /\ UNCHANGED <<rec, snap, final>>
      /\ pc' = pc \/ \E w \in Waiters, l \in WaiterLabels : pc' = [pc EXCEPT ![w] = l]
  BY DEF ResultGet, Subscribed, ResultRead, WaiterFault, DeliverTerminal, AfterLiveRead,
         Goto, storeVars, writerVars, WaiterLabels
<1>2. \A p \in Writers : pc'[p] = pc[p]
  BY <1>0, <1>1, ProcessFacts
<1> QED BY <1>1, <1>2, ProcessFacts, FrameInv2

LEMMA EnvironmentInv2 ==
  ASSUME Inv1, Inv2, Expire \/ \E n \in Nodes : Crash(n)
  PROVE  Inv2'
<1>1. CASE Expire
  <2>1. rec' = Absent /\ UNCHANGED <<pc, snap, final>>
    BY <1>1 DEF Expire, writerVars
  <2> QED BY <2>1 DEF Inv2, CreatorFirst, SnapshotsFit, OutcomeMatchesStatus, OutcomeFits, Absent
<1>2. ASSUME NEW n \in Nodes, Crash(n) PROVE Inv2'
  <2>1. /\ UNCHANGED <<rec, snap, final>>
        /\ pc' = [p \in Processes |-> IF NodeOf[p] = n THEN "dead" ELSE pc[p]]
    BY <1>2 DEF Crash, storeVars, writerVars
  <2>2. /\ \A c \in Cancellers : pc'[c] = pc[c] \/ pc'[c] = "dead"
        /\ \/ pc'[Creator] = "dead" /\ pc'[Runner] = "dead"
           \/ pc'[Creator] = pc[Creator] /\ pc'[Runner] = pc[Runner]
    BY <2>1, ProcessFacts, TasksAssumption
  <2> QED BY <2>1, <2>2, FrameInv2 DEF BeforeRun
<1> QED BY <1>1, <1>2

LEMMA StepInv2 == Inv1 /\ Inv2 /\ [Next]_vars => Inv2'
<1> SUFFICES ASSUME Inv1, Inv2, [Next]_vars PROVE Inv2'
  OBVIOUS
<1>1. CASE Next
  BY <1>1, WriterInv2, RunnerInv2, CancelInv2, OthersInv2, EnvironmentInv2 DEF Next
<1>2. CASE UNCHANGED vars
  BY <1>2 DEF vars, storeVars, writerVars, Inv2, CreatorFirst, SnapshotsFit,
              OutcomeMatchesStatus, OutcomeFits
<1> QED BY <1>1, <1>2

\* However the read-modify-writes of the create flow, the runner and any number
\* of cancels interleave, and whatever fails, a stored status and a stored
\* outcome belong together.
THEOREM OutcomesCorrect == Spec => []OutcomeMatchesStatus
<1>1. Inv2 => OutcomeMatchesStatus
  BY DEF Inv2
<1> QED BY <1>1, InitInv1, StepInv1, InitInv2, StepInv2, PTL DEF Spec

\* A settled record is not overwritten: the only steps that change it while no
\* handler is inside an update are its expiry and a storage fault.
THEOREM SettledCorrect == Spec => SettledStays
<1>1. ASSUME Inv1, Inv2, Next, Settled
      PROVE  (Settled' /\ rec' = rec) \/ rec' = Absent \/ faults' > faults
  <2> USE DEF storeVars
  <2>0. /\ pc \in [Processes -> WriterLabels \cup WaiterLabels] /\ faults \in Nat
        /\ \A p \in Writers : pc[p] \notin Reading \cup Writing
        /\ IsTerminal(rec) /\ pc[Creator] # "idle"
    BY <1>1 DEF Inv1, Inv2, TypeOK, Settled, CreatorFirst, IsTerminal, Terminal, Absent
  \* A step that leaves the record and sends nobody into an update.
  <2>1. ASSUME rec' = rec,
               \/ pc' = pc
               \/ \E p \in Processes, l \in WriterLabels \cup WaiterLabels :
                    l \notin Reading \cup Writing /\ pc' = [pc EXCEPT ![p] = l]
        PROVE  Settled'
    <3>1. \A p \in Writers : pc'[p] \notin Reading \cup Writing
      BY <2>0, <2>1, ProcessFacts
    <3> QED BY <2>0, <2>1, <3>1 DEF Settled, IsTerminal
  <2>2. CASE CreateTask \/ \E p \in Writers : UpdateRead(p) \/ UpdateWrite(p) \/ WriterFault(p)
    BY <2>0, <2>2 DEF CreateTask, UpdateRead, UpdateWrite, WriterFault
  <2>3. CASE RunInBackground
    <3>1. rec' = rec /\ pc' = [pc EXCEPT ![Creator] = "responded", ![Runner] = "scheduled"]
      BY <2>3 DEF RunInBackground
    <3>2. \A p \in Writers : pc'[p] \notin Reading \cup Writing
      BY <2>0, <3>1, ProcessFacts, UpdateLabels
    <3> QED BY <2>0, <3>1, <3>2 DEF Settled, IsTerminal
  <2>4. CASE StartExecution \/ CancelSubscribed \/ ToolReturns \/ RunnerPublish \/ Cleanup
    <3>1. rec' = rec /\ \E l \in {"subscribing", "running", "check", "cleanup", "done"} :
            pc' = [pc EXCEPT ![Runner] = l]
      BY <2>4 DEF StartExecution, CancelSubscribed, ToolReturns, RunnerPublish, Cleanup, Goto
    <3> QED BY <2>1, <3>1, ProcessFacts, UpdateLabels DEF WriterLabels
  <2>5. CASE CheckStored
    <3>1. rec' = rec /\ \E l \in {"cleanup", "publish"} : pc' = [pc EXCEPT ![Runner] = l]
      BY <2>0, <2>5 DEF CheckStored, Goto
    <3> QED BY <2>1, <3>1, ProcessFacts, UpdateLabels DEF WriterLabels
  <2>6. CASE DeliverCancel \/ \E n \in Nodes : DeliverTerminal(n)
    BY <2>1, <2>6 DEF DeliverCancel, DeliverTerminal
  <2>7. ASSUME NEW c \in Cancellers, CancelGet(c) \/ CancelSignal(c) \/ CancelPublish(c)
        PROVE  Settled' /\ rec' = rec
    <3>1. ~CancelAllowed(rec)
      BY <2>0 DEF IsTerminal, Terminal, CancelAllowed
    <3>2. rec' = rec /\ \E l \in {"refused", "publish", "ok"} : pc' = [pc EXCEPT ![c] = l]
      BY <2>7, <3>1 DEF CancelGet, CancelSignal, CancelPublish, Goto
    <3> QED BY <2>1, <3>2, ProcessFacts, UpdateLabels DEF WriterLabels
  <2>8. ASSUME NEW w \in Waiters,
               ResultGet(w) \/ Subscribed(w) \/ ResultRead(w) \/ WaiterFault(w)
        PROVE  Settled' /\ rec' = rec
    <3>1. rec' = rec /\ \E l \in WaiterLabels : pc' = [pc EXCEPT ![w] = l]
      BY <2>8 DEF ResultGet, Subscribed, ResultRead, WaiterFault, AfterLiveRead, Goto, WaiterLabels
    <3> QED BY <2>1, <3>1, ProcessFacts, UpdateLabels DEF WaiterLabels
  <2>9. CASE Expire \/ \E n \in Nodes : Crash(n)
    BY <2>0, <2>9 DEF Expire, Crash
  <2> QED BY <1>1, <2>2, <2>3, <2>4, <2>5, <2>6, <2>7, <2>8, <2>9 DEF Next
<1>2. Inv1 /\ Inv2 /\ [Next]_vars =>
        [Settled => (Settled' /\ rec' = rec) \/ rec' = Absent \/ faults' > faults]_vars
  BY <1>1
<1> QED BY <1>2, InitInv1, StepInv1, InitInv2, StepInv2, PTL DEF Spec, SettledStays

----------------------------------------------------------------------------
(* Subscriptions                                                           *)

LEMMA InitInv3 == Init => Inv3
BY ProcessFacts DEF Init, Inv3, OpeningJoined, ListenersStayConnected

\* Settling the waiters of S disturbs no other waiter: a callback outside S
\* keeps the node's handle from being dropped.
LEMMA SettleInv3 ==
  ASSUME Inv1, Inv3, NEW n \in Nodes, NEW S \in SUBSET Waiters,
         NEW r \in Answers \ {NoAnswer}, Settle(n, S, r),
         \A w \in Waiters : pc'[w] = pc[w] \/ (w \in S /\ pc'[w] = "done")
                                           \/ pc'[w] = "dead"
  PROVE  Inv3'
<1> DEFINE gone == CanUnsubscribe(S) \cap callbacks[n]
           drop == DropsHandle(n, gone)
<1>1. /\ answer' = [w \in Waiters |-> IF w \in S THEN r ELSE answer[w]]
      /\ callbacks' = [callbacks EXCEPT ![n] = @ \ gone]
      /\ handlers' = [handlers EXCEPT ![n] = IF drop THEN @ - 1 ELSE @]
      /\ channel' = [channel EXCEPT ![n] = IF drop /\ handlers[n] = 1 THEN "off" ELSE @]
  BY DEF Settle
<1>2. /\ callbacks \in [Nodes -> SUBSET Waiters] /\ handlers \in [Nodes -> Nat]
      /\ channel \in [Nodes -> {"off", "opening", "on", "broken"}]
  BY DEF Inv1, TypeOK
<1>3. drop => callbacks[n] \subseteq S
  BY DEF DropsHandle, CanUnsubscribe
<1>4. gone \subseteq {w \in S : pc[w] # "opening"}
  BY DEF CanUnsubscribe
<1> HIDE DEF gone, drop
<1>5. OpeningJoined'
  <2> SUFFICES ASSUME NEW w \in Waiters, pc'[w] = "opening"
               PROVE  w \in callbacks'[NodeOf[w]]
    BY DEF OpeningJoined
  <2>1. pc[w] = "opening" /\ w \in callbacks[NodeOf[w]] /\ NodeOf[w] \in Nodes
    BY ProcessFacts DEF Inv3, OpeningJoined
  <2> QED BY <1>1, <1>2, <1>4, <2>1
<1>6. ListenersStayConnected'
  <2> SUFFICES ASSUME NEW w \in Waiters, pc'[w] \in {"recheck", "polling"},
                      answer'[w] = NoAnswer
               PROVE  /\ w \in callbacks'[NodeOf[w]] /\ handlers'[NodeOf[w]] > 0
                      /\ channel'[NodeOf[w]] # "off"
    BY DEF ListenersStayConnected
  <2>1. w \notin S /\ answer[w] = NoAnswer /\ pc[w] \in {"recheck", "polling"}
    BY <1>1
  <2>2. /\ w \in callbacks[NodeOf[w]] /\ handlers[NodeOf[w]] > 0
        /\ channel[NodeOf[w]] # "off" /\ NodeOf[w] \in Nodes
    BY <2>1, ProcessFacts DEF Inv3, ListenersStayConnected
  <2>3. w \in callbacks'[NodeOf[w]]
    BY <1>1, <1>2, <1>4, <2>1, <2>2
  <2>4. NodeOf[w] = n => ~drop
    BY <1>3, <2>1, <2>2
  <2> QED BY <1>1, <1>2, <2>2, <2>3, <2>4
<1> QED BY <1>5, <1>6 DEF Inv3

\* A step that touches no subscription, and starts no waiter, keeps Inv3.
LEMMA FrameInv3 ==
  ASSUME Inv3, UNCHANGED waiterVars,
         \A w \in Waiters : \/ pc'[w] = pc[w] \/ pc'[w] = "dead"
                            \/ pc'[w] = "polling" /\ pc[w] \in {"recheck", "polling"}
  PROVE  Inv3'
BY DEF waiterVars, Inv3, OpeningJoined, ListenersStayConnected

LEMMA PublishInv3 ==
  ASSUME Inv1, Inv3, NEW n \in Nodes, NEW r \in Records, PublishTerminal(n, r),
         \A w \in Waiters : pc'[w] = pc[w]
  PROVE  Inv3'
<1>1. CASE Broadcast(r)
  BY <1>1, FrameInv3 DEF Broadcast
<1>2. CASE FanOutLocal(n, r)
  <2>1. Hearers(n, r) \in SUBSET Waiters
    BY DEF Hearers, Inv1, TypeOK
  <2>2. Settle(n, Hearers(n, r), r)
    BY <1>2 DEF FanOutLocal
  <2>3. r \in Answers \ {NoAnswer}
    BY RecordFacts
  <2> QED BY <2>1, <2>2, <2>3, SettleInv3
<1> QED BY <1>1, <1>2 DEF PublishTerminal

LEMMA WritersInv3 ==
  ASSUME Inv1, Inv3,
         \/ CreateTask \/ RunInBackground
         \/ StartExecution \/ CancelSubscribed \/ ToolReturns \/ CheckStored
         \/ RunnerPublish \/ Cleanup \/ DeliverCancel
         \/ \E p \in Writers : UpdateRead(p) \/ UpdateWrite(p) \/ WriterFault(p)
         \/ \E c \in Cancellers : CancelGet(c) \/ CancelSignal(c) \/ CancelPublish(c)
  PROVE  Inv3'
<1>0. pc \in [Processes -> WriterLabels \cup WaiterLabels] /\ snap \in [Writers -> Records]
  BY DEF Inv1, TypeOK
<1>1. \A w \in Waiters : pc'[w] = pc[w]
  <2>1. CASE RunInBackground
    BY <1>0, <2>1, ProcessFacts DEF RunInBackground
  <2>2. CASE DeliverCancel
    BY <2>2 DEF DeliverCancel
  <2>3. CASE ~RunInBackground /\ ~DeliverCancel
    <3>1. \E p \in Writers : \E l : pc' = [pc EXCEPT ![p] = l]
      BY <2>3, ProcessFacts
         DEF CreateTask, StartExecution, CancelSubscribed, ToolReturns, CheckStored,
             RunnerPublish, Cleanup, UpdateRead, UpdateWrite, WriterFault,
             CancelGet, CancelSignal, CancelPublish, Goto
    <3> QED BY <1>0, <3>1, ProcessFacts
  <2> QED BY <2>1, <2>2, <2>3
<1>2. CASE RunnerPublish
  <2>1. PublishTerminal(Home, snap[Runner]) /\ snap[Runner] \in Records /\ Home \in Nodes
    BY <1>0, <1>2, ProcessFacts DEF RunnerPublish
  <2> QED BY <1>1, <2>1, PublishInv3
<1>3. ASSUME NEW c \in Cancellers, CancelPublish(c) PROVE Inv3'
  <2>1. PublishTerminal(NodeOf[c], snap[c]) /\ snap[c] \in Records /\ NodeOf[c] \in Nodes
    BY <1>0, <1>3, ProcessFacts DEF CancelPublish
  <2> QED BY <1>1, <2>1, PublishInv3
<1>4. CASE UNCHANGED waiterVars
  BY <1>1, <1>4, FrameInv3
<1> QED BY <1>2, <1>3, <1>4
        DEF CreateTask, RunInBackground, StartExecution, CancelSubscribed, ToolReturns,
            CheckStored, Cleanup, DeliverCancel, UpdateRead, UpdateWrite, WriterFault,
            CancelGet, CancelSignal

LEMMA WaiterInv3 ==
  ASSUME Inv1, Inv3, NEW w \in Waiters,
         ResultGet(w) \/ Subscribed(w) \/ ResultRead(w) \/ WaiterFault(w)
  PROVE  Inv3'
<1> DEFINE n == NodeOf[w]
<1> n \in Nodes /\ w \in Processes /\ \A v \in Waiters : v \in Processes /\ NodeOf[v] \in Nodes
  BY ProcessFacts
<1>0. /\ pc \in [Processes -> WriterLabels \cup WaiterLabels]
      /\ callbacks \in [Nodes -> SUBSET Waiters] /\ handlers \in [Nodes -> Nat]
      /\ channel \in [Nodes -> {"off", "opening", "on", "broken"}]
      /\ answer \in [Waiters -> Answers] /\ handle \in [Nodes -> BOOLEAN]
  BY DEF Inv1, TypeOK
<1> HIDE DEF n
<1>1. CASE ResultGet(w)
  <2>1. CASE rec.status # "working"
    <3>1. /\ pc' = [pc EXCEPT ![w] = "done"] /\ answer' = [answer EXCEPT ![w] = rec]
          /\ UNCHANGED <<callbacks, handle, channel, handlers>>
      BY <1>1, <2>1 DEF ResultGet, Goto
    <3> QED BY <3>1, <1>0 DEF Inv3, OpeningJoined, ListenersStayConnected
  <2>2. CASE rec.status = "working"
    <3>1. /\ callbacks' = [callbacks EXCEPT ![n] = @ \cup {w}] /\ answer' = answer
          /\ \E l \in {"recheck", "opening"} : pc' = [pc EXCEPT ![w] = l]
      BY <1>1, <2>2 DEF ResultGet, Goto, n
    <3>2. OpeningJoined'
      BY <3>1, <1>0 DEF Inv3, OpeningJoined, n
    <3>3. /\ \A m \in Nodes : handlers[m] > 0 => handlers'[m] > 0
          /\ \A m \in Nodes : channel[m] # "off" => channel'[m] # "off"
          /\ pc'[w] = "recheck" => handlers'[n] > 0 /\ channel'[n] # "off"
      <4>1. CASE handle[n] /\ UNCHANGED <<handle, channel, handlers>>
        BY <4>1, <1>0 DEF Inv1, HandlesCounted
      <4>2. CASE /\ channel' = [channel EXCEPT ![n] = "opening"]
                 /\ pc' = [pc EXCEPT ![w] = "opening"] /\ UNCHANGED handlers
        BY <4>2, <1>0
      <4>3. CASE /\ channel[n] # "off" /\ handlers' = [handlers EXCEPT ![n] = @ + 1]
                 /\ UNCHANGED channel
        BY <4>3, <1>0
      <4>4. \/ handle[n] /\ UNCHANGED <<handle, channel, handlers>>
            \/ /\ channel' = [channel EXCEPT ![n] = "opening"]
               /\ pc' = [pc EXCEPT ![w] = "opening"] /\ UNCHANGED handlers
            \/ /\ channel[n] # "off" /\ handlers' = [handlers EXCEPT ![n] = @ + 1]
               /\ UNCHANGED channel
        BY <1>1, <2>2 DEF ResultGet, Goto, n
      <4> QED BY <4>1, <4>2, <4>3, <4>4
    <3>4. ListenersStayConnected'
      <4> SUFFICES ASSUME NEW v \in Waiters, pc'[v] \in {"recheck", "polling"},
                          answer'[v] = NoAnswer
                   PROVE  /\ v \in callbacks'[NodeOf[v]] /\ handlers'[NodeOf[v]] > 0
                          /\ channel'[NodeOf[v]] # "off"
        BY DEF ListenersStayConnected
      <4>1. CASE v = w
        BY <3>1, <3>3, <4>1, <1>0 DEF n
      <4>2. CASE v # w
        <5>1. /\ v \in callbacks[NodeOf[v]] /\ handlers[NodeOf[v]] > 0
              /\ channel[NodeOf[v]] # "off"
          BY <3>1, <4>2, <1>0 DEF Inv3, ListenersStayConnected
        <5> QED BY <3>1, <3>3, <5>1, <1>0
      <4> QED BY <4>1, <4>2
    <3> QED BY <3>2, <3>4 DEF Inv3
  <2> QED BY <2>1, <2>2
<1>2. CASE Subscribed(w)
  <2>1. /\ channel' = [channel EXCEPT ![n] = "on"]
        /\ handlers' = [handlers EXCEPT ![n] = @ + 1]
        /\ pc[w] = "opening" /\ UNCHANGED <<answer, callbacks>>
        /\ \E l \in {"recheck", "done"} : pc' = [pc EXCEPT ![w] = l]
    BY <1>2 DEF Subscribed, Goto, n
  <2>2. w \in callbacks[n] /\ handlers'[n] > 0 /\ channel'[n] # "off"
    BY <2>1, <1>0 DEF Inv3, OpeningJoined, n
  <2>3. OpeningJoined'
    BY <2>1, <1>0 DEF Inv3, OpeningJoined
  <2>4. ListenersStayConnected'
    BY <2>1, <2>2, <1>0 DEF Inv3, ListenersStayConnected, n
  <2> QED BY <2>3, <2>4 DEF Inv3
<1>3. CASE ResultRead(w)
  <2>1. CASE rec.status = "working"
    <3>1. UNCHANGED waiterVars /\ pc' = [pc EXCEPT ![w] = "polling"]
          /\ pc[w] \in {"recheck", "polling"}
      BY <1>3, <2>1 DEF ResultRead, AfterLiveRead, Goto
    <3> QED BY <3>1, <1>0, FrameInv3
  <2>2. CASE rec.status # "working"
    <3>1. Settle(n, {w}, rec) /\ pc' = [pc EXCEPT ![w] = "done"]
      BY <1>3, <2>2 DEF ResultRead, Goto, n
    <3>2. rec \in Answers \ {NoAnswer}
      BY RecordFacts DEF Inv1, TypeOK
    <3> QED BY <3>1, <3>2, <1>0, SettleInv3
  <2> QED BY <2>1, <2>2
<1>4. CASE WaiterFault(w)
  <2>1. pc' = [pc EXCEPT ![w] = "done"]
    BY <1>4 DEF WaiterFault, Goto
  <2>2. CASE Settle(n, {w}, Rejected)
    BY <2>1, <2>2, <1>0, RecordFacts, SettleInv3
  <2>3. CASE /\ answer' = [answer EXCEPT ![w] = IF @ = NoAnswer THEN Rejected ELSE @]
             /\ channel' = [channel EXCEPT ![n] = "broken"]
             /\ UNCHANGED <<callbacks, handle, handlers>>
    BY <2>1, <2>3, <1>0 DEF Inv3, OpeningJoined, ListenersStayConnected
  <2> QED BY <1>4, <2>2, <2>3 DEF WaiterFault, n
<1> QED BY <1>1, <1>2, <1>3, <1>4

LEMMA EnvironmentInv3 ==
  ASSUME Inv1, Inv3, Expire \/ \E n \in Nodes : DeliverTerminal(n) \/ Crash(n)
  PROVE  Inv3'
<1>1. CASE Expire
  BY <1>1, FrameInv3 DEF Expire
<1>2. ASSUME NEW n \in Nodes, DeliverTerminal(n) PROVE Inv3'
  <2> DEFINE r == Head(inbox[n])
  <2>1. pc' = pc
    BY <1>2 DEF DeliverTerminal
  <2>2. CASE handlers[n] > 0
    <3>1. Settle(n, Hearers(n, r), r)
      BY <1>2, <2>2 DEF DeliverTerminal
    <3>2. Hearers(n, r) \in SUBSET Waiters
      BY DEF Hearers, Inv1, TypeOK
    <3>3. r \in Answers \ {NoAnswer}
      BY <1>2, RecordFacts DEF DeliverTerminal, Inv1, TypeOK
    <3> HIDE DEF r
    <3> QED BY <2>1, <3>1, <3>2, <3>3, SettleInv3
  <2>3. CASE ~(handlers[n] > 0)
    BY <1>2, <2>1, <2>3, FrameInv3 DEF DeliverTerminal
  <2> QED BY <2>2, <2>3
<1>3. ASSUME NEW n \in Nodes, Crash(n) PROVE Inv3'
  <2>1. /\ pc' = [p \in Processes |-> IF NodeOf[p] = n THEN "dead" ELSE pc[p]]
        /\ callbacks' = [callbacks EXCEPT ![n] = {}]
        /\ channel' = [channel EXCEPT ![n] = "off"]
        /\ handlers' = [handlers EXCEPT ![n] = 0]
        /\ answer' = answer
    BY <1>3 DEF Crash
  <2>2. \A w \in Waiters : pc'[w] # "dead" => NodeOf[w] # n /\ pc'[w] = pc[w]
    BY <2>1, ProcessFacts
  <2> QED BY <2>1, <2>2, ProcessFacts DEF Inv1, TypeOK, Inv3, OpeningJoined, ListenersStayConnected
<1> QED BY <1>1, <1>2, <1>3

LEMMA StepInv3 == Inv1 /\ Inv3 /\ [Next]_vars => Inv3'
<1> SUFFICES ASSUME Inv1, Inv3, [Next]_vars PROVE Inv3'
  OBVIOUS
<1>1. CASE Next
  BY <1>1, WritersInv3, WaiterInv3, EnvironmentInv3 DEF Next
<1>2. CASE UNCHANGED vars
  BY <1>2, FrameInv3 DEF vars
<1> QED BY <1>1, <1>2

\* No waiter of a node ever loses the node's subscription to another waiter's
\* unsubscribe: the handle is dropped with the last callback only.
THEOREM SubscriptionsCorrect == Spec => []ListenersStayConnected
<1>1. Inv3 => ListenersStayConnected
  BY DEF Inv3
<1> QED BY <1>1, InitInv1, StepInv1, InitInv3, StepInv3, PTL DEF Spec

----------------------------------------------------------------------------
(* The task is not left working                                            *)

LEMMA InitInv4 == Init => Inv4
BY ProcessFacts
   DEF Init, Absent, Inv4, CloserLeft, ErrorsCounted, RunnerStarted, DieTogether, FinalCloses

\* A step that leaves the create flow and the runner where they are, and makes
\* no record a working one, keeps Inv4.
LEMMA FrameInv4 ==
  ASSUME Inv1, Inv4, faults' \in Nat, faults' >= faults, final' = final,
         pc'[Creator] = pc[Creator], pc'[Runner] = pc[Runner],
         rec'.status = "working" => rec.status = "working"
  PROVE  Inv4'
BY DEF Inv1, TypeOK, Inv4, CloserLeft, ErrorsCounted, RunnerStarted, DieTogether,
       FinalCloses, IsTerminal

LEMMA FaultsGrow == Inv1 /\ Next => faults' \in Nat /\ faults' >= faults
<1> SUFFICES ASSUME Inv1, Next PROVE faults' \in Nat /\ faults' >= faults
  OBVIOUS
<1>1. faults \in Nat
  BY DEF Inv1, TypeOK
<1>2. faults' = faults \/ faults' = faults + 1
  BY DEF Next, CreateTask, RunInBackground, StartExecution, CancelSubscribed, ToolReturns,
         CheckStored, RunnerPublish, Cleanup, DeliverCancel, UpdateRead, UpdateWrite,
         WriterFault, CancelGet, CancelSignal, CancelPublish, ResultGet, Subscribed,
         ResultRead, WaiterFault, DeliverTerminal, Crash, Expire, PublishTerminal,
         Broadcast, FanOutLocal
<1> QED BY <1>1, <1>2

\* The create flow's own updates: only the executor's write can keep the record
\* working, and it goes on to start the runner.
LEMMA CreatorInv4 ==
  ASSUME Inv1, Inv2, Inv4,
         CreateTask \/ RunInBackground \/ UpdateRead(Creator) \/ UpdateWrite(Creator)
           \/ WriterFault(Creator)
  PROVE  Inv4'
<1>0. /\ pc \in [Processes -> WriterLabels \cup WaiterLabels] /\ faults \in Nat
      /\ Creator \in Processes /\ Runner \in Processes /\ Creator # Runner
      /\ pc[Creator] \in Labels(Creator) /\ snap \in [Writers -> Records]
      /\ rec \in Records /\ Creator \in Writers
  BY ProcessFacts DEF Inv1, TypeOK, PcOK
<1>1. pc[Creator] \in BeforeRun => pc[Runner] = "idle"
  BY DEF Inv2, CreatorFirst, BeforeRun
<1>2. pc[Creator] = "idle" => rec = Absent
  BY DEF Inv2, CreatorFirst
<1>3. CASE CreateTask
  BY <1>3, <1>0, <1>1, <1>2
     DEF CreateTask, Goto, BeforeRun, Inv4, CloserLeft, ErrorsCounted, RunnerStarted,
         DieTogether, FinalCloses, Absent, Working
<1>4. CASE RunInBackground
  BY <1>4, <1>0
     DEF RunInBackground, Inv4, CloserLeft, ErrorsCounted, RunnerStarted, DieTogether,
         FinalCloses, Closing
<1>5. CASE UpdateRead(Creator)
  <2>1. pc[Creator] \in {"execRead", "failRead"}
    BY <1>5, <1>0, UpdateLabels DEF UpdateRead, Labels
  <2>2. /\ rec' = rec /\ faults' = faults /\ pc'[Runner] = "idle"
        /\ \/ rec = Absent /\ pc'[Creator] \in {"dispatch", "rejected"}
           \/ pc[Creator] = "execRead" /\ pc'[Creator] = "execWrite"
           \/ pc[Creator] = "failRead" /\ pc'[Creator] = "failWrite"
    BY <1>5, <1>0, <1>1, <2>1, UpdateLabels
       DEF UpdateRead, Goto, AfterUpdate, storeVars, BeforeRun
  <2> QED BY <2>2, <1>0
          DEF Inv4, CloserLeft, ErrorsCounted, RunnerStarted, DieTogether, FinalCloses, Absent
<1>6. CASE UpdateWrite(Creator)
  <2>1. pc[Creator] \in {"execWrite", "failWrite"}
    BY <1>6, <1>0, UpdateLabels DEF UpdateWrite, Labels
  <2>2. faults' = faults /\ pc'[Runner] = "idle"
    BY <1>6, <1>0, <1>1, <2>1 DEF UpdateWrite, Goto, BeforeRun
  <2>3. CASE pc[Creator] = "execWrite"
    <3>1. pc'[Creator] = "dispatch"
      <4>1. \A r : AfterUpdate(Creator, r) = "dispatch"
        BY <2>3, ProcessFacts DEF AfterUpdate
      <4>2. \E r : pc' = [pc EXCEPT ![Creator] = AfterUpdate(Creator, r)]
        BY <1>6 DEF UpdateWrite, Goto
      <4> QED BY <4>1, <4>2, <1>0
    <3> QED BY <2>2, <3>1, <1>0
            DEF Inv4, CloserLeft, ErrorsCounted, RunnerStarted, DieTogether, FinalCloses
  <2>4. CASE pc[Creator] = "failWrite"
    <3>1. pc'[Creator] = "rejected"
      BY <1>6, <1>0, <2>4 DEF UpdateWrite, Goto, AfterUpdate
    <3>2. Merged(Creator, snap[Creator]).status = "failed"
      BY <1>0, <2>4 DEF Merged, Records
    <3>3. rec'.status # "working"
      BY <1>6, <3>2 DEF UpdateWrite, Absent
    <3> QED BY <2>2, <3>1, <3>3, <1>0
            DEF Inv4, CloserLeft, ErrorsCounted, RunnerStarted, DieTogether, FinalCloses
  <2> QED BY <2>1, <2>3, <2>4
<1>7. CASE WriterFault(Creator)
  <2>1. pc[Creator] \in {"idle", "execRead", "execWrite", "failRead", "failWrite"}
    BY <1>7, <1>0, UpdateLabels, ProcessFacts DEF WriterFault, Labels
  <2>2. /\ faults' = faults + 1 /\ rec' = rec /\ pc'[Runner] = "idle"
        /\ pc'[Creator] = IF pc[Creator] \in {"execRead", "execWrite"}
                            THEN "failRead" ELSE "rejected"
    BY <1>7, <1>0, <1>1, <2>1 DEF WriterFault, Goto, AfterFault, storeVars, BeforeRun
  <2> QED BY <2>1, <2>2, <1>0, <1>2
          DEF Inv4, CloserLeft, ErrorsCounted, RunnerStarted, DieTogether, FinalCloses, Absent
<1> QED BY <1>3, <1>4, <1>5, <1>6, <1>7

\* executeTask: it leaves its working record only through a write of a terminal
\* one, or through two rejected calls.
LEMMA RunnerInv4 ==
  ASSUME Inv1, Inv2, Inv4,
         \/ StartExecution \/ CancelSubscribed \/ ToolReturns \/ CheckStored
         \/ RunnerPublish \/ Cleanup
         \/ UpdateRead(Runner) \/ UpdateWrite(Runner) \/ WriterFault(Runner),
         faults' \in Nat, faults' >= faults
  PROVE  Inv4'
<1>0. /\ pc \in [Processes -> WriterLabels \cup WaiterLabels] /\ faults \in Nat
      /\ Creator \in Processes /\ Runner \in Processes /\ Creator # Runner
      /\ pc[Runner] \in Labels(Runner) /\ snap \in [Writers -> Records]
      /\ rec \in Records /\ Runner \in Writers
  BY ProcessFacts DEF Inv1, TypeOK, PcOK
<1>1. pc[Runner] \notin {"idle", "dead"} /\ pc[Creator] = "responded"
  <2>1. pc[Runner] \notin {"idle", "dead"}
    BY <1>0, UpdateLabels, ProcessFacts
       DEF StartExecution, CancelSubscribed, ToolReturns, CheckStored, RunnerPublish,
           Cleanup, UpdateRead, UpdateWrite, WriterFault
  <2> QED BY <2>1 DEF Inv4, RunnerStarted, DieTogether
<1>2. pc'[Creator] = "responded"
  BY <1>0, <1>1
     DEF StartExecution, CancelSubscribed, ToolReturns, CheckStored, RunnerPublish,
         Cleanup, UpdateRead, UpdateWrite, WriterFault, Goto
<1>3. SUFFICES /\ rec'.status = "working" /\ faults' <= 1 => pc'[Runner] \in Closing
               /\ pc'[Runner] \in {"failRead", "failWrite"} => faults' >= 1
               /\ pc'[Runner] \in {"finishRead", "finishWrite"} => IsTerminal(final)'
  BY <1>2, <1>0
     DEF Inv4, CloserLeft, ErrorsCounted, RunnerStarted, DieTogether, FinalCloses
<1>4. /\ rec.status = "working" /\ faults <= 1 => pc[Runner] \in Closing
      /\ pc[Runner] \in {"failRead", "failWrite"} => faults >= 1
      /\ pc[Runner] \in {"finishRead", "finishWrite"} => IsTerminal(final)
  BY <1>1 DEF Inv4, CloserLeft, ErrorsCounted, FinalCloses
<1>5. CASE StartExecution \/ CancelSubscribed \/ ToolReturns
  BY <1>5, <1>0
     DEF StartExecution, CancelSubscribed, ToolReturns, Goto, Closing
<1>6. CASE CheckStored
  <2>1. IsTerminal(final)'
    BY <1>6 DEF CheckStored, FinalPatch, FinalStatus, IsTerminal, Terminal
  <2>2. rec' = rec /\ pc'[Runner] \in {"cleanup", "publish", "finishRead"}
    BY <1>6, <1>0 DEF CheckStored, Goto, storeVars
  <2>3. rec.status = "working" => pc'[Runner] = "finishRead"
    BY <1>6, <1>0 DEF CheckStored, Goto, IsTerminal, Terminal, Absent
  <2> QED BY <2>1, <2>2, <2>3 DEF Closing
<1>7. CASE RunnerPublish \/ Cleanup
  <2>1. rec' = rec /\ pc'[Runner] \in {"cleanup", "done"} /\ pc[Runner] \notin Closing
    BY <1>7, <1>0 DEF RunnerPublish, Cleanup, Goto, storeVars, Closing
  <2> QED BY <2>1, <1>0, <1>4
<1>8. CASE UpdateRead(Runner)
  <2>1. pc[Runner] \in {"finishRead", "failRead"}
    BY <1>8, <1>0, UpdateLabels, ProcessFacts DEF UpdateRead, Labels
  <2>2. /\ rec' = rec /\ faults' = faults /\ final' = final
        /\ \/ rec = Absent /\ pc'[Runner] = "cleanup"
           \/ pc[Runner] = "finishRead" /\ pc'[Runner] = "finishWrite"
           \/ pc[Runner] = "failRead" /\ pc'[Runner] = "failWrite"
    BY <1>8, <1>0, <2>1, UpdateLabels DEF UpdateRead, Goto, AfterUpdate, storeVars
  <2> QED BY <2>2, <1>4 DEF Closing, Absent, IsTerminal
<1>9. CASE UpdateWrite(Runner)
  <2>1. pc[Runner] \in {"finishWrite", "failWrite"}
    BY <1>9, <1>0, UpdateLabels, ProcessFacts DEF UpdateWrite, Labels
  <2>2. Merged(Runner, snap[Runner]).status # "working"
    BY <2>1, <1>0, <1>4 DEF Merged, Failed, IsTerminal, Terminal
  <2>3. rec'.status # "working"
    BY <1>9, <2>2 DEF UpdateWrite, Absent
  <2>4. pc'[Runner] \in {"cleanup", "publish"}
    BY <1>9, <1>0, <2>1 DEF UpdateWrite, Goto, AfterUpdate
  <2> QED BY <2>3, <2>4
<1>10. CASE WriterFault(Runner)
  <2>1. /\ faults' = faults + 1 /\ rec' = rec
        /\ pc'[Runner] = IF pc[Runner] \in {"failRead", "failWrite"}
                           THEN "cleanup" ELSE "failRead"
    BY <1>10, <1>0 DEF WriterFault, Goto, AfterFault, storeVars
  <2> QED BY <2>1, <1>0, <1>4 DEF Closing
<1> QED BY <1>5, <1>6, <1>7, <1>8, <1>9, <1>10

\* No other handler makes the record a working one.
LEMMA OthersInv4 ==
  ASSUME Inv1, Inv4, faults' \in Nat, faults' >= faults,
         \/ DeliverCancel \/ Expire
         \/ \E c \in Cancellers :
              \/ UpdateRead(c) \/ UpdateWrite(c) \/ WriterFault(c)
              \/ CancelGet(c) \/ CancelSignal(c) \/ CancelPublish(c)
         \/ \E w \in Waiters :
              ResultGet(w) \/ Subscribed(w) \/ ResultRead(w) \/ WaiterFault(w)
         \/ \E n \in Nodes : DeliverTerminal(n)
  PROVE  Inv4'
<1>0. pc \in [Processes -> WriterLabels \cup WaiterLabels] /\ snap \in [Writers -> Records]
  BY DEF Inv1, TypeOK
<1>1. pc'[Creator] = pc[Creator] /\ pc'[Runner] = pc[Runner]
  <2>1. \A p \in Cancellers \cup Waiters : p # Creator /\ p # Runner
    BY TasksAssumption
  <2>2. CASE DeliverCancel \/ Expire \/ \E n \in Nodes : DeliverTerminal(n)
    BY <2>2 DEF DeliverCancel, Expire, DeliverTerminal
  <2>3. ASSUME NEW c \in Cancellers,
               \/ UpdateRead(c) \/ UpdateWrite(c) \/ WriterFault(c)
               \/ CancelGet(c) \/ CancelSignal(c) \/ CancelPublish(c)
        PROVE  pc'[Creator] = pc[Creator] /\ pc'[Runner] = pc[Runner]
    BY <2>1, <2>3, <1>0, ProcessFacts
       DEF UpdateRead, UpdateWrite, WriterFault, CancelGet, CancelSignal, CancelPublish, Goto
  <2>4. ASSUME NEW w \in Waiters,
               ResultGet(w) \/ Subscribed(w) \/ ResultRead(w) \/ WaiterFault(w)
        PROVE  pc'[Creator] = pc[Creator] /\ pc'[Runner] = pc[Runner]
    BY <2>1, <2>4, <1>0, ProcessFacts
       DEF ResultGet, Subscribed, ResultRead, WaiterFault, Goto
  <2> QED BY <2>2, <2>3, <2>4
<1>2. rec'.status = "working" => rec.status = "working"
  <2>1. ASSUME NEW c \in Cancellers, UpdateWrite(c) PROVE rec'.status # "working"
    <3>1. pc[c] = "cancelWrite"
      BY <2>1, UpdateLabels, ProcessFacts DEF UpdateWrite, Inv1, PcOK, Labels
    <3>2. Merged(c, snap[c]).status = "cancelled"
      BY <3>1, <1>0, ProcessFacts DEF Merged, Records
    <3> QED BY <2>1, <3>2 DEF UpdateWrite, Absent
  <2>2. CASE Expire
    BY <2>2 DEF Expire, Absent
  <2> QED BY <2>1, <2>2
          DEF DeliverCancel, UpdateRead, WriterFault, CancelGet, CancelSignal,
              CancelPublish, ResultGet, Subscribed, ResultRead, WaiterFault,
              DeliverTerminal, storeVars
<1>3. final' = final
  BY DEF DeliverCancel, Expire, UpdateRead, UpdateWrite, WriterFault, CancelGet,
         CancelSignal, CancelPublish, ResultGet, Subscribed, ResultRead, WaiterFault,
         DeliverTerminal, writerVars
<1> QED BY <1>1, <1>2, <1>3, FrameInv4

\* The create flow and the runner share a node: both die or neither.
LEMMA CrashInv4 ==
  ASSUME Inv1, Inv4, NEW n \in Nodes, Crash(n), faults' \in Nat, faults' >= faults
  PROVE  Inv4'
<1>1. /\ pc' = [p \in Processes |-> IF NodeOf[p] = n THEN "dead" ELSE pc[p]]
      /\ rec' = rec /\ final' = final
  BY DEF Crash, storeVars, writerVars
<1>2. NodeOf[Creator] = Home /\ NodeOf[Runner] = Home
  BY TasksAssumption
<1>3. CASE n = Home
  <2>1. pc'[Creator] = "dead" /\ pc'[Runner] = "dead"
    BY <1>1, <1>2, <1>3, ProcessFacts
  <2> QED BY <2>1
          DEF Inv4, CloserLeft, ErrorsCounted, RunnerStarted, DieTogether, FinalCloses, Closing
<1>4. CASE n # Home
  <2>1. pc'[Creator] = pc[Creator] /\ pc'[Runner] = pc[Runner]
    BY <1>1, <1>2, <1>4, ProcessFacts
  <2> QED BY <2>1, <1>1, FrameInv4
<1> QED BY <1>3, <1>4

LEMMA StepInv4 == Inv1 /\ Inv2 /\ Inv4 /\ [Next]_vars => Inv4'
<1> SUFFICES ASSUME Inv1, Inv2, Inv4, [Next]_vars PROVE Inv4'
  OBVIOUS
<1>1. CASE Next
  <2>1. faults' \in Nat /\ faults' >= faults
    BY <1>1, FaultsGrow
  <2>2. CASE CreateTask \/ RunInBackground \/ UpdateRead(Creator) \/ UpdateWrite(Creator)
               \/ WriterFault(Creator)
    BY <2>2, CreatorInv4
  <2>3. CASE \/ StartExecution \/ CancelSubscribed \/ ToolReturns \/ CheckStored
             \/ RunnerPublish \/ Cleanup
             \/ UpdateRead(Runner) \/ UpdateWrite(Runner) \/ WriterFault(Runner)
    BY <2>1, <2>3, RunnerInv4
  <2>4. CASE \E n \in Nodes : Crash(n)
    BY <2>1, <2>4, CrashInv4
  <2>5. CASE \/ DeliverCancel \/ Expire
             \/ \E c \in Cancellers :
                  \/ UpdateRead(c) \/ UpdateWrite(c) \/ WriterFault(c)
                  \/ CancelGet(c) \/ CancelSignal(c) \/ CancelPublish(c)
             \/ \E w \in Waiters :
                  ResultGet(w) \/ Subscribed(w) \/ ResultRead(w) \/ WaiterFault(w)
             \/ \E n \in Nodes : DeliverTerminal(n)
    BY <2>1, <2>5, OthersInv4
  <2> QED BY <1>1, <2>2, <2>3, <2>4, <2>5 DEF Next, Writers
<1>2. CASE UNCHANGED vars
  <2>1. /\ pc' = pc /\ faults' = faults /\ final' = final /\ rec' = rec
    BY <1>2 DEF vars, storeVars, writerVars
  <2>2. faults \in Nat
    BY DEF Inv1, TypeOK
  <2> QED BY <2>1, <2>2, FrameInv4
<1> QED BY <1>1, <1>2

\* Whatever the interleaving of the create flow, the runner, the cancel requests and
\* the expiry: when all have returned, at most one storage call was rejected and the
\* home node lives, the record does not say "working".
THEOREM NotLeftWorking == Spec => []NoStuckTask
<1>1. Inv4 => NoStuckTask
  <2> SUFFICES ASSUME Inv4, Quiet, faults <= 1, pc[Runner] # "dead", rec.status = "working"
               PROVE  FALSE
    BY DEF NoStuckTask
  <2>1. /\ pc[Creator] \in {"idle", "responded", "rejected", "done", "ok", "refused", "dead"}
        /\ pc[Runner] \in {"idle", "responded", "rejected", "done", "ok", "refused", "dead"}
    BY ProcessFacts DEF Quiet
  <2> QED BY <2>1 DEF Inv4, CloserLeft, Closing
<1> QED BY <1>1, InitInv1, StepInv1, InitInv2, StepInv2, InitInv4, StepInv4, PTL DEF Spec
----------------------------------------------------------------------------
(* The abstract record                                                     *)

TaskStatuses == {"working"} \cup Terminal

\* A record is missing or the record of a task, whole.  Missing before it is created, no
\* writer has found a task to write to; missing afterwards, it has expired.
Inv5 ==
  /\ rec = Absent \/ rec.status \in TaskStatuses
  /\ expired => rec = Absent /\ pc[Creator] # "idle"
  /\ rec = Absent /\ ~expired =>
       /\ pc[Creator] \in {"idle", "rejected", "dead"} /\ pc[Runner] \in {"idle", "dead"}
       /\ \A c \in Cancellers : pc[c] \in {"idle", "refused", "dead"}
  /\ \A p \in Writers : pc[p] \in Writing => snap[p].status \in TaskStatuses

LEMMA InitInv5 == Init => Inv5
BY ProcessFacts, UpdateLabels DEF Init, Inv5, Writers, Processes

\* A step that leaves the record and moves nobody to a write.
LEMMA FrameInv5 ==
  ASSUME Inv5, UNCHANGED <<rec, expired>>, pc'[Creator] = "idle" => pc[Creator] = "idle",
         rec # Absent \/ expired \/ \A p \in Writers : pc'[p] \in {pc[p], "dead"},
         \A p \in Writers : pc'[p] \in Writing => pc[p] \in Writing /\ snap'[p] = snap[p]
  PROVE  Inv5'
BY ProcessFacts DEF Inv5

LEMMA MergedEnds ==
  ASSUME Inv1, Inv4, Inv5, NEW p \in Writers, pc[p] \in Writing
  PROVE  /\ Merged(p, snap[p]) \in Records
         /\ pc[p] = "execWrite" => p = Creator /\ Merged(p, snap[p]) = snap[p]
         /\ pc[p] # "execWrite" => Merged(p, snap[p]).status \in Terminal
<1>1. snap[p] \in Records
  BY DEF Inv1, TypeOK
<1>2. pc[p] \in Labels(p)
  BY ProcessFacts DEF Inv1, PcOK
<1>3. CASE pc[p] = "execWrite"
  <2>1. p = Creator
    BY <1>2, <1>3, ProcessFacts DEF Labels, Writers
  <2> QED BY <1>1, <1>3, <2>1 DEF Merged
<1>4. CASE pc[p] = "cancelWrite"
  BY <1>1, <1>4, MergedType DEF Merged, Records, Terminal
<1>5. CASE pc[p] = "failWrite"
  <2>1. p \in {Creator, Runner}
    BY <1>2, <1>5 DEF Labels, Writers
  <2> QED BY <1>1, <1>5, <2>1, MergedType, ProcessFacts DEF Merged, Records, Terminal, Failed
<1>6. CASE pc[p] = "finishWrite"
  <2>1. p = Runner
    BY <1>2, <1>6 DEF Labels, Writers
  <2> QED BY <1>1, <1>6, <2>1, MergedType DEF Merged, Inv4, FinalCloses, IsTerminal
<1> QED BY <1>3, <1>4, <1>5, <1>6, UpdateLabels

LEMMA UpdateInv5 ==
  ASSUME Inv1, Inv4, Inv5, NEW p \in Writers, UpdateRead(p) \/ UpdateWrite(p)
  PROVE  Inv5'
<1>0. /\ pc \in [Processes -> WriterLabels \cup WaiterLabels] /\ p \in Processes
      /\ snap \in [Writers -> Records]
  BY ProcessFacts DEF Inv1, TypeOK
<1>1. rec # Absent \/ expired
  <2>1. pc[p] \in Reading \cup Writing
    BY DEF UpdateRead, UpdateWrite
  <2> QED BY <2>1, UpdateLabels, ProcessFacts DEF Inv5, Writers
<1>2. AfterUpdate(p, Absent) \notin Writing /\ AfterUpdate(p, Absent) # "idle"
      /\ \A r : AfterUpdate(p, r) \notin Writing /\ AfterUpdate(p, r) # "idle"
  BY UpdateLabels DEF AfterUpdate
<1>3. CASE UpdateRead(p)
  <2>1. /\ UNCHANGED <<rec, expired>> /\ snap' = [snap EXCEPT ![p] = rec]
        /\ pc' = [pc EXCEPT ![p] = IF rec = Absent THEN AfterUpdate(p, Absent)
                                                   ELSE WriteOf[pc[p]]]
        /\ pc[p] \in Reading
    BY <1>3 DEF UpdateRead, Goto, storeVars
  <2>2. WriteOf[pc[p]] # "idle"
    BY <2>1, UpdateLabels
  <2>3. pc'[Creator] = "idle" => pc[Creator] = "idle"
    BY <1>0, <1>2, <2>1, <2>2, ProcessFacts
  <2>4. \A q \in Writers : pc'[q] \in Writing => snap'[q].status \in TaskStatuses
    BY <1>0, <1>2, <2>1, ProcessFacts DEF Inv5
  <2> QED BY <1>1, <2>1, <2>3, <2>4 DEF Inv5
<1>4. CASE UpdateWrite(p)
  <2> DEFINE r == IF expired THEN Absent ELSE Merged(p, snap[p])
  <2>1. /\ rec' = r /\ snap' = [snap EXCEPT ![p] = r] /\ UNCHANGED expired
        /\ pc' = [pc EXCEPT ![p] = AfterUpdate(p, r)] /\ pc[p] \in Writing
    BY <1>4 DEF UpdateWrite, Goto
  <2>2. ~expired => r.status \in TaskStatuses /\ r # Absent
    <3>1. snap[p].status \in TaskStatuses
      BY <2>1 DEF Inv5
    <3>2. Merged(p, snap[p]).status \in TaskStatuses
      BY <2>1, <3>1, MergedEnds DEF TaskStatuses
    <3> QED BY <3>2 DEF TaskStatuses, Absent, Terminal
  <2> HIDE DEF r
  <2>3. pc'[Creator] = "idle" => pc[Creator] = "idle"
    BY <1>0, <1>2, <2>1, ProcessFacts
  <2>4. \A q \in Writers : pc'[q] \in Writing => snap'[q].status \in TaskStatuses
    BY <1>0, <1>2, <2>1, ProcessFacts DEF Inv5
  <2>5. expired => r = Absent
    BY DEF r
  <2> QED BY <2>1, <2>2, <2>3, <2>4, <2>5 DEF Inv5
<1> QED BY <1>3, <1>4

LEMMA StepInv5 == Inv1 /\ Inv2 /\ Inv4 /\ Inv5 /\ [Next]_vars => Inv5'
<1> SUFFICES ASSUME Inv1, Inv2, Inv4, Inv5, [Next]_vars PROVE Inv5'
  OBVIOUS
<1> USE ProcessFacts DEF storeVars
<1>0. /\ pc \in [Processes -> WriterLabels \cup WaiterLabels]
      /\ snap \in [Writers -> Records] /\ Writers \subseteq Processes
  BY DEF Inv1, TypeOK
<1>1. CASE CreateTask
  <2>1. /\ rec' = Working \/ (expired' = TRUE /\ rec' = Absent)
        /\ rec' = Working => UNCHANGED expired
        /\ pc' = [pc EXCEPT ![Creator] = "execRead"] /\ UNCHANGED snap
        /\ rec = Absent /\ pc[Creator] = "idle" /\ ~expired
    <3>1. pc[Creator] = "idle" /\ rec = Absent /\ ~expired
      BY <1>1 DEF CreateTask, Inv2, CreatorFirst, Inv5
    <3> QED BY <1>1, <3>1 DEF CreateTask, Goto, writerVars, Working, Absent
  <2>2. \A p \in Writers : pc'[p] \in Writing => pc[p] \in Writing
    BY <1>0, <2>1, UpdateLabels
  <2>3. pc'[Creator] = "execRead" /\ Working.status = "working" /\ Working # Absent
    BY <1>0, <2>1 DEF Working, Absent
  <2> QED BY <2>1, <2>2, <2>3 DEF Inv5, TaskStatuses
<1>2. ASSUME NEW p \in Writers, UpdateRead(p) \/ UpdateWrite(p) PROVE Inv5'
  BY <1>2, UpdateInv5
<1>3. ASSUME NEW p \in Writers, WriterFault(p) PROVE Inv5'
  <2>1. /\ UNCHANGED <<rec, expired, snap>> /\ pc' = [pc EXCEPT ![p] = AfterFault(p)]
        /\ AfterFault(p) \notin Writing /\ AfterFault(p) # "idle"
    BY <1>3, UpdateLabels DEF WriterFault, Goto, writerVars, AfterFault
  <2>2. CASE rec # Absent \/ expired
    BY <1>0, <2>1, <2>2, FrameInv5
  <2>3. CASE rec = Absent /\ ~expired
    <3>1. \/ p = Creator /\ AfterFault(p) = "rejected"
          \/ p \in Cancellers /\ AfterFault(p) = "refused"
      BY <1>3, <2>3, UpdateLabels DEF WriterFault, AfterFault, Inv5, Writers
    <3> QED BY <1>0, <2>1, <2>3, <3>1 DEF Inv5
  <2> QED BY <2>2, <2>3
\* The steps of a writer that neither reads nor writes the record in an update.
<1>4. ASSUME NEW p \in Writers, NEW l, UNCHANGED <<rec, expired>>, l \notin Writing, l # "idle",
             pc' = [pc EXCEPT ![p] = l], rec # Absent \/ expired \/ (l = "refused" /\ p \in Cancellers),
             \A q \in Writers : q # p => snap'[q] = snap[q]
      PROVE  Inv5'
  <2>1. CASE rec # Absent \/ expired
    BY <1>0, <1>4, <2>1, FrameInv5
  <2>2. CASE rec = Absent /\ ~expired
    BY <1>0, <1>4, <2>2 DEF Inv5
  <2> QED BY <2>1, <2>2
<1>5. CASE RunInBackground
  <2>1. rec # Absent \/ expired
    BY <1>5 DEF RunInBackground, Inv5
  <2>2. /\ UNCHANGED <<rec, expired>> /\ snap' = [snap EXCEPT ![Creator] = Absent]
        /\ pc' = [pc EXCEPT ![Creator] = "responded", ![Runner] = "scheduled"]
    BY <1>5 DEF RunInBackground
  <2> QED BY <1>0, <2>1, <2>2, FrameInv5, UpdateLabels
<1>6. CASE StartExecution \/ CancelSubscribed \/ ToolReturns \/ RunnerPublish \/ Cleanup
           \/ CheckStored
  <2>1. pc[Runner] \notin {"idle", "dead"} /\ UNCHANGED <<rec, expired>>
    BY <1>6 DEF StartExecution, CancelSubscribed, ToolReturns, RunnerPublish, Cleanup, CheckStored
  <2>2. rec # Absent \/ expired
    BY <2>1 DEF Inv5
  <2>3. \A q \in Writers : q # Runner => snap'[q] = snap[q]
    BY <1>0, <1>6 DEF StartExecution, CancelSubscribed, ToolReturns, RunnerPublish, Cleanup,
       CheckStored, writerVars
  <2>4. \E l \in {"subscribing", "running", "check", "cleanup", "done", "publish", "finishRead"} :
          pc' = [pc EXCEPT ![Runner] = l]
    BY <1>6 DEF StartExecution, CancelSubscribed, ToolReturns, RunnerPublish, Cleanup,
       CheckStored, Goto
  <2>5. pc'[Runner] \notin Writing /\ \A p \in Processes : p # Runner => pc'[p] = pc[p]
    BY <1>0, <2>4, UpdateLabels
  <2> QED BY <1>0, <2>1, <2>2, <2>3, <2>5, FrameInv5
<1>7. ASSUME NEW c \in Cancellers, CancelGet(c) \/ CancelSignal(c) \/ CancelPublish(c)
      PROVE  Inv5'
  <2>1. /\ UNCHANGED <<rec, expired>> /\ \A q \in Writers : q # c => snap'[q] = snap[q]
        /\ \E l \in {"cancelRead", "refused", "publish", "ok"} : pc' = [pc EXCEPT ![c] = l]
    BY <1>0, <1>7 DEF CancelGet, CancelSignal, CancelPublish, Goto, writerVars
  <2>2. CASE rec # Absent \/ expired
    BY <1>4, <2>1, <2>2, UpdateLabels
  <2>3. CASE rec = Absent /\ ~expired
    <3>1. CancelGet(c) /\ ~CancelAllowed(rec)
      BY <1>7, <2>3 DEF CancelSignal, CancelPublish, Inv5, CancelAllowed, Absent
    <3>2. pc' = [pc EXCEPT ![c] = "refused"]
      BY <3>1 DEF CancelGet, Goto
    <3> QED BY <1>4, <2>1, <3>2, UpdateLabels
  <2> QED BY <2>2, <2>3
<1>8. ASSUME UNCHANGED <<rec, expired, snap>>, \A p \in Writers : pc'[p] \in {pc[p], "dead"}
      PROVE  Inv5'
  BY <1>8, FrameInv5, UpdateLabels
<1>9. CASE \/ DeliverCancel \/ \E n \in Nodes : DeliverTerminal(n)
           \/ \E w \in Waiters :
                ResultGet(w) \/ Subscribed(w) \/ ResultRead(w) \/ WaiterFault(w)
  <2>1. /\ UNCHANGED <<rec, expired, snap>>
        /\ pc' = pc \/ \E w \in Waiters : \E l : pc' = [pc EXCEPT ![w] = l]
    BY <1>9 DEF DeliverCancel, DeliverTerminal, ResultGet, Subscribed, ResultRead, WaiterFault,
       Goto, writerVars
  <2>2. \A p \in Writers : pc'[p] = pc[p]
    BY <1>0, <2>1
  <2> QED BY <1>8, <2>1, <2>2
<1>10. ASSUME NEW n \in Nodes, Crash(n) PROVE Inv5'
  <2>1. /\ UNCHANGED <<rec, expired, snap>> /\ \A p \in Writers : pc'[p] \in {pc[p], "dead"}
    BY <1>0, <1>10 DEF Crash, writerVars
  <2> QED BY <1>8, <2>1
<1>11. CASE Expire
  BY <1>11 DEF Expire, Inv5, writerVars, Inv2, CreatorFirst
<1>12. CASE UNCHANGED vars
  BY <1>8, <1>12 DEF vars, writerVars
<1> QED BY <1>1, <1>2, <1>3, <1>5, <1>6, <1>7, <1>9, <1>10, <1>11, <1>12 DEF Next

LEMMA VisibleIs ==
  /\ UNCHANGED storeVars => Visible' = Visible
  /\ Inv5 /\ rec # Absent => Visible = rec /\ Lifecycle!Stored
BY DEF Visible, storeVars, Inv5, TaskStatuses, Terminal, Absent, Entry, Lifecycle!Stored,
   Lifecycle!None, Lifecycle!Gone

\* Where the create flow stands towards the abstract record.
LEMMA KeptIs ==
  /\ pc[Creator] \in {"idle", "execRead"} => Kept[Creator] = Entry("not yet")
  /\ pc[Creator] = "execWrite" => Kept[Creator] = snap[Creator]
  /\ pc[Creator] \notin {"idle", "execRead", "execWrite"} => Kept[Creator] = Entry("over")
  /\ pc'[Creator] \in {"idle", "execRead"} => Kept'[Creator] = Entry("not yet")
  /\ pc'[Creator] = "execWrite" => Kept'[Creator] = snap'[Creator]
  /\ pc'[Creator] \notin {"idle", "execRead", "execWrite"} => Kept'[Creator] = Entry("over")
BY DEF Kept, Entry

\* A step of one writer leaves where the others stand.
Alone(p) == \A q \in Writers \ {p} : pc'[q] = pc[q] /\ snap'[q] = snap[q]
LEMMA OthersStand ==
  ASSUME NEW p \in Writers, Alone(p)
  PROVE  /\ Deciding' \ {p} = Deciding \ {p}
         /\ p # Creator => Kept' = Kept
BY ProcessFacts DEF Alone, Deciding, Kept

\* A step that decides nothing: parties withdraw, or a fault makes one a party.
LEMMA AbstractSlack ==
  ASSUME NEW p \in Writers, UNCHANGED storeVars,
         Kept'[Creator] \in {Kept[Creator], Entry("over")},
         \/ faults' = faults /\ Deciding' \subseteq Deciding
         \/ faults' = faults + 1 /\ Deciding' \subseteq Deciding \cup {p}
  PROVE  Lifecycle!Next
<1>1. \E K \in SUBSET {Creator} : Kept' = Lifecycle!GivenUp(K)
  <2>1. Kept' = Lifecycle!GivenUp({k \in {Creator} : Kept'[k] # Kept[k]})
    BY DEF Kept, Lifecycle!GivenUp, Lifecycle!Over, Entry
  <2> QED BY <2>1
<1>2. Visible' = Visible
  BY VisibleIs
<1>3. CASE faults' = faults /\ Deciding' \subseteq Deciding
  BY <1>1, <1>2, <1>3 DEF Lifecycle!Withdraw, Lifecycle!Next
<1>4. CASE faults' = faults + 1 /\ Deciding' \subseteq Deciding \cup {p}
  BY <1>1, <1>2, <1>4 DEF Lifecycle!Trouble, Lifecycle!Next
<1> QED BY <1>3, <1>4

\* The same, of one writer.
LEMMA AbstractStutter ==
  ASSUME NEW p \in Writers, Alone(p), UNCHANGED storeVars,
         p = Creator => Kept'[Creator] \in {Kept[Creator], Entry("over")},
         \/ faults' = faults /\ (p \in Deciding' => p \in Deciding)
         \/ faults' = faults + 1
  PROVE  Lifecycle!Next
<1>1. Deciding' \ {p} = Deciding \ {p} /\ (p # Creator => Kept' = Kept)
  BY OthersStand
<1>2. Kept'[Creator] \in {Kept[Creator], Entry("over")}
  BY <1>1
<1>3. CASE faults' = faults /\ (p \in Deciding' => p \in Deciding)
  BY <1>1, <1>2, <1>3, AbstractSlack
<1>4. CASE faults' = faults + 1
  BY <1>1, <1>2, <1>4, AbstractSlack
<1> QED BY <1>3, <1>4

\* A writer that has seen the task at work may decide.
LEMMA AbstractEntitle ==
  ASSUME NEW p \in Writers, p # Creator, Alone(p), UNCHANGED <<rec, expired, faults>>,
         Inv5, rec.status = "working", p \in Deciding'
  PROVE  Lifecycle!Next
<1>1. Deciding' = Deciding \cup {p} /\ Kept' = Kept
  BY OthersStand
<1>2. rec # Absent
  BY DEF Absent
<1>3. Visible' = Visible /\ Visible.status = "working"
  BY <1>2, VisibleIs DEF storeVars
<1>4. Lifecycle!Entitle(p)
  BY <1>1, <1>3 DEF Lifecycle!Entitle
<1> QED BY <1>4 DEF Lifecycle!Next

\* The two steps of StorageTaskStore.update.
LEMMA UpdateReadImplements ==
  ASSUME Inv1, Inv5, NEW p \in Writers, UpdateRead(p)
  PROVE  Lifecycle!Next
<1> USE ProcessFacts, UpdateLabels
<1>1. /\ pc \in [Processes -> WriterLabels \cup WaiterLabels] /\ pc[p] \in Labels(p)
      /\ snap \in [Writers -> Records] /\ pc[p] \in Reading
      /\ UNCHANGED <<rec, expired, faults>> /\ snap' = [snap EXCEPT ![p] = rec]
  BY DEF UpdateRead, Inv1, TypeOK, PcOK, storeVars
<1>2. Alone(p)
  BY <1>1 DEF UpdateRead, Goto, Alone
<1>3. CASE rec = Absent
  <2>1. pc'[p] = AfterUpdate(p, Absent)
    BY <1>1, <1>3 DEF UpdateRead, Goto
  <2>2. AfterUpdate(p, Absent) \in {"dispatch", "rejected", "cleanup", "refused"}
    BY DEF AfterUpdate
  <2>3. p \notin Deciding' /\ (p = Creator => Kept'[Creator] = Entry("over"))
    BY <2>1, <2>2, KeptIs DEF Deciding
  <2> QED BY <1>1, <1>2, <2>3, AbstractStutter DEF storeVars
<1>4. CASE rec # Absent
  <2>1. pc'[p] = WriteOf[pc[p]]
    BY <1>1, <1>4 DEF UpdateRead, Goto
  <2>2. CASE pc[p] = "execRead"
    <3>1. p = Creator /\ pc'[Creator] = "execWrite" /\ snap'[Creator] = rec
      BY <1>1, <2>1, <2>2 DEF Labels, Writers
    <3>2. Visible = rec /\ Lifecycle!Stored /\ Visible' = Visible
      BY <1>1, <1>4, VisibleIs DEF storeVars
    <3>3. Kept[Creator] = Lifecycle!NotYet /\ Kept'[Creator] = rec
      BY <2>2, <3>1, KeptIs DEF Entry, Lifecycle!NotYet
    <3>4. Kept' = [Kept EXCEPT ![Creator] = Visible]
      BY <3>2, <3>3 DEF Kept
    <3>5. Creator \notin Deciding /\ Creator \notin Deciding'
      BY <2>2, <3>1 DEF Deciding
    <3>6. Deciding' = Deciding
      BY <1>2, <3>1, <3>5, OthersStand
    <3>7. Lifecycle!Copy(Creator)
      BY <1>1, <3>2, <3>3, <3>4, <3>6 DEF Lifecycle!Copy
    <3> QED BY <3>7 DEF Lifecycle!Next
  <2>3. CASE pc[p] # "execRead"
    <3>1. p \in Deciding
      BY <1>1, <2>3 DEF Deciding
    <3>2. p = Creator => Kept'[Creator] = Entry("over")
      BY <1>1, <2>1, <2>3, KeptIs
    <3> QED BY <1>1, <1>2, <3>1, <3>2, AbstractStutter DEF storeVars
  <2> QED BY <2>2, <2>3
<1> QED BY <1>3, <1>4

LEMMA UpdateWriteImplements ==
  ASSUME Inv1, Inv4, Inv5, NEW p \in Writers, UpdateWrite(p)
  PROVE  Lifecycle!Next
<1> USE ProcessFacts, UpdateLabels
<1> DEFINE r == IF expired THEN Absent ELSE Merged(p, snap[p])
<1>1. /\ pc \in [Processes -> WriterLabels \cup WaiterLabels] /\ pc[p] \in Labels(p)
      /\ snap \in [Writers -> Records] /\ pc[p] \in Writing
      /\ rec' = r /\ UNCHANGED <<expired, faults>> /\ snap' = [snap EXCEPT ![p] = r]
      /\ pc' = [pc EXCEPT ![p] = AfterUpdate(p, r)]
  BY DEF UpdateWrite, Goto, Inv1, TypeOK, PcOK
<1>2. Alone(p)
  BY <1>1 DEF Alone
<1>3. pc'[p] \in {"dispatch", "rejected", "cleanup", "publish", "refused", "signal"}
  BY <1>1 DEF AfterUpdate
<1>4. p \notin Deciding' /\ (p = Creator => Kept'[Creator] = Entry("over"))
  BY <1>3, KeptIs DEF Deciding
<1>5. CASE expired
  <2>1. UNCHANGED rec
    BY <1>1, <1>5 DEF Inv5
  <2> QED BY <1>1, <1>2, <1>4, <2>1, AbstractStutter DEF storeVars
<1>6. CASE ~expired
  <2>1. rec # Absent
    BY <1>1, <1>6 DEF Inv5, Writers
  <2>2. Visible = rec /\ Lifecycle!Stored
    BY <2>1, VisibleIs
  <2>3. rec' = Merged(p, snap[p]) /\ snap[p].status \in TaskStatuses
    BY <1>1, <1>6 DEF Inv5
  <2>4. Merged(p, snap[p]) # Absent
    <3>1. Merged(p, snap[p]).status \in TaskStatuses
      BY <1>1, <2>3, MergedEnds DEF TaskStatuses
    <3> QED BY <3>1 DEF TaskStatuses, Terminal, Absent
  <2>5. Visible' = rec'
    BY <1>1, <1>6, <2>3, <2>4 DEF Visible
  <2>6. CASE pc[p] = "execWrite"
    <3>1. p = Creator /\ rec' = snap[Creator]
      BY <1>1, <2>3, <2>6, MergedEnds
    <3>2. Kept[Creator] = snap[Creator]
      BY <2>6, <3>1, KeptIs
    <3>3. Kept[Creator] \notin {Lifecycle!NotYet, Lifecycle!Over}
      <4>1. snap[Creator].status \in TaskStatuses
        BY <2>3, <3>1
      <4>2. Lifecycle!NotYet.status \notin TaskStatuses /\ Lifecycle!Over.status \notin TaskStatuses
        BY DEF TaskStatuses, Terminal, Lifecycle!NotYet, Lifecycle!Over
      <4> QED BY <3>2, <4>1, <4>2
    <3>4. Kept' = [Kept EXCEPT ![Creator] = Lifecycle!Over]
      BY <1>4, <3>1 DEF Kept, Entry, Lifecycle!Over
    <3>5. Deciding' = Deciding
      <4>1. p \notin Deciding
        BY <2>6 DEF Deciding
      <4> QED BY <1>2, <1>4, <4>1, OthersStand
    <3>6. Lifecycle!PutBack(Creator)
      BY <1>1, <2>2, <2>5, <3>1, <3>2, <3>3, <3>4, <3>5 DEF Lifecycle!PutBack
    <3> QED BY <3>6 DEF Lifecycle!Next
  <2>7. CASE pc[p] # "execWrite"
    <3>1. p \in Deciding
      BY <1>1, <2>7 DEF Deciding
    <3>2. Deciding' = Deciding \ {p}
      BY <1>2, <1>4, <3>1, OthersStand
    <3>3. Kept' = Kept
      <4>1. CASE p = Creator
        <5>1. Kept[Creator] = Entry("over")
          BY <1>1, <2>7, <4>1, KeptIs
        <5> QED BY <1>4, <4>1, <5>1 DEF Kept
      <4>2. CASE p # Creator
        BY <1>2, <4>2, OthersStand
      <4> QED BY <4>1, <4>2
    <3>4. rec' \in Lifecycle!Decisions
      <4>1. rec' \in Records /\ rec'.status \in Terminal
        BY <1>1, <2>3, <2>7, MergedEnds
      <4> QED BY <4>1 DEF Records, Terminal, Lifecycle!Decisions
    <3>5. Lifecycle!Decide(p)
      BY <1>1, <2>2, <2>5, <3>1, <3>2, <3>3, <3>4 DEF Lifecycle!Decide
    <3> QED BY <3>5 DEF Lifecycle!Next
  <2> QED BY <2>6, <2>7
<1> QED BY <1>5, <1>6

\* The create flow: the record is created once, before anyone else can know it.
LEMMA CreatorImplements ==
  ASSUME Inv1, Inv2, Inv5, CreateTask \/ RunInBackground
  PROVE  Lifecycle!Next
<1> USE ProcessFacts, UpdateLabels
<1>0. pc \in [Processes -> WriterLabels \cup WaiterLabels] /\ snap \in [Writers -> Records]
  BY DEF Inv1, TypeOK
<1>1. CASE CreateTask
  <2>1. /\ pc[Creator] = "idle" /\ rec = Absent /\ ~expired
        /\ pc' = [pc EXCEPT ![Creator] = "execRead"] /\ UNCHANGED <<snap, faults>>
        /\ \/ rec' = Working /\ UNCHANGED expired
           \/ expired' = TRUE /\ UNCHANGED rec
    BY <1>1 DEF CreateTask, Goto, writerVars, Inv2, CreatorFirst, Inv5
  <2>2. Visible = Lifecycle!None
    BY <2>1 DEF Visible, Entry, Lifecycle!None
  <2>3. Visible' \in {Lifecycle!Working, Lifecycle!Gone}
    <3>1. Working # Absent
      BY DEF Working, Absent
    <3> QED BY <2>1, <3>1 DEF Visible, Entry, Working, Lifecycle!Working, Lifecycle!Gone
  <2>4. pc'[Creator] = "execRead" /\ \A q \in Writers \ {Creator} : pc'[q] = pc[q]
    BY <1>0, <2>1
  <2>5. Deciding' = Deciding
    BY <2>1, <2>4 DEF Deciding
  <2>6. Kept'[Creator] = Kept[Creator]
    BY <2>1, <2>4, KeptIs
  <2>7. Kept' = Kept
    BY <2>6 DEF Kept
  <2>8. Lifecycle!Create
    BY <2>1, <2>2, <2>3, <2>5, <2>7 DEF Lifecycle!Create
  <2> QED BY <2>8 DEF Lifecycle!Next
<1>2. CASE RunInBackground
  <2>1. /\ pc[Creator] = "dispatch" /\ UNCHANGED <<rec, expired, faults>>
        /\ pc' = [pc EXCEPT ![Creator] = "responded", ![Runner] = "scheduled"]
    BY <1>2 DEF RunInBackground, storeVars
  <2>2. Deciding' \subseteq Deciding /\ pc'[Creator] = "responded"
    BY <1>0, <2>1 DEF Deciding
  <2>3. Kept'[Creator] = Entry("over")
    BY <2>2, KeptIs
  <2> QED BY <2>1, <2>2, <2>3, AbstractSlack DEF storeVars
<1> QED BY <1>1, <1>2

\* executeTask: only its last read makes the runner a party.
LEMMA RunnerImplements ==
  ASSUME Inv1, Inv5, StartExecution \/ CancelSubscribed \/ ToolReturns \/ CheckStored
                     \/ RunnerPublish \/ Cleanup
  PROVE  Lifecycle!Next
<1> USE ProcessFacts, UpdateLabels
<1>0. /\ pc \in [Processes -> WriterLabels \cup WaiterLabels]
      /\ snap \in [Writers -> Records] /\ faults \in Nat
  BY DEF Inv1, TypeOK
<1>1. Alone(Runner) /\ UNCHANGED storeVars
  BY <1>0 DEF StartExecution, CancelSubscribed, ToolReturns, CheckStored, RunnerPublish,
     Cleanup, Goto, writerVars, Alone
<1>2. CASE CheckStored /\ rec.status = "working"
  <2>1. pc'[Runner] = "finishRead" /\ UNCHANGED <<rec, expired, faults>>
    BY <1>0, <1>2 DEF CheckStored, Goto, Absent, IsTerminal, Terminal, storeVars
  <2>2. Runner \in Deciding'
    BY <2>1 DEF Deciding
  <2> QED BY <1>1, <1>2, <2>1, <2>2, AbstractEntitle
<1>3. CASE ~(CheckStored /\ rec.status = "working")
  <2>1. pc'[Runner] \in {"subscribing", "running", "check", "cleanup", "publish", "done"}
    <3>1. CASE CheckStored
      <4>1. rec = Absent \/ IsTerminal(rec)
        BY <1>3, <3>1 DEF Inv5, TaskStatuses, IsTerminal
      <4> QED BY <1>0, <3>1, <4>1 DEF CheckStored, Goto
    <3>2. CASE ~CheckStored
      BY <1>0, <3>2 DEF StartExecution, CancelSubscribed, ToolReturns, RunnerPublish, Cleanup, Goto
    <3> QED BY <3>1, <3>2
  <2>2. Runner \notin Deciding'
    BY <2>1 DEF Deciding
  <2>3. faults' = faults \/ faults' = faults + 1
    BY DEF StartExecution, CancelSubscribed, ToolReturns, CheckStored, RunnerPublish,
       Cleanup, PublishTerminal, Broadcast, FanOutLocal
  <2> QED BY <1>1, <2>2, <2>3, AbstractStutter
<1> QED BY <1>2, <1>3

\* tasks/cancel: only a get that finds the task working makes the request a party.
LEMMA CancelImplements ==
  ASSUME Inv1, Inv5, NEW c \in Cancellers, CancelGet(c) \/ CancelSignal(c) \/ CancelPublish(c)
  PROVE  Lifecycle!Next
<1> USE ProcessFacts, UpdateLabels
<1>0. /\ pc \in [Processes -> WriterLabels \cup WaiterLabels]
      /\ snap \in [Writers -> Records] /\ faults \in Nat
  BY DEF Inv1, TypeOK
<1>1. Alone(c) /\ UNCHANGED storeVars
  BY <1>0 DEF CancelGet, CancelSignal, CancelPublish, Goto, writerVars, Alone
<1>2. CASE CancelGet(c) /\ rec.status = "working"
  <2>1. pc'[c] = "cancelRead" /\ UNCHANGED <<rec, expired, faults>>
    BY <1>0, <1>2 DEF CancelGet, CancelAllowed, Goto, storeVars
  <2>2. c \in Deciding'
    BY <2>1 DEF Deciding
  <2> QED BY <1>1, <1>2, <2>1, <2>2, AbstractEntitle
<1>3. CASE ~(CancelGet(c) /\ rec.status = "working")
  <2>1. pc'[c] \in {"refused", "publish", "ok"}
    BY <1>0, <1>3 DEF CancelGet, CancelAllowed, CancelSignal, CancelPublish, Goto
  <2>2. c \notin Deciding'
    BY <2>1 DEF Deciding
  <2>3. faults' = faults \/ faults' = faults + 1
    BY DEF CancelGet, CancelSignal, CancelPublish, PublishTerminal, Broadcast, FanOutLocal
  <2> QED BY <1>1, <2>2, <2>3, AbstractStutter
<1> QED BY <1>2, <1>3

\* A rejected call: the error path it leads to may decide.
LEMMA FaultImplements ==
  ASSUME Inv1, NEW p \in Writers, WriterFault(p)
  PROVE  Lifecycle!Next
<1> USE ProcessFacts, UpdateLabels
<1>1. /\ pc \in [Processes -> WriterLabels \cup WaiterLabels]
      /\ UNCHANGED <<rec, expired, snap>> /\ pc' = [pc EXCEPT ![p] = AfterFault(p)]
      /\ faults' = faults + 1
  BY DEF WriterFault, Goto, writerVars, storeVars, Inv1, TypeOK
<1>2. Alone(p)
  BY <1>1 DEF Alone
<1>3. AfterFault(p) \in {"failRead", "rejected", "cleanup", "refused"}
  BY DEF AfterFault
<1>4. p = Creator => Kept'[Creator] = Entry("over")
  BY <1>1, <1>3, KeptIs
<1> QED BY <1>1, <1>2, <1>4, AbstractStutter DEF storeVars

\* Waiters and messages decide nothing, and neither does a crash.
LEMMA OthersImplement ==
  ASSUME Inv1, Inv5,
         \/ DeliverCancel
         \/ \E w \in Waiters : ResultGet(w) \/ Subscribed(w) \/ ResultRead(w) \/ WaiterFault(w)
         \/ \E n \in Nodes : DeliverTerminal(n) \/ Crash(n)
         \/ Expire
  PROVE  Lifecycle!Next
<1> USE ProcessFacts, UpdateLabels
<1>0. pc \in [Processes -> WriterLabels \cup WaiterLabels] /\ faults \in Nat
  BY DEF Inv1, TypeOK
<1>1. ASSUME UNCHANGED <<storeVars, snap>>, \A p \in Writers : pc'[p] \in {pc[p], "dead"},
             faults' = faults \/ faults' = faults + 1
      PROVE  Lifecycle!Next
  <2>1. Deciding' \subseteq Deciding
    BY <1>1 DEF Deciding
  <2>2. Kept'[Creator] \in {Kept[Creator], Entry("over")}
    BY <1>1, KeptIs
  <2> QED BY <1>1, <2>1, <2>2, AbstractSlack
<1>2. CASE DeliverCancel \/ \E n \in Nodes : DeliverTerminal(n)
  BY <1>1, <1>2 DEF DeliverCancel, DeliverTerminal, writerVars
<1>3. ASSUME NEW w \in Waiters, ResultGet(w) \/ Subscribed(w) \/ ResultRead(w) \/ WaiterFault(w)
      PROVE  Lifecycle!Next
  <2>1. UNCHANGED <<storeVars, snap>> /\ (faults' = faults \/ faults' = faults + 1)
    BY <1>3 DEF ResultGet, Subscribed, ResultRead, WaiterFault, writerVars
  <2>2. \E l : pc' = [pc EXCEPT ![w] = l]
    BY <1>3 DEF ResultGet, Subscribed, ResultRead, WaiterFault, Goto
  <2>3. \A p \in Writers : pc'[p] = pc[p]
    BY <1>0, <2>2
  <2> QED BY <1>1, <2>1, <2>3
<1>4. ASSUME NEW n \in Nodes, Crash(n) PROVE Lifecycle!Next
  <2>1. /\ UNCHANGED <<storeVars, snap>> /\ faults' = faults + 1
        /\ \A p \in Writers : pc'[p] \in {pc[p], "dead"}
    BY <1>0, <1>4 DEF Crash, writerVars
  <2> QED BY <1>1, <2>1
<1>5. CASE Expire
  <2>1. rec # Absent /\ expired' = TRUE /\ UNCHANGED <<pc, snap, faults>>
    BY <1>5 DEF Expire, writerVars
  <2>2. Deciding' = Deciding /\ Kept' = Kept
    BY <2>1 DEF Deciding, Kept
  <2>3. Visible' = Lifecycle!Gone /\ Lifecycle!Stored
    BY <2>1, VisibleIs DEF Visible, Entry, Lifecycle!Gone
  <2>4. Lifecycle!Expire
    BY <2>1, <2>2, <2>3 DEF Lifecycle!Expire
  <2> QED BY <2>4 DEF Lifecycle!Next
<1> QED BY <1>2, <1>3, <1>4, <1>5

LEMMA StepImplements ==
  ASSUME Inv1, Inv2, Inv4, Inv5, [Next]_vars
  PROVE  [Lifecycle!Next]_(Lifecycle!vars)
<1>1. CASE UNCHANGED vars
  BY <1>1 DEF vars, storeVars, writerVars, Lifecycle!vars, Visible, Deciding, Kept
<1>2. ASSUME NEW p \in Writers, UpdateRead(p) \/ UpdateWrite(p) \/ WriterFault(p)
      PROVE  Lifecycle!Next
  BY <1>2, UpdateReadImplements, UpdateWriteImplements, FaultImplements
<1>3. CASE CreateTask \/ RunInBackground
  BY <1>3, CreatorImplements
<1>4. CASE StartExecution \/ CancelSubscribed \/ ToolReturns \/ CheckStored
           \/ RunnerPublish \/ Cleanup
  BY <1>4, RunnerImplements
<1>5. ASSUME NEW c \in Cancellers, CancelGet(c) \/ CancelSignal(c) \/ CancelPublish(c)
      PROVE  Lifecycle!Next
  BY <1>5, CancelImplements
<1>6. CASE \/ DeliverCancel
           \/ \E w \in Waiters : ResultGet(w) \/ Subscribed(w) \/ ResultRead(w) \/ WaiterFault(w)
           \/ \E n \in Nodes : DeliverTerminal(n) \/ Crash(n)
           \/ Expire
  BY <1>6, OthersImplement
<1> QED BY <1>1, <1>2, <1>3, <1>4, <1>5, <1>6 DEF Next

LEMMA InitImplements == Init => Lifecycle!Init
<1> SUFFICES ASSUME Init PROVE Lifecycle!Init
  OBVIOUS
<1>1. rec = Absent /\ expired = FALSE /\ faults = 0 /\ \A p \in Writers : pc[p] = "idle"
  BY ProcessFacts DEF Init
<1>2. Visible = Lifecycle!None
  BY <1>1 DEF Visible, Entry, Lifecycle!None
<1>3. Deciding = {}
  BY <1>1, UpdateLabels DEF Deciding
<1>4. Kept[Creator] = Lifecycle!NotYet
  BY <1>1, ProcessFacts, KeptIs DEF Entry, Lifecycle!NotYet
<1>5. Kept = [k \in {Creator} |-> Lifecycle!NotYet]
  BY <1>4 DEF Kept
<1> QED BY <1>1, <1>2, <1>3, <1>5 DEF Lifecycle!Init

\* A task's record lives the life the abstract record allows: it is created once, decided
\* only by a cancel or a runner that saw the task working or by the error path of a fault,
\* put back at most once by the create flow's late write of the executor, and never comes
\* back once it expired, however the read-modify-writes of StorageTaskStore.update
\* interleave over any number of nodes and requests.
THEOREM RecordImplemented == Spec => ImplementsRecord
<1>1. Init => Inv1 /\ Inv2 /\ Inv4 /\ Inv5
  BY InitInv1, InitInv2, InitInv4, InitInv5
<1>2. Inv1 /\ Inv2 /\ Inv4 /\ Inv5 /\ [Next]_vars => (Inv1 /\ Inv2 /\ Inv4 /\ Inv5)'
  BY StepInv1, StepInv2, StepInv4, StepInv5
<1>3. Inv1 /\ Inv2 /\ Inv4 /\ Inv5 /\ [Next]_vars => [Lifecycle!Next]_(Lifecycle!vars)
  BY StepImplements
<1> QED BY <1>1, <1>2, <1>3, InitImplements, PTL DEF Spec, ImplementsRecord, Lifecycle!Spec

=============================================================================
