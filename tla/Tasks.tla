------------------------------- MODULE Tasks -------------------------------
(***************************************************************************)
(* One background task (a task-augmented tools/call) over several server   *)
(* nodes that share one storage: its record in StorageTaskStore, the flow  *)
(* that creates it, the in-process runner that executes it on its home     *)
(* node, the tasks/cancel and tasks/result requests other clients make on  *)
(* any node, the two pub/sub channels of the task, and its expiry.         *)
(*                                                                         *)
(* Every await on the storage is an interleaving point: a handler's read   *)
(* and the write that uses it are two actions.  StorageTaskStore.update is *)
(* such a pair (a read-modify-write), shared by all writers.               *)
(***************************************************************************)
EXTENDS Naturals, Sequences

CONSTANTS
  Nodes,       \* server processes
  Home,        \* the node that received the tools/call and runs the task
  Creator,     \* the call-tool flow that creates the task
  Runner,      \* executeTask, on the home node
  Cancellers,  \* tasks/cancel requests
  Waiters,     \* tasks/result requests
  NodeOf,      \* the node each request arrived at
  MaxFaults    \* bound: rejected storage calls and node crashes together

Writers == {Creator, Runner} \cup Cancellers
Processes == Writers \cup Waiters

ASSUME TasksAssumption ==
  /\ Home \in Nodes
  /\ Creator # Runner
  /\ {Creator, Runner} \cap (Cancellers \cup Waiters) = {}
  /\ Cancellers \cap Waiters = {}
  /\ NodeOf \in [Processes -> Nodes]
  /\ NodeOf[Creator] = Home /\ NodeOf[Runner] = Home
  /\ MaxFaults \in Nat

VARIABLES
  rec,       \* the stored record; "absent" when there is none
  expired,   \* the record's expiresAt has passed
  pc,        \* control of every process
  snap,      \* what a writer's store.update read, then returned, while in use
  final,     \* the patch executeTask computed when the tool returned
  tracked,   \* the home node's TaskRegistry holds the task's controller
  aborted,   \* that controller's signal is aborted
  listening, \* the runner's cancel callback is subscribed
  cancelMsg, \* a cancel message is on its way to the home node
  answer,    \* what a tasks/result request has been settled with
  callbacks, \* terminalCallbacks of each node's store, for this task
  handle,    \* the node's terminalSubs has an unsubscribe handle
  channel,   \* the storage adapter's subscription of the node
  handlers,  \* the handlers the adapter holds for that channel
  inbox,     \* terminal messages on their way to the node
  faults

storeVars   == <<rec, expired>>
writerVars  == <<snap, final>>
runnerVars  == <<tracked, aborted, listening, cancelMsg>>
waiterVars  == <<answer, callbacks, handle, channel, handlers>>
vars == <<storeVars, pc, writerVars, runnerVars, waiterVars, inbox, faults>>

----------------------------------------------------------------------------
(* Records and patches                                                     *)

Terminal == {"completed", "failed", "cancelled"}
Status   == {"absent", "working"} \cup Terminal
\* "error" is a thrown error or a result that says isError: true.
ToolResults == {"ok", "error"}
Outcomes == {"none"} \cup ToolResults
Records  == [status : Status, outcome : Outcomes]

Absent  == [status |-> "absent", outcome |-> "none"]
Working == [status |-> "working", outcome |-> "none"]
Failed  == [status |-> "failed", outcome |-> "error"]
\* A settled waiter's answer is a record, Absent (TaskNotFoundError) or one of:
NoAnswer == [status |-> "waiting", outcome |-> "none"]
Rejected == [status |-> "error", outcome |-> "none"]
Answers  == Records \cup {NoAnswer, Rejected}

IsTerminal(r) == r.status \in Terminal

FinalStatus(res, ab) ==
  IF ab THEN "cancelled" ELSE IF res = "ok" THEN "completed" ELSE "failed"
\* What executeTask writes when the tool returned `res`.
FinalPatchDropsOutcome(res, ab) == [status |-> FinalStatus(res, ab), outcome |-> "none"]
FinalPatch(res, ab) == [status |-> FinalStatus(res, ab), outcome |-> res]

\* {...existing, ...patch}, by the place a writer is at.
Merged(p, r) ==
  CASE pc[p] = "execWrite" -> r                                    \* executor only
    [] pc[p] = "cancelWrite" -> [r EXCEPT !.status = "cancelled"]
    [] pc[p] = "failWrite" /\ p = Creator -> [r EXCEPT !.status = "failed"]
    [] pc[p] = "failWrite" /\ p = Runner -> Failed
    [] OTHER -> final

----------------------------------------------------------------------------
(* Control labels of the writers                                           *)

WriteOf == [execRead |-> "execWrite", failRead |-> "failWrite",
            finishRead |-> "finishWrite", cancelRead |-> "cancelWrite"]
Reading == DOMAIN WriteOf
Writing == {WriteOf[l] : l \in Reading}

\* Where a writer goes when its update returned r (Absent is the code's null).
AfterUpdate(p, r) ==
  CASE p = Creator -> IF pc[p] \in {"execRead", "execWrite"} THEN "dispatch" ELSE "rejected"
    [] p = Runner -> IF r = Absent THEN "cleanup" ELSE "publish"
    [] OTHER -> IF r = Absent THEN "refused" ELSE "signal"

\* Where a writer goes when the storage call it awaits is rejected.
AfterFaultGivesUp(p) ==
  IF p = Runner THEN "cleanup" ELSE IF p = Creator THEN "rejected" ELSE "refused"
AfterFault(p) ==
  CASE p = Creator -> IF pc[p] \in {"execRead", "execWrite"} THEN "failRead" ELSE "rejected"
    [] p = Runner  -> IF pc[p] \in {"failRead", "failWrite"} THEN "cleanup" ELSE "failRead"
    [] OTHER -> "refused"

WriterLabels == Reading \cup Writing \cup
  {"idle", "dispatch", "responded", "rejected",                        \* creator
   "scheduled", "subscribing", "running", "check", "cleanup", "done",  \* runner
   "signal", "publish", "ok", "refused", "dead"}                       \* cancel
WaiterLabels == {"idle", "opening", "recheck", "polling", "done", "dead"}

----------------------------------------------------------------------------
(* The terminal channel of a node                                          *)

\* The callbacks of node n that a message with record r settles.
Hearers(n, r) == {w \in callbacks[n] : answer[w] = NoAnswer /\ IsTerminal(r)}
\* Only a waiter past its subscription holds the unsubscribe closure.
CanUnsubscribe(S) == {w \in S : pc[w] # "opening"}
\* The last callbacks leave: the storage unsubscribes the node's handle.
DropsHandleEarly(n, gone) == gone # {}
DropsHandle(n, gone) == gone # {} /\ callbacks[n] = gone /\ handle[n]

\* finalize(r) for the waiters S of node n: settle each, and run the
\* unsubscribe closure of those that have it.
Settle(n, S, r) ==
  LET gone == CanUnsubscribe(S) \cap callbacks[n]
      drop == DropsHandle(n, gone)
  IN  /\ answer' = [w \in Waiters |-> IF w \in S THEN r ELSE answer[w]]
      /\ callbacks' = [callbacks EXCEPT ![n] = @ \ gone]
      /\ handle' = [handle EXCEPT ![n] = @ /\ ~drop]
      /\ handlers' = [handlers EXCEPT ![n] = IF drop THEN @ - 1 ELSE @]
      /\ channel' = [channel EXCEPT ![n] =
                       IF drop /\ handlers[n] = 1 THEN "off" ELSE @]

\* publishTerminal(r) by a process on node n: to every connected node, or, when
\* the storage rejects the call, to the callbacks of the publisher's own node.
Broadcast(r) ==
  /\ inbox' = [m \in Nodes |-> IF channel[m] = "on" THEN Append(inbox[m], r) ELSE inbox[m]]
  /\ UNCHANGED <<waiterVars, faults>>
FanOutLocal(n, r) ==
  /\ faults < MaxFaults /\ faults' = faults + 1
  /\ Settle(n, Hearers(n, r), r)
  /\ UNCHANGED inbox
PublishTerminal(n, r) == Broadcast(r) \/ FanOutLocal(n, r)

----------------------------------------------------------------------------
Init ==
  /\ rec = Absent /\ expired = FALSE
  /\ pc = [p \in Processes |-> "idle"]
  /\ snap = [p \in Writers |-> Absent]
  /\ final = Absent
  /\ tracked = FALSE /\ aborted = FALSE /\ listening = FALSE /\ cancelMsg = FALSE
  /\ answer = [w \in Waiters |-> NoAnswer]
  /\ callbacks = [n \in Nodes |-> {}]
  /\ handle = [n \in Nodes |-> FALSE]
  /\ channel = [n \in Nodes |-> "off"]
  /\ handlers = [n \in Nodes |-> 0]
  /\ inbox = [n \in Nodes |-> <<>>]
  /\ faults = 0

Goto(p, l) == pc' = [pc EXCEPT ![p] = l]

\* Clients learn the id from the first status notification, before run() ends.
Announced == pc[Creator] # "idle"

----------------------------------------------------------------------------
(* StorageTaskStore.update, for every writer                               *)

UpdateRead(p) ==
  /\ pc[p] \in Reading
  /\ snap' = [snap EXCEPT ![p] = rec]
  /\ Goto(p, IF rec = Absent THEN AfterUpdate(p, Absent) ELSE WriteOf[pc[p]])
  /\ UNCHANGED <<storeVars, final, runnerVars, waiterVars, inbox, faults>>

\* The snapshot, merged, is written back; a record past its expiry is deleted
\* instead and the update returns null.
UpdateWrite(p) ==
  /\ pc[p] \in Writing
  /\ LET r == IF expired THEN Absent ELSE Merged(p, snap[p])
     IN  /\ rec' = r
         /\ snap' = [snap EXCEPT ![p] = r]
         /\ Goto(p, AfterUpdate(p, r))
  /\ UNCHANGED <<expired, final, runnerVars, waiterVars, inbox, faults>>

\* A storage call of a writer is rejected before it takes effect.  An exception
\* in executeTask aborts the controller before the error path.
WriterFault(p) ==
  /\ faults < MaxFaults /\ faults' = faults + 1
  /\ \/ pc[p] \in Reading \cup Writing
     \/ p = Creator /\ pc[p] = "idle"
     \/ p = Runner /\ pc[p] \in {"subscribing", "check"}
     \/ p \in Cancellers /\ pc[p] = "idle" /\ Announced
  /\ Goto(p, AfterFault(p))
  /\ aborted' = (aborted \/ p = Runner)
  /\ UNCHANGED <<storeVars, writerVars, tracked, listening, cancelMsg, waiterVars, inbox>>

----------------------------------------------------------------------------
(* createTaskIfRequested and InProcessTaskRunner.run                       *)

\* A ttl of zero expires the record before the store writes it.
CreateTask ==
  /\ pc[Creator] = "idle"
  /\ \/ rec' = Working /\ UNCHANGED expired
     \/ expired' = TRUE /\ UNCHANGED rec
  /\ Goto(Creator, "execRead")
  /\ UNCHANGED <<writerVars, runnerVars, waiterVars, inbox, faults>>

\* The record of the host is written: schedule executeTask and respond.
RunInBackground ==
  /\ pc[Creator] = "dispatch"
  /\ pc' = [pc EXCEPT ![Creator] = "responded", ![Runner] = "scheduled"]
  /\ snap' = [snap EXCEPT ![Creator] = Absent]
  /\ UNCHANGED <<storeVars, final, runnerVars, waiterVars, inbox, faults>>

----------------------------------------------------------------------------
(* executeTask                                                             *)

StartExecution ==
  /\ pc[Runner] = "scheduled"
  /\ tracked' = TRUE
  /\ Goto(Runner, "subscribing")
  /\ UNCHANGED <<storeVars, writerVars, aborted, listening, cancelMsg, waiterVars,
                 inbox, faults>>

CancelSubscribed ==
  /\ pc[Runner] = "subscribing"
  /\ listening' = TRUE
  /\ Goto(Runner, "running")
  /\ UNCHANGED <<storeVars, writerVars, tracked, aborted, cancelMsg, waiterVars,
                 inbox, faults>>

\* The tool may return anything whether or not its signal is aborted.  Its result
\* is kept in `final` until the check decides what to write.
ToolReturns ==
  /\ pc[Runner] = "running"
  /\ \E res \in ToolResults : final' = [status |-> "working", outcome |-> res]
  /\ Goto(Runner, "check")
  /\ UNCHANGED <<storeVars, snap, runnerVars, waiterVars, inbox, faults>>

\* The read that protects a state another handler made terminal, and the
\* choice of the final status.
CheckStored ==
  /\ pc[Runner] = "check"
  /\ snap' = [snap EXCEPT ![Runner] = rec]
  /\ Goto(Runner, CASE rec = Absent -> "cleanup"
                    [] IsTerminal(rec) -> "publish"
                    [] OTHER -> "finishRead")
  /\ final' = FinalPatch(final.outcome, aborted)
  /\ UNCHANGED <<storeVars, runnerVars, waiterVars, inbox, faults>>

RunnerPublish ==
  /\ pc[Runner] = "publish"
  /\ PublishTerminal(Home, snap[Runner])
  /\ snap' = [snap EXCEPT ![Runner] = Absent]
  /\ Goto(Runner, "cleanup")
  /\ UNCHANGED <<storeVars, final, runnerVars>>

\* The finally block: untrack and unsubscribe.
Cleanup ==
  /\ pc[Runner] = "cleanup"
  /\ tracked' = FALSE /\ listening' = FALSE
  /\ snap' = [snap EXCEPT ![Runner] = Absent] /\ final' = Absent
  /\ Goto(Runner, "done")
  /\ UNCHANGED <<storeVars, aborted, cancelMsg, waiterVars, inbox, faults>>

\* The runner's cancel callback.
DeliverCancel ==
  /\ cancelMsg
  /\ cancelMsg' = FALSE
  /\ aborted' = (aborted \/ listening)
  /\ UNCHANGED <<storeVars, pc, writerVars, tracked, listening, waiterVars, inbox, faults>>

----------------------------------------------------------------------------
(* tasks/cancel                                                            *)

CancelUnlessGone(r) == r # Absent
CancelAllowed(r) == r.status = "working"

CancelGet(c) ==
  /\ pc[c] = "idle" /\ Announced
  /\ Goto(c, IF CancelAllowed(rec) THEN "cancelRead" ELSE "refused")
  /\ UNCHANGED <<storeVars, writerVars, runnerVars, waiterVars, inbox, faults>>

\* runner.cancel, which aborts a controller of this node only, then publishCancel,
\* which on a rejected publish runs this node's callbacks.
CancelSignal(c) ==
  /\ pc[c] = "signal"
  /\ LET local == NodeOf[c] = Home /\ tracked
     IN \/ /\ aborted' = (aborted \/ local)
           /\ cancelMsg' = (cancelMsg \/ listening)
           /\ UNCHANGED faults
        \/ /\ faults < MaxFaults /\ faults' = faults + 1
           /\ aborted' = (aborted \/ local \/ (NodeOf[c] = Home /\ listening))
           /\ UNCHANGED cancelMsg
  /\ Goto(c, "publish")
  /\ UNCHANGED <<storeVars, writerVars, tracked, listening, waiterVars, inbox>>

CancelPublish(c) ==
  /\ pc[c] = "publish"
  /\ PublishTerminal(NodeOf[c], snap[c])
  /\ snap' = [snap EXCEPT ![c] = Absent]
  /\ Goto(c, "ok")
  /\ UNCHANGED <<storeVars, final, runnerVars>>

----------------------------------------------------------------------------
(* tasks/result                                                            *)

\* The first read; on a live task, subscribeTerminal.  The callback joins the
\* node's set at once.  Without a handle the store asks the adapter, which only
\* contacts the server when it has no handler set for the channel yet.
ResultGet(w) ==
  LET n == NodeOf[w] IN
  /\ pc[w] = "idle" /\ Announced
  /\ \/ /\ rec.status # "working"
        /\ answer' = [answer EXCEPT ![w] = rec]
        /\ Goto(w, "done")
        /\ UNCHANGED <<callbacks, handle, channel, handlers>>
     \/ /\ rec.status = "working"
        /\ callbacks' = [callbacks EXCEPT ![n] = @ \cup {w}]
        /\ \/ /\ handle[n]
              /\ Goto(w, "recheck")
              /\ UNCHANGED <<handle, channel, handlers>>
           \/ /\ ~handle[n] /\ channel[n] = "off"
              /\ channel' = [channel EXCEPT ![n] = "opening"]
              /\ Goto(w, "opening")
              /\ UNCHANGED <<handle, handlers>>
           \/ /\ ~handle[n] /\ channel[n] # "off"
              /\ handlers' = [handlers EXCEPT ![n] = @ + 1]
              /\ handle' = [handle EXCEPT ![n] = TRUE]
              /\ Goto(w, "recheck")
              /\ UNCHANGED channel
        /\ UNCHANGED answer
  /\ UNCHANGED <<storeVars, writerVars, runnerVars, inbox, faults>>

\* The server confirmed the subscription.  A waiter another handler's message
\* has settled meanwhile keeps its callback: its finalize had no closure to run.
Subscribed(w) ==
  LET n == NodeOf[w] IN
  /\ pc[w] = "opening"
  /\ channel' = [channel EXCEPT ![n] = "on"]
  /\ handlers' = [handlers EXCEPT ![n] = @ + 1]
  /\ handle' = [handle EXCEPT ![n] = TRUE]
  /\ Goto(w, IF answer[w] = NoAnswer THEN "recheck" ELSE "done")
  /\ UNCHANGED <<storeVars, writerVars, runnerVars, answer, callbacks, inbox, faults>>

\* Where a waiter that read a live record goes: its timer is armed.
AfterLiveReadNoTimer == "done"
AfterLiveRead == "polling"

\* The read after subscribing and each poll are the same step.
ResultRead(w) ==
  /\ pc[w] \in {"recheck", "polling"} /\ answer[w] = NoAnswer
  /\ IF rec.status = "working"
       THEN Goto(w, AfterLiveRead) /\ UNCHANGED waiterVars
       ELSE Goto(w, "done") /\ Settle(NodeOf[w], {w}, rec)
  /\ UNCHANGED <<storeVars, writerVars, runnerVars, inbox, faults>>

\* A message of the terminal channel runs every callback of the node.
DeliverTerminal(n) ==
  /\ inbox[n] # <<>>
  /\ inbox' = [inbox EXCEPT ![n] = Tail(@)]
  /\ IF handlers[n] > 0
       THEN Settle(n, Hearers(n, Head(inbox[n])), Head(inbox[n]))
       ELSE UNCHANGED waiterVars
  /\ UNCHANGED <<storeVars, pc, writerVars, runnerVars, faults>>

\* A storage call of a waiter is rejected.  A failed subscription leaves the
\* callback behind, and the adapter an empty handler set: it never contacts the
\* server again for this channel.
WaiterFault(w) ==
  LET n == NodeOf[w] IN
  /\ faults < MaxFaults /\ faults' = faults + 1
  /\ pc[w] \in {"idle", "opening", "recheck", "polling"} /\ Announced
  /\ \/ pc[w] # "opening" /\ answer[w] = NoAnswer /\ Settle(n, {w}, Rejected)
     \/ /\ pc[w] = "opening"
        /\ answer' = [answer EXCEPT ![w] = IF @ = NoAnswer THEN Rejected ELSE @]
        /\ channel' = [channel EXCEPT ![n] = "broken"]
        /\ UNCHANGED <<callbacks, handle, handlers>>
  /\ Goto(w, "done")
  /\ UNCHANGED <<storeVars, writerVars, runnerVars, inbox>>

----------------------------------------------------------------------------
(* Environment                                                             *)

\* The ttl passes: reads return null from now on, writes delete.
Expire ==
  /\ rec # Absent
  /\ rec' = Absent /\ expired' = TRUE
  /\ UNCHANGED <<pc, writerVars, runnerVars, waiterVars, inbox, faults>>

\* A node dies with everything it holds in memory.
Crash(n) ==
  /\ faults < MaxFaults /\ faults' = faults + 1
  /\ pc' = [p \in Processes |-> IF NodeOf[p] = n THEN "dead" ELSE pc[p]]
  /\ callbacks' = [callbacks EXCEPT ![n] = {}]
  /\ handle' = [handle EXCEPT ![n] = FALSE]
  /\ channel' = [channel EXCEPT ![n] = "off"]
  /\ handlers' = [handlers EXCEPT ![n] = 0]
  /\ inbox' = [inbox EXCEPT ![n] = <<>>]
  /\ tracked' = (tracked /\ n # Home)
  /\ listening' = (listening /\ n # Home)
  /\ cancelMsg' = (cancelMsg /\ n # Home)
  /\ UNCHANGED <<storeVars, writerVars, aborted, answer>>

Next ==
  \/ CreateTask \/ RunInBackground
  \/ StartExecution \/ CancelSubscribed \/ ToolReturns \/ CheckStored
  \/ RunnerPublish \/ Cleanup \/ DeliverCancel
  \/ \E p \in Writers : UpdateRead(p) \/ UpdateWrite(p) \/ WriterFault(p)
  \/ \E c \in Cancellers : CancelGet(c) \/ CancelSignal(c) \/ CancelPublish(c)
  \/ \E w \in Waiters : ResultGet(w) \/ Subscribed(w) \/ ResultRead(w) \/ WaiterFault(w)
  \/ \E n \in Nodes : DeliverTerminal(n) \/ Crash(n)
  \/ Expire

Spec == Init /\ [][Next]_vars

\* Promises and timers of a live node do run, the storage answers, and time
\* passes.  Nothing is assumed of the tool, the runner or the other clients.
Fairness ==
  /\ \A w \in Waiters : WF_vars(Subscribed(w)) /\ WF_vars(ResultRead(w))
  /\ WF_vars(Expire)
FairSpec == Spec /\ Fairness

----------------------------------------------------------------------------
(* Properties                                                              *)

TypeOK ==
  /\ rec \in Records /\ expired \in BOOLEAN
  /\ pc \in [Processes -> WriterLabels \cup WaiterLabels]
  /\ snap \in [Writers -> Records] /\ final \in Records
  /\ tracked \in BOOLEAN /\ aborted \in BOOLEAN
  /\ listening \in BOOLEAN /\ cancelMsg \in BOOLEAN
  /\ answer \in [Waiters -> Answers]
  /\ callbacks \in [Nodes -> SUBSET Waiters]
  /\ handle \in [Nodes -> BOOLEAN]
  /\ channel \in [Nodes -> {"off", "opening", "on", "broken"}]
  /\ handlers \in [Nodes -> Nat]
  /\ inbox \in [Nodes -> Seq(Records)]
  /\ faults \in Nat

\* A success is stored under "completed", or under "cancelled" when a cancel
\* overtook it, and a completed or executor-only record never lacks or invents
\* an outcome, however the writers' read-modify-writes interleave.
OutcomeFits(r) ==
  /\ r.status = "completed" => r.outcome = "ok"
  /\ r.outcome = "ok" => r.status \in {"completed", "cancelled"}
  /\ r.status \in {"absent", "working"} => r.outcome = "none"
OutcomeMatchesStatus == OutcomeFits(rec)

\* When every handler has returned, the home node lives and at most one storage
\* call failed, the task is not left working: the error paths of executeTask
\* and of the create flow close it, and a late executor write that revived it
\* is followed by the runner's own.
Quiet == \A p \in Writers :
  pc[p] \in {"idle", "responded", "rejected", "done", "ok", "refused", "dead"}
NoStuckTask ==
  Quiet /\ faults <= 1 /\ pc[Runner] # "dead" => rec.status # "working"

\* A terminal record with no writer past its check stays as it is until it
\* expires: no handler that starts later overwrites it.  Only a storage fault
\* in executeTask, whose error path writes "failed" unasked, can.
Settled == IsTerminal(rec) /\ \A p \in Writers : pc[p] \notin Reading \cup Writing
SettledStays ==
  [][Settled => \/ Settled' /\ rec' = rec
                \/ rec' = Absent
                \/ faults' > faults]_vars

\* Every step is one of the abstract record: the lifecycle its clients rely on.
\* A decision is made by a canceller or the runner that found the task working, or by
\* the error path a fault led to; the creator puts the record back with its executor.
Entry(s) == [status |-> s, outcome |-> "none"]
Visible == IF expired THEN Entry("gone") ELSE IF rec = Absent THEN Entry("none") ELSE rec
Deciding == {p \in Writers : pc[p] \in (Reading \cup Writing) \ {"execRead", "execWrite"}}
Kept == [k \in {Creator} |->
  CASE pc[k] \in {"idle", "execRead"} -> Entry("not yet")
    [] pc[k] = "execWrite" -> snap[k]
    [] OTHER -> Entry("over")]
Lifecycle == INSTANCE TaskRecord
  WITH Parties <- Writers, Keepers <- {Creator}, record <- Visible, entitled <- Deciding,
       copy <- Kept, troubles <- faults
ImplementsRecord == Lifecycle!Spec

\* A waiter past its subscription keeps its node connected to the terminal
\* channel, whoever else on the node unsubscribes.
ListenersStayConnected ==
  \A w \in Waiters :
    pc[w] \in {"recheck", "polling"} /\ answer[w] = NoAnswer =>
      w \in callbacks[NodeOf[w]] /\ handlers[NodeOf[w]] > 0 /\ channel[NodeOf[w]] # "off"

\* Every tasks/result request on a live node is answered, even when the tool
\* never returns, its node dies, or every message to the waiter is lost: the
\* timer re-reads the store until the record is terminal or gone.
Waiting(w) == pc[w] \in {"opening", "recheck", "polling"} /\ answer[w] = NoAnswer
WaitersReturn == \A w \in Waiters : Waiting(w) ~> (answer[w] # NoAnswer \/ pc[w] = "dead")

\* task-runner.ts, lines 100-103: "Once a task is cancelled, it MUST remain in
\* cancelled status even if execution continues."
CancelledIsFinal ==
  [][rec.status = "cancelled" => rec'.status \in {"cancelled", "absent"}]_rec

=============================================================================
