# FrontMCP in TLA+

FrontMCP (`src/libs`, TypeScript) is a framework for servers of the Model
Context Protocol.  A server is one or several Node processes behind an HTTP or
stdio front, with state that outlives a request kept in a storage (memory,
Redis, SQLite, key-value services).  This directory models the parts of it
whose correctness depends on the *order* of things: handlers of several clients
on several nodes that share one storage, pub/sub messages, timers, crashes.

* [1 Inventory](#1-inventory) of the system
* [2 Plan](#2-plan)
* [3 Modules](#3-modules): how state and actions correspond to the code
* [4 Runs](#4-runs): what is checked, with which bounds and fairness
* [5 Theorems](#5-theorems): what is proved and how
* [6 What the models leave out](#6-what-the-models-leave-out)

Run `tlc -config MCTasks.cfg MCTasks` (and so on) for a run, `tlapm
TasksProofs.tla` for the proofs of a module.

Paths below are relative to `src/libs`; `sdk` stands for `sdk/src`.

## 1 Inventory

| component | state | operations | what is hard |
|---|---|---|---|
| Tasks (`sdk/task`, `sdk/tool/flows/call-tool.flow.ts`) | the stored `TaskRecord`; per node: running controllers, terminal and cancel callbacks, channel handles | create, run, cancel, result, get, list, expiry | three writers read-modify-write one record; pub/sub is at-most-once; the executor may die |
| High availability (`sdk/ha`) | heartbeat keys; the node id in a session record; scanner flags | beat, scan, claim, relay | claims race; snapshots of the live set are stale; pods restart under their name |
| Transport registry and bus (`sdk/transport`, `auth/src/session/redis-session.store.ts`) | local transports, creation mutex, terminated set, stored record, bus entry | create, look up, recreate, take over, advertise, destroy | creations overlap; record writes are not awaited; four places name the owner |
| Guard (`guard/src`) | counter and ticket keys of a semaphore; window counters of a rate limiter | acquire, queue, release, reset; check | transient increments, rejected calls, crashes while a slot is held, timeouts |
| Elicitation (`sdk/elicitation`) | pending records, result subscriptions, resolved results, fallback contexts | ask, answer, cancel, fall back to a tool call and re-invoke | answers arrive before the subscription, twice, or on another node |
| Notifications (`sdk/notification`) | registered servers, terminated sessions, resource subscriptions, log levels | register, terminate, subscribe, notify, relay | sends race with unregistration; re-initialisation |
| Channels (`sdk/channel`) | replay buffers, subscriptions | push, replay | order of replayed and live events |
| Jobs and workflows (`sdk/job`, `sdk/workflow`) | run records, attempts, step results | run, retry, time out, approve | a failed bookkeeping write retries a body that succeeded; a timed-out attempt goes on |
| Remote MCP client (`sdk/remote-mcp`) | circuit breaker, connections, health, capability cache | call, retry, probe, trip, reset | results of calls that began in another breaker state |
| Flow runtime and hooks (`sdk/flows`, `sdk/hooks`) | the stage plan of a request | run stages, respond, fail, finalize | finalize must follow every outcome |
| Auth library and flows (`auth/src`, `sdk/auth`) | authorization codes, refresh and access tokens, registered clients, vaults, rate limits | issue, redeem once, rotate, revoke | code and token stores are read-then-delete |
| Storage adapters (`utils/src/storage`, `storage-sqlite/src`) | keys with a ttl, subscriptions | get, set, incr, publish, subscribe | expiry, subscriptions that fail half-way |
| Registries, scope, server bootstrap | what a server offers | built at start-up | little: sequential |
| ESM loader, health, metrics, logging, UI, CLI, testing, plugins | caches and reports | | dominated by I/O or rendering |

How they interact.  An HTTP request goes through `HttpRequestFlow`, which asks
the notification service whether the session is terminated and the transport
registry for a transport; the registry asks the bus, the session store and,
through the HA manager, the takeover script.  A `tools/call` that reaches a
transport runs `CallToolFlow`: it may create a task (then the in-process runner
runs the same flow again in the background), takes a guard semaphore, runs the
tool's body under a timeout, and always runs its finalize stages.  Tasks,
elicitation, sessions and the guard meet other nodes only through the storage
and its channels, and TypeScript code is interrupted only at an `await`:
so **an action of a model is the code between two awaits**, and every call of
the storage is a point where anyone else may step.

What makes each component correct:

* Tasks: a record never says something its writers did not mean together; it
  is never left working when all who could change it have gone; what is
  terminal stays; everyone who waits is answered.
* Sessions: one transport per node; one owner, changed by one claimer at a
  time; those who wait for a creation are answered; orphans are adopted.
* Semaphore: the counter counts; the limit holds; a queued call returns.
* Elicitation: a question is settled once; the adapter's slot and the stored record
  name a question that is open; every ask
  returns, in the fallback down a chain of re-invocations.
* Remote client: what is connected is watched and what is wanted can be
  reconnected, whichever operations overlap; it heals after an outage.
* Jobs and workflows: dependencies first, always something to run or to skip,
  an answer that neither the record nor the steps contradict, and an end.
* Tasks of the command line: no status with another's outcome; only dead workers
  are orphans, and they are reported; what is found settled is not rewritten.

`PROJECT.json` lists every component with its status, and the hazards of the
code, at the line where they bite, with the properties that cover them.

## 2 Plan

1. **`Tasks`**: the largest piece of concurrent logic.
2. **`HaSessions`**: registry, bus, HA manager and session store *composed* for
   one session.
3. **`Semaphore`** and its abstract specification **`BoundedEntry`**, with the
   refinement proved.
4. **`Elicitation`**: adapter slot, pending store, result channel and answer
   flow *composed* for one session; **`ElicitationFallback`**: the fallback tool and
   its re-invocations.
5. **`RemoteClient`**: connection, health checks and reconnect timer of one app.
6. **`Jobs`**: the workflow engine over the job manager, with every state write.
7. **`CliTasks`**: the SQLite store with its liveness probe and the CLI runner.
8. **`TaskRecord`**: the life of a task's record, abstractly, which `Tasks` and
   `CliTasks` both implement, with both refinements proved.

All are done, with proofs.  What would come next, in this order: an abstract owner
of a session that `HaSessions` implements; the per-session
provider cache, which is filled across awaits; the circuit breaker in front of
`RemoteClient`'s calls; the rate limiter's sliding window as a pure function
against a reference definition; the authorization-code and refresh-token stores.

## 3 Modules

| module | models |
|---|---|
| `Tasks` | one background task on its home node and the others |
| `HaSessions` | one session across the pods of a distributed deployment |
| `Semaphore` | one key of the distributed semaphore and the calls that use it |
| `BoundedEntry` | the promise of such a limit, abstractly |
| `TaskRecord` | what becomes of a task's record, abstractly: for `Tasks` and `CliTasks` |
| `Elicitation` | the native elicitations of one session |
| `ElicitationFallback` | elicitation through a tool call, with its re-invocations |
| `RemoteClient` | the connection of one remote app |
| `Jobs` | one run of a job or a workflow |
| `CliTasks` | one background task of the command line |
| `MC` + name of a module | the small instance for TLC |
| name of a module + `Proofs` | its theorems |

### Tasks

| model | code |
|---|---|
| `rec`, `expired` | the record of `StorageTaskStore` and whether `expiresAt` has passed |
| `pc` of `Creator` | `createTaskIfRequested`, `InProcessTaskRunner.run` |
| `pc` of `Runner`, `final`, `tracked`, `aborted`, `listening` | `executeTask`, the node's `TaskRegistry`, its controller, `subscribeCancel` |
| `pc` of `Cancellers`, `snap` | `tasks/cancel`; what a `store.update` has read, then returned |
| `pc` of `Waiters`, `answer` | `tasks/result` and what `finalize` settled it with |
| `callbacks`, `handle` | `terminalCallbacks` and `terminalSubs` of each node's store |
| `channel`, `handlers` | the Redis adapter's subscription and handler set |
| `inbox`, `cancelMsg` | messages under way |

`UpdateRead`/`UpdateWrite` are the two storage calls of `store.update`, the same
for the executor write of `run()`, the runner's final write, its error path and
the cancel flow; `Merged` says what each writes.  `CheckStored` is the runner's
read that protects a terminal record.  `RunnerPublish` and `CancelPublish` are
`publishTerminal`: to the channel or, when the publish is rejected, to the
callbacks of the same node.  `ResultGet`, `Subscribed` and `ResultRead` are
`tasks/result`: first read and `subscribeTerminal`, the confirmation, and the
re-check and polls.  `WriterFault`, `WaiterFault` are rejected storage calls,
with the code's error path for each place; `Crash` loses what a node holds in
memory; `Expire` is the record's ttl.

A client learns the task's id from the status notification that is sent
before `run()`, so cancels may overlap the executor write.  A waiter whose
callback fires before `unsubscribe` is assigned stays in the callback set, and
two overlapping subscribers leave one handler behind, as in the code.

### TaskRecord

What a client may rely on for a record that several parties write without a lock,
in eight actions: it is created once, decided by a party that is *entitled* to,
put back once by a *keeper* of another field (the pid, the executor) as that keeper
had read it, and never there again once it is gone.  `Tasks` maps to it with the
writers past their check as entitled parties and the create flow as the keeper;
`CliTasks` with the processes that saw the task working, or that a fault made give up
on it, and with the parent and the worker, which both register the pid.  A decision
that overwrites another is in the abstract record too: both stores allow it
(`CancelledIsFinal`); what neither allows is a decision by a party that never saw
the task at work, a second put-back, or a return from the ttl.

### HaSessions

| model | code |
|---|---|
| `owner` | `session.nodeId` of the record in `RedisSessionStore` |
| `bus` | the hash of `RedisTransportBus` |
| `local`, `ended`, `pending` | the registry's transport, the notification service's terminated set, `creationMutex` |
| `pipe` | `sessionStore.set`/`delete` calls nobody awaits |
| `pc`, `at`, `seen` | a request in `getTransporter`, `getStoredSession`, `recreateTransporter` |
| `beat`, `scan`, `alive`, `orphan` | heartbeat keys; `runOrphanScan` and its local variables |
| `claims`, `reverted` | history variables for the properties |

`TakeOver` and `ScanClaim` are `attemptSessionTakeover`, atomic because it is a
Lua script.  `Build` is `doRecreateTransporter` (or `doCreateTransporter`) from the
takeover to `bus.advertise`: it inserts the transport and sends the record *as
it was read*, which names the previous owner; that is what `reverted` records.
`Restart` brings a pod back under the same machine id (a StatefulSet's HOSTNAME).
The record is written without a signature: `enableSigning` is off, its default.

### Semaphore

`count` and `tickets` are the keys `…:count` and `…:ticket:*`; a call's `pc` is its
place in `acquire`, `tryAcquire`, `waitForSlot`, the flow's execute stage and
`release`; `late` is the queue's deadline, `body` the tool bodies that run.
`Increment`/`StoreTicket`/`BackOff` are the storage calls of `tryAcquire`,
`DeleteTicket`/`Decrement`/`Zero` those of `release`, `ResetCounter`/`ResetTickets`
those of `forceReset`.  `SkipBody` is any stage between the acquisition and the
body that fails or responds, `BodyTimesOut` is `withTimeout` losing interest.
`BoundedEntry` says the same in three actions: enter while there is room, leave,
and void the limit (an operator's reset).

### Elicitation

| model | code |
|---|---|
| `pending` | the record of `StorageElicitationStore`, one per session |
| `slot` | `pendingElicit` of the session's transport adapter |
| `pc`, `seen`, `result` of an ask | `cancelPendingElicit`, `ElicitationRequestFlow`, `sendElicitRequest`, and what the promise was settled with |
| `sub`, `inbox` | the question's result channel: subscription and messages |
| `reply`, `found` | the client's answer: `handleIfElicitResult`, then `ElicitationResultFlow` and the record it found |

`Ask` cancels the question in the slot, `CheckPending`, `PublishCancel` and
`ClearPending` are the awaits of that cancellation, `StorePending` and `Send` ask the
new one.  `Settle` is `cleanup` with `safeResolve`; `TimesOut` and `SubscribeFails` are
the callbacks that clear the slot themselves and then remove the record
(`GiveUp`).  `Answer` on the adapter's node settles *whatever question is in the
slot*, before the flow validates anything, as the code does; on another node only
the flow runs.  A subscription that is not confirmed when its promise is settled
is never closed; it delivers to nobody, which `SettledOnce` is about.

### ElicitationFallback

| model | code |
|---|---|
| `stored`, `expired` | the pending fallbacks of the store, by the call that asked |
| `pc` of `Original` | `CallToolFlow.execute` of the tool and `handleWaitingFallback` |
| `pc` of `Answerers`, `target` | `SendElicitationResultTool.execute` and the question it answers |
| `used`, `asked`, `inner` | the injected answer of a run, the question that aborted it, what it gave its call |
| `sub`, `inbox` | the wait's result channel |

A run asks at most one question without an answer, so a call also names its
question.  A re-invocation runs the tool from its start (`TakeAnswer`: the *first*
`elicit()` takes the answer, whichever it is), and may itself be aborted and
wait: calls form chains.  `StoreAndWait` and `StoreAndInstruct` are the two kinds of
transport; `Publish`, `Retract` and `CleanUp` are the end of an answerer, whose
catch block may publish a failure after the success.

### RemoteClient

| model | code |
|---|---|
| `config`, `current`, `status` | `configs`, `connections` of `McpClientService` |
| `op`, `pc`, `held` of a run | one execution of `connect`, `disconnect`, `reconnect`, of the app or of the timer |
| `timer`, `attempts` | `reconnectTimers`, `reconnectAttempts` |
| `checker`, `orphans` | the app's `HealthChecker`; removed ones whose check is in flight |
| `calls` | clients with a `callTool` in flight |
| `up`, `live` | the remote server and the transports that work |
| `overlap`, `wanted` | history variables for the properties |

An action ends at each await: `BeginConnect` up to `client.connect`, `ConnectSucceeds`
stores the connection, `Discovered` starts the health check and cancels the timer;
`BeginDisconnect` up to `client.close`, `Closed` removes what the app has *now*.
`StatusChange` is `handleHealthStatusChange`, called only on a change of a checker's
status.  `CheckEnds` and `CallFails` apply to the checker there is when they end.

### Jobs

| model | code |
|---|---|
| `st`, `attempt` | the engine's `completed`, `failed`, `skipped` sets and the attempts of `executeStep` |
| `phase` | the place in `executeJobInline`/`executeWorkflowInline` and in the engine's loop |
| `record`, `answer` | the state in the job state store; what the execution returned or threw |
| `stuck` | the engine took its "deadlock" exit |

`StartBatch` takes the ready steps up to `maxConcurrency` and evaluates conditions and
inputs; `BodyReturns`, `BodyThrows`, `TimesOut` and `Retry` are an attempt's outcomes;
`SkipDependents` is the round in which nothing is ready.  The five writes of the
record are `Create`, `Start`, `JobStores`/`WorkflowStores`, `RecordRetry` and
`RecordFailure`; each may fail, having been applied or not.  `Expire` is the ttl of
the record (`redis-job-state.store.ts:48,66`) or a `cleanup`, which removes by age and
spares no run under way: it may come at any time.  From then on `updateRun` writes
nothing and reports success (`redis-job-state.store.ts:61-62`,
`memory-job-state.store.ts:20-21`); `Updated` is that rule, and only `createRun`
(`Create`) is without it.

### CliTasks

| model | code |
|---|---|
| `row` | the row of `SqliteTaskStore`: status, outcome, whether `executor.pid` is recorded |
| `pc` of `Parent` | `createTaskIfRequested`, `CliTaskRunner.run` |
| `pc` of `Worker`, `final`, `aborted` | `executeTaskWorker` and `executeTask`, its patch, its controller |
| `pc`, `seen` of `Cancellers`, `Readers` | `tasks/cancel` and `tasks/result`, and the row their `get` returned |
| `snap` | the row the SELECT of a `store.update` returned |

Every process is one of its own: `better-sqlite3` is synchronous, so only other
processes come between two statements, and store events do not cross them.
`Get`, `Probe` and the update at `"reporting"` are the three parts of a `store.get` that
meets a dead worker.  `Signal` is SIGTERM, which ends a worker whose handler is not
yet installed and aborts one whose handler is.

## 4 Runs

All runs set `CHECK_DEADLOCK FALSE`: a task, a session, a question, an execution and
a set of calls come to an end, and nothing is left to do.

| run | question | result |
|---|---|---|
| `MCTasks` | is the record consistent and closed, does it live the abstract life; are waiters connected and answered | holds |
| `MCTasksCancelled` | "Once a task is cancelled, it MUST remain in cancelled status" | violated |
| `MCHaSessions` | one transport per node, one claim per owner until a write-back, joiners served | holds |
| `MCHaAdoption` | sessions of dead pods are adopted | holds |
| `MCHaExactlyOnce` | "Exactly one will succeed" | violated |
| `MCSemaphore` | is the counter exact, do queues return, is the limit implemented | holds |
| `MCElicitation` | does the slot wait, is a question settled once, is a stored record's question open, do asks return | holds |
| `MCElicitationFallback` | has a re-invocation taken its question, did what is reported happen, do subscriptions and calls end | holds |
| `MCRemoteClient` | is a connection watched, can it be reconnected, is a healer left, does it heal | holds |
| `MCJobs` | dependencies first, never stuck, an answer the store does not contradict, an end | holds |
| `MCJobsDownstream` | "downstream dependents are `skipped`" | violated |
| `MCCliTasks` | is the row consistent, does it live the abstract life, are orphans dead and dead workers reported | holds |

### Bounds

* `MCTasks`: two nodes, the runner with one canceller on the first, two waiters
  on the second, `MaxFaults` 1.  Two waiters on one node are what the sharing of
  a handle needs; that they are away from the runner makes every message
  remote.  The cancel is on the runner's node so that its local abort is
  taken.  The creator, the runner and the cancel already are three writers of
  one record.  One fault reaches each error path; a second would only end the
  error path itself (`NoStuckTask` says "at most one" for that reason).
* `MCTasksCancelled`: no fault is needed, so `MaxFaults` is 0.
* `MCHaSessions`: two pods, an initialize, two messages, one DELETE, one fault;
  pods and messages are symmetric.  Two messages on one pod are a creator and a
  joiner, on two pods two claimers next to two scanners.
* `MCHaAdoption`: liveness, so without symmetry and with one message, but two
  faults: the crash of the owner and one of the adopter, or a scan that fails.
* `MCHaExactlyOnce` needs a third pod's worth of claimers.
* `MCSemaphore`: three calls for one slot, two of them queueing, over two nodes
  so that a crash takes some and leaves others; one fault, one reset.
* `MCElicitation`: two asks, which overlap or follow each other, with both their
  answers and one fault.  Every conflict in the code is between a question and
  the one before or after it; a third ask repeats one of the two.
* `MCElicitationFallback`: a tool of two questions and two answers, which race for
  one question or form a chain of two waiting runs; one fault.
* `MCRemoteClient`: two client objects, two runs that can overlap, two operations of
  the app, one call in flight, one outage or failure; two failures make a checker
  unhealthy, one pass makes it healthy, one reconnect attempt is allowed (the code
  resets the count on each attempt, so the limit does not stop it).
* `MCJobs`: every dependency relation on three steps, those `validateDag` refuses
  included, with a lenient step or none; batches of two, two attempts, two faults
  (a run recorded as completed that answers with an error takes two rejected writes);
  the record may expire before or after any write.
  Three steps are the least with a cycle that is not a loop or a pair, with two
  levels of skips, and with a batch that leaves a step behind.
* `MCCliTasks`: one canceller and one reader besides parent and worker are four
  writers of one row (the reader writes an orphan's failure); two faults, so that
  the worker dies and something else fails.
* `MaxFaults`, `MaxResets`, `MaxRequests` and `MaxCalls` are the only bounds in the
  modules; the systems are finite otherwise, or as good as: `claims`, `handlers`
  and the messages grow by at most one for each request.

### Fairness

* `Tasks`: weak fairness of `Subscribed`, `ResultRead` and `Expire`.  A connected
  client library confirms or rejects a subscription; the poll timer of a waiter
  re-arms itself (`tasks-result.flow.ts:163,184`); time passes.  The tool, the
  runner, the other clients and the delivery of messages get none, so
  `WaitersReturn` rests on polling alone, as the code's comment says it must.
* `HaSessions`: weak fairness of heartbeats, of a dead pod's lapse and of the
  scan's steps: all are `setInterval` timers and storage calls.  No restart and
  no request is promised.
* `Semaphore`: weak fairness of the storage calls of an attempt and of the
  clock.  No body ever has to end, so a queued call may never get its slot:
  `QueueReturns` asks for an answer, not for the slot.
* `Elicitation`: weak fairness of an ask's own storage calls and of its timer.  The
  client, the answer's flow, the confirmation of a subscription and the channel get
  none: `AsksReturn` rests on the timer, which starts with the wait.
* `ElicitationFallback`: weak fairness of a call's own steps (the storage answers or
  rejects, the tool's code ends) and of the passing of time.  No answer is owed.
* `RemoteClient`: weak fairness of the operations' awaits (requests time out), of
  timers and intervals, and of the server's return.  The app need not call a tool.
* `Jobs`: weak fairness of the manager, the engine and the timers of steps; and of a
  job's body, which the code gives no timeout (section 4, last part), so that an
  execution of a hanging job never ends.  What expires gets none.  The bodies of steps get none: `Settles` rests on their timers.
* `CliTasks`: weak fairness of a waiter's poll alone.

### What the violated runs show

* `CancelledIsFinal`.  `executeTask` reads the status, then calls `store.update`,
  which reads and writes.  A cancel between the last read and the write is
  overwritten, and so is one between the two awaits of the executor write.
* `ExactlyOneClaim`.  The write-back restores the owner from before the takeover:
  the next scan or request claims the session again from the same dead pod.
* `DownstreamSkipped`.  Only the direct dependents of a failed step are skipped,
  and a skipped step resolves its own dependents, which then run.

### What the models also show, without a run

Each of these is a behaviour of a module above that a comment or document
promises otherwise; a state of the model shows it.

* A cancelled task is terminal without an outcome (`tasks-cancel.flow.ts:105-108`),
  though `task.types.ts:100` says it is "Populated once `status` reaches a terminal
  state"; `tasks/result` on it fails with `TASK_MISSING_OUTCOME`.
* While the bus names another pod, `getTransporter` returns a `RemoteTransporter`, and
  the recreation that `redis-transport-bus.ts:150-152` counts on is not reached.
* Nothing reconciles the semaphore's counter with its tickets, although
  `concurrency/README.md:12` says that it "self-corrects as stale tickets expire".
* A timed-out body outlives its slot, so `maxConcurrent`
  (`concurrency/types.ts:11-12`, "concurrent executions") bounds the slots only.
* The elicitation record is one per session: an answer whose question's record has
  been overwritten is published to the other question's channel, or ignored,
  when it arrives at a node other than the adapter's
  (`transport.streamable-http.adapter.ts:150-151`).
* In the fallback the first `elicit()` of a re-invocation takes the answer, so the
  second question of a chain (`elicitation/README.md:173`) re-asks the first.
* `reconnect` goes through `disconnect`, which clears the attempt count: the
  "Maximum number of auto-reconnect attempts" (`mcp-client.types.ts:284`) is never
  reached and the back-off never grows.
* With overlapping operations `Heals` fails: an orphaned health check that passes
  cancels its successor's timer.  Its condition `~overlap` says so.
* `executeJobInline` never reads the `timeout` of a job, although `jobs.mdx:206`
  (`docs/frontmcp/servers`) lists it as "Maximum execution time in ms (5 min)" and
  `job.metadata.ts:132` gives it that default: a job whose body hangs runs for ever.
  A workflow's steps are timed.
* A crash leaves a job's record running until it expires, and so does a failed write
  in an error path (`AnswerIsTrue` asks less of an `error` with faults for that reason).
* A run that outlasts its record goes on and answers as ever, and nothing of it is
  stored: `AnswerIsTrue` says that the store does not contradict the answer, and no
  more can be said.
* A CLI task's reader that saw it working, and probes after the worker completed and
  exited, rewrites `completed` to `failed`: `ImplementsRecord` entitles exactly the
  processes that saw the task at work (`background-tasks.mdx:148`, "Terminal is
  final").  A cancel before the pid is recorded sends no signal.

## 5 Theorems

Proved by TLAPS for every value of the constants that satisfies the modules'
assumptions (`TasksAssumption` and so on: roles are disjoint, the home node is a
node, the set of calls is finite, bounds are natural numbers, a checker needs at
least two failures; its default is three).  Each is
`Spec => []Property` (or `Spec => Property`) of the specification TLC checks,
without fairness, which safety does not need.  "No run" marks a property that no
configuration lists: a run checks a stronger one (the refinements say more than
`SettledStays` and `SlotsBounded`, `ExecutionHappened` more than `ExecutedByAnswer`),
or the liveness property it is a part of.

| module | theorem | property |
|---|---|---|
| `TasksProofs` | `TypeCorrect` | `TypeOK` |
| | `OutcomesCorrect` | `OutcomeMatchesStatus` |
| | `SettledCorrect` | `SettledStays` (no run) |
| | `SubscriptionsCorrect` | `ListenersStayConnected` |
| | `NotLeftWorking` | `NoStuckTask` |
| | `RecordImplemented` | `ImplementsRecord` |
| `HaSessionsProofs` | `TypeCorrect` | `TypeOK` |
| | `ClaimedOnceCorrect` | `ClaimedOnce` |
| | `OneTransport` | `OneTransportPerNode` |
| | `JoinersServed` | `JoinersHaveCreator` |
| | `HealthySparedHolds` | `HealthySpared` (no run) |
| `SemaphoreProofs` | `TypeCorrect` | `TypeOK` |
| | `CounterCorrect` | `CounterExact` |
| | `LimitCorrect` | `SlotsBounded` (no run) |
| | `LimitImplemented` | `ImplementsLimit` |
| `ElicitationProofs` | `TypeCorrect` | `TypeOK` |
| | `SlotAlwaysWaits` | `SlotWaits` |
| | `SettledOnceHolds` | `SettledOnce` |
| | `RecordIsOpenHolds` | `RecordIsOpen` |
| | `AsksGoForwardHolds` | `AsksGoForward` (no run) |
| `ElicitationFallbackProofs` | `TypeCorrect` | `TypeOK` |
| | `RunTookRecordHolds` | `RunTookRecord` |
| | `ExecutedByAnswerHolds` | `ExecutedByAnswer` (no run) |
| | `ExecutionHappenedHolds` | `ExecutionHappened` |
| | `NoIdleSubscriptionHolds` | `NoIdleSubscription` |
| | `CallsGoForwardHolds` | `CallsGoForward` (no run) |
| `RemoteClientProofs` | `TypeCorrect` | `TypeOK` |
| | `MonitoredHolds` | `Monitored` |
| | `ReconnectableHolds` | `Reconnectable` |
| | `HealerLeftHolds` | `HealerLeft` |
| `JobsProofs` | `TypeCorrect` | `TypeOK` |
| | `DependenciesFirstHolds` | `DependenciesFirst` |
| | `NeverStuckHolds` | `NeverStuck` |
| | `AnswerIsTrueHolds` | `AnswerIsTrue` |
| | `AdvancesHolds` | `AlwaysAdvances` (no run) |
| | `WaitsForStepsHolds` | `WaitsForSteps` (no run) |
| `CliTasksProofs` | `TypeCorrect` | `TypeOK` |
| | `OutcomeFitsHolds` | `OutcomeFits` |
| | `OrphansAreDeadHolds` | `OrphansAreDead` |
| | `SettledStaysHolds` | `SettledStays` (no run) |
| | `RecordImplemented` | `ImplementsRecord` |

* **Tasks.**  What is stored is consistent because what is *about to be stored*
  is: the invariant says of every snapshot and of the runner's patch that they
  fit their place (a snapshot taken for a cancel is of a record that existed,
  the patch carries the outcome its status needs).  `SettledStays` then needs
  only that a writer past its guard is at a read or write label.  For the
  subscriptions the invariant ties handle, handlers and channel of a node to
  each other and counts no callback: a handle implies a handler, a handler
  implies a channel that is not off, a callback of a waiting waiter implies a
  handle.  That last clause is what an unsubscribe could break, and does not,
  because the last callback to leave is the one that drops the handle.
  `NoStuckTask` is proved from who is left to write (`CloserLeft`): while the record
  says "working" the create flow is before the runner's start, or the runner is
  before its last write.  No cancel makes a record "working" again, and the
  executor's late write does so only before the runner starts.  An error path is
  entered by one rejected call and left without a write by a second only
  (`ErrorsCounted`), which is why the property allows one.  For the refinement,
  `Inv5` says that what is stored and what is about to be stored is the whole record
  of a task, and that a record nobody has created has no writer: otherwise an abstract
  decision could create it.  Each action then is one abstract step; the steps of
  messages, callbacks and waiters are stutters, and a fault that takes a writer from
  its place is `Trouble` or `Withdraw`.
* **HaSessions.**  `ClaimedOnce` is not inductive: a claim from `m` after `m` was
  claimed from would break it, unless the record no longer names `m`.  The
  strengthening says so, and says which writes in `pipe` may still name it
  (`ClaimInv`, with `SeenInv` for what a request has read).  `MutexInv` ties
  `pending` to the one request that creates; both other theorems follow
  from it with `TransportInv` and `JoinInv`.  `HealthySpared` rests on `Healthy`: until
  the first fault every snapshot of the heartbeats is complete, so any owner a scan
  reads later, wherever requests have moved the session meanwhile, is in it.
* **Semaphore.**  The counter equals the cardinality of a set of labels, so each
  action's case is a fact about adding or removing one element; a call is
  granted a slot on the value its own increment returned, and the slots are
  a subset of the counted calls, hence the bound.  The refinement maps each
  action to `Enter`, `Leave`, `Void` or a stutter.
* **Elicitation.**  A promise is settled only while it waits, and what is in the
  slot waits, so the invariant adds that a result belongs to an ask that is done
  (`ResultIsFinal`); `SettledOnce` follows step by step.  `RecordIsOpen` has an
  invariant of its own: a question has no answer and no subscription before it is
  sent (`QuietBeforeSend`), and who publishes goes on to remove
  (`PublisherRemoves`), so whenever the question of a record is over there is
  somebody left who removes it.  `AsksGoForward` needs `SlotWaits` alone: an ask can be
  moved by another only while it waits.
* **ElicitationFallback.**  A record is stored by a call whose run is over, and an
  answer targets such a call (`AskedIsOver`, `TargetIsOver`), so nobody stores the
  record again once an answerer has removed it.  For `ExecutedByAnswer` the
  invariant says of a *message* what the property says of a call: one that reports
  an execution comes from an answerer of that question (`ExecutedMessages`).
  `ExecutedByAnswer` by itself would allow calls that vouch for each other in a ring;
  `ExecutionHappened` excludes it.  A call is told of only when its own question is
  asked, so the one that answers is younger: every set of calls has one that no other
  of the set answers (`NoRing`, inductive because `target` changes only for an idle
  answerer, which nobody targets), and in the set of aborted calls that report an
  execution that one contradicts `ExecutedByAnswer`.
* **RemoteClient.**  `Watched` strengthens `Monitored` to the moments when
  operations are in progress: a connection without a checker has a run that is
  about to start one, or is about to remove the connection.  `Reconnectable` needs
  that the app awaits its operations (`OneRequest`) and that a run past
  `connect`'s start has stored the request (`ConnectsByConfig`).  `HealerLeft` holds as
  long as operations have not overlapped: `Alone` then gives the one run the connection
  to itself, and says that a check or call that succeeds speaks for the current
  connection, so that it is never the wrong timer that is cancelled.
* **Jobs.**  The engine only runs graphs it has validated.  Were there nothing
  ready and nothing blocked, no step that remains would have all its dependencies
  settled, so the remaining steps would all depend on each other, which
  `Acyclic` excludes.  The other two need that a step is attempted before it is
  active (`Tried`) and that a result is stored when all is settled (`StoresAll`).
  `AnswerIsTrue` is kept by `Expire`, which only makes the store silent; that it takes
  two rejected writes to throw over a record that says `completed` needs
  `CompletedByFault`: the first leaves it there, the second ends the execution.
  `AlwaysAdvances` gives every step a position (attempt, then stage) and every phase a
  place: each action moves a step forward and none back, or leaves the steps alone and
  moves the phase forward.  The action that starts a batch needs that a batch is never
  empty: of the ready steps the least, by well-foundedness, has none before it and is
  taken whatever `maxConcurrency` is.  `WaitsForSteps` adds that nothing a batch waits
  for is without a timer.
* **CliTasks.**  As for `Tasks`, what is true of the row is proved of every copy
  that an update holds (`RowsFit`, `OrphansFit`); a client at `"reporting"` has found
  the worker dead (`FoundDead`), and death is for good, which is a lemma about
  steps (`DeathLasts`).  The refinement needs of the row and of every copy that they
  are the whole record of a task, and that copies come after the row (`RowsReal`).

Only model-checked: the liveness properties (`WaitersReturn`, `OrphansAdopted`,
`QueueReturns`, `AsksReturn`, `CallsReturn`, `Heals`, `Settles`, `OrphansReported`), out
of the prover's reach.  Of four of them the part that is safety is proved: an ask,
a call, an execution make finitely many steps (`AsksGoForward`, `CallsGoForward`,
`AlwaysAdvances`), what an execution waits for has a timer (`WaitsForSteps`), and a
connection that is wanted has somebody left to restore it (`HealerLeft`).  What is
left to TLC is that fairness then makes the remaining steps happen.  Every invariant and
every action property that a passing run checks is a theorem, and so are the three
refinements.

## 6 What the models leave out

* **Data.**  A tool's result is `ok` or `error`; a session record is its owner.
  Status messages, timestamps, capabilities, request bodies and authorization are
  left out, as are notifications to clients (best-effort, read by nobody in
  the server).
* **Storage calls are atomic** and a rejected call takes no effect.  A call that
  took effect and was reported as failed is not modelled, except in `Jobs`
  (`WriteFails`).
* **Tasks**: `input_required` is never written by the code.  `cancel()` of the
  in-process runner and `publishCancel` are one step.  `tasks/get` and
  `tasks/list` only read.
* **HaSessions**: the exception that lets an `initialize` with the id of a terminated
  session unmark it and initialize it again (`http.request.flow.ts:481-491`): the
  session is initialized once, before any DELETE, and what is checked is of that one
  life.  SSE sessions (never recreated), stateless and anonymous
  transports, the session history, and capability updates.  `startOrphanScanner`'s
  grace period delays the first scan only; a graceful stop is a crash whose
  heartbeat lapses at once.  The relay of the HA manager is not constructed
  without a pub/sub client, and `destroy-session` messages have no consumer in
  the code; neither changes any state.
* **Semaphore**: the `released` notification only wakes a queued call early, and
  queued calls may try at any time.  Partition keys choose which semaphore.
* **Elicitation**: `getPending`'s late removal of a record it found expired may come
  (`ExpirePending`) whenever some question is over and somebody is at `getPending`,
  without tracking which record was read.  The SSE adapter's copy of the native path, the conversion of
  schemas, and what an answer contains: it matches its question's schema or not.
* **ElicitationFallback**: the identity of sessions; a language model that answers
  a question it was never told of.
* **RemoteClient**: the circuit breaker and the retries inside one call, which
  change no state of the model; the capability cache; health checks that outlast
  their interval (the default timeout is shorter).  One app: apps share nothing.
* **Jobs**: `updateRun`'s read and its set are one action.  What expires between them is
  put back by the set, which is as if it had not expired, since nobody else in the
  model reads the record.  The body of an attempt that timed out goes on unseen by the engine, and
  so by the model; permissions; batches are taken in the order of the steps.
* **CliTasks**: a pid that the system gives to another process; a probe that is not
  permitted to look (EPERM); several requests in one process.
* Components with status `not_modelled` in `PROJECT.json`, with the reason there.
