--------------------------------- MODULE Jobs ---------------------------------
(***************************************************************************)
(* JobExecutionManager, WorkflowEngine and WorkflowStepExecutor: one run   *)
(* of a job or of a workflow, the record of it in the job state store and  *)
(* the answer of executeJobInline or executeWorkflowInline.                *)
(*                                                                         *)
(* A workflow is a graph of steps.  The engine runs the steps whose        *)
(* dependencies are resolved in batches of maxConcurrency, each step an    *)
(* attempt at a time under a timer, and waits for the whole batch.  The    *)
(* body of an attempt that timed out goes on unseen: nothing waits for it. *)
(* A job is run as step 1 on its own, without a timer.                     *)
(*                                                                         *)
(* The record may go at any time, by its ttl or by a cleanup, which look   *)
(* at its age and never at its state: what is written afterwards is lost,  *)
(* and the writer is not told.                                             *)
(***************************************************************************)
EXTENDS Naturals, FiniteSets

CONSTANTS
  NumSteps,
  Workflows,      \* the graphs: dependsOn of each step, the steps with continueOnError
  MaxConcurrency,
  MaxAttempts,
  MaxFaults       \* bound: writes of the store that fail, crashes

Steps == 1 .. NumSteps

ASSUME JobsAssumption ==
  /\ NumSteps \in Nat \ {0} /\ MaxConcurrency \in Nat \ {0}
  /\ MaxAttempts \in Nat \ {0} /\ MaxFaults \in Nat
  /\ Workflows \subseteq [deps : [Steps -> SUBSET Steps], lenient : SUBSET Steps]

VARIABLES
  kind,    \* "job" or "workflow"
  flow,    \* the workflow
  phase,   \* where the run is
  st,      \* per step: what the engine knows of it
  attempt, \* per step: attempts made
  stuck,   \* history: the engine gave up on steps it could not resolve
  record,  \* the state of the run in the store, "gone" once it has expired
  answer,  \* what the execution returned ("error": it threw)
  faults

runVars == <<kind, flow>>
stepVars == <<st, attempt>>
execVars == <<runVars, phase, stepVars, stuck, answer, faults>>
vars == <<execVars, record>>

----------------------------------------------------------------------------
(* Steps                                                                   *)

\* completed, failed and skipped; a step that failed with continueOnError is "tolerated".
ResolvedStates == {"completed", "tolerated", "skipped"}
SettledStates == ResolvedStates \cup {"failed"}

InStates(states) == {s \in Steps : st[s] \in states}
FailedSteps == InStates({"failed"})
AnySettled == InStates(SettledStates)
Resolved == InStates(ResolvedStates)
Remaining == Steps \ InStates(SettledStates)

\* validateDag: no set of steps depends on itself.
NotOnItself == \A s \in Steps : s \notin flow.deps[s]
Acyclic == \A S \in SUBSET Steps : S # {} => \E s \in S : flow.deps[s] \cap S = {}

Ready == {s \in Remaining : flow.deps[s] \subseteq Resolved}
Batch == {s \in Ready : Cardinality({r \in Ready : r < s}) < MaxConcurrency}
Blocked == {s \in Remaining : flow.deps[s] \cap FailedSteps # {}}

Failure(s) == IF kind = "workflow" /\ s \in flow.lenient THEN "tolerated" ELSE "failed"

\* The state of the workflow's result.
ResultOfAll == IF \E s \in Steps : st[s] \in {"failed", "tolerated"} THEN "failed" ELSE "completed"
Result == IF FailedSteps = {} THEN "completed" ELSE "failed"

----------------------------------------------------------------------------
Init ==
  /\ kind \in {"job", "workflow"} /\ flow \in Workflows
  /\ phase = "new"
  /\ st = [s \in Steps |-> "waiting"] /\ attempt = [s \in Steps |-> 0]
  /\ stuck = FALSE /\ record = "none" /\ answer = "none" /\ faults = 0

Fault == faults < MaxFaults /\ faults' = faults + 1
Goto(p) == phase' = p /\ UNCHANGED answer
Ends(a) == phase' = "ended" /\ answer' = a
\* updateRun reads the record first, and returns as if it had written when there is none.
\* What expires between its read and its set is put back by the set, as if it had not.
Updated(v) == IF record = "gone" THEN "gone" ELSE v
Written(v) == record' = Updated(v) /\ UNCHANGED faults
\* A write that fails may have been applied.
WriteFails(v) == Fault /\ record' \in {record, Updated(v)}
Moves(s, state) == st' = [st EXCEPT ![s] = state]

\* createRun stores whatever was there.
Create ==
  /\ phase = "new"
  /\ \/ record' = "pending" /\ UNCHANGED faults /\ Goto("created")
     \/ record' \in {record, "pending"} /\ Fault /\ Ends("error")
  /\ UNCHANGED <<runVars, stepVars, stuck>>

\* The write of "running" is outside every try of the execution.
Start ==
  /\ phase = "created"
  /\ \/ /\ Written("running")
        /\ \/ kind = "workflow" /\ Goto("validating") /\ UNCHANGED stepVars
           \/ /\ kind = "job" /\ Goto("attempts")
              /\ Moves(1, "body") /\ attempt' = [attempt EXCEPT ![1] = 1]
     \/ WriteFails("running") /\ Ends("error") /\ UNCHANGED stepVars
  /\ UNCHANGED <<runVars, stuck>>

----------------------------------------------------------------------------
(* The engine                                                              *)

ValidateDag ==
  /\ phase = "validating"
  /\ IF Acyclic THEN Goto("loop") ELSE Goto("failing")
  /\ UNCHANGED <<runVars, stepVars, stuck, record, faults>>

\* The deadline is compared before each round and never during one.
DeadlinePassed ==
  /\ phase = "loop" /\ Remaining # {}
  /\ Goto("failing")
  /\ UNCHANGED <<runVars, stepVars, stuck, record, faults>>

\* Conditions and inputs are evaluated as the batch starts: a condition may skip the
\* step, an input that throws or an unknown job fails it without an attempt.
StartBatch ==
  /\ phase = "loop" /\ Ready # {}
  /\ \E o \in [Batch -> {"body", "skipped", "failed"}] :
       /\ st' = [s \in Steps |->
                   IF s \notin Batch THEN st[s]
                   ELSE IF o[s] = "failed" THEN Failure(s) ELSE o[s]]
       /\ attempt' = [s \in Steps |->
                        IF s \in Batch /\ o[s] = "body" THEN 1 ELSE attempt[s]]
  /\ Goto("batch")
  /\ UNCHANGED <<runVars, stuck, record, faults>>

\* Nothing is ready: the direct dependents of failed steps are skipped, and so resolved;
\* if there are none, everything that is left is.
SkipDependents ==
  /\ phase = "loop" /\ Ready = {} /\ Remaining # {}
  /\ LET skips == IF Blocked # {} THEN Blocked ELSE Remaining
     IN  st' = [s \in Steps |-> IF s \in skips THEN "skipped" ELSE st[s]]
  /\ stuck' = (Blocked = {})
  /\ IF Blocked # {} THEN Goto("loop") ELSE Goto("storing")
  /\ UNCHANGED <<runVars, attempt, record, faults>>

AllSettled ==
  /\ phase = "loop" /\ Remaining = {}
  /\ Goto("storing")
  /\ UNCHANGED <<runVars, stepVars, stuck, record, faults>>

BatchEnds ==
  /\ phase = "batch" /\ InStates({"body", "backoff"}) = {}
  /\ Goto("loop")
  /\ UNCHANGED <<runVars, stepVars, stuck, record, faults>>

----------------------------------------------------------------------------
(* Attempts of a step, and of a job                                        *)

OneMore(s) == attempt[s] <= MaxAttempts
MoreAttempts(s) == attempt[s] < MaxAttempts

\* A job records each failed attempt before it waits for the next.
AttemptFails(s) ==
  /\ Moves(s, IF MoreAttempts(s) THEN "backoff" ELSE Failure(s))
  /\ \/ kind = "workflow" /\ Goto("batch")
     \/ kind = "job" /\ Goto(IF MoreAttempts(s) THEN "retrying" ELSE "failing")
  /\ UNCHANGED <<runVars, attempt, stuck>>

Running(s) == phase \in {"batch", "attempts"} /\ st[s] = "body"

BodyReturns(s) ==
  /\ Running(s) /\ Moves(s, "completed")
  /\ IF kind = "job" THEN Goto("storing") ELSE Goto(phase)
  /\ UNCHANGED <<runVars, attempt, stuck, record, faults>>

BodyThrows(s) == Running(s) /\ AttemptFails(s) /\ UNCHANGED <<record, faults>>

\* executeWithTimeout, of every attempt of a step.
TimedOnce(s) == attempt[s] = 1
Timed(s) == kind = "workflow"
TimesOut(s) == Running(s) /\ Timed(s) /\ AttemptFails(s) /\ UNCHANGED <<record, faults>>

Retry(s) ==
  /\ phase \in {"batch", "attempts"} /\ st[s] = "backoff"
  /\ Moves(s, "body") /\ attempt' = [attempt EXCEPT ![s] = @ + 1]
  /\ UNCHANGED <<runVars, phase, stuck, record, answer, faults>>

----------------------------------------------------------------------------
(* The record                                                              *)

\* The result is written inside the try: a job takes a write that fails for a failed
\* attempt, a workflow records itself as failed.
JobStores ==
  /\ phase = "storing" /\ kind = "job"
  /\ \/ Written("completed") /\ Ends("completed") /\ UNCHANGED <<runVars, stepVars, stuck>>
     \/ WriteFails("completed") /\ AttemptFails(1)

WorkflowStores ==
  /\ phase = "storing" /\ kind = "workflow"
  /\ \/ Written(Result) /\ Ends(Result)
     \/ WriteFails(Result) /\ Goto("failing")
  /\ UNCHANGED <<runVars, stepVars, stuck>>

RecordRetry ==
  /\ phase = "retrying"
  /\ \/ Written("retrying") /\ Goto("attempts")
     \/ WriteFails("retrying") /\ Ends("error")
  /\ UNCHANGED <<runVars, stepVars, stuck>>

RecordFailure ==
  /\ phase = "failing"
  /\ Written("failed") \/ WriteFails("failed")
  /\ Ends("error")
  /\ UNCHANGED <<runVars, stepVars, stuck>>

\* The ttl of the record, which every write renews, or a cleanup of old runs.
Expire ==
  /\ record \notin {"none", "gone"} /\ record' = "gone"
  /\ UNCHANGED execVars

\* Nothing takes up the runs of a process that died.
Crash ==
  /\ phase \notin {"new", "ended", "dead"} /\ Fault
  /\ Goto("dead")
  /\ UNCHANGED <<runVars, stepVars, stuck, record>>

ManagerStep ==
  \/ Create \/ Start \/ JobStores \/ WorkflowStores \/ RecordRetry \/ RecordFailure
EngineStep ==
  \/ ValidateDag \/ DeadlinePassed \/ StartBatch \/ SkipDependents \/ AllSettled \/ BatchEnds
BodyEnds(s) == BodyReturns(s) \/ BodyThrows(s)
TimerStep(s) == TimesOut(s) \/ Retry(s)

Next ==
  \/ ManagerStep \/ EngineStep \/ Crash \/ Expire
  \/ \E s \in Steps : BodyEnds(s) \/ TimerStep(s)

Spec == Init /\ [][Next]_vars

----------------------------------------------------------------------------
TypeOK ==
  /\ kind \in {"job", "workflow"} /\ flow \in Workflows
  /\ phase \in {"new", "created", "validating", "loop", "batch", "attempts", "storing",
                "retrying", "failing", "ended", "dead"}
  /\ st \in [Steps -> {"waiting", "body", "backoff"} \cup SettledStates]
  /\ attempt \in [Steps -> 0 .. MaxAttempts]
  /\ stuck \in BOOLEAN
  /\ record \in {"none", "gone", "pending", "running", "retrying", "completed", "failed"}
  /\ answer \in {"none", "completed", "failed", "error"} /\ faults \in 0 .. MaxFaults

\* A step is attempted only when every dependency has been resolved, and none of them
\* failed, over all the rounds of skips that failures elsewhere cause.
DependenciesFirst ==
  kind = "workflow" =>
    \A s \in Steps : attempt[s] > 0 => \A d \in flow.deps[s] : st[d] \in ResolvedStates

\* In a graph that validateDag accepts, the engine always finds a step to run or to
\* skip: its "deadlock" exit is never taken.
NeverStuck == ~stuck

\* The store never contradicts the answer, whichever attempt or write failed and
\* whenever the record expired: an execution that ended finds its run recorded as it
\* answered, or forgotten.  An execution that threw has recorded that it failed, unless
\* a write failed, and it takes two of them to leave a run recorded as completed.
AnswerIsTrue ==
  /\ answer = "completed" =>
       /\ record \in {"completed", "gone"}
       /\ kind = "workflow" => \A s \in Steps : st[s] \in ResolvedStates
  /\ answer = "failed" => record \in {"failed", "gone"} /\ FailedSteps # {}
  /\ answer = "error" /\ faults = 0 => record \in {"failed", "gone"}
  /\ answer = "error" /\ record = "completed" => faults > 1

\* An execution ends, also when the bodies of steps hang.
Settles == <>(phase \in {"ended", "dead"})

\* Every step of an execution uses up something finite: a step of the graph moves on
\* and none moves back, or the steps stand and the run goes on to a later place.  So an
\* execution is finite, whatever bodies, timers and faults do.  (What expires is the
\* store's, no step of the execution.)
Stage == [waiting |-> 0, body |-> 1, completed |-> 2, backoff |-> 3,
          failed |-> 4, tolerated |-> 4, skipped |-> 4]
Position(s) == 5 * attempt[s] + Stage[st[s]]
Place == [new |-> 0, created |-> 1, validating |-> 2, batch |-> 3, retrying |-> 3,
          loop |-> 4, attempts |-> 4, storing |-> 5, failing |-> 6, ended |-> 7, dead |-> 7]
Advances ==
  \/ /\ \A s \in Steps : Position(s) <= Position(s)'
     /\ \E s \in Steps : Position(s) < Position(s)'
  \/ UNCHANGED stepVars /\ Place[phase] < Place[phase]'
AlwaysAdvances == [][Advances]_execVars

\* Nothing but a job's own body can hold up an execution that waits for steps: what a
\* batch waits for has a timer, and a job at its attempts has one running or waiting.
WaitsForSteps ==
  /\ phase = "batch" => \A s \in Steps : Timed(s)
  /\ phase = "attempts" => st[1] \in {"body", "backoff"}

\* Downstream dependents of a failed step do not run.
Above(s) ==
  {u \in Steps : \A S \in SUBSET Steps :
     s \in S /\ (\A x \in S : flow.deps[x] \subseteq S) => u \in S} \ {s}
DownstreamSkipped ==
  kind = "workflow" =>
    \A s \in Steps : attempt[s] > 0 => Above(s) \cap FailedSteps = {}

\* The manager and the engine go on and timers fire; the body of a job, which nothing
\* limits, is taken to end.
Fairness ==
  /\ WF_vars(ManagerStep) /\ WF_vars(EngineStep)
  /\ \A s \in Steps : WF_vars(TimerStep(s))
  /\ WF_vars(kind = "job" /\ BodyEnds(1))
FairSpec == Spec /\ Fairness
=============================================================================
