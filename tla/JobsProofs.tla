----------------------------- MODULE JobsProofs -----------------------------
(***************************************************************************)
(* The safety properties of Jobs, for any number of steps, any graph, any  *)
(* concurrency and any number of attempts and faults.                      *)
(***************************************************************************)
EXTENDS Jobs, FiniteSetTheorems, WellFoundedInduction, TLAPS

\* The parts of TypeOK.
RunTypes ==
  /\ kind \in {"job", "workflow"} /\ flow \in Workflows
  /\ phase \in {"new", "created", "validating", "loop", "batch", "attempts", "storing",
                "retrying", "failing", "ended", "dead"}
  /\ record \in {"none", "gone", "pending", "running", "retrying", "completed", "failed"}
  /\ answer \in {"none", "completed", "failed", "error"} /\ faults \in 0 .. MaxFaults
StepTypes ==
  /\ st \in [Steps -> {"waiting", "body", "backoff"} \cup SettledStates]
  /\ attempt \in [Steps -> 0 .. MaxAttempts]
FlagTypes == stuck \in BOOLEAN

\* Who is active, or stores what it returned, has made an attempt; who waits for
\* another has one left.  A job is step 1.
Tried ==
  /\ kind = "job" /\ phase = "storing" => attempt[1] > 0
  /\ kind = "job" => \A s \in Steps \ {1} : st[s] = "waiting"
  /\ \A s \in Steps :
       /\ st[s] \in {"body", "backoff"} => attempt[s] > 0
       /\ st[s] = "backoff" => attempt[s] < MaxAttempts

\* Jobs and workflows have phases of their own; the engine runs a graph it has
\* validated, and stores the result of one that is settled.
Phases ==
  /\ phase \in {"validating", "loop", "batch"} => kind = "workflow"
  /\ phase \in {"attempts", "retrying"} => kind = "job"
  /\ phase \in {"loop", "batch"} => Acyclic

StoresAll ==
  phase = "storing" /\ kind = "workflow" => \A s \in Steps : st[s] \in SettledStates

\* Only the end of an execution answers.
AnswersLast == answer # "none" => phase = "ended"

\* A run recorded as completed that has not answered so had its write applied and
\* rejected; an execution that ends leaving it there had another one rejected.
CompletedByFault ==
  record = "completed" /\ answer # "completed" =>
    faults > 0 /\ (phase = "ended" => faults > 1)

Inv ==
  /\ TypeOK /\ Tried /\ Phases /\ NeverStuck /\ StoresAll /\ AnswersLast
  /\ DependenciesFirst /\ AnswerIsTrue /\ CompletedByFault

LEMMA Numbers == 1 \in Steps /\ MaxAttempts \in Nat \ {0} /\ MaxFaults \in Nat
BY JobsAssumption DEF Steps

\* The graph of a workflow is one of the constant's.
LEMMA Graph ==
  ASSUME flow \in Workflows
  PROVE  flow.deps \in [Steps -> SUBSET Steps]
BY JobsAssumption

----------------------------------------------------------------------------
(* One lemma per conjunct, one step per action                             *)

\* The run's own variables keep their types.
LEMMA RunTypesStep ==
  ASSUME RunTypes, StepTypes, [Next]_vars
  PROVE  RunTypes'
<1> USE Numbers DEF RunTypes, runVars, stepVars
<1>1. ASSUME Create PROVE RunTypes'
  BY <1>1 DEF Create, Fault, Goto, Ends
<1>2. ASSUME Start PROVE RunTypes'
  BY <1>2 DEF Start, Written, WriteFails, Updated, Fault, Goto, Ends, Moves
<1>3. ASSUME JobStores PROVE RunTypes'
  BY <1>3 DEF JobStores, Written, WriteFails, Updated, Fault, Goto, Ends, AttemptFails, MoreAttempts,
      Failure, Moves, Goto
<1>4. ASSUME WorkflowStores PROVE RunTypes'
  BY <1>4 DEF WorkflowStores, Written, WriteFails, Updated, Fault, Goto, Ends, Result
<1>5. ASSUME RecordRetry PROVE RunTypes'
  BY <1>5 DEF RecordRetry, Written, WriteFails, Updated, Fault, Goto, Ends
<1>6. ASSUME RecordFailure PROVE RunTypes'
  BY <1>6 DEF RecordFailure, Written, WriteFails, Updated, Fault, Goto, Ends
<1>7. ASSUME ValidateDag PROVE RunTypes'
  BY <1>7 DEF ValidateDag, Goto, Remaining, InStates
<1>8. ASSUME DeadlinePassed PROVE RunTypes'
  BY <1>8 DEF DeadlinePassed, Goto, Remaining, InStates
<1>9. ASSUME AllSettled PROVE RunTypes'
  BY <1>9 DEF AllSettled, Goto, Remaining, InStates
<1>10. ASSUME BatchEnds PROVE RunTypes'
  BY <1>10 DEF BatchEnds, Goto, Remaining, InStates
<1>11. ASSUME StartBatch PROVE RunTypes'
  BY <1>11 DEF StartBatch, Goto, Failure, Batch, Ready
<1>12. ASSUME SkipDependents PROVE RunTypes'
  BY <1>12 DEF SkipDependents, Goto
<1>13. ASSUME Crash PROVE RunTypes'
  BY <1>13 DEF Crash, Fault, Goto
<1>14. ASSUME NEW s \in Steps, BodyReturns(s) PROVE RunTypes'
  BY <1>14 DEF BodyReturns, Running, Moves, Goto
<1>15. ASSUME NEW s \in Steps, BodyThrows(s) PROVE RunTypes'
  BY <1>15 DEF BodyThrows, Running, AttemptFails, MoreAttempts, Failure, Moves, Goto
<1>16. ASSUME NEW s \in Steps, TimesOut(s) PROVE RunTypes'
  BY <1>16 DEF TimesOut, Running, AttemptFails, MoreAttempts, Failure, Moves, Goto
<1>17. ASSUME NEW s \in Steps, Retry(s) PROVE RunTypes'
  BY <1>17 DEF Retry, Running, Moves
<1>18. ASSUME Expire PROVE RunTypes'
  BY <1>18 DEF Expire, execVars
<1>19. CASE UNCHANGED vars
  BY <1>19 DEF vars, execVars
<1> QED BY <1>1, <1>2, <1>3, <1>4, <1>5, <1>6, <1>7, <1>8, <1>9, <1>10, <1>11, <1>12, <1>13,
    <1>14, <1>15, <1>16, <1>17, <1>18, <1>19 DEF Next, ManagerStep, EngineStep, BodyEnds, TimerStep

\* A step keeps within its states and its attempts.
LEMMA StepTypesStep ==
  ASSUME RunTypes, StepTypes, Tried, Phases, [Next]_vars
  PROVE  (StepTypes /\ Tried)'
<1> USE Numbers DEF RunTypes, Tried, Phases, StepTypes, SettledStates, ResolvedStates, runVars,
    stepVars
<1>1. ASSUME Create PROVE (StepTypes /\ Tried)'
  BY <1>1 DEF Create, Fault, Goto, Ends
<1>2. ASSUME Start PROVE (StepTypes /\ Tried)'
  BY <1>2 DEF Start, Written, WriteFails, Updated, Fault, Goto, Ends, Moves
<1>3. ASSUME JobStores PROVE (StepTypes /\ Tried)'
  BY <1>3 DEF JobStores, Written, WriteFails, Updated, Fault, Goto, Ends, AttemptFails, MoreAttempts,
      Failure, Moves, Goto
<1>4. ASSUME WorkflowStores PROVE (StepTypes /\ Tried)'
  BY <1>4 DEF WorkflowStores, Written, WriteFails, Updated, Fault, Goto, Ends, Result
<1>5. ASSUME RecordRetry PROVE (StepTypes /\ Tried)'
  BY <1>5 DEF RecordRetry, Written, WriteFails, Updated, Fault, Goto, Ends
<1>6. ASSUME RecordFailure PROVE (StepTypes /\ Tried)'
  BY <1>6 DEF RecordFailure, Written, WriteFails, Updated, Fault, Goto, Ends
<1>7. ASSUME ValidateDag PROVE (StepTypes /\ Tried)'
  BY <1>7 DEF ValidateDag, Goto, Remaining, InStates
<1>8. ASSUME DeadlinePassed PROVE (StepTypes /\ Tried)'
  BY <1>8 DEF DeadlinePassed, Goto, Remaining, InStates
<1>9. ASSUME AllSettled PROVE (StepTypes /\ Tried)'
  BY <1>9 DEF AllSettled, Goto, Remaining, InStates
<1>10. ASSUME BatchEnds PROVE (StepTypes /\ Tried)'
  BY <1>10 DEF BatchEnds, Goto, Remaining, InStates
<1>11. ASSUME StartBatch PROVE (StepTypes /\ Tried)'
  <2>1. PICK o \in [Batch -> {"body", "skipped", "failed"}] :
         /\ st' = [s \in Steps |->
                     IF s \notin Batch THEN st[s]
                     ELSE IF o[s] = "failed" THEN Failure(s) ELSE o[s]]
         /\ attempt' = [s \in Steps |->
                          IF s \in Batch /\ o[s] = "body" THEN 1 ELSE attempt[s]]
    BY <1>11 DEF StartBatch
  <2>2. \A s \in Batch : o[s] \in {"body", "skipped", "failed"}
    BY <2>1
  <2>3. phase' = "batch" /\ kind' = "workflow"
    BY <1>11 DEF StartBatch, Goto
  <2>4. \A s \in Steps :
          /\ st'[s] \in {st[s], "body", "skipped", "failed", "tolerated"}
          /\ attempt'[s] \in {1, attempt[s]}
          /\ st'[s] = "body" => attempt'[s] = 1 \/ (st[s] = "body" /\ attempt'[s] = attempt[s])
          /\ st'[s] = "backoff" => st[s] = "backoff" /\ attempt'[s] = attempt[s]
    <3> SUFFICES ASSUME NEW s \in Steps
                 PROVE  /\ st'[s] \in {st[s], "body", "skipped", "failed", "tolerated"}
                        /\ attempt'[s] \in {1, attempt[s]}
                        /\ st'[s] = "body" => attempt'[s] = 1 \/ (st[s] = "body" /\ attempt'[s] = attempt[s])
                        /\ st'[s] = "backoff" => st[s] = "backoff" /\ attempt'[s] = attempt[s]
      OBVIOUS
    <3>1. CASE s \notin Batch
      BY <2>1, <3>1
    <3>2. CASE s \in Batch /\ o[s] = "body"
      BY <2>1, <3>2
    <3>3. CASE s \in Batch /\ o[s] # "body"
      BY <2>1, <2>2, <3>3 DEF Failure
    <3> QED BY <3>1, <3>2, <3>3
  <2>5. StepTypes'
    BY <2>1, <2>4
  <2>6. Tried'
    BY <2>3, <2>4
  <2> QED BY <2>5, <2>6
<1>12. ASSUME SkipDependents PROVE (StepTypes /\ Tried)'
  BY <1>12 DEF SkipDependents, Goto
<1>13. ASSUME Crash PROVE (StepTypes /\ Tried)'
  BY <1>13 DEF Crash, Fault, Goto
<1>14. ASSUME NEW s \in Steps, BodyReturns(s) PROVE (StepTypes /\ Tried)'
  <2>1. /\ st[s] = "body" /\ st' = [st EXCEPT ![s] = "completed"]
        /\ UNCHANGED <<kind, flow, attempt>>
        /\ phase' = IF kind = "job" THEN "storing" ELSE phase
    BY <1>14 DEF BodyReturns, Running, Moves, Goto
  <2>2. attempt[s] > 0
    <3>1. st[s] \in {"body", "backoff"}
      BY <2>1
    <3> QED BY <3>1 DEF Tried
  <2>6. kind = "job" => s = 1
    <3>1. st[s] # "waiting"
      BY <2>1
    <3> QED BY <3>1 DEF Tried
  <2>3. StepTypes'
    BY <2>1
  <2>4. \A x \in Steps : x # s => st'[x] = st[x]
    BY <2>1
  <2>5. Tried'
    BY <2>1, <2>2, <2>4, <2>6
  <2> QED BY <2>3, <2>5
<1>15. ASSUME NEW s \in Steps, BodyThrows(s) PROVE (StepTypes /\ Tried)'
  BY <1>15 DEF BodyThrows, Running, AttemptFails, MoreAttempts, Failure, Moves, Goto
<1>16. ASSUME NEW s \in Steps, TimesOut(s) PROVE (StepTypes /\ Tried)'
  BY <1>16 DEF TimesOut, Running, AttemptFails, MoreAttempts, Failure, Moves, Goto
<1>17. ASSUME NEW s \in Steps, Retry(s) PROVE (StepTypes /\ Tried)'
  BY <1>17 DEF Retry, Running, Moves
<1>18. ASSUME Expire PROVE (StepTypes /\ Tried)'
  BY <1>18 DEF Expire, execVars
<1>19. CASE UNCHANGED vars
  BY <1>19 DEF vars, execVars
<1> QED BY <1>1, <1>2, <1>3, <1>4, <1>5, <1>6, <1>7, <1>8, <1>9, <1>10, <1>11, <1>12, <1>13,
    <1>14, <1>15, <1>16, <1>17, <1>18, <1>19 DEF Next, ManagerStep, EngineStep, BodyEnds, TimerStep

\* The engine always finds a step to run or to skip.
LEMMA PhasesStep ==
  ASSUME RunTypes, Phases, NeverStuck, [Next]_vars
  PROVE  (Phases /\ NeverStuck)'
<1> USE Numbers DEF Phases, NeverStuck, Acyclic, runVars, stepVars
<1>1. ASSUME Create PROVE (Phases /\ NeverStuck)'
  BY <1>1 DEF Create, Fault, Goto, Ends
<1>2. ASSUME Start PROVE (Phases /\ NeverStuck)'
  BY <1>2 DEF Start, Written, WriteFails, Updated, Fault, Goto, Ends, Moves
<1>3. ASSUME JobStores PROVE (Phases /\ NeverStuck)'
  BY <1>3 DEF JobStores, Written, WriteFails, Updated, Fault, Goto, Ends, AttemptFails, MoreAttempts,
      Failure, Moves, Goto
<1>4. ASSUME WorkflowStores PROVE (Phases /\ NeverStuck)'
  BY <1>4 DEF WorkflowStores, Written, WriteFails, Updated, Fault, Goto, Ends, Result
<1>5. ASSUME RecordRetry PROVE (Phases /\ NeverStuck)'
  BY <1>5 DEF RecordRetry, Written, WriteFails, Updated, Fault, Goto, Ends
<1>6. ASSUME RecordFailure PROVE (Phases /\ NeverStuck)'
  BY <1>6 DEF RecordFailure, Written, WriteFails, Updated, Fault, Goto, Ends
<1>7. ASSUME ValidateDag PROVE (Phases /\ NeverStuck)'
  BY <1>7 DEF ValidateDag, Goto, Remaining, InStates
<1>8. ASSUME DeadlinePassed PROVE (Phases /\ NeverStuck)'
  BY <1>8 DEF DeadlinePassed, Goto, Remaining, InStates
<1>9. ASSUME AllSettled PROVE (Phases /\ NeverStuck)'
  BY <1>9 DEF AllSettled, Goto, Remaining, InStates
<1>10. ASSUME BatchEnds PROVE (Phases /\ NeverStuck)'
  BY <1>10 DEF BatchEnds, Goto, Remaining, InStates
<1>11. ASSUME StartBatch PROVE (Phases /\ NeverStuck)'
  BY <1>11 DEF StartBatch, Goto, Failure, Batch, Ready
<1>12. ASSUME SkipDependents PROVE (Phases /\ NeverStuck)'
  <2>1. phase = "loop" /\ Ready = {} /\ Remaining # {} /\ UNCHANGED <<kind, flow>>
    BY <1>12 DEF SkipDependents
  <2>2. Acyclic /\ flow.deps \in [Steps -> SUBSET Steps]
    BY <2>1, Graph DEF Phases, RunTypes
  <2>3. ASSUME Blocked = {} PROVE FALSE
    <3>1. PICK s \in Remaining : flow.deps[s] \cap Remaining = {}
      BY <2>1, <2>2 DEF Acyclic, Remaining
    <3>2. flow.deps[s] \subseteq Steps
      BY <2>2, <3>1 DEF Remaining
    <3>3. flow.deps[s] \subseteq InStates(SettledStates)
      BY <3>1, <3>2 DEF Remaining
    <3>4. flow.deps[s] \cap FailedSteps = {}
      BY <2>3, <3>1 DEF Blocked
    <3>5. flow.deps[s] \subseteq Resolved
      BY <3>3, <3>4 DEF FailedSteps, Resolved, InStates, SettledStates
    <3> QED BY <2>1, <3>1, <3>5 DEF Ready
  <2>4. Blocked # {}
    BY <2>3
  <2>5. phase' = "loop" /\ stuck' = FALSE
    BY <1>12, <2>4 DEF SkipDependents, Goto
  <2> QED BY <2>1, <2>2, <2>5 DEF Acyclic
<1>13. ASSUME Crash PROVE (Phases /\ NeverStuck)'
  BY <1>13 DEF Crash, Fault, Goto
<1>14. ASSUME NEW s \in Steps, BodyReturns(s) PROVE (Phases /\ NeverStuck)'
  BY <1>14 DEF BodyReturns, Running, Moves, Goto
<1>15. ASSUME NEW s \in Steps, BodyThrows(s) PROVE (Phases /\ NeverStuck)'
  BY <1>15 DEF BodyThrows, Running, AttemptFails, MoreAttempts, Failure, Moves, Goto
<1>16. ASSUME NEW s \in Steps, TimesOut(s) PROVE (Phases /\ NeverStuck)'
  BY <1>16 DEF TimesOut, Running, AttemptFails, MoreAttempts, Failure, Moves, Goto
<1>17. ASSUME NEW s \in Steps, Retry(s) PROVE (Phases /\ NeverStuck)'
  BY <1>17 DEF Retry, Running, Moves
<1>18. ASSUME Expire PROVE (Phases /\ NeverStuck)'
  BY <1>18 DEF Expire, execVars
<1>19. CASE UNCHANGED vars
  BY <1>19 DEF vars, execVars
<1> QED BY <1>1, <1>2, <1>3, <1>4, <1>5, <1>6, <1>7, <1>8, <1>9, <1>10, <1>11, <1>12, <1>13,
    <1>14, <1>15, <1>16, <1>17, <1>18, <1>19 DEF Next, ManagerStep, EngineStep, BodyEnds, TimerStep

\* Who stores a result has settled every step.
LEMMA StoresAllStep ==
  ASSUME RunTypes, StepTypes, Phases, NeverStuck, NeverStuck', StoresAll, AnswersLast, [Next]_vars
  PROVE  (StoresAll /\ AnswersLast)'
<1> USE Numbers DEF RunTypes, Phases, NeverStuck, StoresAll, AnswersLast, StepTypes,
    SettledStates, ResolvedStates, runVars, stepVars
<1>1. ASSUME Create PROVE (StoresAll /\ AnswersLast)'
  BY <1>1 DEF Create, Fault, Goto, Ends
<1>2. ASSUME Start PROVE (StoresAll /\ AnswersLast)'
  BY <1>2 DEF Start, Written, WriteFails, Updated, Fault, Goto, Ends, Moves
<1>3. ASSUME JobStores PROVE (StoresAll /\ AnswersLast)'
  BY <1>3 DEF JobStores, Written, WriteFails, Updated, Fault, Goto, Ends, AttemptFails, MoreAttempts,
      Failure, Moves, Goto
<1>4. ASSUME WorkflowStores PROVE (StoresAll /\ AnswersLast)'
  BY <1>4 DEF WorkflowStores, Written, WriteFails, Updated, Fault, Goto, Ends, Result
<1>5. ASSUME RecordRetry PROVE (StoresAll /\ AnswersLast)'
  BY <1>5 DEF RecordRetry, Written, WriteFails, Updated, Fault, Goto, Ends
<1>6. ASSUME RecordFailure PROVE (StoresAll /\ AnswersLast)'
  BY <1>6 DEF RecordFailure, Written, WriteFails, Updated, Fault, Goto, Ends
<1>7. ASSUME ValidateDag PROVE (StoresAll /\ AnswersLast)'
  BY <1>7 DEF ValidateDag, Goto, Remaining, InStates
<1>8. ASSUME DeadlinePassed PROVE (StoresAll /\ AnswersLast)'
  BY <1>8 DEF DeadlinePassed, Goto, Remaining, InStates
<1>9. ASSUME AllSettled PROVE (StoresAll /\ AnswersLast)'
  BY <1>9 DEF AllSettled, Goto, Remaining, InStates
<1>10. ASSUME BatchEnds PROVE (StoresAll /\ AnswersLast)'
  BY <1>10 DEF BatchEnds, Goto, Remaining, InStates
<1>11. ASSUME StartBatch PROVE (StoresAll /\ AnswersLast)'
  BY <1>11 DEF StartBatch, Goto, Failure, Batch, Ready
<1>12. ASSUME SkipDependents PROVE (StoresAll /\ AnswersLast)'
  BY <1>12 DEF SkipDependents, Goto
<1>13. ASSUME Crash PROVE (StoresAll /\ AnswersLast)'
  BY <1>13 DEF Crash, Fault, Goto
<1>14. ASSUME NEW s \in Steps, BodyReturns(s) PROVE (StoresAll /\ AnswersLast)'
  BY <1>14 DEF BodyReturns, Running, Moves, Goto
<1>15. ASSUME NEW s \in Steps, BodyThrows(s) PROVE (StoresAll /\ AnswersLast)'
  BY <1>15 DEF BodyThrows, Running, AttemptFails, MoreAttempts, Failure, Moves, Goto
<1>16. ASSUME NEW s \in Steps, TimesOut(s) PROVE (StoresAll /\ AnswersLast)'
  BY <1>16 DEF TimesOut, Running, AttemptFails, MoreAttempts, Failure, Moves, Goto
<1>17. ASSUME NEW s \in Steps, Retry(s) PROVE (StoresAll /\ AnswersLast)'
  BY <1>17 DEF Retry, Running, Moves
<1>18. ASSUME Expire PROVE (StoresAll /\ AnswersLast)'
  BY <1>18 DEF Expire, execVars
<1>19. CASE UNCHANGED vars
  BY <1>19 DEF vars, execVars
<1> QED BY <1>1, <1>2, <1>3, <1>4, <1>5, <1>6, <1>7, <1>8, <1>9, <1>10, <1>11, <1>12, <1>13,
    <1>14, <1>15, <1>16, <1>17, <1>18, <1>19 DEF Next, ManagerStep, EngineStep, BodyEnds, TimerStep

\* What is resolved stays resolved.
LEMMA DependenciesStep ==
  ASSUME RunTypes, StepTypes, Tried, Phases, DependenciesFirst, [Next]_vars
  PROVE  DependenciesFirst'
<1> USE Numbers DEF RunTypes, Tried, Phases, DependenciesFirst, StepTypes, SettledStates,
    ResolvedStates, runVars, stepVars
<1>1. ASSUME Create PROVE DependenciesFirst'
  BY <1>1 DEF Create, Fault, Goto, Ends
<1>2. ASSUME Start PROVE DependenciesFirst'
  BY <1>2 DEF Start, Written, WriteFails, Updated, Fault, Goto, Ends, Moves
<1>3. ASSUME JobStores PROVE DependenciesFirst'
  BY <1>3 DEF JobStores, Written, WriteFails, Updated, Fault, Goto, Ends, AttemptFails, MoreAttempts,
      Failure, Moves, Goto
<1>4. ASSUME WorkflowStores PROVE DependenciesFirst'
  BY <1>4 DEF WorkflowStores, Written, WriteFails, Updated, Fault, Goto, Ends, Result
<1>5. ASSUME RecordRetry PROVE DependenciesFirst'
  BY <1>5 DEF RecordRetry, Written, WriteFails, Updated, Fault, Goto, Ends
<1>6. ASSUME RecordFailure PROVE DependenciesFirst'
  BY <1>6 DEF RecordFailure, Written, WriteFails, Updated, Fault, Goto, Ends
<1>7. ASSUME ValidateDag PROVE DependenciesFirst'
  BY <1>7 DEF ValidateDag, Goto, Remaining, InStates
<1>8. ASSUME DeadlinePassed PROVE DependenciesFirst'
  BY <1>8 DEF DeadlinePassed, Goto, Remaining, InStates
<1>9. ASSUME AllSettled PROVE DependenciesFirst'
  BY <1>9 DEF AllSettled, Goto, Remaining, InStates
<1>10. ASSUME BatchEnds PROVE DependenciesFirst'
  BY <1>10 DEF BatchEnds, Goto, Remaining, InStates
<1>11. ASSUME StartBatch PROVE DependenciesFirst'
  <2>1. PICK o \in [Batch -> {"body", "skipped", "failed"}] :
         /\ st' = [s \in Steps |->
                     IF s \notin Batch THEN st[s]
                     ELSE IF o[s] = "failed" THEN Failure(s) ELSE o[s]]
         /\ attempt' = [s \in Steps |->
                          IF s \in Batch /\ o[s] = "body" THEN 1 ELSE attempt[s]]
    BY <1>11 DEF StartBatch
  <2>2. \A s \in Batch : s \in Steps /\ st[s] \notin ResolvedStates
                        /\ flow.deps[s] \subseteq Resolved
    BY DEF Batch, Ready, Remaining, InStates, SettledStates
  <2>3. \A s \in Steps : st[s] \in ResolvedStates => st'[s] \in ResolvedStates
    BY <2>1, <2>2
  <2>4. UNCHANGED <<kind, flow>> /\ flow.deps \in [Steps -> SUBSET Steps]
    BY <1>11, Graph DEF StartBatch, RunTypes
  <2>5. ASSUME NEW s \in Steps, attempt'[s] > 0, kind = "workflow", NEW d \in flow.deps[s]
        PROVE  st[d] \in ResolvedStates
    <3>1. CASE s \in Batch
      BY <3>1, <2>2 DEF Resolved, InStates
    <3>2. CASE s \notin Batch
      BY <3>2, <2>1, <2>5 DEF DependenciesFirst
    <3> QED BY <3>1, <3>2
  <2> QED BY <2>3, <2>4, <2>5 DEF DependenciesFirst
<1>12. ASSUME SkipDependents PROVE DependenciesFirst'
  <2>1. UNCHANGED <<kind, flow, attempt>> /\ flow.deps \in [Steps -> SUBSET Steps]
    BY <1>12, Graph DEF SkipDependents, RunTypes
  <2>2. \A x \in Steps : st'[x] \in {st[x], "skipped"}
    BY <1>12 DEF SkipDependents
  <2>3. \A x \in Steps : st[x] \in ResolvedStates => st'[x] \in ResolvedStates
    BY <2>2
  <2> HIDE DEF ResolvedStates
  <2> QED BY <2>1, <2>3 DEF DependenciesFirst
<1>13. ASSUME Crash PROVE DependenciesFirst'
  BY <1>13 DEF Crash, Fault, Goto
<1>14. ASSUME NEW s \in Steps, BodyReturns(s) PROVE DependenciesFirst'
  BY <1>14 DEF BodyReturns, Running, Moves, Goto
<1>15. ASSUME NEW s \in Steps, BodyThrows(s) PROVE DependenciesFirst'
  BY <1>15 DEF BodyThrows, Running, AttemptFails, MoreAttempts, Failure, Moves, Goto
<1>16. ASSUME NEW s \in Steps, TimesOut(s) PROVE DependenciesFirst'
  BY <1>16 DEF TimesOut, Running, AttemptFails, MoreAttempts, Failure, Moves, Goto
<1>17. ASSUME NEW s \in Steps, Retry(s) PROVE DependenciesFirst'
  <2>1. /\ st[s] = "backoff" /\ st' = [st EXCEPT ![s] = "body"]
        /\ attempt' = [attempt EXCEPT ![s] = attempt[s] + 1] /\ UNCHANGED <<kind, flow>>
    BY <1>17 DEF Retry, Moves
  <2>2. attempt[s] > 0
    <3>1. st[s] \in {"body", "backoff"}
      BY <2>1
    <3> QED BY <3>1 DEF Tried
  <2>3. \A x \in Steps : attempt'[x] > 0 => attempt[x] > 0
    BY <2>1, <2>2
  <2>4. flow.deps \in [Steps -> SUBSET Steps]
    BY Graph DEF RunTypes
  <2>5. \A x \in Steps : st[x] \in ResolvedStates => st'[x] \in ResolvedStates
    BY <2>1
  <2> HIDE DEF ResolvedStates
  <2> QED BY <2>1, <2>3, <2>4, <2>5 DEF DependenciesFirst
<1>18. ASSUME Expire PROVE DependenciesFirst'
  BY <1>18 DEF Expire, execVars
<1>19. CASE UNCHANGED vars
  BY <1>19 DEF vars, execVars
<1> QED BY <1>1, <1>2, <1>3, <1>4, <1>5, <1>6, <1>7, <1>8, <1>9, <1>10, <1>11, <1>12, <1>13,
    <1>14, <1>15, <1>16, <1>17, <1>18, <1>19 DEF Next, ManagerStep, EngineStep, BodyEnds, TimerStep

\* Each way to end the execution over a record it did not write rejects a write.
LEMMA CompletedStep ==
  ASSUME RunTypes, AnswersLast, CompletedByFault, [Next]_vars
  PROVE  CompletedByFault'
<1> USE Numbers DEF RunTypes, AnswersLast, CompletedByFault, runVars, stepVars
<1>1. ASSUME Create PROVE CompletedByFault'
  BY <1>1 DEF Create, Fault, Goto, Ends
<1>2. ASSUME Start PROVE CompletedByFault'
  BY <1>2 DEF Start, Written, WriteFails, Updated, Fault, Goto, Ends
<1>3. ASSUME JobStores PROVE CompletedByFault'
  BY <1>3 DEF JobStores, Written, WriteFails, Updated, Fault, Goto, Ends, AttemptFails
<1>4. ASSUME WorkflowStores PROVE CompletedByFault'
  BY <1>4 DEF WorkflowStores, Written, WriteFails, Updated, Fault, Goto, Ends, Result
<1>5. ASSUME RecordRetry \/ RecordFailure PROVE CompletedByFault'
  BY <1>5 DEF RecordRetry, RecordFailure, Written, WriteFails, Updated, Fault, Goto, Ends
<1>6. ASSUME ValidateDag \/ DeadlinePassed \/ AllSettled \/ BatchEnds \/ StartBatch \/ SkipDependents
      PROVE  CompletedByFault'
  BY <1>6 DEF ValidateDag, DeadlinePassed, AllSettled, BatchEnds, StartBatch, SkipDependents, Goto
<1>7. ASSUME Crash \/ Expire PROVE CompletedByFault'
  BY <1>7 DEF Crash, Expire, execVars, Fault, Goto
<1>8. ASSUME NEW s \in Steps, BodyEnds(s) \/ TimerStep(s) PROVE CompletedByFault'
  BY <1>8 DEF BodyEnds, TimerStep, BodyReturns, BodyThrows, TimesOut, Retry, Running,
      AttemptFails, Goto
<1>9. CASE UNCHANGED vars
  BY <1>9 DEF vars, execVars
<1> QED BY <1>1, <1>2, <1>3, <1>4, <1>5, <1>6, <1>7, <1>8, <1>9 DEF Next, ManagerStep, EngineStep

\* An answer is given once, with the write it reports; what has expired says nothing.
LEMMA AnswerStep ==
  ASSUME RunTypes, StepTypes, Phases, StoresAll, AnswersLast, AnswerIsTrue, CompletedByFault,
         [Next]_vars
  PROVE  AnswerIsTrue'
<1> USE Numbers DEF RunTypes, Phases, StoresAll, AnswersLast, AnswerIsTrue, FailedSteps,
    InStates, StepTypes, SettledStates, ResolvedStates, runVars, stepVars
<1>1. ASSUME Create PROVE AnswerIsTrue'
  BY <1>1 DEF CompletedByFault, Create, Fault, Goto, Ends
<1>2. ASSUME Start PROVE AnswerIsTrue'
  BY <1>2 DEF CompletedByFault, Start, Written, WriteFails, Updated, Fault, Goto, Ends, Moves
<1>3. ASSUME JobStores PROVE AnswerIsTrue'
  BY <1>3 DEF JobStores, Written, WriteFails, Updated, Fault, Goto, Ends, AttemptFails, MoreAttempts,
      Failure, Moves, Goto
<1>4. ASSUME WorkflowStores PROVE AnswerIsTrue'
  BY <1>4 DEF WorkflowStores, Written, WriteFails, Updated, Fault, Goto, Ends, Result
<1>5. ASSUME RecordRetry PROVE AnswerIsTrue'
  BY <1>5 DEF CompletedByFault, RecordRetry, Written, WriteFails, Updated, Fault, Goto, Ends
<1>6. ASSUME RecordFailure PROVE AnswerIsTrue'
  BY <1>6 DEF CompletedByFault, RecordFailure, Written, WriteFails, Updated, Fault, Goto, Ends
<1>7. ASSUME ValidateDag PROVE AnswerIsTrue'
  BY <1>7 DEF ValidateDag, Goto, Remaining, InStates
<1>8. ASSUME DeadlinePassed PROVE AnswerIsTrue'
  BY <1>8 DEF DeadlinePassed, Goto, Remaining, InStates
<1>9. ASSUME AllSettled PROVE AnswerIsTrue'
  BY <1>9 DEF AllSettled, Goto, Remaining, InStates
<1>10. ASSUME BatchEnds PROVE AnswerIsTrue'
  BY <1>10 DEF BatchEnds, Goto, Remaining, InStates
<1>11. ASSUME StartBatch PROVE AnswerIsTrue'
  BY <1>11 DEF StartBatch, Goto, Failure, Batch, Ready
<1>12. ASSUME SkipDependents PROVE AnswerIsTrue'
  BY <1>12 DEF SkipDependents, Goto
<1>13. ASSUME Crash PROVE AnswerIsTrue'
  BY <1>13 DEF Crash, Fault, Goto
<1>14. ASSUME NEW s \in Steps, BodyReturns(s) PROVE AnswerIsTrue'
  BY <1>14 DEF BodyReturns, Running, Moves, Goto
<1>15. ASSUME NEW s \in Steps, BodyThrows(s) PROVE AnswerIsTrue'
  BY <1>15 DEF BodyThrows, Running, AttemptFails, MoreAttempts, Failure, Moves, Goto
<1>16. ASSUME NEW s \in Steps, TimesOut(s) PROVE AnswerIsTrue'
  BY <1>16 DEF TimesOut, Running, AttemptFails, MoreAttempts, Failure, Moves, Goto
<1>17. ASSUME NEW s \in Steps, Retry(s) PROVE AnswerIsTrue'
  BY <1>17 DEF Retry, Running, Moves
<1>18. ASSUME Expire PROVE AnswerIsTrue'
  BY <1>18 DEF Expire, execVars
<1>19. CASE UNCHANGED vars
  BY <1>19 DEF vars, execVars
<1> QED BY <1>1, <1>2, <1>3, <1>4, <1>5, <1>6, <1>7, <1>8, <1>9, <1>10, <1>11, <1>12, <1>13,
    <1>14, <1>15, <1>16, <1>17, <1>18, <1>19 DEF Next, ManagerStep, EngineStep, BodyEnds, TimerStep

LEMMA FlagStep ==
  ASSUME FlagTypes, [Next]_vars
  PROVE  FlagTypes'
<1>1. CASE SkipDependents
  BY <1>1 DEF SkipDependents, FlagTypes
<1>2. CASE UNCHANGED stuck
  BY <1>2 DEF FlagTypes
<1>3. SkipDependents \/ UNCHANGED stuck
  BY DEF vars, execVars, Expire, Next, ManagerStep, EngineStep, BodyEnds, TimerStep, Create, Start, JobStores,
    WorkflowStores, RecordRetry, RecordFailure, ValidateDag, DeadlinePassed, StartBatch, AllSettled,
    BatchEnds, Crash, BodyReturns, BodyThrows, TimesOut, Retry, AttemptFails
<1> QED BY <1>1, <1>2, <1>3

----------------------------------------------------------------------------
(* Progress                                                                *)

\* A step that waits for its turn has made no attempt; the rounds of the engine find
\* none at work; and where a job's only step is.
Turns ==
  /\ \A s \in Steps : st[s] = "waiting" => attempt[s] = 0
  /\ phase \in {"new", "created", "validating"} => \A s \in Steps : st[s] = "waiting"
  /\ phase = "loop" => \A s \in Steps : st[s] \notin {"body", "backoff"}
  /\ phase = "attempts" => st[1] \in {"body", "backoff"}
  /\ phase = "retrying" => st[1] = "backoff"
  /\ phase = "storing" /\ kind = "job" => st[1] = "completed"

\* What an attempt's end does, whether its body threw, hung or could not be stored.
LEMMA AttemptFailsIs ==
  ASSUME RunTypes, StepTypes, NEW s \in Steps, AttemptFails(s)
  PROVE  /\ \E v \in {"backoff", "failed", "tolerated"} : st' = [st EXCEPT ![s] = v]
         /\ st'[s] = "backoff" <=> attempt[s] < MaxAttempts
         /\ UNCHANGED <<kind, attempt>>
         /\ kind = "workflow" => phase' = "batch"
         /\ kind = "job" => phase' = IF attempt[s] < MaxAttempts THEN "retrying" ELSE "failing"
BY DEF AttemptFails, MoreAttempts, Failure, Moves, Goto, RunTypes, StepTypes, runVars

\* What a new batch does to a step.
LEMMA StartBatchIs ==
  ASSUME StepTypes, StartBatch
  PROVE  \A s \in Steps :
           \/ s \notin Batch /\ st'[s] = st[s] /\ attempt'[s] = attempt[s]
           \/ s \in Batch /\ st'[s] = "body" /\ attempt'[s] = 1
           \/ /\ s \in Batch /\ st'[s] \in {"skipped", "failed", "tolerated"}
              /\ attempt'[s] = attempt[s]
<1>1. PICK o \in [Batch -> {"body", "skipped", "failed"}] :
       /\ st' = [s \in Steps |->
                   IF s \notin Batch THEN st[s]
                   ELSE IF o[s] = "failed" THEN Failure(s) ELSE o[s]]
       /\ attempt' = [s \in Steps |->
                        IF s \in Batch /\ o[s] = "body" THEN 1 ELSE attempt[s]]
  BY DEF StartBatch
<1> SUFFICES ASSUME NEW s \in Steps
             PROVE  \/ s \notin Batch /\ st'[s] = st[s] /\ attempt'[s] = attempt[s]
                    \/ s \in Batch /\ st'[s] = "body" /\ attempt'[s] = 1
                    \/ /\ s \in Batch /\ st'[s] \in {"skipped", "failed", "tolerated"}
                       /\ attempt'[s] = attempt[s]
  OBVIOUS
<1>2. CASE s \notin Batch
  BY <1>1, <1>2
<1>3. CASE s \in Batch /\ o[s] = "body"
  BY <1>1, <1>3
<1>4. CASE s \in Batch /\ o[s] # "body"
  BY <1>1, <1>4 DEF Failure
<1> QED BY <1>2, <1>3, <1>4

LEMMA TurnsStep ==
  ASSUME RunTypes, StepTypes, Tried, Phases, NeverStuck', Turns, [Next]_vars
  PROVE  Turns'
<1> USE Numbers DEF RunTypes, StepTypes, SettledStates, ResolvedStates, runVars, stepVars, Turns
<1>1. CASE Create \/ WorkflowStores \/ RecordRetry \/ RecordFailure
  BY <1>1 DEF Create, WorkflowStores, RecordRetry, RecordFailure, Goto, Ends, Result, Phases
<1>2. CASE Start
  BY <1>2 DEF Start, Goto, Ends, Moves
<1>3. CASE JobStores
  <2>1. CASE Ends("completed") /\ UNCHANGED <<runVars, stepVars, stuck>>
    BY <2>1 DEF Ends
  <2>2. CASE AttemptFails(1)
    BY <1>3, <2>2, AttemptFailsIs DEF JobStores
  <2> QED BY <1>3, <2>1, <2>2 DEF JobStores
<1>4. CASE ValidateDag \/ DeadlinePassed \/ AllSettled
  BY <1>4 DEF ValidateDag, DeadlinePassed, AllSettled, Goto, Phases
<1>5. CASE BatchEnds
  BY <1>5 DEF BatchEnds, Goto, InStates
<1>6. CASE StartBatch
  BY <1>6, StartBatchIs DEF StartBatch, Goto
<1>7. CASE SkipDependents
  <2>1. /\ phase = "loop" /\ phase' \in {"loop", "storing"} /\ UNCHANGED <<kind, attempt>>
        /\ \A s \in Steps : st'[s] \in {st[s], "skipped"}
    BY <1>7 DEF SkipDependents, Goto
  <2> QED BY <2>1 DEF Phases
<1>8. CASE Crash
  BY <1>8 DEF Crash, Goto
<1>9. ASSUME NEW s \in Steps, BodyReturns(s) PROVE Turns'
  <2>1. /\ st[s] = "body" /\ st' = [st EXCEPT ![s] = "completed"]
        /\ phase \in {"batch", "attempts"} /\ UNCHANGED <<kind, attempt>>
        /\ phase' = IF kind = "job" THEN "storing" ELSE phase
    BY <1>9 DEF BodyReturns, Running, Moves, Goto
  <2>2. kind = "job" => s = 1
    BY <2>1 DEF Tried
  <2> QED BY <2>1, <2>2 DEF Phases
<1>10. ASSUME NEW s \in Steps, BodyThrows(s) \/ TimesOut(s) PROVE Turns'
  <2>1. st[s] = "body" /\ AttemptFails(s)
    BY <1>10 DEF BodyThrows, TimesOut, Running
  <2>2. kind = "job" => s = 1
    BY <2>1 DEF Tried
  <2> QED BY <2>1, <2>2, AttemptFailsIs
<1>11. ASSUME NEW s \in Steps, Retry(s) PROVE Turns'
  <2>1. /\ st[s] = "backoff" /\ st' = [st EXCEPT ![s] = "body"]
        /\ attempt' = [attempt EXCEPT ![s] = attempt[s] + 1]
        /\ phase \in {"batch", "attempts"} /\ UNCHANGED <<kind, phase>>
    BY <1>11 DEF Retry, Moves
  <2> QED BY <2>1
<1>12. CASE Expire \/ UNCHANGED vars
  BY <1>12 DEF Expire, vars, execVars
<1> QED BY <1>1, <1>2, <1>3, <1>4, <1>5, <1>6, <1>7, <1>8, <1>9, <1>10, <1>11, <1>12
        DEF Next, ManagerStep, EngineStep, BodyEnds, TimerStep

LEMMA StagesAre ==
  /\ \A v \in {"waiting", "body", "backoff"} \cup SettledStates : Stage[v] \in 0 .. 4
  /\ Stage["waiting"] = 0 /\ Stage["body"] = 1 /\ Stage["completed"] = 2
  /\ Stage["backoff"] = 3 /\ Stage["failed"] = 4 /\ Stage["tolerated"] = 4
  /\ Stage["skipped"] = 4
BY DEF Stage, SettledStates, ResolvedStates

LEMMA PlacesAre ==
  /\ Place["new"] = 0 /\ Place["created"] = 1 /\ Place["validating"] = 2
  /\ Place["batch"] = 3 /\ Place["retrying"] = 3 /\ Place["loop"] = 4
  /\ Place["attempts"] = 4 /\ Place["storing"] = 5 /\ Place["failing"] = 6
  /\ Place["ended"] = 7 /\ Place["dead"] = 7
BY DEF Place

LEMMA PositionType ==
  ASSUME StepTypes, NEW s \in Steps
  PROVE  attempt[s] \in Nat /\ Stage[st[s]] \in 0 .. 4 /\ Position(s) \in Nat
<1>1. attempt[s] \in 0 .. MaxAttempts /\ st[s] \in {"waiting", "body", "backoff"} \cup SettledStates
  BY DEF StepTypes
<1>2. attempt[s] \in Nat
  BY <1>1, Numbers
<1>3. Stage[st[s]] \in 0 .. 4
  BY <1>1, StagesAre
<1> QED BY <1>2, <1>3 DEF Position

LEMMA NextPositionType ==
  ASSUME StepTypes', NEW s \in Steps
  PROVE  attempt'[s] \in Nat /\ Stage[st'[s]] \in 0 .. 4 /\ Position(s)' \in Nat
<1>1. attempt'[s] \in 0 .. MaxAttempts /\ st'[s] \in {"waiting", "body", "backoff"} \cup SettledStates
  BY DEF StepTypes
<1>2. attempt'[s] \in Nat
  BY <1>1, Numbers
<1>3. Stage[st'[s]] \in 0 .. 4
  BY <1>1, StagesAre
<1> QED BY <1>2, <1>3 DEF Position

\* A step of the graph moves on when it begins another attempt, or comes to a later
\* stage of the one it is at.
LEMMA MovesOn ==
  ASSUME StepTypes, StepTypes', NEW s \in Steps,
         \/ attempt'[s] > attempt[s]
         \/ attempt'[s] = attempt[s] /\ Stage[st[s]] < Stage[st'[s]]
  PROVE  Position(s) < Position(s)'
<1>1. /\ attempt[s] \in Nat /\ attempt'[s] \in Nat
      /\ Stage[st[s]] \in 0 .. 4 /\ Stage[st'[s]] \in 0 .. 4
  BY PositionType, NextPositionType
<1>2. Position(s) = 5 * attempt[s] + Stage[st[s]] /\ Position(s)' = 5 * attempt'[s] + Stage[st'[s]]
  BY DEF Position
<1> QED BY <1>1, <1>2

LEMMA Stands ==
  ASSUME StepTypes, NEW s \in Steps, attempt'[s] = attempt[s], st'[s] = st[s]
  PROVE  Position(s) <= Position(s)'
<1>1. attempt[s] \in Nat /\ Stage[st[s]] \in 0 .. 4
  BY PositionType
<1> QED BY <1>1 DEF Position

LEMMA OneMovesOn ==
  ASSUME StepTypes, StepTypes', NEW s \in Steps,
         \A x \in Steps \ {s} : attempt'[x] = attempt[x] /\ st'[x] = st[x],
         \/ attempt'[s] > attempt[s]
         \/ attempt'[s] = attempt[s] /\ Stage[st[s]] < Stage[st'[s]]
  PROVE  Advances
<1>1. Position(s) < Position(s)'
  BY MovesOn
<1>2. \A x \in Steps \ {s} : Position(x) <= Position(x)'
  BY Stands
<1>3. Position(s) <= Position(s)'
  <2>1. Position(s) \in Int /\ Position(s)' \in Int
    BY PositionType, NextPositionType
  <2> QED BY <1>1, <2>1
<1> QED BY <1>1, <1>2, <1>3 DEF Advances

\* A batch is never empty: the least step that is ready is in it.
LEMMA BatchNotEmpty ==
  ASSUME Ready # {}
  PROVE  Batch # {}
<1>1. Ready \subseteq Nat
  BY JobsAssumption DEF Ready, Remaining, Steps
<1>2. PICK s \in Ready : \A r \in Ready : ~(<<r, s>> \in OpToRel(<, Nat))
  BY <1>1, NatLessThanWellFounded, WFMin
<1>3. \A r \in Ready : ~(r < s)
  BY <1>1, <1>2 DEF OpToRel
<1>4. {r \in Ready : r < s} = {}
  BY <1>3
<1>5. Cardinality({r \in Ready : r < s}) < MaxConcurrency
  BY <1>4, FS_EmptySet, JobsAssumption
<1> QED BY <1>5 DEF Batch

LEMMA AdvancesStep ==
  ASSUME RunTypes, StepTypes, StepTypes', Tried, Phases, Turns, NeverStuck', Next,
         ~UNCHANGED execVars
  PROVE  Advances
<1> USE Numbers, StagesAre, PlacesAre DEF stepVars
<1>1. CASE Create \/ WorkflowStores \/ RecordRetry \/ RecordFailure
  BY <1>1 DEF Create, WorkflowStores, RecordRetry, RecordFailure, Goto, Ends, Advances
<1>2. CASE Start
  <2>1. CASE UNCHANGED stepVars
    BY <1>2, <2>1 DEF Start, Goto, Ends, Advances, Moves, Turns, StepTypes
  <2>2. CASE Moves(1, "body") /\ attempt' = [attempt EXCEPT ![1] = 1]
    <3>1. st[1] = "waiting" /\ attempt[1] = 0
      BY <1>2 DEF Start, Turns
    <3>2. attempt'[1] > attempt[1]
      BY <2>2, <3>1 DEF StepTypes
    <3>3. \A x \in Steps \ {1} : attempt'[x] = attempt[x] /\ st'[x] = st[x]
      BY <2>2 DEF StepTypes, Moves
    <3> QED BY <3>2, <3>3, OneMovesOn
  <2> QED BY <1>2, <2>1, <2>2 DEF Start
<1>3. CASE JobStores
  <2>1. CASE Ends("completed") /\ UNCHANGED <<runVars, stepVars, stuck>>
    BY <1>3, <2>1 DEF JobStores, Ends, Advances
  <2>2. CASE AttemptFails(1)
    <3>1. st[1] = "completed"
      BY <1>3 DEF JobStores, Turns
    <3>2. \A x \in Steps \ {1} : attempt'[x] = attempt[x] /\ st'[x] = st[x]
      BY <2>2, AttemptFailsIs DEF StepTypes
    <3>3. attempt'[1] = attempt[1] /\ Stage[st[1]] < Stage[st'[1]]
      BY <2>2, <3>1, AttemptFailsIs DEF StepTypes
    <3> QED BY <3>2, <3>3, OneMovesOn
  <2> QED BY <1>3, <2>1, <2>2 DEF JobStores
<1>4. CASE ValidateDag \/ DeadlinePassed \/ AllSettled \/ BatchEnds
  BY <1>4 DEF ValidateDag, DeadlinePassed, AllSettled, BatchEnds, Goto, Advances
<1>5. CASE StartBatch
  <2>1. \A s \in Batch : s \in Steps /\ st[s] = "waiting" /\ attempt[s] = 0
    <3>1. \A s \in Batch : s \in Steps /\ st[s] \notin SettledStates
      BY DEF Batch, Ready, Remaining, InStates
    <3>2. \A s \in Steps : st[s] \notin {"body", "backoff"}
      BY <1>5 DEF StartBatch, Turns
    <3> QED BY <3>1, <3>2 DEF StepTypes, Turns
  <2>2. \A s \in Batch : Position(s) < Position(s)'
    BY <1>5, <2>1, StartBatchIs, MovesOn
  <2>3. \A s \in Batch : Position(s) \in Int /\ Position(s)' \in Int
    BY <2>1, PositionType, NextPositionType
  <2>4. \A s \in Steps \ Batch : Position(s) <= Position(s)'
    BY <1>5, StartBatchIs, Stands
  <2>5. Batch # {}
    BY <1>5, BatchNotEmpty DEF StartBatch
  <2> QED BY <2>1, <2>2, <2>3, <2>4, <2>5 DEF Advances
<1>6. CASE SkipDependents
  <2>1. Remaining # {} /\ Blocked # {}
    BY <1>6 DEF SkipDependents, NeverStuck
  <2>2. /\ attempt' = attempt
        /\ st' = [s \in Steps |-> IF s \in Blocked THEN "skipped" ELSE st[s]]
    BY <1>6, <2>1 DEF SkipDependents
  <2>3. \A s \in Blocked : s \in Steps /\ st[s] \in {"waiting", "body", "backoff"}
    BY DEF Blocked, Remaining, InStates, StepTypes
  <2>4. \A s \in Blocked : Position(s) < Position(s)'
    BY <2>2, <2>3, MovesOn
  <2>5. \A s \in Blocked : Position(s) \in Int /\ Position(s)' \in Int
    BY <2>3, PositionType, NextPositionType
  <2>6. \A s \in Steps \ Blocked : Position(s) <= Position(s)'
    BY <2>2, Stands
  <2> QED BY <2>1, <2>3, <2>4, <2>5, <2>6 DEF Advances
<1>7. CASE Crash
  <2>1. Place[phase] < 7 /\ phase' = "dead" /\ UNCHANGED stepVars
    BY <1>7 DEF Crash, Goto, RunTypes
  <2> QED BY <2>1 DEF Advances
<1>8. ASSUME NEW s \in Steps, BodyReturns(s) PROVE Advances
  <2>1. st[s] = "body" /\ st' = [st EXCEPT ![s] = "completed"] /\ attempt' = attempt
    BY <1>8 DEF BodyReturns, Running, Moves
  <2>2. \A x \in Steps \ {s} : attempt'[x] = attempt[x] /\ st'[x] = st[x]
    BY <2>1 DEF StepTypes
  <2>3. attempt'[s] = attempt[s] /\ Stage[st[s]] < Stage[st'[s]]
    BY <2>1 DEF StepTypes
  <2> QED BY <2>2, <2>3, OneMovesOn
<1>9. ASSUME NEW s \in Steps, BodyThrows(s) \/ TimesOut(s) PROVE Advances
  <2>1. st[s] = "body" /\ AttemptFails(s)
    BY <1>9 DEF BodyThrows, TimesOut, Running
  <2>2. \A x \in Steps \ {s} : attempt'[x] = attempt[x] /\ st'[x] = st[x]
    BY <2>1, AttemptFailsIs DEF StepTypes
  <2>3. attempt'[s] = attempt[s] /\ Stage[st[s]] < Stage[st'[s]]
    BY <2>1, AttemptFailsIs DEF StepTypes
  <2> QED BY <2>2, <2>3, OneMovesOn
<1>10. ASSUME NEW s \in Steps, Retry(s) PROVE Advances
  <2>1. st' = [st EXCEPT ![s] = "body"] /\ attempt' = [attempt EXCEPT ![s] = attempt[s] + 1]
    BY <1>10 DEF Retry, Moves
  <2>2. \A x \in Steps \ {s} : attempt'[x] = attempt[x] /\ st'[x] = st[x]
    BY <2>1 DEF StepTypes
  <2>3. attempt'[s] > attempt[s]
    BY <2>1 DEF StepTypes
  <2> QED BY <2>2, <2>3, OneMovesOn
<1>11. ASSUME Expire PROVE FALSE
  BY <1>11 DEF Expire
<1> QED BY <1>1, <1>2, <1>3, <1>4, <1>5, <1>6, <1>7, <1>8, <1>9, <1>10, <1>11
        DEF Next, ManagerStep, EngineStep, BodyEnds, TimerStep

----------------------------------------------------------------------------
(* Theorems                                                                *)

THEOREM InvHolds == Spec => []Inv
<1>1. Init => Inv
  <2> SUFFICES ASSUME Init PROVE Inv
    OBVIOUS
  <2>0. RunTypes
    BY JobsAssumption DEF Init, RunTypes
  <2>5. FlagTypes
    BY DEF Init, FlagTypes
  <2>1. StepTypes
    BY JobsAssumption DEF Init, StepTypes
  <2>2. TypeOK
    BY <2>0, <2>1, <2>5 DEF TypeOK, RunTypes, StepTypes, FlagTypes
  <2>3. Tried /\ DependenciesFirst
    BY DEF Init, Tried, DependenciesFirst
  <2>4. Phases /\ NeverStuck /\ StoresAll /\ AnswersLast /\ AnswerIsTrue
    BY DEF Init, Phases, NeverStuck, StoresAll, AnswersLast, AnswerIsTrue
  <2>6. CompletedByFault
    BY DEF Init, CompletedByFault
  <2> QED BY <2>2, <2>3, <2>4, <2>6 DEF Inv
<1>2. Inv /\ [Next]_vars => Inv'
  <2> SUFFICES ASSUME Inv, [Next]_vars PROVE Inv'
    OBVIOUS
  <2>1. /\ TypeOK /\ Tried /\ Phases /\ NeverStuck /\ StoresAll /\ AnswersLast
        /\ DependenciesFirst /\ AnswerIsTrue /\ CompletedByFault
    BY DEF Inv
  <2>2. RunTypes /\ StepTypes /\ FlagTypes
    BY <2>1 DEF TypeOK, RunTypes, StepTypes, FlagTypes
  <2>3. RunTypes' /\ StepTypes' /\ Tried' /\ FlagTypes' /\ Phases' /\ NeverStuck'
    BY <2>1, <2>2, RunTypesStep, StepTypesStep, FlagStep, PhasesStep
  <2>4. TypeOK'
    BY <2>3 DEF TypeOK, RunTypes, StepTypes, FlagTypes
  <2>5. StoresAll' /\ AnswersLast' /\ DependenciesFirst' /\ AnswerIsTrue'
        /\ CompletedByFault'
    BY <2>1, <2>2, <2>3, StoresAllStep, DependenciesStep, CompletedStep, AnswerStep
  <2> QED BY <2>3, <2>4, <2>5 DEF Inv
<1> QED BY <1>1, <1>2, PTL DEF Spec

\* Type correctness: no step is attempted more often than maxAttempts.
THEOREM TypeCorrect == Spec => []TypeOK
BY InvHolds, PTL DEF Inv

\* The engine never runs a step over a dependency that is unsettled or failed.
THEOREM DependenciesFirstHolds == Spec => []DependenciesFirst
BY InvHolds, PTL DEF Inv

\* In a graph without cycles there is always a step to run or to skip: were there none,
\* the steps that remain would depend on each other.
THEOREM NeverStuckHolds == Spec => []NeverStuck
BY InvHolds, PTL DEF Inv

\* What the store says of an execution that ended is what it answered, and what its
\* steps say.  The record may have expired at any point, with a write still to come.
THEOREM AnswerIsTrueHolds == Spec => []AnswerIsTrue
BY InvHolds, PTL DEF Inv

LEMMA TurnsHold == Spec => []Turns
<1>1. Init => Turns
  BY Numbers DEF Init, Turns
<1>2. Inv /\ Inv' /\ Turns /\ [Next]_vars => Turns'
  BY TurnsStep DEF Inv, TypeOK, RunTypes, StepTypes
<1> QED BY <1>1, <1>2, InvHolds, PTL DEF Spec

\* An execution cannot go round for ever: each action of it takes some step of the graph to a
\* later attempt or stage, or the run to a later place.  The attempts of a step are bounded
\* (TypeCorrect), so there are finitely many such actions.
THEOREM AdvancesHolds == Spec => AlwaysAdvances
<1>1. Inv /\ Inv' /\ Turns /\ [Next]_vars => [Advances]_execVars
  BY AdvancesStep DEF Inv, TypeOK, RunTypes, StepTypes, vars
<1> QED BY <1>1, InvHolds, TurnsHold, PTL DEF Spec, AlwaysAdvances

\* An execution that waits for steps waits for a timer or for the body of a job.
THEOREM WaitsForStepsHolds == Spec => []WaitsForSteps
<1>1. Inv /\ Turns => WaitsForSteps
  BY DEF Inv, Phases, Turns, WaitsForSteps, Timed
<1> QED BY <1>1, InvHolds, TurnsHold, PTL
=============================================================================
