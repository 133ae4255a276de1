---------------------------- MODULE CliTasksProofs ----------------------------
(***************************************************************************)
(* The safety properties of CliTasks, for any number of requests and       *)
(* faults.                                                                 *)
(***************************************************************************)
EXTENDS CliTasks, TLAPS

\* The parts of TypeOK.
RowTypes == row \in Rows /\ seen \in [Procs -> Rows] /\ snap \in [Procs -> Rows]
ControlTypes ==
  /\ pc[Parent] \in ParentLabels /\ pc[Worker] \in WorkerLabels
  /\ \A r \in Readers : pc[r] \in ReaderLabels
  /\ \A c \in Cancellers : pc[c] \in ReaderLabels \cup {"cancelling", "signalling"}
  /\ DOMAIN pc = Procs
FinalTypes ==
  final \in [status : {"none", "completed", "failed", "cancelled"},
             outcome : {"none", "ok", "error"}]
FlagTypes == aborted \in BOOLEAN
FaultTypes == faults \in 0 .. MaxFaults

\* A process holds the row of a SELECT only within an update.
SnapLabels == \A p \in Procs : snap[p] # NoRow => pc[p] \in UpdateLabels

\* The row and the worker come after their parent's calls.
Spawned ==
  /\ pc[Parent] \in {"creating", "spawning"} => pc[Worker] = "absent"
  /\ pc[Parent] = "creating" => row = NoRow /\ \A p \in Procs : snap[p] = NoRow

\* Who is to end the task has seen it at work; who reports an orphan has found its
\* pid dead.
SeenAtWork ==
  \A p \in Procs :
    pc[p] \in {"probing", "reporting", "cancelling", "finishing"} => seen[p].status = "working"
FoundDead ==
  \A c \in Clients :
    /\ pc[c] = "probing" => seen[c].pid
    /\ pc[c] = "reporting" => pc[Worker] = "dead"

\* The terminal patch of the worker carries an outcome.
FinalFits ==
  pc[Worker] = "finishing" =>
    /\ final.status \in {"completed", "failed", "cancelled"} /\ final.outcome \in {"ok", "error"}
    /\ final.status = "completed" => final.outcome = "ok"

\* Death and giving up are for good.
DeathLasts ==
  /\ pc[Worker] = "dead" => pc'[Worker] = "dead"
  /\ pc[Parent] = "gaveup" => pc'[Parent] = "gaveup"

\* OutcomeFits and OrphansAreDead, of the row and of every copy an update works on.
OrphanFits(r) ==
  (r.status = "failed" /\ r.outcome = "none") => pc[Worker] = "dead" \/ pc[Parent] = "gaveup"
RowsFit == Consistent(row) /\ \A p \in Procs : Consistent(snap[p])
OrphansFit == OrphanFits(row) /\ \A p \in Procs : OrphanFits(snap[p])

Inv ==
  /\ TypeOK /\ SnapLabels /\ Spawned /\ SeenAtWork /\ FoundDead /\ FinalFits
  /\ RowsFit /\ OrphansFit

LEMMA Processes ==
  /\ Parent \in Procs /\ Worker \in Procs /\ Parent # Worker
  /\ \A c \in Clients : c \in Procs /\ c # Parent /\ c # Worker
  /\ \A c \in Cancellers : c \in Clients /\ c \notin Readers
  /\ \A r \in Readers : r \in Clients
  /\ \A p \in Procs : p = Parent \/ p = Worker \/ p \in Readers \/ p \in Cancellers
BY CliTasksAssumption DEF Procs, Clients

LEMMA RowKinds ==
  /\ NoRow \in Rows /\ Created \in Rows /\ Gone \in Rows
  /\ NoRow.status = "none" /\ NoRow.outcome = "none"
  /\ Created.status = "working" /\ Created.outcome = "none" /\ Created # NoRow
  /\ Gone.status = "gone" /\ Gone.outcome = "none" /\ Gone # NoRow
BY DEF Rows, NoRow, Created, Gone

\* What an update writes, by the caller.
LEMMA MergedIs ==
  ASSUME NEW p \in Procs, RowTypes, ControlTypes, pc[p] \in UpdateLabels, FinalFits
  PROVE  /\ Merged(p) \in Rows
         /\ pc[p] = "registering" =>
              Merged(p).status = snap[p].status /\ Merged(p).outcome = snap[p].outcome
         /\ pc[p] \in {"bootstrap", "erred", "failing"} =>
              Merged(p).status = "failed" /\ Merged(p).outcome = "error"
         /\ pc[p] \in {"unscheduled", "reporting"} =>
              Merged(p).status = "failed" /\ Merged(p).outcome = snap[p].outcome
         /\ pc[p] = "cancelling" => Merged(p).status = "cancelled"
         /\ pc[p] = "finishing" =>
              Merged(p).status = final.status /\ Merged(p).outcome = final.outcome
<1>0. snap[p] \in Rows
  BY DEF RowTypes
<1>1. CASE pc[p] = "registering"
  BY <1>0, <1>1 DEF Merged, Registered, Rows
<1>2. CASE pc[p] \in {"bootstrap", "erred", "failing"}
  BY <1>0, <1>2 DEF Merged, Rows
<1>3. CASE pc[p] \in {"unscheduled", "reporting"}
  BY <1>0, <1>3 DEF Merged, Rows
<1>4. CASE pc[p] = "cancelling"
  BY <1>0, <1>4 DEF Merged, Rows
<1>5. CASE pc[p] = "finishing"
  <2>1. p = Worker
    BY <1>5, Processes DEF ControlTypes, ParentLabels, ReaderLabels
  <2> QED BY <1>0, <1>5, <2>1 DEF Merged, Rows, FinalFits
<1> QED BY <1>1, <1>2, <1>3, <1>4, <1>5 DEF UpdateLabels

----------------------------------------------------------------------------
(* One lemma per conjunct, one step per action                             *)

\* The row and its copies.
LEMMA RowTypesStep ==
  ASSUME RowTypes, ControlTypes, SnapLabels, FinalFits, [Next]_vars
  PROVE  RowTypes'
<1> USE Processes, RowKinds DEF RowTypes
<1>1. ASSUME Create PROVE RowTypes'
  BY <1>1 DEF Create, Goto
<1>2. ASSUME Spawn PROVE RowTypes'
  BY <1>2 DEF Spawn, Goto
<1>3. ASSUME SpawnFails PROVE RowTypes'
  BY <1>3 DEF SpawnFails, Goto, Fault
<1>4. ASSUME Boot PROVE RowTypes'
  BY <1>4 DEF Boot, Goto
<1>5. ASSUME ToolEnds PROVE RowTypes'
  BY <1>5 DEF ToolEnds, Goto
<1>6. ASSUME CheckStored PROVE RowTypes'
  BY <1>6 DEF CheckStored, Goto
<1>7. ASSUME Exit PROVE RowTypes'
  BY <1>7 DEF Exit, Goto
<1>8. ASSUME NEW c \in Clients, Ask(c) PROVE RowTypes'
  BY <1>8 DEF Ask, Goto
<1>9. ASSUME NEW c \in Clients, Get(c) PROVE RowTypes'
  BY <1>9 DEF Get, Goto, Probes, GoesOn
<1>10. ASSUME NEW c \in Clients, Probe(c) PROVE RowTypes'
  BY <1>10 DEF Probe, Goto, LooksDead, GoesOn
<1>11. ASSUME NEW c \in Cancellers, Signal(c) PROVE RowTypes'
  BY <1>11 DEF Signal, Unhandled, Handled
<1>12. ASSUME NEW p \in Procs, UpdateRead(p) PROVE RowTypes'
  BY <1>12 DEF UpdateRead, Goto, AfterNull, AfterUpdate, UpdateLabels
<1>13. ASSUME NEW p \in Procs, UpdateWrite(p) PROVE RowTypes'
  <2>1. pc[p] \in UpdateLabels
    BY <1>13 DEF UpdateWrite, SnapLabels
  <2>2. Merged(p) \in Rows
    BY <2>1, MergedIs
  <2> QED BY <1>13, <2>2 DEF UpdateWrite
<1>14. ASSUME NEW p \in Procs, StorageFault(p) PROVE RowTypes'
  BY <1>14 DEF StorageFault, Goto, Fault, AfterFault, AfterUpdate, UpdateLabels
<1>15. ASSUME NEW p \in Procs, Die(p) PROVE RowTypes'
  BY <1>15 DEF Die, Goto, Fault, Ended
<1>16. ASSUME Expire PROVE RowTypes'
  BY <1>16 DEF Expire
<1>17. CASE UNCHANGED vars
  BY <1>17 DEF vars
<1> QED BY <1>1, <1>2, <1>3, <1>4, <1>5, <1>6, <1>7, <1>8, <1>9, <1>10, <1>11, <1>12, <1>13,
    <1>14, <1>15, <1>16, <1>17 DEF Next, Request, Clients, Procs

\* Every process keeps to its labels.
LEMMA ControlStep ==
  ASSUME RowTypes, ControlTypes, SnapLabels, [Next]_vars
  PROVE  ControlTypes'
<1> USE Processes, RowKinds DEF ControlTypes, ParentLabels, WorkerLabels, ReaderLabels,
    Unhandled, Handled
<1>1. ASSUME Create PROVE ControlTypes'
  BY <1>1 DEF Create, Goto
<1>2. ASSUME Spawn PROVE ControlTypes'
  BY <1>2 DEF Spawn, Goto
<1>3. ASSUME SpawnFails PROVE ControlTypes'
  BY <1>3 DEF SpawnFails, Goto, Fault
<1>4. ASSUME Boot PROVE ControlTypes'
  BY <1>4 DEF Boot, Goto
<1>5. ASSUME ToolEnds PROVE ControlTypes'
  BY <1>5 DEF ToolEnds, Goto
<1>6. ASSUME CheckStored PROVE ControlTypes'
  BY <1>6 DEF CheckStored, Goto
<1>7. ASSUME Exit PROVE ControlTypes'
  BY <1>7 DEF Exit, Goto
<1>8. ASSUME NEW c \in Clients, Ask(c) PROVE ControlTypes'
  BY <1>8 DEF Ask, Goto
<1>9. ASSUME NEW c \in Clients, Get(c) PROVE ControlTypes'
  BY <1>9 DEF Get, Goto, Probes, GoesOn
<1>10. ASSUME NEW c \in Clients, Probe(c) PROVE ControlTypes'
  BY <1>10 DEF Probe, Goto, LooksDead, GoesOn
<1>11. ASSUME NEW c \in Cancellers, Signal(c) PROVE ControlTypes'
  BY <1>11 DEF Signal, Unhandled, Handled
<1>12. ASSUME NEW p \in Procs, UpdateRead(p) PROVE ControlTypes'
  <2>1. pc[p] \in UpdateLabels /\ (pc' = pc \/ pc' = [pc EXCEPT ![p] = AfterNull(p)])
    BY <1>12 DEF UpdateRead, Goto
  <2>2. CASE p = Parent
    BY <2>1, <2>2 DEF AfterNull, AfterUpdate, UpdateLabels
  <2>3. CASE p = Worker
    BY <2>1, <2>3 DEF AfterNull, AfterUpdate, UpdateLabels
  <2>4. CASE p \in Clients
    BY <2>1, <2>4 DEF AfterNull, AfterUpdate, UpdateLabels
  <2> QED BY <2>2, <2>3, <2>4
<1>13. ASSUME NEW p \in Procs, UpdateWrite(p) PROVE ControlTypes'
  <2>1. pc[p] \in UpdateLabels /\ pc' = [pc EXCEPT ![p] = AfterUpdate(p)]
    BY <1>13 DEF UpdateWrite, SnapLabels, Goto
  <2>2. CASE p = Parent
    BY <2>1, <2>2 DEF AfterUpdate, UpdateLabels
  <2>3. CASE p = Worker
    BY <2>1, <2>3 DEF AfterUpdate, UpdateLabels
  <2>4. CASE p \in Clients
    BY <2>1, <2>4 DEF AfterUpdate, UpdateLabels
  <2> QED BY <2>2, <2>3, <2>4
<1>14. ASSUME NEW p \in Procs, StorageFault(p) PROVE ControlTypes'
  BY <1>14 DEF StorageFault, Goto, Fault, AfterFault, AfterUpdate, UpdateLabels
<1>15. ASSUME NEW p \in Procs, Die(p) PROVE ControlTypes'
  BY <1>15 DEF Die, Goto, Fault, Ended
<1>16. ASSUME Expire PROVE ControlTypes'
  BY <1>16 DEF Expire
<1>17. CASE UNCHANGED vars
  BY <1>17 DEF vars
<1> QED BY <1>1, <1>2, <1>3, <1>4, <1>5, <1>6, <1>7, <1>8, <1>9, <1>10, <1>11, <1>12, <1>13,
    <1>14, <1>15, <1>16, <1>17 DEF Next, Request, Clients, Procs

\* The terminal patch carries an outcome.
LEMMA FinalStep ==
  ASSUME ControlTypes, FinalTypes, FinalFits, SnapLabels, Spawned, [Next]_vars
  PROVE  (FinalTypes /\ FinalFits)'
<1> USE Processes, RowKinds DEF ControlTypes, FinalTypes, FinalFits, SnapLabels, Spawned,
    ParentLabels, WorkerLabels, ReaderLabels, Unhandled, Handled
<1>1. ASSUME Create PROVE (FinalTypes /\ FinalFits)'
  BY <1>1 DEF Create, Goto
<1>2. ASSUME Spawn PROVE (FinalTypes /\ FinalFits)'
  BY <1>2 DEF Spawn, Goto
<1>3. ASSUME SpawnFails PROVE (FinalTypes /\ FinalFits)'
  BY <1>3 DEF SpawnFails, Goto, Fault
<1>4. ASSUME Boot PROVE (FinalTypes /\ FinalFits)'
  BY <1>4 DEF Boot, Goto
<1>5. ASSUME ToolEnds PROVE (FinalTypes /\ FinalFits)'
  BY <1>5 DEF ToolEnds, Goto
<1>6. ASSUME CheckStored PROVE (FinalTypes /\ FinalFits)'
  BY <1>6 DEF CheckStored, Goto, FinalPatches, Patch
<1>7. ASSUME Exit PROVE (FinalTypes /\ FinalFits)'
  BY <1>7 DEF Exit, Goto
<1>8. ASSUME NEW c \in Clients, Ask(c) PROVE (FinalTypes /\ FinalFits)'
  BY <1>8 DEF Ask, Goto
<1>9. ASSUME NEW c \in Clients, Get(c) PROVE (FinalTypes /\ FinalFits)'
  BY <1>9 DEF Get, Goto, Probes, GoesOn
<1>10. ASSUME NEW c \in Clients, Probe(c) PROVE (FinalTypes /\ FinalFits)'
  BY <1>10 DEF Probe, Goto, LooksDead, GoesOn
<1>11. ASSUME NEW c \in Cancellers, Signal(c) PROVE (FinalTypes /\ FinalFits)'
  BY <1>11 DEF Signal, Unhandled, Handled
<1>12. ASSUME NEW p \in Procs, UpdateRead(p) PROVE (FinalTypes /\ FinalFits)'
  BY <1>12 DEF UpdateRead, Goto, AfterNull, AfterUpdate, UpdateLabels
<1>13. ASSUME NEW p \in Procs, UpdateWrite(p) PROVE (FinalTypes /\ FinalFits)'
  BY <1>13 DEF UpdateWrite, Goto, AfterUpdate
<1>14. ASSUME NEW p \in Procs, StorageFault(p) PROVE (FinalTypes /\ FinalFits)'
  BY <1>14 DEF StorageFault, Goto, Fault, AfterFault, AfterUpdate, UpdateLabels
<1>15. ASSUME NEW p \in Procs, Die(p) PROVE (FinalTypes /\ FinalFits)'
  BY <1>15 DEF Die, Goto, Fault, Ended
<1>16. ASSUME Expire PROVE (FinalTypes /\ FinalFits)'
  BY <1>16 DEF Expire
<1>17. CASE UNCHANGED vars
  BY <1>17 DEF vars
<1> QED BY <1>1, <1>2, <1>3, <1>4, <1>5, <1>6, <1>7, <1>8, <1>9, <1>10, <1>11, <1>12, <1>13,
    <1>14, <1>15, <1>16, <1>17 DEF Next, Request, Clients, Procs

LEMMA FlagStep ==
  ASSUME FlagTypes, FaultTypes, [Next]_vars
  PROVE  FlagTypes' /\ FaultTypes'
<1>1. UNCHANGED faults \/ Fault
  BY DEF vars, Next, Request, Create, Spawn, SpawnFails, Boot, ToolEnds, CheckStored, Exit, Ask,
      Get,
    Probe, Signal, UpdateRead, UpdateWrite, StorageFault, Die, Expire
<1>2. UNCHANGED aborted \/ \E c \in Cancellers : Signal(c)
  BY DEF vars, Next, Request, Create, Spawn, SpawnFails, Boot, ToolEnds, CheckStored, Exit, Ask,
      Get,
    Probe, UpdateRead, UpdateWrite, StorageFault, Die, Expire
<1>3. FaultTypes'
  BY <1>1, CliTasksAssumption DEF Fault, FaultTypes
<1>4. FlagTypes'
  BY <1>2, Zenon DEF Signal, FlagTypes
<1> QED BY <1>3, <1>4

\* An update that ends drops its copy.
LEMMA SnapStep ==
  ASSUME RowTypes, ControlTypes, SnapLabels, Spawned, [Next]_vars
  PROVE  SnapLabels'
<1> USE Processes, RowKinds DEF RowTypes, ControlTypes, SnapLabels, Spawned, ParentLabels,
    WorkerLabels, ReaderLabels, Unhandled, Handled, UpdateLabels
<1>1. ASSUME Create PROVE SnapLabels'
  BY <1>1 DEF Create, Goto
<1>2. ASSUME Spawn PROVE SnapLabels'
  BY <1>2 DEF Spawn, Goto
<1>3. ASSUME SpawnFails PROVE SnapLabels'
  BY <1>3 DEF SpawnFails, Goto, Fault
<1>4. ASSUME Boot PROVE SnapLabels'
  BY <1>4 DEF Boot, Goto
<1>5. ASSUME ToolEnds PROVE SnapLabels'
  BY <1>5 DEF ToolEnds, Goto
<1>6. ASSUME CheckStored PROVE SnapLabels'
  BY <1>6 DEF CheckStored, Goto
<1>7. ASSUME Exit PROVE SnapLabels'
  BY <1>7 DEF Exit, Goto
<1>8. ASSUME NEW c \in Clients, Ask(c) PROVE SnapLabels'
  BY <1>8 DEF Ask, Goto
<1>9. ASSUME NEW c \in Clients, Get(c) PROVE SnapLabels'
  BY <1>9 DEF Get, Goto, Probes, GoesOn
<1>10. ASSUME NEW c \in Clients, Probe(c) PROVE SnapLabels'
  BY <1>10 DEF Probe, Goto, LooksDead, GoesOn
<1>11. ASSUME NEW c \in Cancellers, Signal(c) PROVE SnapLabels'
  BY <1>11 DEF Signal, Unhandled, Handled
<1>12. ASSUME NEW p \in Procs, UpdateRead(p) PROVE SnapLabels'
  BY <1>12 DEF UpdateRead, Goto, AfterNull, AfterUpdate, UpdateLabels
<1>13. ASSUME NEW p \in Procs, UpdateWrite(p) PROVE SnapLabels'
  BY <1>13 DEF UpdateWrite, Goto, AfterUpdate
<1>14. ASSUME NEW p \in Procs, StorageFault(p) PROVE SnapLabels'
  BY <1>14 DEF StorageFault, Goto, Fault, AfterFault, AfterUpdate, UpdateLabels
<1>15. ASSUME NEW p \in Procs, Die(p) PROVE SnapLabels'
  BY <1>15 DEF Die, Goto, Fault, Ended
<1>16. ASSUME Expire PROVE SnapLabels'
  BY <1>16 DEF Expire
<1>17. CASE UNCHANGED vars
  BY <1>17 DEF vars
<1> QED BY <1>1, <1>2, <1>3, <1>4, <1>5, <1>6, <1>7, <1>8, <1>9, <1>10, <1>11, <1>12, <1>13,
    <1>14, <1>15, <1>16, <1>17 DEF Next, Request, Clients, Procs

\* Nothing precedes its creation.
LEMMA SpawnedStep ==
  ASSUME RowTypes, ControlTypes, SnapLabels, Spawned, [Next]_vars
  PROVE  Spawned'
<1> USE Processes, RowKinds DEF RowTypes, ControlTypes, SnapLabels, Spawned, ParentLabels,
    WorkerLabels, ReaderLabels, Unhandled, Handled, UpdateLabels
<1>1. ASSUME Create PROVE Spawned'
  BY <1>1 DEF Create, Goto
<1>2. ASSUME Spawn PROVE Spawned'
  BY <1>2 DEF Spawn, Goto
<1>3. ASSUME SpawnFails PROVE Spawned'
  BY <1>3 DEF SpawnFails, Goto, Fault
<1>4. ASSUME Boot PROVE Spawned'
  BY <1>4 DEF Boot, Goto
<1>5. ASSUME ToolEnds PROVE Spawned'
  BY <1>5 DEF ToolEnds, Goto
<1>6. ASSUME CheckStored PROVE Spawned'
  BY <1>6 DEF CheckStored, Goto
<1>7. ASSUME Exit PROVE Spawned'
  BY <1>7 DEF Exit, Goto
<1>8. ASSUME NEW c \in Clients, Ask(c) PROVE Spawned'
  BY <1>8 DEF Ask, Goto
<1>9. ASSUME NEW c \in Clients, Get(c) PROVE Spawned'
  BY <1>9 DEF Get, Goto, Probes, GoesOn
<1>10. ASSUME NEW c \in Clients, Probe(c) PROVE Spawned'
  BY <1>10 DEF Probe, Goto, LooksDead, GoesOn
<1>11. ASSUME NEW c \in Cancellers, Signal(c) PROVE Spawned'
  BY <1>11 DEF Signal, Unhandled, Handled
<1>12. ASSUME NEW p \in Procs, UpdateRead(p) PROVE Spawned'
  BY <1>12 DEF UpdateRead, Goto, AfterNull, AfterUpdate, UpdateLabels
<1>13. ASSUME NEW p \in Procs, UpdateWrite(p) PROVE Spawned'
  BY <1>13 DEF UpdateWrite, Goto, AfterUpdate
<1>14. ASSUME NEW p \in Procs, StorageFault(p) PROVE Spawned'
  BY <1>14 DEF StorageFault, Goto, Fault, AfterFault, AfterUpdate, UpdateLabels
<1>15. ASSUME NEW p \in Procs, Die(p) PROVE Spawned'
  BY <1>15 DEF Die, Goto, Fault, Ended
<1>16. ASSUME Expire PROVE Spawned'
  BY <1>16 DEF Expire
<1>17. CASE UNCHANGED vars
  BY <1>17 DEF vars
<1> QED BY <1>1, <1>2, <1>3, <1>4, <1>5, <1>6, <1>7, <1>8, <1>9, <1>10, <1>11, <1>12, <1>13,
    <1>14, <1>15, <1>16, <1>17 DEF Next, Request, Clients, Procs

\* A get goes on only with a task at work.
LEMMA SeenStep ==
  ASSUME RowTypes, ControlTypes, SnapLabels, SeenAtWork, [Next]_vars
  PROVE  SeenAtWork'
<1> USE Processes, RowKinds DEF RowTypes, ControlTypes, SnapLabels, SeenAtWork, ParentLabels,
    WorkerLabels, ReaderLabels, Unhandled, Handled, UpdateLabels
<1>1. ASSUME Create PROVE SeenAtWork'
  BY <1>1 DEF Create, Goto
<1>2. ASSUME Spawn PROVE SeenAtWork'
  BY <1>2 DEF Spawn, Goto
<1>3. ASSUME SpawnFails PROVE SeenAtWork'
  BY <1>3 DEF SpawnFails, Goto, Fault
<1>4. ASSUME Boot PROVE SeenAtWork'
  BY <1>4 DEF Boot, Goto
<1>5. ASSUME ToolEnds PROVE SeenAtWork'
  BY <1>5 DEF ToolEnds, Goto
<1>6. ASSUME CheckStored PROVE SeenAtWork'
  BY <1>6 DEF CheckStored, Goto
<1>7. ASSUME Exit PROVE SeenAtWork'
  BY <1>7 DEF Exit, Goto
<1>8. ASSUME NEW c \in Clients, Ask(c) PROVE SeenAtWork'
  BY <1>8 DEF Ask, Goto
<1>9. ASSUME NEW c \in Clients, Get(c) PROVE SeenAtWork'
  BY <1>9 DEF Get, Goto, Probes, GoesOn
<1>10. ASSUME NEW c \in Clients, Probe(c) PROVE SeenAtWork'
  BY <1>10 DEF Probe, Goto, LooksDead, GoesOn
<1>11. ASSUME NEW c \in Cancellers, Signal(c) PROVE SeenAtWork'
  BY <1>11 DEF Signal, Unhandled, Handled
<1>12. ASSUME NEW p \in Procs, UpdateRead(p) PROVE SeenAtWork'
  BY <1>12 DEF UpdateRead, Goto, AfterNull, AfterUpdate, UpdateLabels
<1>13. ASSUME NEW p \in Procs, UpdateWrite(p) PROVE SeenAtWork'
  BY <1>13 DEF UpdateWrite, Goto, AfterUpdate
<1>14. ASSUME NEW p \in Procs, StorageFault(p) PROVE SeenAtWork'
  BY <1>14 DEF StorageFault, Goto, Fault, AfterFault, AfterUpdate, UpdateLabels
<1>15. ASSUME NEW p \in Procs, Die(p) PROVE SeenAtWork'
  BY <1>15 DEF Die, Goto, Fault, Ended
<1>16. ASSUME Expire PROVE SeenAtWork'
  BY <1>16 DEF Expire
<1>17. CASE UNCHANGED vars
  BY <1>17 DEF vars
<1> QED BY <1>1, <1>2, <1>3, <1>4, <1>5, <1>6, <1>7, <1>8, <1>9, <1>10, <1>11, <1>12, <1>13,
    <1>14, <1>15, <1>16, <1>17 DEF Next, Request, Clients, Procs

\* A worker that is dead stays dead.
LEMMA DeadStep ==
  ASSUME RowTypes, ControlTypes, SnapLabels, Spawned, FoundDead, [Next]_vars
  PROVE  FoundDead'
<1> USE Processes, RowKinds DEF RowTypes, ControlTypes, SnapLabels, Spawned, FoundDead,
    ParentLabels, WorkerLabels, ReaderLabels, Unhandled, Handled, UpdateLabels
<1>1. ASSUME Create PROVE FoundDead'
  BY <1>1 DEF Create, Goto
<1>2. ASSUME Spawn PROVE FoundDead'
  BY <1>2 DEF Spawn, Goto
<1>3. ASSUME SpawnFails PROVE FoundDead'
  BY <1>3 DEF SpawnFails, Goto, Fault
<1>4. ASSUME Boot PROVE FoundDead'
  BY <1>4 DEF Boot, Goto
<1>5. ASSUME ToolEnds PROVE FoundDead'
  BY <1>5 DEF ToolEnds, Goto
<1>6. ASSUME CheckStored PROVE FoundDead'
  BY <1>6 DEF CheckStored, Goto
<1>7. ASSUME Exit PROVE FoundDead'
  BY <1>7 DEF Exit, Goto
<1>8. ASSUME NEW c \in Clients, Ask(c) PROVE FoundDead'
  BY <1>8 DEF Ask, Goto
<1>9. ASSUME NEW c \in Clients, Get(c) PROVE FoundDead'
  BY <1>9 DEF Get, Goto, Probes, GoesOn
<1>10. ASSUME NEW c \in Clients, Probe(c) PROVE FoundDead'
  BY <1>10 DEF Probe, Goto, LooksDead, GoesOn
<1>11. ASSUME NEW c \in Cancellers, Signal(c) PROVE FoundDead'
  BY <1>11 DEF Signal, Unhandled, Handled
<1>12. ASSUME NEW p \in Procs, UpdateRead(p) PROVE FoundDead'
  BY <1>12 DEF UpdateRead, Goto, AfterNull, AfterUpdate, UpdateLabels
<1>13. ASSUME NEW p \in Procs, UpdateWrite(p) PROVE FoundDead'
  BY <1>13 DEF UpdateWrite, Goto, AfterUpdate
<1>14. ASSUME NEW p \in Procs, StorageFault(p) PROVE FoundDead'
  BY <1>14 DEF StorageFault, Goto, Fault, AfterFault, AfterUpdate, UpdateLabels
<1>15. ASSUME NEW p \in Procs, Die(p) PROVE FoundDead'
  BY <1>15 DEF Die, Goto, Fault, Ended
<1>16. ASSUME Expire PROVE FoundDead'
  BY <1>16 DEF Expire
<1>17. CASE UNCHANGED vars
  BY <1>17 DEF vars
<1> QED BY <1>1, <1>2, <1>3, <1>4, <1>5, <1>6, <1>7, <1>8, <1>9, <1>10, <1>11, <1>12, <1>13,
    <1>14, <1>15, <1>16, <1>17 DEF Next, Request, Clients, Procs

\* An update writes a status with its outcome, or keeps both.
LEMMA RowsFitStep ==
  ASSUME RowTypes, ControlTypes, SnapLabels, FinalFits, RowsFit, [Next]_vars
  PROVE  RowsFit'
<1> USE Processes, RowKinds DEF RowTypes, RowsFit, SnapLabels
<1>1. ASSUME Create PROVE RowsFit'
  BY <1>1 DEF Create, Consistent
<1>2. ASSUME Spawn PROVE RowsFit'
  BY <1>2 DEF Spawn, Consistent
<1>3. ASSUME SpawnFails PROVE RowsFit'
  BY <1>3 DEF SpawnFails, Goto, Fault
<1>4. ASSUME Boot PROVE RowsFit'
  BY <1>4 DEF Boot, Goto
<1>5. ASSUME ToolEnds PROVE RowsFit'
  BY <1>5 DEF ToolEnds, Goto
<1>6. ASSUME CheckStored PROVE RowsFit'
  BY <1>6 DEF CheckStored, Goto
<1>7. ASSUME Exit PROVE RowsFit'
  BY <1>7 DEF Exit, Goto
<1>8. ASSUME NEW c \in Clients, Ask(c) PROVE RowsFit'
  BY <1>8 DEF Ask, Goto
<1>9. ASSUME NEW c \in Clients, Get(c) PROVE RowsFit'
  BY <1>9 DEF Get, Goto, Probes, GoesOn
<1>10. ASSUME NEW c \in Clients, Probe(c) PROVE RowsFit'
  BY <1>10 DEF Probe, Goto, LooksDead, GoesOn
<1>11. ASSUME NEW c \in Cancellers, Signal(c) PROVE RowsFit'
  BY <1>11 DEF Signal, Consistent
<1>12. ASSUME NEW p \in Procs, UpdateRead(p) PROVE RowsFit'
  BY <1>12 DEF UpdateRead, Consistent
<1>13. ASSUME NEW p \in Procs, UpdateWrite(p) PROVE RowsFit'
  <2>1. pc[p] \in UpdateLabels /\ row' \in {Gone, Merged(p)} /\ snap' = [snap EXCEPT ![p] = NoRow]
    BY <1>13 DEF UpdateWrite, SnapLabels
  <2>2. Consistent(Merged(p))
    <3>1. Consistent(snap[p])
      OBVIOUS
    <3> QED BY <2>1, <3>1, MergedIs, Processes DEF Consistent, UpdateLabels, FinalFits, ControlTypes, ParentLabels, ReaderLabels
  <2> QED BY <2>1, <2>2 DEF Consistent
<1>14. ASSUME NEW p \in Procs, StorageFault(p) PROVE RowsFit'
  BY <1>14 DEF StorageFault, Consistent
<1>15. ASSUME NEW p \in Procs, Die(p) PROVE RowsFit'
  BY <1>15 DEF Die, Consistent
<1>16. ASSUME Expire PROVE RowsFit'
  BY <1>16 DEF Expire, Consistent
<1>17. CASE UNCHANGED vars
  BY <1>17 DEF vars
<1> QED BY <1>1, <1>2, <1>3, <1>4, <1>5, <1>6, <1>7, <1>8, <1>9, <1>10, <1>11, <1>12, <1>13,
    <1>14, <1>15, <1>16, <1>17 DEF Next, Request, Clients, Procs

\* Death and giving up are for good.
LEMMA DeathStep ==
  ASSUME ControlTypes, SnapLabels, Spawned, [Next]_vars
  PROVE  DeathLasts
<1> USE Processes, RowKinds DEF DeathLasts, ControlTypes, SnapLabels, Spawned, ParentLabels,
    WorkerLabels, ReaderLabels, Unhandled, Handled, UpdateLabels
<1>1. ASSUME Create PROVE DeathLasts
  BY <1>1 DEF Create, Goto
<1>2. ASSUME Spawn PROVE DeathLasts
  BY <1>2 DEF Spawn, Goto
<1>3. ASSUME SpawnFails PROVE DeathLasts
  BY <1>3 DEF SpawnFails, Goto, Fault
<1>4. ASSUME Boot PROVE DeathLasts
  BY <1>4 DEF Boot, Goto
<1>5. ASSUME ToolEnds PROVE DeathLasts
  BY <1>5 DEF ToolEnds, Goto
<1>6. ASSUME CheckStored PROVE DeathLasts
  BY <1>6 DEF CheckStored, Goto
<1>7. ASSUME Exit PROVE DeathLasts
  BY <1>7 DEF Exit, Goto
<1>8. ASSUME NEW c \in Clients, Ask(c) PROVE DeathLasts
  BY <1>8 DEF Ask, Goto
<1>9. ASSUME NEW c \in Clients, Get(c) PROVE DeathLasts
  BY <1>9 DEF Get, Goto, Probes, GoesOn
<1>10. ASSUME NEW c \in Clients, Probe(c) PROVE DeathLasts
  BY <1>10 DEF Probe, Goto, LooksDead, GoesOn
<1>11. ASSUME NEW c \in Cancellers, Signal(c) PROVE DeathLasts
  BY <1>11 DEF Signal, Unhandled, Handled
<1>12. ASSUME NEW p \in Procs, UpdateRead(p) PROVE DeathLasts
  BY <1>12 DEF UpdateRead, Goto, AfterNull, AfterUpdate, UpdateLabels
<1>13. ASSUME NEW p \in Procs, UpdateWrite(p) PROVE DeathLasts
  BY <1>13 DEF UpdateWrite, Goto, AfterUpdate
<1>14. ASSUME NEW p \in Procs, StorageFault(p) PROVE DeathLasts
  BY <1>14 DEF StorageFault, Goto, Fault, AfterFault, AfterUpdate, UpdateLabels
<1>15. ASSUME NEW p \in Procs, Die(p) PROVE DeathLasts
  BY <1>15 DEF Die, Goto, Fault, Ended
<1>16. ASSUME Expire PROVE DeathLasts
  BY <1>16 DEF Expire
<1>17. CASE UNCHANGED vars
  BY <1>17 DEF vars
<1> QED BY <1>1, <1>2, <1>3, <1>4, <1>5, <1>6, <1>7, <1>8, <1>9, <1>10, <1>11, <1>12, <1>13,
    <1>14, <1>15, <1>16, <1>17 DEF Next, Request, Clients, Procs

\* Only who found the worker dead, or gave up spawning it, fails a task without
\* an outcome.
LEMMA OrphansFitStep ==
  ASSUME RowTypes, ControlTypes, SnapLabels, Spawned, FoundDead, FinalFits, OrphansFit, [Next]_vars
  PROVE  OrphansFit'
<1> USE Processes, RowKinds DEF RowTypes, OrphansFit
<1>0. DeathLasts
  BY DeathStep
<1>1. ASSUME Create PROVE OrphansFit'
  BY <1>1, <1>0 DEF Create, OrphanFits, DeathLasts, Goto
<1>2. ASSUME Spawn PROVE OrphansFit'
  BY <1>2, <1>0 DEF Spawn, OrphanFits, DeathLasts, Goto
<1>3. ASSUME SpawnFails PROVE OrphansFit'
  BY <1>3, <1>0 DEF SpawnFails, OrphanFits, DeathLasts, Goto
<1>4. ASSUME Boot PROVE OrphansFit'
  BY <1>4, <1>0 DEF Boot, OrphanFits, DeathLasts, Goto
<1>5. ASSUME ToolEnds PROVE OrphansFit'
  BY <1>5, <1>0 DEF ToolEnds, OrphanFits, DeathLasts, Goto
<1>6. ASSUME CheckStored PROVE OrphansFit'
  BY <1>6, <1>0 DEF CheckStored, OrphanFits, DeathLasts, Goto
<1>7. ASSUME Exit PROVE OrphansFit'
  BY <1>7, <1>0 DEF Exit, OrphanFits, DeathLasts, Goto
<1>8. ASSUME NEW c \in Clients, Ask(c) PROVE OrphansFit'
  BY <1>8, <1>0 DEF Ask, OrphanFits, DeathLasts, Goto
<1>9. ASSUME NEW c \in Clients, Get(c) PROVE OrphansFit'
  BY <1>9, <1>0 DEF Get, OrphanFits, DeathLasts, Goto
<1>10. ASSUME NEW c \in Clients, Probe(c) PROVE OrphansFit'
  BY <1>10, <1>0 DEF Probe, OrphanFits, DeathLasts, Goto
<1>11. ASSUME NEW c \in Cancellers, Signal(c) PROVE OrphansFit'
  BY <1>11, <1>0 DEF Signal, OrphanFits, DeathLasts, Goto
<1>12. ASSUME NEW p \in Procs, UpdateRead(p) PROVE OrphansFit'
  BY <1>12, <1>0 DEF UpdateRead, OrphanFits, DeathLasts, Goto
<1>13. ASSUME NEW p \in Procs, UpdateWrite(p) PROVE OrphansFit'
  <2>1. /\ pc[p] \in UpdateLabels /\ row' \in {Gone, Merged(p)}
        /\ snap' = [snap EXCEPT ![p] = NoRow] /\ pc' = [pc EXCEPT ![p] = AfterUpdate(p)]
    BY <1>13 DEF UpdateWrite, SnapLabels, Goto
  <2>2. OrphanFits(snap[p])
    OBVIOUS
  <2>3. ASSUME Merged(p).status = "failed", Merged(p).outcome = "none"
        PROVE  pc'[Worker] = "dead" \/ pc'[Parent] = "gaveup"
    <3>1. CASE pc[p] = "registering"
      BY <2>2, <2>3, <3>1, MergedIs, <1>0 DEF OrphanFits, UpdateLabels, DeathLasts
    <3>2. CASE pc[p] \in {"bootstrap", "erred", "failing", "cancelling"}
      BY <2>1, <2>3, <3>2, MergedIs
    <3>3. CASE pc[p] = "unscheduled"
      <4>1. p = Parent
        BY <3>3 DEF ControlTypes, WorkerLabels, ReaderLabels, Handled, Unhandled
      <4> QED BY <2>1, <3>3, <4>1 DEF AfterUpdate, ControlTypes
    <3>4. CASE pc[p] = "reporting"
      <4>1. p \in Clients
        BY <3>4 DEF ControlTypes, WorkerLabels, ParentLabels, Handled, Unhandled
      <4> QED BY <3>4, <4>1, <1>0 DEF FoundDead, DeathLasts
    <3>5. CASE pc[p] = "finishing"
      <4>1. p = Worker
        BY <3>5 DEF ControlTypes, ReaderLabels, ParentLabels
      <4> QED BY <2>1, <2>3, <3>5, <4>1, MergedIs DEF FinalFits
    <3> QED BY <2>1, <3>1, <3>2, <3>3, <3>4, <3>5 DEF UpdateLabels
  <2> QED BY <2>1, <2>2, <2>3, <1>0 DEF OrphanFits, DeathLasts
<1>14. ASSUME NEW p \in Procs, StorageFault(p) PROVE OrphansFit'
  BY <1>14, <1>0 DEF StorageFault, OrphanFits, DeathLasts, Goto
<1>15. ASSUME NEW p \in Procs, Die(p) PROVE OrphansFit'
  BY <1>15, <1>0 DEF Die, OrphanFits, DeathLasts, Goto
<1>16. ASSUME Expire PROVE OrphansFit'
  BY <1>16, <1>0 DEF Expire, OrphanFits, DeathLasts, Goto
<1>17. CASE UNCHANGED vars
  BY <1>17 DEF vars, OrphanFits
<1> QED BY <1>1, <1>2, <1>3, <1>4, <1>5, <1>6, <1>7, <1>8, <1>9, <1>10, <1>11, <1>12, <1>13,
    <1>14, <1>15, <1>16, <1>17 DEF Next, Request, Clients, Procs

\* The step behind SettledStays.
LEMMA SettledStep ==
  ASSUME Inv, [Next]_vars, IsTerminal(row.status), \A p \in Procs : ~MayOverwrite(p)
  PROVE  row' = Gone \/ (row'.status = row.status /\ row'.outcome = row.outcome)
<1>0. /\ RowTypes /\ ControlTypes /\ SnapLabels /\ FinalFits /\ SeenAtWork /\ Spawned
  BY DEF Inv, TypeOK, RowTypes, ControlTypes
<1>1. CASE Create
  BY <1>0, <1>1, RowKinds DEF Create, Spawned, IsTerminal
<1>2. ASSUME NEW p \in Procs, UpdateWrite(p)
      PROVE  row' = Gone \/ (row'.status = row.status /\ row'.outcome = row.outcome)
  <2>1. pc[p] \in UpdateLabels /\ snap[p] # NoRow /\ row' \in {Gone, Merged(p)}
    BY <1>0, <1>2 DEF UpdateWrite, SnapLabels
  <2>2. pc[p] = "registering"
    BY <1>0, <2>1 DEF MayOverwrite, SawItAtWork, GivesUp, SeenAtWork, UpdateLabels
  <2>3. snap[p].status = row.status /\ snap[p].outcome = row.outcome
    BY <2>1, <2>2 DEF MayOverwrite, Outdated
  <2> QED BY <1>0, <2>1, <2>2, <2>3, MergedIs
<1>3. CASE Expire
  BY <1>3 DEF Expire
<1>4. CASE UNCHANGED row
  BY <1>4
<1>5. Create \/ (\E p \in Procs : UpdateWrite(p)) \/ Expire \/ UNCHANGED row
  BY Processes DEF vars, Next, Request, Spawn, SpawnFails, Boot, ToolEnds, CheckStored, Exit,
      Ask, Get,
    Probe, Signal, UpdateRead, StorageFault, Die
<1> QED BY <1>1, <1>2, <1>3, <1>4, <1>5

----------------------------------------------------------------------------
(* The abstract record                                                     *)

\* A row is missing, gone or the row of a task, whole; a copy of it comes after it.
TaskStatuses == {"working", "completed", "failed", "cancelled"}
RowsReal ==
  /\ row \in {NoRow, Gone} \/ row.status \in TaskStatuses
  /\ \A p \in Procs : snap[p] = NoRow \/ (snap[p].status \in TaskStatuses /\ row # NoRow)

LEMMA RowsRealStep ==
  ASSUME Inv, RowsReal, [Next]_vars
  PROVE  RowsReal'
<1> USE RowKinds DEF RowsReal
<1>0. /\ RowTypes /\ ControlTypes /\ SnapLabels /\ FinalFits
  BY DEF Inv, TypeOK, RowTypes, ControlTypes
<1>1. CASE Create
  <2>1. row' = Created /\ UNCHANGED snap
    BY <1>1 DEF Create
  <2> QED BY <2>1 DEF TaskStatuses
<1>2. ASSUME NEW p \in Procs, UpdateRead(p) PROVE RowsReal'
  <2>1. /\ UNCHANGED row /\ snap \in [Procs -> Rows]
        /\ UNCHANGED snap \/ (row # Gone /\ snap' = [snap EXCEPT ![p] = row])
    BY <1>0, <1>2 DEF UpdateRead, RowTypes
  <2> QED BY <2>1
<1>3. ASSUME NEW p \in Procs, UpdateWrite(p) PROVE RowsReal'
  <2>1. /\ pc[p] \in UpdateLabels /\ snap[p] # NoRow /\ row' \in {Gone, Merged(p)}
        /\ snap \in [Procs -> Rows] /\ snap' = [snap EXCEPT ![p] = NoRow]
    BY <1>0, <1>3 DEF UpdateWrite, SnapLabels, RowTypes
  <2>2. Merged(p).status \in TaskStatuses
    <3>1. CASE pc[p] = "finishing"
      <4>1. p = Worker
        BY <1>0, <3>1, Processes DEF ControlTypes, ParentLabels, ReaderLabels
      <4> QED BY <1>0, <2>1, <3>1, <4>1, MergedIs DEF FinalFits, TaskStatuses
    <3>2. CASE pc[p] # "finishing"
      BY <1>0, <2>1, <3>2, MergedIs DEF UpdateLabels, TaskStatuses
    <3> QED BY <3>1, <3>2
  <2>3. row' # NoRow
    BY <2>1, <2>2 DEF TaskStatuses
  <2> QED BY <2>1, <2>2, <2>3
<1>4. CASE Expire
  BY <1>4 DEF Expire
<1>5. ASSUME UNCHANGED row, \A p \in Procs : snap'[p] \in {snap[p], NoRow} PROVE RowsReal'
  BY <1>5
<1>6. ASSUME Next, ~Create, \A p \in Procs : ~UpdateRead(p) /\ ~UpdateWrite(p), ~Expire
      PROVE  UNCHANGED row /\ \A p \in Procs : snap'[p] \in {snap[p], NoRow}
  <2>1. snap \in [Procs -> Rows]
    BY <1>0 DEF RowTypes
  <2> QED BY <1>6, <2>1, Processes DEF Next, Request, Spawn, SpawnFails, Boot, ToolEnds,
        CheckStored, Exit, Ask, Get, Probe, Signal, StorageFault, Die
<1>7. CASE UNCHANGED vars
  BY <1>7 DEF vars
<1> QED BY <1>1, <1>2, <1>3, <1>4, <1>5, <1>6, <1>7

\* Where a process stands towards the abstract record.
Holds(k) == pc[k] = "registering" /\ snap[k] # NoRow
Early(k) ==
  \/ pc[k] \in {"creating", "spawning", "absent", "booting"}
  \/ pc[k] = "registering" /\ snap[k] = NoRow
Keepers == {Parent, Worker}
LEMMA KeptIs ==
  ASSUME NEW k \in Keepers
  PROVE  /\ Holds(k) => Kept[k] = Content(snap[k])
         /\ Early(k) => Kept[k] = Entry("not yet")
         /\ ~Holds(k) /\ ~Early(k) => Kept[k] = Entry("over")
         /\ Holds(k)' => Kept'[k] = Content(snap[k])'
         /\ Early(k)' => Kept'[k] = Entry("not yet")
         /\ ~Holds(k)' /\ ~Early(k)' => Kept'[k] = Entry("over")
BY DEF Kept, Keepers, Holds, Early, Entry

\* A step of one process leaves where the others stand.
Alone(p) == \A q \in Procs \ {p} : pc'[q] = pc[q] /\ snap'[q] = snap[q]
LEMMA OthersStand ==
  ASSUME NEW p \in Procs, Alone(p)
  PROVE  /\ Deciding' \ {p} = Deciding \ {p}
         /\ \A k \in Keepers \ {p} : Kept'[k] = Kept[k]
BY Processes DEF Alone, Deciding, GivesUp, Kept, Keepers

LEMMA AbstractWithdraw ==
  ASSUME Content(row)' = Content(row), faults' = faults, Deciding' \subseteq Deciding,
         \A k \in Keepers : Kept'[k] \in {Kept[k], Entry("over")}
  PROVE  Lifecycle!Next
<1>1. Kept' = Lifecycle!GivenUp({k \in Keepers : Kept'[k] # Kept[k]})
  BY DEF Kept, Keepers, Lifecycle!GivenUp, Lifecycle!Over, Entry
<1>2. Lifecycle!Withdraw
  BY <1>1 DEF Lifecycle!Withdraw, Keepers
<1> QED BY <1>2 DEF Lifecycle!Next

LEMMA AbstractTrouble ==
  ASSUME NEW p \in Procs, Alone(p), UNCHANGED row, faults' = faults + 1,
         p \in Keepers => Kept'[p] \in {Kept[p], Entry("over")}
  PROVE  Lifecycle!Next
<1>1. Kept' = Lifecycle!GivenUp({k \in Keepers : Kept'[k] # Kept[k]})
  <2>1. \A k \in Keepers : Kept'[k] \in {Kept[k], Entry("over")}
    BY OthersStand
  <2> QED BY <2>1 DEF Kept, Keepers, Lifecycle!GivenUp, Lifecycle!Over, Entry
<1>2. Deciding' \in SUBSET (Deciding \cup {p})
  BY OthersStand
<1>3. Lifecycle!Trouble(p)
  BY <1>1, <1>2 DEF Lifecycle!Trouble, Keepers, Content
<1> QED BY <1>3 DEF Lifecycle!Next

\* A process that withdraws, or whose step the record does not show.
LEMMA AbstractStutter ==
  ASSUME NEW p \in Procs, Alone(p), UNCHANGED <<row, faults>>,
         p \in Deciding' => p \in Deciding,
         p \in Keepers => Kept'[p] \in {Kept[p], Entry("over")}
  PROVE  Lifecycle!Next
<1>1. Deciding' \subseteq Deciding
  BY OthersStand
<1>2. \A k \in Keepers : Kept'[k] \in {Kept[k], Entry("over")}
  BY OthersStand
<1> QED BY <1>1, <1>2, AbstractWithdraw DEF Content

\* A process that has seen the task at work may decide.
LEMMA AbstractEntitle ==
  ASSUME NEW p \in Procs, Alone(p), UNCHANGED <<row, faults>>, row.status = "working",
         p \in Deciding', p \in Keepers => Kept'[p] = Kept[p]
  PROVE  Lifecycle!Next
<1>1. Deciding' = Deciding \cup {p}
  BY OthersStand
<1>2. Kept' = Kept
  <2>1. \A k \in Keepers : Kept'[k] = Kept[k]
    BY OthersStand
  <2> QED BY <2>1 DEF Kept, Keepers
<1>3. Lifecycle!Entitle(p)
  BY <1>1, <1>2 DEF Lifecycle!Entitle, Content
<1> QED BY <1>3 DEF Lifecycle!Next

LEMMA StoredRow ==
  ASSUME RowsReal, row \notin {NoRow, Gone}
  PROVE  Lifecycle!Stored
BY DEF RowsReal, Lifecycle!Stored, Lifecycle!None, Lifecycle!Gone, Content, TaskStatuses

\* The two steps of an update.
LEMMA UpdateReadImplements ==
  ASSUME Inv, RowsReal, NEW p \in Procs, UpdateRead(p)
  PROVE  Lifecycle!Next
<1> USE RowKinds DEF Keepers
<1>0. ControlTypes /\ DOMAIN pc = Procs /\ snap \in [Procs -> Rows]
  BY DEF Inv, TypeOK, ControlTypes
<1>1. Alone(p) /\ UNCHANGED <<row, faults>> /\ pc[p] \in UpdateLabels /\ snap[p] = NoRow
  BY <1>0 DEF UpdateRead, Goto, Alone
<1>2. CASE row = Gone
  <2>1. pc'[p] = AfterNull(p)
    BY <1>0, <1>1, <1>2 DEF UpdateRead, Goto
  <2>2. AfterNull(p) \in Ended \cup {"running", "erred", "exiting", "cancelling", "getting"}
    BY <1>1 DEF AfterNull, AfterUpdate, UpdateLabels, Ended, NoRow
  <2>3. p \in Deciding' => p \in Deciding
    BY <1>1, <2>1 DEF Deciding, GivesUp, AfterNull, AfterUpdate, UpdateLabels, NoRow
  <2>4. p \in Keepers => Kept'[p] = Entry("over")
    BY <2>1, <2>2, KeptIs DEF Holds, Early, Ended
  <2> QED BY <1>1, <2>3, <2>4, AbstractStutter
<1>3. CASE row # Gone
  <2>1. pc' = pc /\ snap' = [snap EXCEPT ![p] = row]
    BY <1>3 DEF UpdateRead
  <2>2. Deciding' = Deciding
    BY <2>1 DEF Deciding, GivesUp
  <2>3. CASE pc[p] = "registering" /\ row # NoRow
    <3>1. p \in Keepers
      BY <1>0, <2>3 DEF ControlTypes, ReaderLabels, Procs, Clients
    <3>2. Early(p) /\ Holds(p)' /\ snap'[p] = row
      BY <1>0, <1>1, <2>1, <2>3 DEF Early, Holds
    <3>3. Kept[p] = Lifecycle!NotYet /\ Kept'[p] = Content(row)
      BY <3>1, <3>2, KeptIs DEF Entry, Lifecycle!NotYet, Content
    <3>4. Kept' = [Kept EXCEPT ![p] = Content(row)]
      <4>1. \A k \in Keepers \ {p} : Kept'[k] = Kept[k]
        BY <1>1, OthersStand
      <4> QED BY <3>1, <3>3, <4>1 DEF Kept
    <3>5. Lifecycle!Copy(p)
      BY <1>1, <1>3, <2>2, <2>3, <3>3, <3>4, StoredRow DEF Lifecycle!Copy, Content
    <3> QED BY <3>1, <3>5 DEF Lifecycle!Next
  <2>4. CASE ~(pc[p] = "registering" /\ row # NoRow)
    <3>1. p \in Keepers => Kept'[p] = Kept[p]
      BY <1>0, <1>1, <2>1, <2>4, KeptIs DEF Holds, Early, UpdateLabels
    <3> QED BY <1>1, <2>2, <3>1, AbstractStutter
  <2> QED BY <2>3, <2>4
<1> QED BY <1>2, <1>3

LEMMA UpdateWriteImplements ==
  ASSUME Inv, RowsReal, NEW p \in Procs, UpdateWrite(p)
  PROVE  Lifecycle!Next
<1> USE RowKinds DEF Keepers
<1>0. /\ RowTypes /\ ControlTypes /\ SnapLabels /\ FinalFits
      /\ DOMAIN pc = Procs /\ snap \in [Procs -> Rows]
  BY DEF Inv, TypeOK, RowTypes, ControlTypes
<1>1. /\ Alone(p) /\ UNCHANGED faults /\ pc[p] \in UpdateLabels /\ snap[p] # NoRow
      /\ pc'[p] = AfterUpdate(p) /\ row # NoRow
  BY <1>0 DEF UpdateWrite, Goto, Alone, SnapLabels, RowsReal
<1>2. pc'[p] \in Ended \cup {"running", "erred", "exiting", "signalling"}
  BY <1>1 DEF AfterUpdate, UpdateLabels, Ended
<1>3. p \in Keepers => Kept'[p] = Entry("over")
  BY <1>2, KeptIs DEF Holds, Early, Ended
<1>4. p \in Deciding' => p \in Deciding
  BY <1>1 DEF Deciding, GivesUp, AfterUpdate, UpdateLabels
<1>5. CASE row = Gone
  <2>1. UNCHANGED row
    BY <1>5 DEF UpdateWrite
  <2> QED BY <1>1, <1>3, <1>4, <2>1, AbstractStutter
<1>6. CASE row # Gone /\ pc[p] = "registering"
  <2>1. p \in Keepers
    BY <1>0, <1>6 DEF ControlTypes, ReaderLabels, Procs, Clients
  <2>2. Content(row)' = Content(snap[p])
    BY <1>0, <1>1, <1>6, MergedIs DEF UpdateWrite, Content
  <2>3. Kept[p] = Content(snap[p])
    BY <1>1, <1>6, <2>1, KeptIs DEF Holds
  <2>4. Kept[p] \notin {Lifecycle!NotYet, Lifecycle!Over}
    <3>1. Kept[p].status \in TaskStatuses
      BY <1>1, <2>3 DEF RowsReal, Content
    <3>2. Lifecycle!NotYet.status \notin TaskStatuses /\ Lifecycle!Over.status \notin TaskStatuses
      BY DEF TaskStatuses, Lifecycle!NotYet, Lifecycle!Over
    <3> QED BY <3>1, <3>2
  <2>5. Kept' = [Kept EXCEPT ![p] = Lifecycle!Over]
    <3>1. \A k \in Keepers \ {p} : Kept'[k] = Kept[k]
      BY <1>1, OthersStand
    <3> QED BY <1>3, <2>1, <3>1 DEF Kept, Entry, Lifecycle!Over
  <2>6. Deciding' = Deciding
    <3>1. p \notin Deciding
      BY <1>6 DEF Deciding, GivesUp
    <3> QED BY <1>1, <1>4, <3>1, OthersStand
  <2>7. Lifecycle!PutBack(p)
    BY <1>1, <1>6, <2>2, <2>3, <2>4, <2>5, <2>6, StoredRow DEF Lifecycle!PutBack
  <2> QED BY <2>1, <2>7 DEF Lifecycle!Next
<1>7. CASE row # Gone /\ pc[p] # "registering"
  <2>1. p \in Deciding
    BY <1>1, <1>7 DEF Deciding, GivesUp, UpdateLabels
  <2>2. Deciding' \in {Deciding, Deciding \ {p}}
    BY <1>1, <2>1, OthersStand
  <2>3. Kept' = Kept
    <3>1. p \in Keepers => Kept[p] = Entry("over")
      BY <1>1, <1>7, KeptIs DEF Holds, Early, UpdateLabels
    <3>2. \A k \in Keepers : Kept'[k] = Kept[k]
      BY <1>1, <1>3, <3>1, OthersStand
    <3> QED BY <3>2 DEF Kept
  <2>4. Content(row)' \in Lifecycle!Decisions
    <3>1. row' = Merged(p) /\ Merged(p) \in Rows
      BY <1>0, <1>1, <1>7, MergedIs DEF UpdateWrite
    <3>2. Merged(p).status \in {"completed", "failed", "cancelled"}
      <4>1. CASE pc[p] = "finishing"
        <5>1. p = Worker
          BY <1>0, <4>1, Processes DEF ControlTypes, ParentLabels, ReaderLabels
        <5> QED BY <1>0, <1>1, <4>1, <5>1, MergedIs DEF FinalFits
      <4>2. CASE pc[p] # "finishing"
        BY <1>0, <1>1, <1>7, <4>2, MergedIs DEF UpdateLabels
      <4> QED BY <4>1, <4>2
    <3> QED BY <3>1, <3>2 DEF Lifecycle!Decisions, Content, Rows
  <2>5. Lifecycle!Decide(p)
    BY <1>1, <1>7, <2>1, <2>2, <2>3, <2>4, StoredRow DEF Lifecycle!Decide
  <2> QED BY <2>5 DEF Lifecycle!Next
<1> QED BY <1>5, <1>6, <1>7

\* The requests: only a get that finds the task working makes its process a party.
LEMMA RequestImplements ==
  ASSUME Inv, NEW c \in Clients, Ask(c) \/ Get(c) \/ Probe(c)
  PROVE  Lifecycle!Next
<1>0. DOMAIN pc = Procs /\ c \in Procs /\ c \notin Keepers
  BY Processes DEF Inv, TypeOK, Keepers
<1>1. Alone(c) /\ UNCHANGED <<row, faults>>
  BY <1>0 DEF Ask, Get, Probe, Goto, Alone
<1>2. CASE Ask(c) \/ (Get(c) /\ row.status # "working")
  <2>1. pc'[c] \in {"getting", "done"}
    BY <1>0, <1>2 DEF Ask, Get, Goto, Probes
  <2>2. c \notin Deciding'
    BY <2>1 DEF Deciding, GivesUp
  <2> QED BY <1>0, <1>1, <2>2, AbstractStutter
<1>3. CASE Get(c) /\ row.status = "working"
  <2>1. CASE c \in Deciding'
    BY <1>0, <1>1, <1>3, <2>1, AbstractEntitle
  <2>2. CASE c \notin Deciding'
    BY <1>0, <1>1, <2>2, AbstractStutter
  <2> QED BY <2>1, <2>2
<1>4. CASE Probe(c)
  <2>1. c \in Deciding
    BY <1>0, <1>4 DEF Probe, Deciding
  <2> QED BY <1>0, <1>1, <2>1, AbstractStutter
<1> QED BY <1>2, <1>3, <1>4

\* The worker: its last read decides whether it may decide.
LEMMA WorkerImplements ==
  ASSUME Inv, Boot \/ ToolEnds \/ CheckStored \/ Exit
  PROVE  Lifecycle!Next
<1> USE DEF Keepers
<1>0. /\ DOMAIN pc = Procs /\ Worker \in Procs
      /\ pc[Worker] \in {"booting", "running", "checking", "exiting"} => snap[Worker] = NoRow
  BY Processes DEF Inv, TypeOK, SnapLabels, UpdateLabels
<1>1. Alone(Worker) /\ UNCHANGED <<row, snap, faults>>
  BY <1>0 DEF Boot, ToolEnds, CheckStored, Exit, Goto, Alone
<1>2. CASE Boot
  <2>1. pc[Worker] = "booting" /\ pc'[Worker] \in {"registering", "exiting"}
    BY <1>0, <1>2 DEF Boot, Goto
  <2>2. Worker \notin Deciding' /\ Kept'[Worker] \in {Kept[Worker], Entry("over")}
    BY <1>0, <1>1, <2>1, KeptIs DEF Deciding, GivesUp, Holds, Early
  <2> QED BY <1>0, <1>1, <2>2, AbstractStutter
<1>3. CASE ToolEnds \/ Exit \/ (CheckStored /\ row.status # "working")
  <2>1. pc'[Worker] \in {"checking", "exiting", "dead"}
    BY <1>0, <1>3 DEF ToolEnds, Exit, CheckStored, Goto
  <2>2. Worker \notin Deciding' /\ Kept'[Worker] = Entry("over")
    BY <2>1, KeptIs DEF Deciding, GivesUp, Holds, Early
  <2> QED BY <1>0, <1>1, <2>2, AbstractStutter
<1>4. CASE CheckStored /\ row.status = "working"
  <2>1. pc[Worker] = "checking" /\ pc'[Worker] = "finishing"
    BY <1>0, <1>4 DEF CheckStored, Goto
  <2>2. Worker \in Deciding' /\ Kept'[Worker] = Kept[Worker]
    BY <1>0, <2>1, KeptIs DEF Deciding, Holds, Early
  <2> QED BY <1>0, <1>1, <1>4, <2>2, AbstractEntitle
<1> QED BY <1>2, <1>3, <1>4

\* The parent: the row is created once, before anyone else can know it.
LEMMA ParentImplements ==
  ASSUME Inv, Create \/ Spawn \/ SpawnFails
  PROVE  Lifecycle!Next
<1> USE DEF Keepers
<1>0. /\ DOMAIN pc = Procs /\ Parent \in Procs /\ Worker \in Procs /\ Parent # Worker
      /\ pc[Parent] = "spawning" => snap[Parent] = NoRow /\ pc[Worker] = "absent"
      /\ pc[Parent] = "creating" => row = NoRow
      /\ faults \in Nat
  BY Processes DEF Inv, TypeOK, SnapLabels, UpdateLabels, Spawned
<1>1. CASE Create
  <2>1. pc[Parent] = "creating" /\ pc'[Parent] = "spawning" /\ Alone(Parent)
        /\ UNCHANGED <<snap, faults>>
    BY <1>0, <1>1 DEF Create, Goto, Alone
  <2>2. Kept'[Parent] = Kept[Parent] /\ Parent \notin Deciding /\ Parent \notin Deciding'
    BY <2>1, KeptIs DEF Deciding, GivesUp, Early
  <2>3. Deciding' = Deciding /\ Kept' = Kept
    <3>1. \A k \in Keepers : Kept'[k] = Kept[k]
      BY <1>0, <2>1, <2>2, OthersStand
    <3>2. Deciding' = Deciding
      BY <1>0, <2>1, <2>2, OthersStand
    <3> QED BY <3>1, <3>2 DEF Kept
  <2>4. Content(row) = Lifecycle!None /\ Content(row)' = Lifecycle!Working
    BY <1>0, <1>1, <2>1, RowKinds DEF Create, Content, Lifecycle!None, Lifecycle!Working
  <2>5. Lifecycle!Create
    BY <2>1, <2>3, <2>4 DEF Lifecycle!Create
  <2> QED BY <2>5 DEF Lifecycle!Next
<1>2. CASE Spawn
  <2>1. /\ pc[Parent] = "spawning" /\ UNCHANGED <<row, snap, faults>>
        /\ pc' = [pc EXCEPT ![Parent] = "registering", ![Worker] = "booting"]
    BY <1>2 DEF Spawn
  <2>2. \A k \in Keepers : Early(k) /\ Early(k)'
    BY <1>0, <2>1 DEF Early
  <2>3. \A k \in Keepers : Kept'[k] = Kept[k]
    BY <2>2, KeptIs
  <2>4. Deciding' \subseteq Deciding
    BY <1>0, <2>1 DEF Deciding, GivesUp
  <2> QED BY <2>1, <2>3, <2>4, AbstractWithdraw DEF Content
<1>3. CASE SpawnFails
  <2>1. /\ Alone(Parent) /\ UNCHANGED row /\ faults' = faults + 1
        /\ pc'[Parent] \in {"bootstrap", "unscheduled"}
    BY <1>0, <1>3 DEF SpawnFails, Goto, Fault, Alone
  <2>2. Kept'[Parent] = Entry("over")
    BY <2>1, KeptIs DEF Holds, Early
  <2> QED BY <1>0, <2>1, <2>2, AbstractTrouble
<1> QED BY <1>1, <1>2, <1>3

\* Signals, faults and the passing of time decide nothing.
LEMMA OthersImplement ==
  ASSUME Inv, RowsReal,
         \/ \E c \in Cancellers : Signal(c)
         \/ \E p \in Procs : StorageFault(p) \/ Die(p)
         \/ Expire
  PROVE  Lifecycle!Next
<1> USE DEF Keepers
<1>0. DOMAIN pc = Procs /\ snap \in [Procs -> Rows] /\ faults \in Nat
  BY DEF Inv, TypeOK
<1>1. ASSUME NEW c \in Cancellers, Signal(c) PROVE Lifecycle!Next
  <2>1. c \in Procs /\ c \notin Keepers /\ Worker \in Procs /\ Parent \in Procs
    BY Processes
  <2>2. /\ UNCHANGED <<row, faults>>
        /\ \A q \in Procs \ {c, Worker} : pc'[q] = pc[q] /\ snap'[q] = snap[q]
        /\ pc'[c] = "done"
        /\ \/ pc'[Worker] = pc[Worker] /\ snap'[Worker] = snap[Worker]
           \/ pc'[Worker] = "dead"
    BY <1>0, <1>1, <2>1 DEF Signal
  <2>3. Deciding' \subseteq Deciding
    BY <2>1, <2>2 DEF Deciding, GivesUp
  <2>4. \A k \in Keepers : Kept'[k] \in {Kept[k], Entry("over")}
    BY <2>1, <2>2, KeptIs DEF Holds, Early
  <2> QED BY <2>2, <2>3, <2>4, AbstractWithdraw DEF Content
<1>2. ASSUME NEW p \in Procs, StorageFault(p) \/ Die(p) PROVE Lifecycle!Next
  <2>1. Alone(p) /\ UNCHANGED row /\ faults' = faults + 1
    BY <1>0, <1>2 DEF StorageFault, Die, Fault, Goto, Alone
  <2>2. pc'[p] \in Ended \cup {"erred", "unscheduled", "failing", "exiting"}
    BY <1>0, <1>2 DEF StorageFault, Die, Goto, AfterFault, AfterUpdate, Ended
  <2>3. p \in Keepers => Kept'[p] = Entry("over")
    BY <2>2, KeptIs DEF Holds, Early, Ended
  <2> QED BY <2>1, <2>3, AbstractTrouble
<1>3. CASE Expire
  <2>1. row' = Gone /\ row \notin {NoRow, Gone} /\ UNCHANGED <<pc, snap, faults>>
    BY <1>3 DEF Expire
  <2>2. Deciding' = Deciding /\ Kept' = Kept
    BY <2>1 DEF Deciding, GivesUp, Kept, Content
  <2>3. Lifecycle!Expire
    BY <2>1, <2>2, RowKinds, StoredRow DEF Lifecycle!Expire, Lifecycle!Gone, Content
  <2> QED BY <2>3 DEF Lifecycle!Next
<1> QED BY <1>1, <1>2, <1>3

LEMMA StepImplements ==
  ASSUME Inv, RowsReal, [Next]_vars
  PROVE  [Lifecycle!Next]_(Lifecycle!vars)
<1>1. CASE UNCHANGED vars
  BY <1>1 DEF vars, Lifecycle!vars, Content, Deciding, GivesUp, Kept
<1>2. ASSUME NEW p \in Procs, UpdateRead(p) \/ UpdateWrite(p) PROVE Lifecycle!Next
  BY <1>2, UpdateReadImplements, UpdateWriteImplements
<1>3. ASSUME NEW c \in Clients, Ask(c) \/ Get(c) \/ Probe(c) PROVE Lifecycle!Next
  BY <1>3, RequestImplements
<1>4. CASE Boot \/ ToolEnds \/ CheckStored \/ Exit
  BY <1>4, WorkerImplements
<1>5. CASE Create \/ Spawn \/ SpawnFails
  BY <1>5, ParentImplements
<1>6. CASE \/ \E c \in Cancellers : Signal(c)
           \/ \E p \in Procs : StorageFault(p) \/ Die(p)
           \/ Expire
  BY <1>6, OthersImplement
<1> QED BY <1>1, <1>2, <1>3, <1>4, <1>5, <1>6, Processes DEF Next, Request

----------------------------------------------------------------------------
(* Theorems                                                                *)

THEOREM InvHolds == Spec => []Inv
<1>1. Init => Inv
  <2> SUFFICES ASSUME Init PROVE Inv
    OBVIOUS
  <2>1. /\ row = NoRow /\ aborted = FALSE /\ faults = 0
        /\ pc = [p \in Procs |-> IF p = Parent THEN "creating"
                                 ELSE IF p = Worker THEN "absent" ELSE "idle"]
        /\ seen = [p \in Procs |-> NoRow] /\ snap = [p \in Procs |-> NoRow]
        /\ final = [status |-> "none", outcome |-> "none"]
    BY DEF Init
  <2>2. RowTypes
    BY <2>1, RowKinds DEF RowTypes
  <2>3. ControlTypes
    BY <2>1, Processes DEF ControlTypes, ParentLabels, WorkerLabels, ReaderLabels
  <2>4. FinalTypes /\ FlagTypes /\ FaultTypes
    <3>1. FinalTypes /\ FlagTypes
      BY <2>1 DEF FinalTypes, FlagTypes
    <3>2. FaultTypes
      BY <2>1, CliTasksAssumption DEF FaultTypes
    <3> QED BY <3>1, <3>2
  <2>5. TypeOK
    BY <2>2, <2>3, <2>4 DEF TypeOK, RowTypes, ControlTypes, FinalTypes, FlagTypes, FaultTypes
  <2>6. SnapLabels /\ Spawned /\ SeenAtWork /\ FoundDead /\ FinalFits
    BY <2>1, Processes DEF SnapLabels, Spawned, SeenAtWork, FoundDead, FinalFits
  <2>7. RowsFit /\ OrphansFit
    BY <2>1, RowKinds DEF RowsFit, OrphansFit, Consistent, OrphanFits
  <2> QED BY <2>5, <2>6, <2>7 DEF Inv
<1>2. Inv /\ [Next]_vars => Inv'
  <2> SUFFICES ASSUME Inv, [Next]_vars PROVE Inv'
    OBVIOUS
  <2>1. /\ TypeOK /\ SnapLabels /\ Spawned /\ SeenAtWork /\ FoundDead /\ FinalFits
        /\ RowsFit /\ OrphansFit
    BY DEF Inv
  <2>2. RowTypes /\ ControlTypes /\ FinalTypes /\ FlagTypes /\ FaultTypes
    BY <2>1 DEF TypeOK, RowTypes, ControlTypes, FinalTypes, FlagTypes, FaultTypes
  <2>3. RowTypes' /\ ControlTypes' /\ FinalTypes' /\ FinalFits' /\ FlagTypes' /\ FaultTypes'
    BY <2>1, <2>2, RowTypesStep, ControlStep, FinalStep, FlagStep
  <2>4. TypeOK'
    BY <2>3 DEF TypeOK, RowTypes, ControlTypes, FinalTypes, FlagTypes, FaultTypes
  <2>5. SnapLabels' /\ Spawned' /\ SeenAtWork' /\ FoundDead'
    BY <2>1, <2>2, SnapStep, SpawnedStep, SeenStep, DeadStep
  <2>6. RowsFit' /\ OrphansFit'
    BY <2>1, <2>2, RowsFitStep, OrphansFitStep
  <2> QED BY <2>3, <2>4, <2>5, <2>6 DEF Inv
<1> QED BY <1>1, <1>2, PTL DEF Spec

\* Type correctness: every process keeps to its own steps.
THEOREM TypeCorrect == Spec => []TypeOK
BY InvHolds, PTL DEF Inv

\* No interleaving of the updates leaves a status with another's outcome.
THEOREM OutcomeFitsHolds == Spec => []OutcomeFits
<1>1. Inv => OutcomeFits
  BY DEF Inv, RowsFit, OutcomeFits
<1> QED BY <1>1, InvHolds, PTL

\* An orphan is reported only of a worker that is dead: the probe needs a pid that was
\* recorded, and a worker that died does not come back.
THEOREM OrphansAreDeadHolds == Spec => []OrphansAreDead
<1>1. Inv => OrphansAreDead
  BY DEF Inv, OrphansFit, OrphanFits, OrphansAreDead
<1> QED BY <1>1, InvHolds, PTL

\* A task that has ended is rewritten only by a process that saw it at work, holds an
\* older row or gave up on it.
THEOREM SettledStaysHolds == Spec => SettledStays
<1>1. Inv /\ [Next]_vars =>
        [(IsTerminal(row.status) /\ \A p \in Procs : ~MayOverwrite(p)) =>
           row' = Gone \/ (row'.status = row.status /\ row'.outcome = row.outcome)]_vars
  BY SettledStep
<1> QED BY <1>1, InvHolds, PTL DEF Spec, SettledStays

\* The command line's tasks implement the abstract record: whatever the processes
\* overwrite, only who saw the task at work, or gave up on it, decides what became of it.
THEOREM RecordImplemented == Spec => ImplementsRecord
<1>1. Init => Lifecycle!Init /\ RowsReal
  <2> SUFFICES ASSUME Init PROVE Lifecycle!Init /\ RowsReal
    OBVIOUS
  <2>1. /\ row = NoRow /\ faults = 0
        /\ pc = [p \in Procs |-> IF p = Parent THEN "creating"
                                 ELSE IF p = Worker THEN "absent" ELSE "idle"]
        /\ snap = [p \in Procs |-> NoRow]
    BY DEF Init
  <2>2. Deciding = {}
    BY <2>1 DEF Deciding, GivesUp
  <2>3. \A k \in Keepers : Kept[k] = Lifecycle!NotYet
    BY <2>1, Processes, KeptIs DEF Keepers, Early, Entry, Lifecycle!NotYet
  <2>4. Kept = [k \in Keepers |-> Lifecycle!NotYet]
    BY <2>3 DEF Kept, Keepers
  <2> QED BY <2>1, <2>2, <2>4, RowKinds
      DEF Lifecycle!Init, Lifecycle!None, Content, Keepers, RowsReal
<1>2. Inv /\ RowsReal /\ [Next]_vars => RowsReal'
  BY RowsRealStep
<1>3. Inv /\ RowsReal /\ [Next]_vars => [Lifecycle!Next]_(Lifecycle!vars)
  BY StepImplements
<1> QED BY <1>1, <1>2, <1>3, InvHolds, PTL DEF Spec, ImplementsRecord, Lifecycle!Spec
=============================================================================
