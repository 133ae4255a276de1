------------------------------- MODULE CliTasks -------------------------------
(***************************************************************************)
(* One background task of the command line: the process that creates it    *)
(* and spawns its worker (CliTaskRunner), the detached worker              *)
(* (executeTaskWorker), and requests from other processes, tasks/cancel    *)
(* and tasks/result, which share nothing but the row of SqliteTaskStore.   *)
(*                                                                         *)
(* A statement of the database is atomic; store.update is a SELECT and an  *)
(* UPDATE of the whole row without a transaction, and a get that meets a   *)
(* row whose worker is dead goes on to such an update.  The events of the  *)
(* store do not leave their process, so they reach nobody here.            *)
(***************************************************************************)
EXTENDS Naturals

CONSTANTS
  Parent, Worker,
  Cancellers, Readers, \* tasks/cancel and tasks/result, each in its process
  MaxFaults            \* bound: rejected statements, failed spawns, exits

Clients == Cancellers \cup Readers
Procs == {Parent, Worker} \cup Clients

ASSUME CliTasksAssumption ==
  /\ Parent # Worker /\ Clients \cap {Parent, Worker} = {}
  /\ Cancellers \cap Readers = {} /\ MaxFaults \in Nat

VARIABLES
  row,     \* the row of the task
  pc,      \* control of every process
  seen,    \* the row its last get returned
  snap,    \* the row the SELECT of its update returned, NoRow before and after
  final,   \* the worker's terminal patch
  aborted, \* the worker's AbortController
  faults

vars == <<row, pc, seen, snap, final, aborted, faults>>

\* pid: whether executor.pid, which is always the worker's, has been recorded.
NoRow == [status |-> "none", outcome |-> "none", pid |-> FALSE]
Created == [NoRow EXCEPT !.status = "working"]
Gone == [NoRow EXCEPT !.status = "gone"]
IsTerminal(s) == s \in {"completed", "failed", "cancelled"}

Init ==
  /\ row = NoRow
  /\ pc = [p \in Procs |-> IF p = Parent THEN "creating"
                           ELSE IF p = Worker THEN "absent" ELSE "idle"]
  /\ seen = [p \in Procs |-> NoRow] /\ snap = [p \in Procs |-> NoRow]
  /\ final = [status |-> "none", outcome |-> "none"]
  /\ aborted = FALSE /\ faults = 0

Goto(p, l) == pc' = [pc EXCEPT ![p] = l]
Fault == faults < MaxFaults /\ faults' = faults + 1

----------------------------------------------------------------------------
(* SqliteTaskStore.update                                                  *)

UpdateLabels == {"registering", "bootstrap", "erred", "unscheduled", "reporting",
                 "cancelling", "finishing", "failing"}

AsWorking(r) == [r EXCEPT !.pid = TRUE, !.status = "working"]
Registered(r) == [r EXCEPT !.pid = TRUE]

Merged(p) ==
  CASE pc[p] = "registering" -> Registered(snap[p])
    [] pc[p] \in {"bootstrap", "erred", "failing"} ->
         [snap[p] EXCEPT !.status = "failed", !.outcome = "error"]
    [] pc[p] \in {"unscheduled", "reporting"} -> [snap[p] EXCEPT !.status = "failed"]
    [] pc[p] = "cancelling" -> [snap[p] EXCEPT !.status = "cancelled"]
    [] pc[p] = "finishing" ->
         [snap[p] EXCEPT !.status = final.status, !.outcome = final.outcome]

\* Where the caller goes on; the worker runs the tool whatever came of its update.
AfterUpdate(p) ==
  CASE pc[p] = "registering" -> IF p = Worker THEN "running" ELSE "done"
    [] pc[p] = "bootstrap" -> "erred"
    [] pc[p] = "unscheduled" -> "gaveup"
    [] pc[p] \in {"finishing", "failing"} -> "exiting"
    [] pc[p] = "cancelling" /\ snap[p].pid -> "signalling"
    [] OTHER -> "done"

\* Without a row to update, a get that meant to report the orphan returns what it
\* had read.
AfterNull(p) ==
  IF pc[p] # "reporting" THEN AfterUpdate(p)
  ELSE IF p \in Cancellers THEN "cancelling" ELSE "getting"

UpdateRead(p) ==
  /\ pc[p] \in UpdateLabels /\ snap[p] = NoRow
  /\ \/ row # Gone /\ snap' = [snap EXCEPT ![p] = row] /\ UNCHANGED pc
     \/ row = Gone /\ Goto(p, AfterNull(p)) /\ UNCHANGED snap
  /\ UNCHANGED <<row, seen, final, aborted, faults>>

\* The UPDATE of a row that is gone changes nothing.
UpdateWrite(p) ==
  /\ snap[p] # NoRow
  /\ row' = IF row = Gone THEN Gone ELSE Merged(p)
  /\ snap' = [snap EXCEPT ![p] = NoRow]
  /\ Goto(p, AfterUpdate(p))
  /\ UNCHANGED <<seen, final, aborted, faults>>

----------------------------------------------------------------------------
(* createTaskIfRequested and CliTaskRunner.run                             *)

Create ==
  /\ pc[Parent] = "creating"
  /\ row' = Created
  /\ Goto(Parent, "spawning")
  /\ UNCHANGED <<seen, snap, final, aborted, faults>>

Spawn ==
  /\ pc[Parent] = "spawning"
  /\ pc' = [pc EXCEPT ![Parent] = "registering", ![Worker] = "booting"]
  /\ UNCHANGED <<row, seen, snap, final, aborted, faults>>

\* A child without a pid is reported twice, by run() and by the error event of the
\* child; a command that cannot be resolved makes run() throw.
SpawnFails ==
  /\ pc[Parent] = "spawning" /\ Fault
  /\ Goto(Parent, "bootstrap") \/ Goto(Parent, "unscheduled")
  /\ UNCHANGED <<row, seen, snap, final, aborted>>

----------------------------------------------------------------------------
(* executeTaskWorker                                                       *)

\* SIGTERM ends the worker as long as its handler is not installed.
Unhandled == {"booting", "registering", "exiting"}
Handled == {"running", "checking", "finishing", "failing"}

Boot ==
  /\ pc[Worker] = "booting"
  /\ seen' = [seen EXCEPT ![Worker] = row]
  /\ Goto(Worker, IF row.status = "working" THEN "registering" ELSE "exiting")
  /\ UNCHANGED <<row, snap, final, aborted, faults>>

ToolEnds ==
  /\ pc[Worker] = "running"
  /\ Goto(Worker, "checking")
  /\ UNCHANGED <<row, seen, snap, final, aborted, faults>>

Patch(s, o) == [status |-> s, outcome |-> o]
PatchesWithUnset ==
  {Patch("completed", "ok"), Patch("failed", "undefined"), Patch("failed", "error"),
   Patch("cancelled", "ok")}
FinalPatches ==
  IF aborted THEN {Patch("cancelled", "ok"), Patch("cancelled", "error")}
  ELSE {Patch("completed", "ok"), Patch("failed", "ok"), Patch("failed", "error")}

\* The runner's read that protects a terminal record.
CheckStored ==
  /\ pc[Worker] = "checking"
  /\ seen' = [seen EXCEPT ![Worker] = row]
  /\ \/ /\ row.status = "working"
        /\ final' \in FinalPatches
        /\ Goto(Worker, "finishing")
     \/ /\ row.status # "working"
        /\ Goto(Worker, "exiting")
        /\ UNCHANGED final
  /\ UNCHANGED <<row, snap, aborted, faults>>

Exit ==
  /\ pc[Worker] = "exiting"
  /\ Goto(Worker, "dead")
  /\ UNCHANGED <<row, seen, snap, final, aborted, faults>>

----------------------------------------------------------------------------
(* SqliteTaskStore.get in tasks/cancel and tasks/result                    *)

Ask(c) ==
  /\ pc[c] = "idle" /\ row # NoRow
  /\ Goto(c, "getting")
  /\ UNCHANGED <<row, seen, snap, final, aborted, faults>>

\* A cancellation goes on to its update, a waiter polls again.
GoesOn(c) == IF c \in Cancellers THEN "cancelling" ELSE "getting"

NeverProbes(r) == FALSE
ProbesUnowned(r) == r.status = "working"
ProbesTerminal(r) == r.pid
Probes(r) == r.status = "working" /\ r.pid

Get(c) ==
  /\ pc[c] = "getting"
  /\ seen' = [seen EXCEPT ![c] = row]
  /\ Goto(c, IF Probes(row) THEN "probing"
             ELSE IF row.status = "working" THEN GoesOn(c) ELSE "done")
  /\ UNCHANGED <<row, snap, final, aborted, faults>>

\* A missing pid would be no process either.
LooksDead(r) == r.pid => pc[Worker] = "dead"
Probe(c) ==
  /\ pc[c] = "probing"
  /\ Goto(c, IF LooksDead(seen[c]) THEN "reporting" ELSE GoesOn(c))
  /\ UNCHANGED <<row, seen, snap, final, aborted, faults>>

\* CliTaskRunner.cancel.
Signal(c) ==
  /\ pc[c] = "signalling"
  /\ pc' = [pc EXCEPT ![c] = "done",
                      ![Worker] = IF @ \in Unhandled THEN "dead" ELSE @]
  /\ snap' = [snap EXCEPT ![Worker] = IF pc[Worker] \in Unhandled THEN NoRow ELSE @]
  /\ aborted' = (aborted \/ pc[Worker] \in Handled)
  /\ UNCHANGED <<row, seen, final, faults>>

----------------------------------------------------------------------------
(* Environment                                                             *)

\* The row's ttl; whoever reads an expired row deletes it.
Expire ==
  /\ row \notin {NoRow, Gone}
  /\ row' = Gone
  /\ UNCHANGED <<pc, seen, snap, final, aborted, faults>>

\* Where a rejected statement takes its process: bookkeeping swallows it, a worker
\* that cannot register exits, the others end their request with the error.
AfterFault(p) ==
  CASE pc[p] = "registering" -> IF p = Worker THEN "dead" ELSE "unscheduled"
    [] pc[p] \in {"bootstrap", "unscheduled"} -> AfterUpdate(p)
    [] pc[p] = "booting" -> "dead"
    [] pc[p] \in {"checking", "finishing"} -> "failing"
    [] pc[p] = "failing" -> "exiting"
    [] OTHER -> "done"

StorageFault(p) ==
  /\ pc[p] \in UpdateLabels \cup {"creating", "booting", "checking", "getting"}
  /\ Fault
  /\ Goto(p, AfterFault(p))
  /\ snap' = [snap EXCEPT ![p] = NoRow]
  /\ UNCHANGED <<row, seen, final, aborted>>

Ended == {"done", "gaveup", "died", "dead"}
Die(p) ==
  /\ pc[p] \notin Ended \cup {"idle", "absent"}
  /\ Fault
  /\ Goto(p, IF p = Worker THEN "dead" ELSE "died")
  /\ snap' = [snap EXCEPT ![p] = NoRow]
  /\ UNCHANGED <<row, seen, final, aborted>>

Request(c) == Get(c) \/ Probe(c) \/ UpdateRead(c) \/ UpdateWrite(c)

Next ==
  \/ Create \/ Spawn \/ SpawnFails
  \/ Boot \/ ToolEnds \/ CheckStored \/ Exit
  \/ \E c \in Clients : Ask(c) \/ Request(c)
  \/ \E c \in Cancellers : Signal(c)
  \/ \E p \in {Parent, Worker} : UpdateRead(p) \/ UpdateWrite(p)
  \/ \E p \in Procs : StorageFault(p) \/ Die(p)
  \/ Expire

Spec == Init /\ [][Next]_vars

\* A waiter polls on a timer that re-arms itself, and the statements of the
\* database end.  The parent, the worker and its tool owe nothing.
FairSpec == Spec /\ \A r \in Readers : WF_vars(Request(r))

----------------------------------------------------------------------------
(* Properties                                                              *)

Rows == [status : {"none", "working", "completed", "failed", "cancelled", "gone"},
         outcome : {"none", "ok", "error"}, pid : BOOLEAN]
WorkerLabels == {"absent", "dead"} \cup Unhandled \cup Handled
ParentLabels == {"creating", "spawning", "registering", "bootstrap", "erred",
                 "unscheduled", "gaveup", "done", "died"}
ReaderLabels == {"idle", "getting", "probing", "reporting", "done", "died"}

TypeOK ==
  /\ row \in Rows
  /\ pc[Parent] \in ParentLabels /\ pc[Worker] \in WorkerLabels
  /\ \A r \in Readers : pc[r] \in ReaderLabels
  /\ \A c \in Cancellers : pc[c] \in ReaderLabels \cup {"cancelling", "signalling"}
  /\ DOMAIN pc = Procs
  /\ seen \in [Procs -> Rows] /\ snap \in [Procs -> Rows]
  /\ final \in [status : {"none", "completed", "failed", "cancelled"},
                outcome : {"none", "ok", "error"}]
  /\ aborted \in BOOLEAN /\ faults \in 0 .. MaxFaults

\* Whatever the updates of the processes overwrite, the row never mixes what two of
\* them meant: only a completed, failed or cancelled task has an outcome, and one
\* that completed has its result.
Consistent(r) ==
  /\ r.status \in {"none", "working", "gone"} => r.outcome = "none"
  /\ r.status = "completed" => r.outcome = "ok"
OutcomeFits == Consistent(row)

\* A task is reported as orphaned only when its worker is gone: a row that is failed
\* without an outcome, with the parent not to blame, never belongs to a worker that
\* lives, starting up or registering its pid included.
OrphansAreDead ==
  (row.status = "failed" /\ row.outcome = "none") =>
     pc[Worker] = "dead" \/ pc[Parent] = "gaveup"

\* A terminal row is touched only by processes that saw it at work, that hold an
\* older row, or that a fault has made give up on the task: no get, however late and
\* however dead the worker, starts to overwrite a task that has ended.
SawItAtWork(p) ==
  pc[p] \in {"reporting", "cancelling", "finishing"} /\ seen[p].status = "working"
GivesUp(p) == pc[p] \in {"bootstrap", "erred", "unscheduled", "failing"}
Outdated(p) ==
  /\ pc[p] = "registering" /\ snap[p] # NoRow
  /\ snap[p].status # row.status \/ snap[p].outcome # row.outcome
MayOverwrite(p) == SawItAtWork(p) \/ GivesUp(p) \/ Outdated(p)
SettledStays ==
  [][(IsTerminal(row.status) /\ \A p \in Procs : ~MayOverwrite(p)) =>
        row' = Gone \/ (row'.status = row.status /\ row'.outcome = row.outcome)]_vars

\* Every step is one of the abstract record: a decision is made by a request or a worker
\* that saw the task at work, or by a process that a fault made give up on it; parent
\* and worker put the row back once, with the pid.
Entry(s) == [status |-> s, outcome |-> "none"]
Content(r) == [status |-> r.status, outcome |-> r.outcome]
Deciding == {p \in Procs :
  pc[p] \in {"probing", "reporting", "cancelling", "finishing"} \/ GivesUp(p)}
Kept == [k \in {Parent, Worker} |->
  CASE pc[k] = "registering" /\ snap[k] # NoRow -> Content(snap[k])
    [] pc[k] \in {"creating", "spawning", "absent", "booting"}
         \/ (pc[k] = "registering" /\ snap[k] = NoRow) -> Entry("not yet")
    [] OTHER -> Entry("over")]
Lifecycle == INSTANCE TaskRecord
  WITH Parties <- Procs, Keepers <- {Parent, Worker}, Outcomes <- {"none", "ok", "error"},
       record <- Content(row), entitled <- Deciding, copy <- Kept, troubles <- faults
ImplementsRecord == Lifecycle!Spec

\* A waiter is answered once the worker is dead and its pid was recorded, without
\* help from the worker, from events, or from the ttl.
Waits(r) == pc[r] \notin Ended \cup {"idle"}
OrphansReported ==
  \A r \in Readers :
    (Waits(r) /\ pc[Worker] = "dead" /\ row.pid) ~> ~Waits(r)

=============================================================================
