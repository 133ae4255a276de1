---------------------------- MODULE HaSessions ----------------------------
(***************************************************************************)
(* One MCP session of a distributed deployment: its record in the session  *)
(* store, its entry in the transport bus, the transports the nodes hold    *)
(* for it, the heartbeats, the orphan scanner of every node, and the       *)
(* requests that look the session up, take it over and recreate it.        *)
(*                                                                         *)
(* The stored record is abstracted to the node it names: its owner.  Store *)
(* writes nobody awaits are sent in order on the node's connection and     *)
(* reach the store later (pipe); the takeover script runs atomically in    *)
(* the store, on another connection.                                       *)
(***************************************************************************)
EXTENDS Naturals, Sequences, FiniteSets

CONSTANTS
  Nodes,      \* pods, by the machine id that survives a restart
  NoNode,
  Messages,   \* requests of the client, after the one that initializes
  Initialize, \* the initialize request
  Deletes,    \* DELETE requests
  MaxFaults   \* bound: crashes, heartbeats that fail to be renewed, rejected scans

Requests == Messages \cup {Initialize}

Nobody == "nobody"

ASSUME HaAssumption ==
  /\ NoNode \notin Nodes
  /\ Initialize \notin Messages
  /\ Nobody \notin Requests
  /\ MaxFaults \in Nat

VARIABLES
  up,       \* the node's process runs
  beat,     \* its heartbeat key exists
  owner,    \* session.nodeId of the stored record; NoNode when there is none
  bus,      \* the node the transport bus names
  local,    \* the node holds a transport of the session
  ended,    \* the session is in the node's terminated set
  pending,  \* the request whose creation promise the node's mutex holds
  pipe,     \* store writes sent by the node and not yet applied
  pc, at,   \* control of every request, and the node it arrived at
  seen,     \* the owner in the record a request read
  deleted,  \* the DELETE requests handled
  scan,     \* control of the node's orphan scan
  alive,    \* its snapshot of the nodes with a heartbeat
  orphan,   \* the owner it read and is about to take the session from
  faults,
  claims,   \* history: takeovers from each node since it last created or claimed
  reverted  \* history: a write-back has replaced what the store said

nodeVars    == <<up, beat, local, ended>>
storeVars   == <<owner, bus>>
requestVars == <<pending, pc, at, seen>>
scanVars    == <<scan, alive, orphan>>
history     == <<claims, reverted>>
vars == <<nodeVars, storeVars, pipe, requestVars, deleted, scanVars, faults, history>>

Init ==
  /\ up = [n \in Nodes |-> TRUE] /\ beat = [n \in Nodes |-> TRUE]
  /\ local = [n \in Nodes |-> FALSE] /\ ended = [n \in Nodes |-> FALSE]
  /\ owner = NoNode /\ bus = NoNode
  /\ pipe = [n \in Nodes |-> <<>>]
  /\ pending = [n \in Nodes |-> Nobody]
  /\ pc = [r \in Requests |-> "idle"]
  /\ at = [r \in Requests |-> NoNode] /\ seen = [r \in Requests |-> NoNode]
  /\ deleted = {}
  /\ scan = [n \in Nodes |-> "idle"]
  /\ alive = [n \in Nodes |-> {}] /\ orphan = [n \in Nodes |-> NoNode]
  /\ faults = 0
  /\ claims = [n \in Nodes |-> 0] /\ reverted = FALSE

\* The client knows the session id once initialize has been answered.
Announced == pc[Initialize] = "served"

Fault == faults < MaxFaults /\ faults' = faults + 1

----------------------------------------------------------------------------
(* The takeover script                                                     *)

\* The script's comparison: the record still names the node the caller read.
ClaimableIfStored(old) == owner # NoNode
Claimable(old) == owner # NoNode /\ owner = old

Claim(n, old) ==
  /\ owner' = n
  /\ claims' = [claims EXCEPT ![old] = @ + 1, ![n] = 0]

----------------------------------------------------------------------------
(* Writes nobody awaits: session records and deletions                     *)

Create(n) == [op |-> "create", node |-> n]
WriteBackDropsNode(n) == [op |-> "writeBack", node |-> NoNode]
WriteBack(n) == [op |-> "writeBack", node |-> n]
Deletion == [op |-> "delete", node |-> NoNode]
Writes == [op : {"create", "writeBack"}, node : Nodes] \cup {Deletion}

Send(n, w) == pipe' = [pipe EXCEPT ![n] = Append(@, w)]

ApplyWrite(n) ==
  /\ pipe[n] # <<>>
  /\ LET w == Head(pipe[n])
     IN  /\ owner' = w.node
         /\ claims' = IF w.op = "create" THEN [claims EXCEPT ![w.node] = 0] ELSE claims
         /\ reverted' = (reverted \/ (w.op = "writeBack" /\ owner # w.node))
  /\ pipe' = [pipe EXCEPT ![n] = Tail(@)]
  /\ UNCHANGED <<nodeVars, bus, requestVars, deleted, scanVars, faults>>

----------------------------------------------------------------------------
(* Requests                                                                *)

\* How a request ends: on a transport of its node, refused or lost, or on a
\* RemoteTransporter.
Outcomes == {"served", "failed", "unimplemented"}

Goto(r, l) == pc' = [pc EXCEPT ![r] = l]

\* The requests of S end with outcome l, and what they knew goes with them.
End(S, l) ==
  /\ pc' = [r \in Requests |-> IF r \in S THEN l ELSE pc[r]]
  /\ at' = [r \in Requests |-> IF r \in S THEN NoNode ELSE at[r]]
  /\ seen' = [r \in Requests |-> IF r \in S THEN NoNode ELSE seen[r]]

\* doCreateTransporter: an initialize request takes the node's mutex.
StartInitialize(n) ==
  /\ pc[Initialize] = "idle" /\ up[n]
  /\ pending' = [pending EXCEPT ![n] = Initialize]
  /\ Goto(Initialize, "building")
  /\ at' = [at EXCEPT ![Initialize] = n]
  /\ seen' = [seen EXCEPT ![Initialize] = n]
  /\ UNCHANGED <<nodeVars, storeVars, pipe, deleted, scanVars, faults, history>>

\* A message that arrives at a node with the session terminated is refused, and
\* one that finds a local transport is served by it: neither changes anything.  (An
\* initialize that revives a terminated session is not modelled.)
\* Any other asks the bus.
Arrive(r, n) ==
  /\ pc[r] = "idle" /\ r # Initialize /\ Announced /\ up[n]
  /\ ~ended[n] /\ ~local[n]
  /\ at' = [at EXCEPT ![r] = n]
  /\ Goto(r, "lookup")
  /\ UNCHANGED <<nodeVars, storeVars, pipe, pending, seen, deleted, scanVars, faults, history>>

\* The bus names another node: the message gets a RemoteTransporter, which
\* implements no request.
LookupBus(r) ==
  /\ pc[r] = "lookup"
  /\ \/ bus \notin {NoNode, at[r]} /\ End({r}, "unimplemented")
     \/ bus \in {NoNode, at[r]} /\ Goto(r, "reading") /\ UNCHANGED <<at, seen>>
  /\ UNCHANGED <<nodeVars, storeVars, pipe, pending, deleted, scanVars, faults, history>>

\* A creation promise is joined, never started twice.
JoinsNothing(n) == FALSE
Joins(n) == pending[n] # Nobody

\* getStoredSession, then the synchronous part of recreateTransporter up to its
\* first await: the local transport, the pending creation, or a new one.
ReadStored(r) ==
  LET n == at[r] IN
  /\ pc[r] = "reading"
  /\ \/ owner = NoNode /\ End({r}, "failed") /\ UNCHANGED pending
     \/ owner # NoNode /\ local[n] /\ End({r}, "served") /\ UNCHANGED pending
     \/ owner # NoNode /\ ~local[n] /\ Joins(n) /\ Goto(r, "joined")
        /\ UNCHANGED <<pending, at, seen>>
     \/ /\ owner # NoNode /\ ~local[n] /\ ~Joins(n)
        /\ pending' = [pending EXCEPT ![n] = r]
        /\ seen' = [seen EXCEPT ![r] = owner]
        /\ Goto(r, IF owner = n THEN "building" ELSE "claiming")
        /\ UNCHANGED at
  /\ UNCHANGED <<nodeVars, storeVars, pipe, deleted, scanVars, faults, history>>

\* The creation promise of r settles: the mutex is released, and the requests
\* that joined it end as it does.
ResolveAlone(r, l) ==
  /\ pending' = [pending EXCEPT ![at[r]] = Nobody]
  /\ End({r}, l)
Resolve(r, l) ==
  LET n == at[r] IN
  /\ pending' = [pending EXCEPT ![n] = Nobody]
  /\ End({r} \cup {q \in Requests : pc[q] = "joined" /\ at[q] = n}, l)

\* The takeover of a record that names another node, dead or alive; failing it,
\* SessionClaimConflictError.
TakeOver(r) ==
  LET n == at[r] IN
  /\ pc[r] = "claiming"
  /\ IF Claimable(seen[r])
       THEN Claim(n, seen[r]) /\ Goto(r, "building") /\ UNCHANGED <<pending, at, seen>>
       ELSE Resolve(r, "failed") /\ UNCHANGED <<owner, claims>>
  /\ UNCHANGED <<nodeVars, bus, pipe, deleted, scanVars, faults, reverted>>

\* The transport is ready: it is inserted, the record is written (as it was read,
\* when the session is recreated), and the session advertised on the bus.
Build(r) ==
  LET n == at[r] IN
  /\ pc[r] = "building"
  /\ local' = [local EXCEPT ![n] = TRUE]
  /\ Send(n, IF r = Initialize THEN Create(n) ELSE WriteBack(seen[r]))
  /\ bus' = n
  /\ Goto(r, "advertising")
  /\ UNCHANGED <<up, beat, ended, owner, pending, at, seen, deleted, scanVars, faults, history>>

Advertised(r) ==
  /\ pc[r] = "advertising"
  /\ Resolve(r, "served")
  /\ UNCHANGED <<nodeVars, storeVars, pipe, deleted, scanVars, faults, history>>

\* DELETE: the node's terminated set; a local transport is disposed, revoking the
\* bus entry if it names the node and deleting the record.  For a transport of
\* another node a message nobody listens for is published.
Delete(d, n) ==
  /\ d \notin deleted /\ Announced /\ up[n] /\ ~ended[n]
  /\ deleted' = deleted \cup {d}
  /\ ended' = [ended EXCEPT ![n] = TRUE]
  /\ IF local[n]
       THEN /\ local' = [local EXCEPT ![n] = FALSE]
            /\ bus' = IF bus = n THEN NoNode ELSE bus
            /\ Send(n, Deletion)
       ELSE UNCHANGED <<local, bus, pipe>>
  /\ UNCHANGED <<up, beat, owner, requestVars, scanVars, faults, history>>

----------------------------------------------------------------------------
(* Heartbeats and the orphan scan                                          *)

Beat(n) ==
  /\ up[n] /\ ~beat[n]
  /\ beat' = [beat EXCEPT ![n] = TRUE]
  /\ UNCHANGED <<up, local, ended, storeVars, pipe, requestVars, deleted, scanVars, faults,
                 history>>

\* The key of a dead node expires; that of a live one only if its writes fail
\* for a whole ttl.
Lapse(n) ==
  /\ beat[n]
  /\ beat' = [beat EXCEPT ![n] = FALSE]
  /\ \/ ~up[n] /\ UNCHANGED faults
     \/ up[n] /\ Fault
  /\ UNCHANGED <<up, local, ended, storeVars, pipe, requestVars, deleted, scanVars, history>>

\* getAliveNodes; without any heartbeat the scan is skipped.
ScanStart(n) ==
  /\ up[n] /\ scan[n] = "idle" /\ \E m \in Nodes : beat[m]
  /\ alive' = [alive EXCEPT ![n] = {m \in Nodes : beat[m]}]
  /\ scan' = [scan EXCEPT ![n] = "listed"]
  /\ UNCHANGED <<nodeVars, storeVars, pipe, requestVars, deleted, orphan, faults, history>>

\* What a scan knows is local to it; the flag that keeps scans apart is reset.
ScanKeepsFlag(n) == UNCHANGED scanVars
ScanEnds(n) ==
  /\ scan' = [scan EXCEPT ![n] = "idle"]
  /\ alive' = [alive EXCEPT ![n] = {}]
  /\ orphan' = [orphan EXCEPT ![n] = NoNode]

\* The record of the key.  The snapshot decides whether its node is dead.
Spares(n) == owner = NoNode \/ owner \in alive[n]
ScanRead(n) ==
  /\ scan[n] = "listed"
  /\ IF Spares(n)
       THEN ScanEnds(n)
       ELSE /\ scan' = [scan EXCEPT ![n] = "claiming"]
            /\ orphan' = [orphan EXCEPT ![n] = owner]
            /\ UNCHANGED alive
  /\ UNCHANGED <<nodeVars, storeVars, pipe, requestVars, deleted, faults, history>>

ScanClaim(n) ==
  /\ scan[n] = "claiming"
  /\ IF Claimable(orphan[n])
       THEN Claim(n, orphan[n])
       ELSE UNCHANGED <<owner, claims>>
  /\ ScanEnds(n)
  /\ UNCHANGED <<nodeVars, bus, pipe, requestVars, deleted, faults, reverted>>

\* A rejected call ends the scan.
ScanFails(n) ==
  /\ scan[n] # "idle" /\ Fault
  /\ ScanEnds(n)
  /\ UNCHANGED <<nodeVars, storeVars, pipe, requestVars, deleted, history>>

----------------------------------------------------------------------------
(* Environment                                                             *)

Crash(n) ==
  /\ up[n] /\ Fault
  /\ up' = [up EXCEPT ![n] = FALSE]
  /\ local' = [local EXCEPT ![n] = FALSE] /\ ended' = [ended EXCEPT ![n] = FALSE]
  /\ pending' = [pending EXCEPT ![n] = Nobody]
  /\ pipe' = [pipe EXCEPT ![n] = <<>>]
  /\ End({r \in Requests : at[r] = n}, "failed")
  /\ ScanEnds(n)
  /\ UNCHANGED <<beat, storeVars, deleted, history>>

\* The pod is started again under the same name.
Restart(n) ==
  /\ ~up[n]
  /\ up' = [up EXCEPT ![n] = TRUE]
  /\ UNCHANGED <<beat, local, ended, storeVars, pipe, requestVars, deleted, scanVars, faults,
                 history>>

\* The ttl of the record, or of the bus entry, passes.
ExpireSession ==
  /\ owner # NoNode /\ owner' = NoNode
  /\ UNCHANGED <<nodeVars, bus, pipe, requestVars, deleted, scanVars, faults, history>>
ExpireBus ==
  /\ bus # NoNode /\ bus' = NoNode
  /\ UNCHANGED <<nodeVars, owner, pipe, requestVars, deleted, scanVars, faults, history>>

Next ==
  \/ \E n \in Nodes :
       \/ StartInitialize(n) \/ ApplyWrite(n)
       \/ Beat(n) \/ Lapse(n) \/ ScanStart(n) \/ ScanRead(n) \/ ScanClaim(n) \/ ScanFails(n)
       \/ Crash(n) \/ Restart(n)
       \/ \E r \in Messages : Arrive(r, n)
       \/ \E d \in Deletes : Delete(d, n)
  \/ \E r \in Messages : LookupBus(r) \/ ReadStored(r) \/ TakeOver(r)
  \/ \E r \in Requests : Build(r) \/ Advertised(r)
  \/ ExpireSession \/ ExpireBus

Spec == Init /\ [][Next]_vars

\* A live node's timers run and the store answers it; a heartbeat that nobody
\* renews expires.  A restart is not promised, nor any client.
Fairness ==
  \A n \in Nodes :
    /\ WF_vars(Beat(n)) /\ WF_vars(~up[n] /\ Lapse(n))
    /\ WF_vars(ScanStart(n)) /\ WF_vars(ScanRead(n)) /\ WF_vars(ScanClaim(n))
FairSpec == Spec /\ Fairness

----------------------------------------------------------------------------
(* Properties                                                              *)

Labels == Outcomes \cup
  {"idle", "lookup", "reading", "joined", "claiming", "building", "advertising"}

TypeOK ==
  /\ up \in [Nodes -> BOOLEAN] /\ beat \in [Nodes -> BOOLEAN]
  /\ local \in [Nodes -> BOOLEAN] /\ ended \in [Nodes -> BOOLEAN]
  /\ owner \in Nodes \cup {NoNode} /\ bus \in Nodes \cup {NoNode}
  /\ pipe \in [Nodes -> Seq(Writes)]
  /\ pending \in [Nodes -> Requests \cup {Nobody}]
  /\ pc \in [Requests -> Labels]
  /\ at \in [Requests -> Nodes \cup {NoNode}] /\ seen \in [Requests -> Nodes \cup {NoNode}]
  /\ deleted \subseteq Deletes
  /\ scan \in [Nodes -> {"idle", "listed", "claiming"}]
  /\ alive \in [Nodes -> SUBSET Nodes] /\ orphan \in [Nodes -> Nodes \cup {NoNode}]
  /\ faults \in Nat
  /\ claims \in [Nodes -> Nat] /\ reverted \in BOOLEAN

\* A node holds at most one transport of the session, finished or under way:
\* the creation mutex admits one creation at a time, and none next to a
\* transport.
Creating(r) == pc[r] \in {"claiming", "building", "advertising"}
OneTransportPerNode ==
  /\ \A q, r \in Requests : Creating(q) /\ Creating(r) /\ at[q] = at[r] => q = r
  /\ \A n \in Nodes : local[n] =>
       \A r \in Requests : at[r] = n => pc[r] \notin {"claiming", "building"}

\* As long as no write-back has replaced what the store said, the session is
\* claimed at most once from an owner, however scans and requests race for it.
ClaimedOnce == reverted \/ \A m \in Nodes : claims[m] <= 1

\* session-takeover.ts, lines 4-6 and 59-60: the script ensures "exactly-once
\* ownership transfer"; of the calls for one owner "Exactly one will succeed".
ExactlyOneClaim == \A m \in Nodes : claims[m] <= 1

\* A message that joined a creation is answered with it, and none waits for a
\* creation that is gone.
JoinersHaveCreator ==
  \A r \in Requests : pc[r] = "joined" =>
    \E q \in Requests : pending[at[r]] = q /\ at[q] = at[r] /\ Creating(q)

\* As long as no node has died or failed to renew its heartbeat, no scan is about to take
\* a session, however old its snapshot is and wherever takeovers by requests and
\* write-backs have moved the session meanwhile.
HealthySpared == faults = 0 => \A n \in Nodes : scan[n] # "claiming"

\* A session whose owner has died is claimed by a scanner, or has gone, as long
\* as some node is up and stays up, although a recreation may hand it back to
\* the dead owner meanwhile.
OrphansAdopted ==
  \A m \in Nodes : (owner = m /\ ~up[m]) ~>
                     (owner # m \/ up[m] \/ \A n \in Nodes : ~up[n])

=============================================================================
