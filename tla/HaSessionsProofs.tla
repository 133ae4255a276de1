------------------------- MODULE HaSessionsProofs --------------------------
(***************************************************************************)
(* The safety properties of HaSessions, for any number of nodes, messages, *)
(* DELETE requests and faults.                                             *)
(***************************************************************************)
EXTENDS HaSessions, TLAPS

----------------------------------------------------------------------------
(* The inductive invariant                                                 *)

\* A node that was taken over does not own the session until something gives it
\* back, and only a write-back does so unasked.
ClaimInv ==
  ~reverted => \A m \in Nodes : claims[m] = 0 \/ (claims[m] = 1 /\ owner # m)

CreationLabels == {"claiming", "building", "advertising"}

\* The node's mutex holds exactly the request that is creating on it; before the
\* initialize request nothing has happened; requests at rest are at no node.
MutexInv ==
  /\ \A n \in Nodes, r \in Requests : 
       pending[n] = r <=> (at[r] = n /\ pc[r] \in CreationLabels)
  /\ pc[Initialize] = "idle" =>
       /\ \A n \in Nodes : pending[n] = Nobody /\ ~local[n]
       /\ \A r \in Messages : pc[r] = "idle"
  /\ \A r \in Requests :
       /\ pc[r] \in Outcomes \cup {"idle"} => at[r] = NoNode
       /\ pc[r] \notin Outcomes \cup {"idle"} => at[r] \in Nodes

\* A request joins a creation only while the mutex holds one.
JoinInv == \A r \in Requests : pc[r] = "joined" => pending[at[r]] # Nobody

\* No creation that has yet to insert its transport runs next to one.
TransportInv ==
  \A n \in Nodes : local[n] =>
    \A r \in Requests : at[r] = n => pc[r] \notin {"claiming", "building"}

\* The node a creating message read is a node.
SeenInv == \A r \in Requests : pc[r] \in {"claiming", "building"} => seen[r] \in Nodes

Inv == TypeOK /\ SeenInv /\ ClaimInv /\ MutexInv /\ TransportInv /\ JoinInv

----------------------------------------------------------------------------
LEMMA RequestFacts ==
  /\ Initialize \in Requests /\ Messages \subseteq Requests
  /\ \A r \in Requests : r # Nobody /\ (r # Initialize => r \in Messages)
  /\ \A r \in Messages : r # Initialize
  /\ \A n \in Nodes : n # NoNode
BY HaAssumption DEF Requests

LEMMA InitInv == Init => Inv
<1> SUFFICES ASSUME Init PROVE Inv
  OBVIOUS
<1>1. TypeOK
  <2>1. pc \in [Requests -> Labels]
    BY DEF Init, Labels
  <2>2. pipe \in [Nodes -> Seq(Writes)]
    BY DEF Init
  <2>3. scan \in [Nodes -> {"idle", "listed", "claiming"}]
    BY DEF Init
  <2> QED BY <2>1, <2>2, <2>3 DEF Init, TypeOK
<1>2. SeenInv /\ ClaimInv /\ TransportInv /\ JoinInv
  BY DEF Init, SeenInv, ClaimInv, TransportInv, JoinInv
<1>3. MutexInv
  BY RequestFacts DEF Init, MutexInv, CreationLabels, Outcomes
<1> QED BY <1>1, <1>2, <1>3 DEF Inv

\* The script leaves its caller the owner, and the loser taken over once more.
LEMMA ClaimKeeps ==
  ASSUME Inv, NEW n \in Nodes, NEW old \in Nodes, Claimable(old), Claim(n, old),
         reverted' = reverted
  PROVE  ClaimInv' /\ owner' \in Nodes /\ claims' \in [Nodes -> Nat]
<1>1. owner = old /\ owner' = n /\ claims \in [Nodes -> Nat]
      /\ claims' = [claims EXCEPT ![old] = @ + 1, ![n] = 0]
  BY DEF Claimable, Claim, Inv, TypeOK
<1>2. claims' \in [Nodes -> Nat]
  BY <1>1
<1>3. ClaimInv'
  <2> SUFFICES ASSUME ~reverted, NEW m \in Nodes
               PROVE  claims'[m] = 0 \/ (claims'[m] = 1 /\ owner' # m)
    BY DEF ClaimInv
  <2>1. CASE m = n
    BY <1>1, <2>1
  <2>2. CASE m # n /\ m = old
    BY <1>1, <2>2 DEF Inv, ClaimInv
  <2>3. CASE m # n /\ m # old
    BY <1>1, <2>3 DEF Inv, ClaimInv
  <2> QED BY <2>1, <2>2, <2>3
<1> QED BY <1>1, <1>2, <1>3

\* Ending requests: their labels, places and snapshots stay well typed.
LEMMA EndType ==
  ASSUME Inv, NEW S \in SUBSET Requests, NEW l \in Outcomes, End(S, l)
  PROVE  /\ pc' \in [Requests -> Labels]
         /\ at' \in [Requests -> Nodes \cup {NoNode}]
         /\ seen' \in [Requests -> Nodes \cup {NoNode}]
         /\ SeenInv'
         /\ \A r \in Requests : r \in S => pc'[r] = l /\ at'[r] = NoNode
         /\ \A r \in Requests : r \notin S => pc'[r] = pc[r] /\ at'[r] = at[r]
<1>1. /\ pc' = [r \in Requests |-> IF r \in S THEN l ELSE pc[r]]
      /\ at' = [r \in Requests |-> IF r \in S THEN NoNode ELSE at[r]]
      /\ seen' = [r \in Requests |-> IF r \in S THEN NoNode ELSE seen[r]]
      /\ l \in Labels
  BY DEF End, Labels
<1>2. SeenInv'
  BY <1>1 DEF Inv, SeenInv, Outcomes
<1> QED BY <1>1, <1>2 DEF Inv, TypeOK

\* Ending requests that are not creating anything.
LEMMA EndLookupKeeps ==
  ASSUME Inv, NEW S \in SUBSET Requests, NEW l \in Outcomes, End(S, l),
         \A r \in S : pc[r] \in {"lookup", "reading"},
         UNCHANGED <<pending, local>>, Initialize \notin S
  PROVE  MutexInv' /\ TransportInv' /\ JoinInv'
<1>1. /\ \A r \in S : pc'[r] = l /\ at'[r] = NoNode
      /\ \A r \in Requests : r \notin S => pc'[r] = pc[r] /\ at'[r] = at[r]
  BY EndType
<1>2. \A n \in Nodes, r \in Requests :
        (at'[r] = n /\ pc'[r] \in CreationLabels) <=> (at[r] = n /\ pc[r] \in CreationLabels)
  BY <1>1 DEF CreationLabels, Outcomes
<1>3. pc'[Initialize] = pc[Initialize] /\ \A r \in S : pc[r] # "idle"
  BY <1>1, RequestFacts
<1>4. \A n \in Nodes, r \in Requests :
        pending'[n] = r <=> (at'[r] = n /\ pc'[r] \in CreationLabels)
  BY <1>2 DEF Inv, MutexInv
<1>5. ASSUME pc'[Initialize] = "idle"
      PROVE  /\ \A n \in Nodes : pending'[n] = Nobody /\ ~local'[n]
             /\ \A r \in Messages : pc'[r] = "idle"
  <2>1. /\ \A n \in Nodes : pending[n] = Nobody /\ ~local[n]
        /\ \A r \in Messages : pc[r] = "idle"
    BY <1>3, <1>5 DEF Inv, MutexInv
  <2>2. \A r \in Messages : r \notin S /\ r \in Requests
    BY <1>3, <2>1, RequestFacts
  <2> QED BY <1>1, <2>1, <2>2
<1>6. \A r \in Requests :
        /\ pc'[r] \in Outcomes \cup {"idle"} => at'[r] = NoNode
        /\ pc'[r] \notin Outcomes \cup {"idle"} => at'[r] \in Nodes
  BY <1>1 DEF Inv, MutexInv
<1>7. TransportInv'
  BY <1>1 DEF Inv, TransportInv, Outcomes
<1>8. JoinInv'
  BY <1>1 DEF Inv, JoinInv, Outcomes
<1> QED BY <1>4, <1>5, <1>6, <1>7, <1>8 DEF MutexInv

\* Settling the creation promise of a node: its mutex is free, and no request of
\* the node is left creating or joined.
LEMMA ResolveKeeps ==
  ASSUME Inv, NEW r \in Requests, NEW l \in Outcomes, Resolve(r, l),
         pc[r] \in CreationLabels, UNCHANGED local
  PROVE  /\ MutexInv' /\ TransportInv' /\ JoinInv' /\ SeenInv'
         /\ pending' \in [Nodes -> Requests \cup {Nobody}]
         /\ pc' \in [Requests -> Labels]
         /\ at' \in [Requests -> Nodes \cup {NoNode}]
         /\ seen' \in [Requests -> Nodes \cup {NoNode}]
<1> DEFINE n == at[r]
           S == {r} \cup {q \in Requests : pc[q] = "joined" /\ at[q] = n}
<1>1. n \in Nodes /\ pending[n] = r
  BY DEF Inv, MutexInv, CreationLabels, Outcomes
<1>2. /\ pending' = [pending EXCEPT ![n] = Nobody] /\ End(S, l) /\ S \in SUBSET Requests
      /\ pending \in [Nodes -> Requests \cup {Nobody}]
  BY DEF Resolve, Inv, TypeOK
<1>3. /\ pc' \in [Requests -> Labels]
      /\ at' \in [Requests -> Nodes \cup {NoNode}]
      /\ seen' \in [Requests -> Nodes \cup {NoNode}]
      /\ SeenInv'
      /\ \A q \in Requests : q \in S => pc'[q] = l /\ at'[q] = NoNode
      /\ \A q \in Requests : q \notin S => pc'[q] = pc[q] /\ at'[q] = at[q]
  BY <1>2, EndType
<1>4. pc[Initialize] # "idle"
  BY <1>1, RequestFacts DEF Inv, MutexInv
<1>5. \A q \in S : pc[q] # "idle" /\ pc'[q] \notin CreationLabels \cup {"idle", "joined"}
  BY <1>3 DEF CreationLabels, Outcomes
<1>6. \A m \in Nodes, q \in Requests :
        pending'[m] = q <=> (at'[q] = m /\ pc'[q] \in CreationLabels)
  <2> SUFFICES ASSUME NEW m \in Nodes, NEW q \in Requests
               PROVE  pending'[m] = q <=> (at'[q] = m /\ pc'[q] \in CreationLabels)
    OBVIOUS
  <2>1. CASE q = r
    BY <1>1, <1>2, <1>5, <2>1, RequestFacts DEF Inv, MutexInv
  <2>2. CASE q # r /\ q \in S
    BY <1>1, <1>2, <1>5, <2>2, RequestFacts DEF Inv, MutexInv, CreationLabels
  <2>3. CASE q \notin S
    BY <1>1, <1>2, <1>3, <2>3, RequestFacts DEF Inv, MutexInv
  <2> QED BY <2>1, <2>2, <2>3
<1>7. pc'[Initialize] # "idle"
  BY <1>3, <1>4, <1>5, RequestFacts
<1>8. \A q \in Requests :
        /\ pc'[q] \in Outcomes \cup {"idle"} => at'[q] = NoNode
        /\ pc'[q] \notin Outcomes \cup {"idle"} => at'[q] \in Nodes
  BY <1>3 DEF Inv, MutexInv
<1>9. TransportInv'
  BY <1>3 DEF Inv, TransportInv, Outcomes
<1>10. JoinInv'
  BY <1>1, <1>2, <1>3, <1>5 DEF Inv, JoinInv
<1> QED BY <1>2, <1>3, <1>6, <1>7, <1>8, <1>9, <1>10 DEF MutexInv

----------------------------------------------------------------------------
(* Every action keeps the invariant                                        *)

\* What concerns neither requests nor transports leaves their invariants alone.
LEMMA RequestsUntouched ==
  ASSUME Inv, UNCHANGED <<requestVars, local>>
  PROVE  SeenInv' /\ MutexInv' /\ TransportInv' /\ JoinInv'
BY DEF Inv, requestVars, SeenInv, MutexInv, TransportInv, JoinInv

LEMMA ApplyWriteKeeps == ASSUME Inv, NEW n \in Nodes, ApplyWrite(n) PROVE Inv'
<1> DEFINE w == Head(pipe[n])
<1>1. pipe[n] \in Seq(Writes) /\ pipe[n] # <<>>
  BY DEF ApplyWrite, Inv, TypeOK
<1>2. w \in Writes /\ Tail(pipe[n]) \in Seq(Writes)
  BY <1>1
<1>3. w.node \in Nodes \/ (w.op = "delete" /\ w.node = NoNode)
  BY <1>2 DEF Writes, Deletion
<1>4. /\ owner' = w.node
      /\ claims' = IF w.op = "create" THEN [claims EXCEPT ![w.node] = 0] ELSE claims
      /\ reverted' = (reverted \/ (w.op = "writeBack" /\ owner # w.node))
      /\ pipe' = [pipe EXCEPT ![n] = Tail(@)]
      /\ UNCHANGED <<nodeVars, bus, requestVars, deleted, scanVars, faults>>
  BY DEF ApplyWrite
<1>5. w.op \in {"create", "writeBack", "delete"}
  BY <1>2 DEF Writes, Deletion
<1>6. TypeOK'
  <2>1. pipe' \in [Nodes -> Seq(Writes)]
    BY <1>2, <1>4 DEF Inv, TypeOK
  <2>2. claims' \in [Nodes -> Nat] /\ owner' \in Nodes \cup {NoNode} /\ reverted' \in BOOLEAN
    BY <1>3, <1>4 DEF Inv, TypeOK
  <2> QED BY <1>4, <2>1, <2>2 DEF Inv, TypeOK, nodeVars, requestVars, scanVars
<1>7. ClaimInv'
  <2> SUFFICES ASSUME ~reverted', NEW m \in Nodes
               PROVE  claims'[m] = 0 \/ (claims'[m] = 1 /\ owner' # m)
    BY DEF ClaimInv
  <2>1. ~reverted /\ (w.op = "writeBack" => owner = w.node)
    BY <1>4
  <2>2. claims[m] = 0 \/ (claims[m] = 1 /\ owner # m)
    BY <2>1 DEF Inv, ClaimInv
  <2>3. claims \in [Nodes -> Nat]
    BY DEF Inv, TypeOK
  <2>4. CASE w.op = "create"
    BY <1>4, <2>2, <2>3, <2>4
  <2>5. CASE w.op = "writeBack"
    BY <1>4, <2>1, <2>2, <2>5
  <2>6. CASE w.op = "delete"
    <3>1. w.node = NoNode
      BY <1>2, <2>6 DEF Writes, Deletion
    <3> QED BY <1>4, <2>2, <2>6, <3>1, HaAssumption
  <2> QED BY <1>5, <2>4, <2>5, <2>6
<1>8. UNCHANGED <<requestVars, local>>
  BY <1>4 DEF nodeVars
<1> QED BY <1>6, <1>7, <1>8, RequestsUntouched DEF Inv

LEMMA HeartbeatKeeps ==
  ASSUME Inv, NEW n \in Nodes, Beat(n) \/ Lapse(n) \/ Restart(n) PROVE Inv'
<1>1. /\ UNCHANGED <<local, ended, storeVars, pipe, requestVars, deleted, scanVars, history>>
      /\ up' \in [Nodes -> BOOLEAN] /\ beat' \in [Nodes -> BOOLEAN] /\ faults' \in Nat
  <2> USE DEF Inv, TypeOK
  <2>1. CASE Beat(n)
    BY <2>1 DEF Beat
  <2>2. CASE Lapse(n)
    BY <2>2 DEF Lapse, Fault
  <2>3. CASE Restart(n)
    BY <2>3 DEF Restart
  <2> QED BY <2>1, <2>2, <2>3
<1>2. TypeOK'
  BY <1>1 DEF Inv, TypeOK, storeVars, requestVars, scanVars, history
<1>3. ClaimInv'
  BY <1>1 DEF Inv, ClaimInv, storeVars, history
<1> QED BY <1>1, <1>2, <1>3, RequestsUntouched DEF Inv

LEMMA ScanEndsType ==
  ASSUME Inv, NEW n \in Nodes, ScanEnds(n)
  PROVE  /\ scan' \in [Nodes -> {"idle", "listed", "claiming"}]
         /\ alive' \in [Nodes -> SUBSET Nodes]
         /\ orphan' \in [Nodes -> Nodes \cup {NoNode}]
BY DEF ScanEnds, Inv, TypeOK

LEMMA ScanKeeps ==
  ASSUME Inv, NEW n \in Nodes, ScanStart(n) \/ ScanRead(n) \/ ScanFails(n) PROVE Inv'
<1>1. /\ UNCHANGED <<nodeVars, storeVars, pipe, requestVars, deleted, history>>
      /\ faults' \in Nat
  BY HaAssumption DEF ScanStart, ScanRead, ScanFails, Fault, Inv, TypeOK
<1>2. /\ scan' \in [Nodes -> {"idle", "listed", "claiming"}]
      /\ alive' \in [Nodes -> SUBSET Nodes]
      /\ orphan' \in [Nodes -> Nodes \cup {NoNode}]
  <2>1. CASE ScanStart(n)
    BY <2>1 DEF ScanStart, Inv, TypeOK
  <2>2. CASE ScanRead(n) /\ ~Spares(n)
    BY <2>2 DEF ScanRead, Inv, TypeOK
  <2>3. CASE ScanEnds(n)
    BY <2>3, ScanEndsType
  <2> QED BY <2>1, <2>2, <2>3 DEF ScanRead, ScanFails
<1>3. TypeOK'
  BY <1>1, <1>2 DEF Inv, TypeOK, nodeVars, storeVars, requestVars, history
<1>4. ClaimInv'
  BY <1>1 DEF Inv, ClaimInv, storeVars, history
<1> QED BY <1>1, <1>3, <1>4, RequestsUntouched DEF Inv, nodeVars

LEMMA ScanClaimKeeps == ASSUME Inv, NEW n \in Nodes, ScanClaim(n) PROVE Inv'
<1>1. /\ UNCHANGED <<nodeVars, bus, pipe, requestVars, deleted, faults, reverted>>
      /\ ScanEnds(n)
  BY DEF ScanClaim
<1>2. /\ owner' \in Nodes \cup {NoNode}
      /\ claims' \in [Nodes -> Nat]
      /\ ClaimInv'
  <2>1. CASE Claimable(orphan[n]) /\ Claim(n, orphan[n])
    <3>1. orphan[n] \in Nodes
      BY <2>1 DEF Claimable, Inv, TypeOK
    <3> QED BY <1>1, <2>1, <3>1, ClaimKeeps
  <2>2. CASE UNCHANGED <<owner, claims>>
    BY <1>1, <2>2 DEF Inv, TypeOK, ClaimInv
  <2> QED BY <2>1, <2>2 DEF ScanClaim
<1>3. TypeOK'
  BY <1>1, <1>2, ScanEndsType DEF Inv, TypeOK, nodeVars, requestVars
<1> QED BY <1>1, <1>2, <1>3, RequestsUntouched DEF Inv, nodeVars

LEMMA ExpireKeeps == ASSUME Inv, ExpireSession \/ ExpireBus PROVE Inv'
<1>1. /\ UNCHANGED <<nodeVars, pipe, requestVars, deleted, scanVars, faults, history>>
      /\ owner' \in {owner, NoNode} /\ bus' \in {bus, NoNode}
  BY DEF ExpireSession, ExpireBus
<1>2. TypeOK'
  BY <1>1 DEF Inv, TypeOK, nodeVars, requestVars, scanVars, history
<1>3. ClaimInv'
  BY <1>1, HaAssumption DEF Inv, ClaimInv, history
<1> QED BY <1>1, <1>2, <1>3, RequestsUntouched DEF Inv, nodeVars

\* A request that moves between labels that do not create, at the same node or
\* from none to a node, disturbs none of the requests' invariants.
LEMMA MoveKeeps ==
  ASSUME Inv, NEW r \in Messages, NEW l \in {"lookup", "reading"}, NEW n \in Nodes,
         pc[r] \in {"idle", "lookup"}, pc[Initialize] # "idle",
         Goto(r, l), at' = [at EXCEPT ![r] = n], UNCHANGED <<pending, seen, local>>
  PROVE  /\ SeenInv' /\ MutexInv' /\ TransportInv' /\ JoinInv'
         /\ pc' \in [Requests -> Labels] /\ at' \in [Requests -> Nodes \cup {NoNode}]
<1>1. /\ r \in Requests /\ r # Initialize /\ Initialize \in Requests
      /\ pc \in [Requests -> Labels] /\ at \in [Requests -> Nodes \cup {NoNode}]
  BY RequestFacts DEF Inv, TypeOK
<1>2. /\ pc' = [pc EXCEPT ![r] = l] /\ at' = [at EXCEPT ![r] = n] /\ l \in Labels
      /\ l \notin CreationLabels \cup Outcomes \cup {"idle", "joined"}
      /\ pc[r] \notin CreationLabels
  BY DEF Goto, Labels, CreationLabels, Outcomes
<1>3. pc' \in [Requests -> Labels] /\ at' \in [Requests -> Nodes \cup {NoNode}]
  BY <1>1, <1>2
<1>4. /\ pc'[r] = l /\ at'[r] = n
      /\ \A q \in Requests : q # r => pc'[q] = pc[q] /\ at'[q] = at[q]
  BY <1>1, <1>2
<1>5. SeenInv' /\ TransportInv' /\ JoinInv'
  <2>1. SeenInv'
    BY <1>4 DEF Inv, SeenInv
  <2>2. TransportInv'
    BY <1>4 DEF Inv, TransportInv
  <2>3. JoinInv'
    BY <1>4 DEF Inv, JoinInv
  <2> QED BY <2>1, <2>2, <2>3
<1>6. MutexInv'
  <2>1. \A m \in Nodes, q \in Requests :
          pending'[m] = q <=> (at'[q] = m /\ pc'[q] \in CreationLabels)
    BY <1>2, <1>4 DEF Inv, MutexInv
  <2>2. pc'[Initialize] # "idle"
    BY <1>1, <1>4
  <2>3. \A q \in Requests :
          /\ pc'[q] \in Outcomes \cup {"idle"} => at'[q] = NoNode
          /\ pc'[q] \notin Outcomes \cup {"idle"} => at'[q] \in Nodes
    BY <1>2, <1>4 DEF Inv, MutexInv
  <2> QED BY <2>1, <2>2, <2>3 DEF MutexInv
<1> QED BY <1>3, <1>5, <1>6

LEMMA ArriveKeeps ==
  ASSUME Inv, NEW r \in Messages, NEW n \in Nodes, Arrive(r, n) PROVE Inv'
<1>1. /\ UNCHANGED <<nodeVars, storeVars, pipe, pending, seen, deleted, scanVars, faults, history>>
      /\ at' = [at EXCEPT ![r] = n] /\ Goto(r, "lookup") /\ pc[r] = "idle"
      /\ pc[Initialize] # "idle"
  BY DEF Arrive, Announced
<1>2. UNCHANGED local
  BY <1>1 DEF nodeVars
<1>3. /\ SeenInv' /\ MutexInv' /\ TransportInv' /\ JoinInv'
      /\ pc' \in [Requests -> Labels] /\ at' \in [Requests -> Nodes \cup {NoNode}]
  BY <1>1, <1>2, MoveKeeps
<1>4. TypeOK'
  BY <1>1, <1>3 DEF Inv, TypeOK, nodeVars, storeVars, scanVars, history
<1>5. ClaimInv'
  BY <1>1 DEF Inv, ClaimInv, storeVars, history
<1> QED BY <1>3, <1>4, <1>5 DEF Inv

\* A message that is being handled is at a node, after the initialize request.
LEMMA HandledMessage ==
  ASSUME Inv, NEW r \in Messages, pc[r] \notin Outcomes \cup {"idle"}
  PROVE  r \in Requests /\ at[r] \in Nodes /\ pc[Initialize] # "idle" /\ r # Initialize
BY RequestFacts DEF Inv, MutexInv, Outcomes

LEMMA LookupBusKeeps == ASSUME Inv, NEW r \in Messages, LookupBus(r) PROVE Inv'
<1>1. /\ UNCHANGED <<nodeVars, storeVars, pipe, pending, deleted, scanVars, faults, history>>
      /\ pc[r] = "lookup" /\ UNCHANGED local
  BY DEF LookupBus, nodeVars
<1>2. r \in Requests /\ at[r] \in Nodes /\ pc[Initialize] # "idle" /\ r # Initialize
  BY <1>1, HandledMessage DEF Outcomes
<1>3. /\ SeenInv' /\ MutexInv' /\ TransportInv' /\ JoinInv'
      /\ pc' \in [Requests -> Labels]
      /\ at' \in [Requests -> Nodes \cup {NoNode}]
      /\ seen' \in [Requests -> Nodes \cup {NoNode}]
  <2>1. CASE End({r}, "unimplemented")
    <3>1. {r} \in SUBSET Requests /\ Initialize \notin {r} /\ "unimplemented" \in Outcomes
          /\ \A q \in {r} : pc[q] \in {"lookup", "reading"}
      BY <1>1, <1>2 DEF Outcomes
    <3> QED BY <1>1, <2>1, <3>1, EndType, EndLookupKeeps
  <2>2. CASE Goto(r, "reading") /\ UNCHANGED <<at, seen>>
    <3>1. at' = [at EXCEPT ![r] = at[r]] /\ seen' \in [Requests -> Nodes \cup {NoNode}]
      BY <2>2 DEF Inv, TypeOK
    <3> QED BY <1>1, <1>2, <2>2, <3>1, MoveKeeps
  <2> QED BY <2>1, <2>2 DEF LookupBus
<1>4. TypeOK'
  BY <1>1, <1>3 DEF Inv, TypeOK, nodeVars, storeVars, scanVars, history
<1>5. ClaimInv'
  BY <1>1 DEF Inv, ClaimInv, storeVars, history
<1> QED BY <1>3, <1>4, <1>5 DEF Inv

\* A request that takes the free mutex of a node without a transport.
LEMMA CreationBegins ==
  ASSUME Inv, NEW r \in Requests, NEW n \in Nodes, NEW o \in Nodes,
         NEW l \in {"claiming", "building"},
         pending[n] = Nobody, ~local[n], pc[r] \in {"idle", "reading"},
         r = Initialize \/ pc[Initialize] # "idle",
         pending' = [pending EXCEPT ![n] = r], at' = [at EXCEPT ![r] = n],
         seen' = [seen EXCEPT ![r] = o], Goto(r, l), UNCHANGED local
  PROVE  /\ SeenInv' /\ MutexInv' /\ TransportInv' /\ JoinInv'
         /\ pending' \in [Nodes -> Requests \cup {Nobody}]
         /\ pc' \in [Requests -> Labels]
         /\ at' \in [Requests -> Nodes \cup {NoNode}]
         /\ seen' \in [Requests -> Nodes \cup {NoNode}]
<1>0. /\ pending \in [Nodes -> Requests \cup {Nobody}] /\ pc \in [Requests -> Labels]
      /\ at \in [Requests -> Nodes \cup {NoNode}] /\ seen \in [Requests -> Nodes \cup {NoNode}]
      /\ Initialize \in Requests /\ r # Nobody
  BY RequestFacts DEF Inv, TypeOK
<1>1. /\ pc' = [pc EXCEPT ![r] = l] /\ l \in Labels
      /\ l \in CreationLabels /\ l \notin Outcomes \cup {"idle", "joined"}
      /\ pc[r] \notin CreationLabels \cup {"joined"}
  BY DEF Goto, Labels, CreationLabels, Outcomes
<1>2. /\ pc'[r] = l /\ at'[r] = n /\ seen'[r] = o
      /\ \A q \in Requests : q # r => pc'[q] = pc[q] /\ at'[q] = at[q] /\ seen'[q] = seen[q]
      /\ pending'[n] = r /\ \A m \in Nodes : m # n => pending'[m] = pending[m]
  BY <1>0, <1>1
<1>3. \A m \in Nodes, q \in Requests :
        pending'[m] = q <=> (at'[q] = m /\ pc'[q] \in CreationLabels)
  <2> SUFFICES ASSUME NEW m \in Nodes, NEW q \in Requests
               PROVE  pending'[m] = q <=> (at'[q] = m /\ pc'[q] \in CreationLabels)
    OBVIOUS
  <2>0. /\ pending[m] = q <=> (at[q] = m /\ pc[q] \in CreationLabels)
        /\ q # Nobody
    BY RequestFacts DEF Inv, MutexInv
  <2>1. CASE q = r
    BY <1>1, <1>2, <2>0, <2>1
  <2>2. CASE q # r
    BY <1>2, <2>0, <2>2
  <2> QED BY <2>1, <2>2
<1>4. pc'[Initialize] # "idle"
  BY <1>0, <1>1, <1>2
<1>5. \A q \in Requests :
        /\ pc'[q] \in Outcomes \cup {"idle"} => at'[q] = NoNode
        /\ pc'[q] \notin Outcomes \cup {"idle"} => at'[q] \in Nodes
  BY <1>1, <1>2 DEF Inv, MutexInv
<1>6. SeenInv'
  BY <1>2 DEF Inv, SeenInv
<1>7. TransportInv'
  BY <1>2 DEF Inv, TransportInv
<1>8. JoinInv'
  <2> SUFFICES ASSUME NEW q \in Requests, pc'[q] = "joined" PROVE pending'[at'[q]] # Nobody
    BY DEF JoinInv
  <2>1. q # r /\ pc[q] = "joined" /\ at'[q] = at[q]
    BY <1>1, <1>2
  <2>2. pending[at[q]] # Nobody /\ at[q] \in Nodes
    BY <2>1 DEF Inv, JoinInv, MutexInv, Outcomes
  <2> QED BY <1>0, <1>2, <2>1, <2>2
<1> QED BY <1>0, <1>1, <1>3, <1>4, <1>5, <1>6, <1>7, <1>8 DEF MutexInv

LEMMA StartInitializeKeeps ==
  ASSUME Inv, NEW n \in Nodes, StartInitialize(n) PROVE Inv'
<1>1. /\ UNCHANGED <<nodeVars, storeVars, pipe, deleted, scanVars, faults, history>>
      /\ pc[Initialize] = "idle" /\ UNCHANGED local
  BY DEF StartInitialize, nodeVars
<1>2. pending[n] = Nobody /\ ~local[n] /\ Initialize \in Requests
  BY <1>1, RequestFacts DEF Inv, MutexInv
<1>3. /\ SeenInv' /\ MutexInv' /\ TransportInv' /\ JoinInv'
      /\ pending' \in [Nodes -> Requests \cup {Nobody}]
      /\ pc' \in [Requests -> Labels]
      /\ at' \in [Requests -> Nodes \cup {NoNode}]
      /\ seen' \in [Requests -> Nodes \cup {NoNode}]
  BY <1>1, <1>2, CreationBegins DEF StartInitialize
<1>4. TypeOK'
  BY <1>1, <1>3 DEF Inv, TypeOK, nodeVars, storeVars, scanVars, history
<1>5. ClaimInv'
  BY <1>1 DEF Inv, ClaimInv, storeVars, history
<1> QED BY <1>3, <1>4, <1>5 DEF Inv

\* A message that joins the creation its node's mutex holds.
LEMMA JoinKeeps ==
  ASSUME Inv, NEW r \in Messages, pc[r] = "reading", Joins(at[r]), Goto(r, "joined"),
         UNCHANGED <<pending, at, seen, local>>
  PROVE  /\ SeenInv' /\ MutexInv' /\ TransportInv' /\ JoinInv'
         /\ pc' \in [Requests -> Labels]
<1>0. /\ r \in Requests /\ at[r] \in Nodes /\ pc[Initialize] # "idle" /\ r # Initialize
      /\ Initialize \in Requests
  BY HandledMessage, RequestFacts DEF Outcomes
<1>1. /\ pc' \in [Requests -> Labels] /\ pc'[r] = "joined"
      /\ \A q \in Requests : q # r => pc'[q] = pc[q]
  BY <1>0 DEF Goto, Labels, Inv, TypeOK
<1>2. /\ pc'[r] \notin CreationLabels \cup Outcomes \cup {"idle", "claiming", "building"}
      /\ pc[r] \notin CreationLabels \cup Outcomes \cup {"idle"}
  BY <1>1 DEF CreationLabels, Outcomes
<1>3. SeenInv' /\ TransportInv'
  BY <1>1, <1>2 DEF Inv, SeenInv, TransportInv
<1>4. JoinInv'
  BY <1>1 DEF Inv, JoinInv, Joins
<1>5. MutexInv'
  BY <1>0, <1>1, <1>2 DEF Inv, MutexInv
<1> QED BY <1>1, <1>3, <1>4, <1>5

LEMMA ReadStoredKeeps == ASSUME Inv, NEW r \in Messages, ReadStored(r) PROVE Inv'
<1> DEFINE n == at[r]
<1>1. /\ UNCHANGED <<nodeVars, storeVars, pipe, deleted, scanVars, faults, history>>
      /\ pc[r] = "reading" /\ UNCHANGED local
  BY DEF ReadStored, nodeVars
<1>2. r \in Requests /\ n \in Nodes /\ pc[Initialize] # "idle" /\ r # Initialize
  BY <1>1, HandledMessage DEF Outcomes
<1>3. /\ SeenInv' /\ MutexInv' /\ TransportInv' /\ JoinInv'
      /\ pending' \in [Nodes -> Requests \cup {Nobody}]
      /\ pc' \in [Requests -> Labels]
      /\ at' \in [Requests -> Nodes \cup {NoNode}]
      /\ seen' \in [Requests -> Nodes \cup {NoNode}]
  <2>1. ASSUME NEW l \in Outcomes, End({r}, l), UNCHANGED pending
        PROVE  /\ SeenInv' /\ MutexInv' /\ TransportInv' /\ JoinInv'
               /\ pending' \in [Nodes -> Requests \cup {Nobody}]
               /\ pc' \in [Requests -> Labels]
               /\ at' \in [Requests -> Nodes \cup {NoNode}]
               /\ seen' \in [Requests -> Nodes \cup {NoNode}]
    <3>1. {r} \in SUBSET Requests /\ Initialize \notin {r}
          /\ \A q \in {r} : pc[q] \in {"lookup", "reading"}
      BY <1>1, <1>2
    <3>2. pending' \in [Nodes -> Requests \cup {Nobody}]
      BY <2>1 DEF Inv, TypeOK
    <3> QED BY <1>1, <2>1, <3>1, <3>2, EndType, EndLookupKeeps
  <2>2. CASE Joins(n) /\ Goto(r, "joined") /\ UNCHANGED <<pending, at, seen>>
    <3>1. /\ pending' \in [Nodes -> Requests \cup {Nobody}]
          /\ at' \in [Requests -> Nodes \cup {NoNode}]
          /\ seen' \in [Requests -> Nodes \cup {NoNode}]
      BY <2>2 DEF Inv, TypeOK
    <3> QED BY <1>1, <2>2, <3>1, JoinKeeps
  <2>3. CASE /\ owner # NoNode /\ ~local[n] /\ ~Joins(n)
             /\ pending' = [pending EXCEPT ![n] = r]
             /\ seen' = [seen EXCEPT ![r] = owner]
             /\ Goto(r, IF owner = n THEN "building" ELSE "claiming")
             /\ UNCHANGED at
    <3>1. owner \in Nodes /\ pending[n] = Nobody /\ at' = [at EXCEPT ![r] = n]
      BY <2>3 DEF Inv, TypeOK, Joins
    <3>2. PICK l \in {"claiming", "building"} : Goto(r, l)
      BY <2>3
    <3> QED BY <1>1, <1>2, <2>3, <3>1, <3>2, CreationBegins
  <2>4. "failed" \in Outcomes /\ "served" \in Outcomes
    BY DEF Outcomes
  <2> QED BY <2>1, <2>2, <2>3, <2>4 DEF ReadStored
<1>4. TypeOK'
  BY <1>1, <1>3 DEF Inv, TypeOK, nodeVars, storeVars, scanVars, history
<1>5. ClaimInv'
  BY <1>1 DEF Inv, ClaimInv, storeVars, history
<1> QED BY <1>3, <1>4, <1>5 DEF Inv

\* A creation goes on to its next step under the same mutex.
LEMMA CreationAdvances ==
  ASSUME Inv, NEW r \in Requests, NEW l \in {"building", "advertising"}, Goto(r, l),
         pc[r] \in CreationLabels, l = "building" => pc[r] = "claiming",
         UNCHANGED <<pending, at, seen>>,
         \/ UNCHANGED local
         \/ l = "advertising" /\ local' = [local EXCEPT ![at[r]] = TRUE]
  PROVE  /\ SeenInv' /\ MutexInv' /\ TransportInv' /\ JoinInv'
         /\ pc' \in [Requests -> Labels] /\ at[r] \in Nodes
<1>0. /\ pc \in [Requests -> Labels] /\ local \in [Nodes -> BOOLEAN]
      /\ pc' = [pc EXCEPT ![r] = l] /\ l \in Labels
      /\ l \in CreationLabels /\ pc[r] \in CreationLabels
      /\ pc[r] \notin Outcomes \cup {"idle"} /\ l \notin Outcomes \cup {"idle", "joined"}
      /\ Initialize \in Requests /\ Messages \subseteq Requests /\ r # Nobody
  BY RequestFacts DEF Goto, Labels, CreationLabels, Outcomes, Inv, TypeOK
<1>1. /\ pc' \in [Requests -> Labels] /\ pc'[r] = l
      /\ \A q \in Requests : q # r => pc'[q] = pc[q]
  BY <1>0
<1>2. at[r] \in Nodes /\ pending[at[r]] = r
  BY <1>0 DEF Inv, MutexInv
<1>3. pc[Initialize] # "idle" /\ pc'[Initialize] # "idle"
  BY <1>0, <1>1, <1>2 DEF Inv, MutexInv
<1>4. MutexInv'
  BY <1>0, <1>1, <1>2, <1>3 DEF Inv, MutexInv
<1>5. SeenInv'
  BY <1>0, <1>1 DEF Inv, SeenInv
<1>6. JoinInv'
  BY <1>0, <1>1 DEF Inv, JoinInv
<1>7. TransportInv'
  <2> SUFFICES ASSUME NEW m \in Nodes, local'[m], NEW q \in Requests, at[q] = m
               PROVE  pc'[q] \notin {"claiming", "building"}
    BY DEF TransportInv
  <2>1. CASE q = r /\ l = "advertising"
    BY <1>1, <2>1
  <2>2. CASE q = r /\ l = "building"
    <3>1. local[m] /\ pc[r] = "claiming"
      BY <2>2
    <3> QED BY <2>2, <3>1 DEF Inv, TransportInv
  <2>3. CASE q # r /\ local[m]
    BY <1>1, <2>3 DEF Inv, TransportInv
  <2>4. CASE q # r /\ ~local[m]
    <3>1. m = at[r] /\ pending[m] = r
      BY <1>0, <1>2, <2>4
    <3>2. pc[q] \notin CreationLabels
      BY <2>4, <3>1 DEF Inv, MutexInv
    <3> QED BY <1>1, <2>4, <3>2 DEF CreationLabels
  <2> QED BY <2>1, <2>2, <2>3, <2>4
<1> QED BY <1>1, <1>2, <1>4, <1>5, <1>6, <1>7

LEMMA TakeOverKeeps == ASSUME Inv, NEW r \in Messages, TakeOver(r) PROVE Inv'
<1> DEFINE n == at[r]
<1>1. /\ UNCHANGED <<nodeVars, bus, pipe, deleted, scanVars, faults, reverted>>
      /\ pc[r] = "claiming" /\ UNCHANGED local
  BY DEF TakeOver, nodeVars
<1>2. r \in Requests /\ n \in Nodes /\ seen[r] \in Nodes /\ pc[r] \in CreationLabels
  BY <1>1, HandledMessage DEF Outcomes, CreationLabels, Inv, SeenInv
<1>3. /\ SeenInv' /\ MutexInv' /\ TransportInv' /\ JoinInv' /\ ClaimInv'
      /\ pending' \in [Nodes -> Requests \cup {Nobody}]
      /\ pc' \in [Requests -> Labels]
      /\ at' \in [Requests -> Nodes \cup {NoNode}]
      /\ seen' \in [Requests -> Nodes \cup {NoNode}]
      /\ owner' \in Nodes \cup {NoNode} /\ claims' \in [Nodes -> Nat]
  <2>1. CASE Claimable(seen[r])
    <3>1. Claim(n, seen[r]) /\ Goto(r, "building") /\ UNCHANGED <<pending, at, seen>>
      BY <2>1 DEF TakeOver
    <3>2. ClaimInv' /\ owner' \in Nodes /\ claims' \in [Nodes -> Nat]
      BY <1>1, <1>2, <2>1, <3>1, ClaimKeeps
    <3>3. /\ SeenInv' /\ MutexInv' /\ TransportInv' /\ JoinInv'
          /\ pc' \in [Requests -> Labels]
      BY <1>1, <1>2, <3>1, CreationAdvances
    <3>4. /\ pending' \in [Nodes -> Requests \cup {Nobody}]
          /\ at' \in [Requests -> Nodes \cup {NoNode}]
          /\ seen' \in [Requests -> Nodes \cup {NoNode}]
      BY <3>1 DEF Inv, TypeOK
    <3> QED BY <3>2, <3>3, <3>4
  <2>2. CASE ~Claimable(seen[r])
    <3>1. Resolve(r, "failed") /\ UNCHANGED <<owner, claims>> /\ "failed" \in Outcomes
      BY <2>2 DEF TakeOver, Outcomes
    <3>2. ClaimInv' /\ owner' \in Nodes \cup {NoNode} /\ claims' \in [Nodes -> Nat]
      BY <1>1, <3>1 DEF Inv, ClaimInv, TypeOK
    <3> QED BY <1>1, <1>2, <3>1, <3>2, ResolveKeeps
  <2> QED BY <2>1, <2>2
<1>4. TypeOK'
  BY <1>1, <1>3 DEF Inv, TypeOK, nodeVars, scanVars
<1> QED BY <1>3, <1>4 DEF Inv

\* What a request writes, and what a node appends, is a write of the protocol.
LEMMA SendType ==
  ASSUME Inv, NEW n \in Nodes, NEW w \in Writes, Send(n, w)
  PROVE  pipe' \in [Nodes -> Seq(Writes)]
<1>1. pipe \in [Nodes -> Seq(Writes)] /\ pipe' = [pipe EXCEPT ![n] = Append(@, w)]
  BY DEF Send, Inv, TypeOK
<1>2. Append(pipe[n], w) \in Seq(Writes)
  BY <1>1
<1> QED BY <1>1, <1>2

LEMMA BuildKeeps == ASSUME Inv, NEW r \in Requests, Build(r) PROVE Inv'
<1> DEFINE n == at[r]
<1>1. /\ UNCHANGED <<up, beat, ended, owner, pending, at, seen, deleted, scanVars, faults, history>>
      /\ pc[r] = "building" /\ pc[r] \in CreationLabels
      /\ local' = [local EXCEPT ![n] = TRUE] /\ bus' = n /\ Goto(r, "advertising")
      /\ Send(n, IF r = Initialize THEN Create(n) ELSE WriteBack(seen[r]))
  BY DEF Build, CreationLabels
<1>2. /\ SeenInv' /\ MutexInv' /\ TransportInv' /\ JoinInv'
      /\ pc' \in [Requests -> Labels] /\ n \in Nodes
  BY <1>1, CreationAdvances
<1>3. pipe' \in [Nodes -> Seq(Writes)]
  <2>1. seen[r] \in Nodes
    BY <1>1 DEF Inv, SeenInv
  <2>2. Create(n) \in Writes /\ WriteBack(seen[r]) \in Writes
    BY <1>2, <2>1 DEF Create, WriteBack, Writes
  <2>3. (IF r = Initialize THEN Create(n) ELSE WriteBack(seen[r])) \in Writes
    BY <2>2
  <2> QED BY <1>1, <1>2, <2>3, SendType
<1>4. TypeOK'
  BY <1>1, <1>2, <1>3 DEF Inv, TypeOK, scanVars, history
<1>5. ClaimInv'
  BY <1>1 DEF Inv, ClaimInv, history
<1> QED BY <1>2, <1>4, <1>5 DEF Inv

LEMMA AdvertisedKeeps == ASSUME Inv, NEW r \in Requests, Advertised(r) PROVE Inv'
<1>1. /\ UNCHANGED <<nodeVars, storeVars, pipe, deleted, scanVars, faults, history>>
      /\ pc[r] \in CreationLabels /\ Resolve(r, "served") /\ "served" \in Outcomes
      /\ UNCHANGED local
  BY DEF Advertised, CreationLabels, Outcomes, nodeVars
<1>2. /\ SeenInv' /\ MutexInv' /\ TransportInv' /\ JoinInv'
      /\ pending' \in [Nodes -> Requests \cup {Nobody}]
      /\ pc' \in [Requests -> Labels]
      /\ at' \in [Requests -> Nodes \cup {NoNode}]
      /\ seen' \in [Requests -> Nodes \cup {NoNode}]
  BY <1>1, ResolveKeeps
<1>3. TypeOK'
  BY <1>1, <1>2 DEF Inv, TypeOK, nodeVars, storeVars, scanVars, history
<1>4. ClaimInv'
  BY <1>1 DEF Inv, ClaimInv, storeVars, history
<1> QED BY <1>2, <1>3, <1>4 DEF Inv

LEMMA DeleteKeeps ==
  ASSUME Inv, NEW n \in Nodes, NEW d \in Deletes, Delete(d, n) PROVE Inv'
<1>1. /\ UNCHANGED <<up, beat, owner, requestVars, scanVars, faults, history>>
      /\ deleted' = deleted \cup {d} /\ ended' = [ended EXCEPT ![n] = TRUE]
      /\ local' \in {local, [local EXCEPT ![n] = FALSE]}
      /\ bus' \in {bus, NoNode}
  BY DEF Delete
<1>2. pipe' \in [Nodes -> Seq(Writes)]
  <2>1. CASE local[n]
    BY <2>1, SendType DEF Delete, Writes
  <2>2. CASE ~local[n]
    BY <2>2 DEF Delete, Inv, TypeOK
  <2> QED BY <2>1, <2>2
<1>3. TypeOK'
  BY <1>1, <1>2 DEF Inv, TypeOK, requestVars, scanVars, history
<1>4. ClaimInv'
  BY <1>1 DEF Inv, ClaimInv, history
<1>5. \A m \in Nodes : local'[m] => local[m]
  BY <1>1 DEF Inv, TypeOK
<1>6. SeenInv' /\ JoinInv'
  BY <1>1 DEF Inv, SeenInv, JoinInv, requestVars
<1>7. MutexInv'
  BY <1>1, <1>5 DEF Inv, MutexInv, requestVars
<1>8. TransportInv'
  BY <1>1, <1>5 DEF Inv, TransportInv, requestVars
<1> QED BY <1>3, <1>4, <1>6, <1>7, <1>8 DEF Inv

\* A crash takes the requests of its node, creations and joiners alike.
LEMMA CrashKeeps == ASSUME Inv, NEW n \in Nodes, Crash(n) PROVE Inv'
<1> DEFINE S == {r \in Requests : at[r] = n}
<1>1. /\ UNCHANGED <<beat, storeVars, deleted, history>>
      /\ up' = [up EXCEPT ![n] = FALSE] /\ local' = [local EXCEPT ![n] = FALSE]
      /\ ended' = [ended EXCEPT ![n] = FALSE] /\ pending' = [pending EXCEPT ![n] = Nobody]
      /\ pipe' = [pipe EXCEPT ![n] = <<>>] /\ faults' = faults + 1
      /\ End(S, "failed") /\ ScanEnds(n)
      /\ S \in SUBSET Requests /\ "failed" \in Outcomes
  BY DEF Crash, Fault, Outcomes
<1>2. /\ pc' \in [Requests -> Labels]
      /\ at' \in [Requests -> Nodes \cup {NoNode}]
      /\ seen' \in [Requests -> Nodes \cup {NoNode}]
      /\ SeenInv'
      /\ \A r \in Requests : r \in S => pc'[r] = "failed" /\ at'[r] = NoNode
      /\ \A r \in Requests : r \notin S => pc'[r] = pc[r] /\ at'[r] = at[r]
  BY <1>1, EndType
<1>3. TypeOK'
  <2>1. /\ up' \in [Nodes -> BOOLEAN] /\ local' \in [Nodes -> BOOLEAN]
        /\ ended' \in [Nodes -> BOOLEAN] /\ faults' \in Nat
        /\ pending' \in [Nodes -> Requests \cup {Nobody}]
    BY <1>1 DEF Inv, TypeOK
  <2>2. pipe' \in [Nodes -> Seq(Writes)]
    <3>1. <<>> \in Seq(Writes)
      OBVIOUS
    <3> QED BY <1>1, <3>1 DEF Inv, TypeOK
  <2>3. /\ scan' \in [Nodes -> {"idle", "listed", "claiming"}]
        /\ alive' \in [Nodes -> SUBSET Nodes]
        /\ orphan' \in [Nodes -> Nodes \cup {NoNode}]
    BY <1>1, ScanEndsType
  <2> QED BY <1>1, <1>2, <2>1, <2>2, <2>3 DEF Inv, TypeOK, storeVars, history
<1>4. ClaimInv'
  BY <1>1 DEF Inv, ClaimInv, storeVars, history
<1>5. /\ pending \in [Nodes -> Requests \cup {Nobody}] /\ local \in [Nodes -> BOOLEAN]
      /\ \A m \in Nodes : local'[m] => local[m]
      /\ pending'[n] = Nobody /\ \A m \in Nodes : m # n => pending'[m] = pending[m]
  BY <1>1 DEF Inv, TypeOK
<1>6. MutexInv'
  <2>1. ASSUME NEW m \in Nodes, NEW r \in Requests
        PROVE  pending'[m] = r <=> (at'[r] = m /\ pc'[r] \in CreationLabels)
    <3>1. r # Nobody /\ m # NoNode
      BY RequestFacts
    <3>2. CASE r \in S
      BY <1>2, <1>5, <3>1, <3>2 DEF Inv, MutexInv, CreationLabels
    <3>3. CASE r \notin S /\ m = n
      BY <1>2, <1>5, <3>1, <3>3
    <3>4. CASE r \notin S /\ m # n
      BY <1>2, <1>5, <3>4 DEF Inv, MutexInv
    <3> QED BY <3>2, <3>3, <3>4
  <2>2. ASSUME pc'[Initialize] = "idle"
        PROVE  /\ \A m \in Nodes : pending'[m] = Nobody /\ ~local'[m]
               /\ \A r \in Messages : pc'[r] = "idle"
    <3>1. pc[Initialize] = "idle"
      BY <1>2, <2>2, RequestFacts
    <3>2. /\ \A m \in Nodes : pending[m] = Nobody /\ ~local[m]
          /\ \A r \in Messages : pc[r] = "idle" /\ r \in Requests /\ at[r] = NoNode
      BY <3>1, RequestFacts DEF Inv, MutexInv
    <3>3. \A r \in Messages : r \notin S
      BY <3>2, RequestFacts
    <3> QED BY <1>2, <1>5, <3>2, <3>3
  <2>3. \A r \in Requests :
          /\ pc'[r] \in Outcomes \cup {"idle"} => at'[r] = NoNode
          /\ pc'[r] \notin Outcomes \cup {"idle"} => at'[r] \in Nodes
    BY <1>1, <1>2 DEF Inv, MutexInv
  <2> QED BY <2>1, <2>2, <2>3 DEF MutexInv
<1>7. TransportInv'
  BY <1>2, <1>5 DEF Inv, TransportInv
<1>8. JoinInv'
  <2> SUFFICES ASSUME NEW r \in Requests, pc'[r] = "joined" PROVE pending'[at'[r]] # Nobody
    BY DEF JoinInv
  <2>1. r \notin S /\ pc[r] = "joined" /\ at'[r] = at[r] /\ at[r] # n
    BY <1>2
  <2>2. pending[at[r]] # Nobody /\ at[r] \in Nodes
    BY <2>1 DEF Inv, JoinInv, MutexInv, Outcomes
  <2> QED BY <1>5, <2>1, <2>2
<1> QED BY <1>2, <1>3, <1>4, <1>6, <1>7, <1>8 DEF Inv

LEMMA StutterKeeps == Inv /\ UNCHANGED vars => Inv'
<1> SUFFICES ASSUME Inv, UNCHANGED vars PROVE Inv'
  OBVIOUS
<1>1. TypeOK'
  BY DEF Inv, TypeOK, vars, nodeVars, storeVars, requestVars, scanVars, history
<1>2. ClaimInv'
  BY DEF Inv, ClaimInv, vars, storeVars, history
<1> QED BY <1>1, <1>2, RequestsUntouched DEF Inv, vars, nodeVars

\* The steps, grouped as the lemmas above treat them.
LEMMA NodeSteps == Next =>
  \/ \E n \in Nodes : \/ Beat(n) \/ Lapse(n) \/ Restart(n)
                      \/ ScanStart(n) \/ ScanRead(n) \/ ScanFails(n)
                      \/ ScanClaim(n) \/ ApplyWrite(n) \/ StartInitialize(n) \/ Crash(n)
  \/ \E n \in Nodes : (\E r \in Messages : Arrive(r, n)) \/ (\E d \in Deletes : Delete(d, n))
  \/ \E r \in Messages : LookupBus(r) \/ ReadStored(r) \/ TakeOver(r)
  \/ \E r \in Requests : Build(r) \/ Advertised(r)
  \/ ExpireSession \/ ExpireBus
BY DEF Next

LEMMA StepInv == Inv /\ [Next]_vars => Inv'
<1> SUFFICES ASSUME Inv, [Next]_vars PROVE Inv'
  OBVIOUS
<1>1. CASE UNCHANGED vars
  BY <1>1, StutterKeeps
<1>2. CASE Next
  <2>1. ASSUME NEW n \in Nodes,
               \/ Beat(n) \/ Lapse(n) \/ Restart(n)
               \/ ScanStart(n) \/ ScanRead(n) \/ ScanFails(n)
               \/ ScanClaim(n) \/ ApplyWrite(n) \/ StartInitialize(n) \/ Crash(n)
        PROVE  Inv'
    BY <2>1, HeartbeatKeeps, ScanKeeps, ScanClaimKeeps, ApplyWriteKeeps,
       StartInitializeKeeps, CrashKeeps
  <2>2. ASSUME NEW n \in Nodes, NEW r \in Messages, Arrive(r, n) PROVE Inv'
    BY <2>2, ArriveKeeps
  <2>3. ASSUME NEW n \in Nodes, NEW d \in Deletes, Delete(d, n) PROVE Inv'
    BY <2>3, DeleteKeeps
  <2>4. ASSUME NEW r \in Messages, LookupBus(r) \/ ReadStored(r) \/ TakeOver(r) PROVE Inv'
    BY <2>4, LookupBusKeeps, ReadStoredKeeps, TakeOverKeeps
  <2>5. ASSUME NEW r \in Requests, Build(r) \/ Advertised(r) PROVE Inv'
    BY <2>5, BuildKeeps, AdvertisedKeeps
  <2>6. CASE ExpireSession \/ ExpireBus
    BY <2>6, ExpireKeeps
  <2> QED BY <1>2, <2>1, <2>2, <2>3, <2>4, <2>5, <2>6, NodeSteps
<1> QED BY <1>1, <1>2

LEMMA Invariance == Spec => []Inv
BY InitInv, StepInv, PTL DEF Spec

----------------------------------------------------------------------------
(* The theorems                                                            *)

\* The variables keep their types: in particular a record names a node, and the
\* writes of every node are writes of the protocol.
THEOREM TypeCorrect == Spec => []TypeOK
<1>1. Inv => TypeOK
  BY DEF Inv
<1> QED BY <1>1, Invariance, PTL

\* session-takeover.ts: until a write-back replaces what the store says, a
\* session is claimed at most once from an owner, whatever the interleaving of
\* scanners, takeovers, deletions, expiries and crashes.
THEOREM ClaimedOnceCorrect == Spec => []ClaimedOnce
<1>1. Inv => ClaimedOnce
  BY DEF Inv, ClaimInv, ClaimedOnce
<1> QED BY <1>1, Invariance, PTL

\* transport.registry.ts: the creation mutex keeps creations of a node apart from
\* each other and from a transport the node already holds.
THEOREM OneTransport == Spec => []OneTransportPerNode
<1>1. Inv => OneTransportPerNode
  <2> SUFFICES ASSUME Inv PROVE OneTransportPerNode
    OBVIOUS
  <2>1. ASSUME NEW q \in Requests, NEW r \in Requests,
               Creating(q), Creating(r), at[q] = at[r]
        PROVE  q = r
    <3>1. at[q] \in Nodes
      BY <2>1 DEF Creating, Inv, MutexInv, Outcomes
    <3>2. pending[at[q]] = q /\ pending[at[q]] = r
      BY <2>1, <3>1 DEF Creating, CreationLabels, Inv, MutexInv
    <3> QED BY <3>2
  <2>2. TransportInv
    BY DEF Inv
  <2> QED BY <2>1, <2>2 DEF OneTransportPerNode, TransportInv
<1> QED BY <1>1, Invariance, PTL

\* transport.registry.ts: a message never waits for a creation that has settled
\* or died.
THEOREM JoinersServed == Spec => []JoinersHaveCreator
<1>1. Inv => JoinersHaveCreator
  <2> SUFFICES ASSUME Inv, NEW r \in Requests, pc[r] = "joined"
               PROVE  \E q \in Requests : pending[at[r]] = q /\ at[q] = at[r] /\ Creating(q)
    BY DEF JoinersHaveCreator
  <2>1. at[r] \in Nodes
    BY DEF Inv, MutexInv, Outcomes
  <2>2. pending[at[r]] \in Requests
    BY <2>1 DEF Inv, JoinInv, TypeOK
  <2>3. at[pending[at[r]]] = at[r] /\ pc[pending[at[r]]] \in CreationLabels
    BY <2>1, <2>2 DEF Inv, MutexInv
  <2> QED BY <2>2, <2>3 DEF Creating, CreationLabels
<1> QED BY <1>1, Invariance, PTL

----------------------------------------------------------------------------
(* What a scan does to a healthy deployment                                *)

\* Until the first fault every node runs and beats, so every snapshot is complete.
Healthy ==
  faults = 0 =>
    /\ \A n \in Nodes : up[n] /\ beat[n]
    /\ \A n \in Nodes : /\ scan[n] # "claiming"
                        /\ scan[n] = "listed" => alive[n] = Nodes

\* The steps of the scans and of the environment, which are all that heartbeats,
\* snapshots and faults depend on.
LEMMA HealthyScan ==
  ASSUME TypeOK, Healthy, NEW n \in Nodes,
         ScanStart(n) \/ ScanRead(n) \/ ScanClaim(n) \/ ScanFails(n)
  PROVE  Healthy'
<1>1. /\ faults \in Nat /\ scan \in [Nodes -> {"idle", "listed", "claiming"}]
      /\ alive \in [Nodes -> SUBSET Nodes] /\ owner \in Nodes \cup {NoNode}
  BY DEF TypeOK
<1>2. CASE ScanStart(n)
  BY <1>1, <1>2 DEF ScanStart, Healthy, nodeVars
<1>3. CASE ScanRead(n)
  <2> SUFFICES ASSUME faults = 0 PROVE Healthy'
    BY <1>3 DEF ScanRead, Healthy
  <2>1. alive[n] = Nodes
    BY <1>3 DEF ScanRead, Healthy
  <2>2. Spares(n)
    BY <1>1, <2>1 DEF Spares
  <2>3. ScanEnds(n)
    BY <1>3, <2>2 DEF ScanRead
  <2> QED BY <1>1, <1>3, <2>3 DEF ScanRead, ScanEnds, Healthy, nodeVars
<1>4. CASE ScanClaim(n)
  BY <1>1, <1>4 DEF ScanClaim, ScanEnds, Healthy, nodeVars
<1>5. CASE ScanFails(n)
  BY <1>1, <1>5 DEF ScanFails, Fault, Healthy
<1> QED BY <1>2, <1>3, <1>4, <1>5

LEMMA HealthyEnvironment ==
  ASSUME TypeOK, Healthy, NEW n \in Nodes, Beat(n) \/ Lapse(n) \/ Crash(n) \/ Restart(n)
  PROVE  Healthy'
<1>1. faults \in Nat
  BY DEF TypeOK
<1>2. CASE Beat(n)
  BY <1>2 DEF Beat, Healthy, scanVars
<1>3. CASE Lapse(n)
  BY <1>1, <1>3 DEF Lapse, Fault, Healthy, scanVars
<1>4. CASE Crash(n)
  BY <1>1, <1>4 DEF Crash, Fault, Healthy
<1>5. CASE Restart(n)
  BY <1>5 DEF Restart, Healthy, scanVars
<1> QED BY <1>2, <1>3, <1>4, <1>5

\* Every other step leaves them alone.
LEMMA HealthyStep == TypeOK /\ Healthy /\ [Next]_vars => Healthy'
<1> SUFFICES ASSUME TypeOK, Healthy, [Next]_vars PROVE Healthy'
  OBVIOUS
<1>1. ASSUME NEW n \in Nodes,
             ScanStart(n) \/ ScanRead(n) \/ ScanClaim(n) \/ ScanFails(n)
      PROVE  Healthy'
  BY <1>1, HealthyScan
<1>2. ASSUME NEW n \in Nodes, Beat(n) \/ Lapse(n) \/ Crash(n) \/ Restart(n)
      PROVE  Healthy'
  BY <1>2, HealthyEnvironment
<1>3. ASSUME UNCHANGED <<up, beat, scan, alive, faults>> PROVE Healthy'
  BY <1>3 DEF Healthy
<1>4. ASSUME NEW n \in Nodes, StartInitialize(n) \/ ApplyWrite(n)
      PROVE  UNCHANGED <<up, beat, scan, alive, faults>>
  BY <1>4 DEF StartInitialize, ApplyWrite, nodeVars, scanVars
<1>5. ASSUME NEW n \in Nodes, NEW r \in Messages, Arrive(r, n)
      PROVE  UNCHANGED <<up, beat, scan, alive, faults>>
  BY <1>5 DEF Arrive, nodeVars, scanVars
<1>6. ASSUME NEW n \in Nodes, NEW d \in Deletes, Delete(d, n)
      PROVE  UNCHANGED <<up, beat, scan, alive, faults>>
  BY <1>6 DEF Delete, scanVars
<1>7. ASSUME NEW r \in Messages, LookupBus(r) \/ ReadStored(r) \/ TakeOver(r)
      PROVE  UNCHANGED <<up, beat, scan, alive, faults>>
  BY <1>7 DEF LookupBus, ReadStored, TakeOver, nodeVars, scanVars
<1>8. ASSUME NEW r \in Requests, Build(r) \/ Advertised(r)
      PROVE  UNCHANGED <<up, beat, scan, alive, faults>>
  BY <1>8 DEF Build, Advertised, nodeVars, scanVars
<1>9. ASSUME ExpireSession \/ ExpireBus
      PROVE  UNCHANGED <<up, beat, scan, alive, faults>>
  BY <1>9 DEF ExpireSession, ExpireBus, nodeVars, scanVars
<1>10. CASE UNCHANGED vars
  BY <1>3, <1>10 DEF vars, nodeVars, scanVars
<1> QED BY <1>1, <1>2, <1>3, <1>4, <1>5, <1>6, <1>7, <1>8, <1>9, <1>10 DEF Next

\* The orphan scanners leave a healthy deployment alone, for any number of nodes.
THEOREM HealthySparedHolds == Spec => []HealthySpared
<1>1. Init => Healthy
  BY DEF Init, Healthy
<1>2. Healthy => HealthySpared
  BY DEF Healthy, HealthySpared
<1> QED BY <1>1, <1>2, HealthyStep, TypeCorrect, PTL DEF Spec
=============================================================================
