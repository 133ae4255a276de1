----------------------------- MODULE TaskRecord -----------------------------
(***************************************************************************)
(* What a task store promises of one record, whichever runner and requests *)
(* write it without locking: it is created once and never comes back once  *)
(* it is gone.  What became of the task is decided only by a party that    *)
(* saw it at work or that a fault made give up on it; whoever keeps other  *)
(* fields of the record up to date puts back, once, what it had read.      *)
(***************************************************************************)
EXTENDS Naturals

CONSTANTS
  Parties,  \* who may decide
  Keepers,  \* who updates a field and puts the rest of the record back
  Outcomes

VARIABLES
  record,   \* [status, outcome]
  entitled, \* the parties that may decide
  copy,     \* what a keeper is about to put back
  troubles  \* the faults so far

vars == <<record, entitled, copy, troubles>>

None == [status |-> "none", outcome |-> "none"]
Working == [status |-> "working", outcome |-> "none"]
Gone == [status |-> "gone", outcome |-> "none"]
Decisions == [status : {"completed", "failed", "cancelled"}, outcome : Outcomes]

\* A keeper has still to read the record, or will not touch it any more.
NotYet == [status |-> "not yet", outcome |-> "none"]
Over == [status |-> "over", outcome |-> "none"]

Stored == record \notin {None, Gone}

Init ==
  /\ record = None /\ entitled = {} /\ troubles = 0
  /\ copy = [k \in Keepers |-> NotYet]

\* A record may have expired when it is created.
Create ==
  /\ record = None /\ record' \in {Working, Gone}
  /\ UNCHANGED <<entitled, copy, troubles>>

Entitle(p) ==
  /\ record.status = "working"
  /\ entitled' = entitled \cup {p}
  /\ UNCHANGED <<record, copy, troubles>>

Decide(p) ==
  /\ p \in entitled /\ Stored
  /\ record' \in Decisions
  /\ entitled' \in {entitled, entitled \ {p}}
  /\ UNCHANGED <<copy, troubles>>

Copy(k) ==
  /\ copy[k] = NotYet /\ Stored
  /\ copy' = [copy EXCEPT ![k] = record]
  /\ UNCHANGED <<record, entitled, troubles>>

PutBack(k) ==
  /\ copy[k] \notin {NotYet, Over} /\ Stored
  /\ record' = copy[k]
  /\ copy' = [copy EXCEPT ![k] = Over]
  /\ UNCHANGED <<entitled, troubles>>

GivenUp(K) == [k \in Keepers |-> IF k \in K THEN Over ELSE copy[k]]

Withdraw ==
  /\ entitled' \in SUBSET entitled
  /\ \E K \in SUBSET Keepers : copy' = GivenUp(K)
  /\ UNCHANGED <<record, troubles>>

Trouble(p) ==
  /\ entitled' \in SUBSET (entitled \cup {p})
  /\ \E K \in SUBSET Keepers : copy' = GivenUp(K)
  /\ troubles' = troubles + 1
  /\ UNCHANGED record

Expire ==
  /\ Stored /\ record' = Gone
  /\ UNCHANGED <<entitled, copy, troubles>>

Next ==
  \/ Create \/ Withdraw \/ Expire
  \/ \E p \in Parties : Entitle(p) \/ Decide(p) \/ Trouble(p)
  \/ \E k \in Keepers : Copy(k) \/ PutBack(k)

Spec == Init /\ [][Next]_vars
=============================================================================
