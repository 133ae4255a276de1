---------------------------- MODULE BoundedEntry ----------------------------
(***************************************************************************)
(* What a limit of concurrent executions promises: nobody enters while the *)
(* limit's worth of entrants is inside, until an operator voids the limit. *)
(***************************************************************************)
EXTENDS Naturals, FiniteSets

CONSTANTS Entrants, Limit

VARIABLES inside, voided

Init == inside = {} /\ voided = FALSE

Enter(e) ==
  /\ e \notin inside
  /\ voided \/ Cardinality(inside) < Limit
  /\ inside' = inside \cup {e}
  /\ UNCHANGED voided

\* A crash makes several leave at once.
Leave(S) ==
  /\ inside' = inside \ S
  /\ UNCHANGED voided

Void == voided' = TRUE /\ UNCHANGED inside

Next ==
  \/ \E e \in Entrants : Enter(e)
  \/ \E S \in SUBSET inside : Leave(S)
  \/ Void

Spec == Init /\ [][Next]_<<inside, voided>>
=============================================================================
