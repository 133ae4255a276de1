---------------------------- MODULE MCHaSessions ----------------------------
(* MCHaSessions.cfg: two pods and two messages, so that the scanner and a    *)
(* request of one pod can race for the session of the other, and two         *)
(* messages can meet at one creation; one DELETE.  MCHaAdoption.cfg: one     *)
(* message, and the death of the owner must be noticed.                      *)
EXTENDS HaSessions, TLC

CONSTANTS n1, n2, n3, m1, m2, d1

\* Pods are interchangeable, and so are messages.
Symmetric == Permutations({n1, n2}) \cup Permutations({m1, m2})
=============================================================================
