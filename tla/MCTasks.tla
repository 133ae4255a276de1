------------------------------ MODULE MCTasks ------------------------------
(* Two nodes: the home of the task, where it is created, runs and receives a *)
(* tasks/cancel, and a second one with two tasks/result requests.             *)
EXTENDS Tasks

CONSTANTS n1, n2, c1, w1, w2, cr, ru

MCNodeOf == [p \in {c1, w1, w2, cr, ru} |-> IF p \in {c1, cr, ru} THEN n1 ELSE n2]
=============================================================================
