---------------------------- MODULE MCSemaphore -----------------------------
(* Three calls on two nodes for one slot, two of them willing to queue, so   *)
(* that a refused attempt, a held slot and a leaked one meet.                *)
EXTENDS Semaphore

CONSTANTS c1, c2, c3, n1, n2

MCNodeOf == [c \in Calls |-> IF c = c3 THEN n2 ELSE n1]
=============================================================================
