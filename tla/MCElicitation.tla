---------------------------- MODULE MCElicitation ----------------------------
(* Two asks of one session: they overlap, or the second follows the answer to *)
(* the first while the flow of that answer is still under way.                *)
EXTENDS Elicitation

CONSTANTS a1, a2
=============================================================================
