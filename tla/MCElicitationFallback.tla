------------------------ MODULE MCElicitationFallback ------------------------
(* A tool with two questions and two answers, which may answer the same       *)
(* question at once or form a chain of waiting runs.                          *)
EXTENDS ElicitationFallback

CONSTANTS c0, d1, d2
=============================================================================
