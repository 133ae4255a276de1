------------------------------- MODULE MCJobs -------------------------------
\* Every graph of three steps, also the ones validateDag refuses; and a chain.
EXTENDS Jobs

AllGraphs == [deps : [1 .. 3 -> SUBSET (1 .. 3)], lenient : {{}, {2}}]
Chain == {[deps |-> [s \in 1 .. 3 |-> {s - 1} \ {0}], lenient |-> {}]}
=============================================================================
