SPECIFICATION FairSpec
CONSTANTS
  c1 = c1
  c2 = c2
  c3 = c3
  n1 = n1
  n2 = n2
  Calls = {c1, c2, c3}
  Queueing = {c1, c3}
  Nodes = {n1, n2}
  NodeOf <- MCNodeOf
  MaxConcurrent = 1
  MaxFaults = 1
  MaxResets = 1
INVARIANT TypeOK CounterExact
PROPERTY QueueReturns ImplementsLimit
CHECK_DEADLOCK FALSE
