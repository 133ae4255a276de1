SPECIFICATION FairSpec
CONSTANTS
  n1 = n1
  n2 = n2
  c1 = c1
  w1 = w1
  w2 = w2
  cr = cr
  ru = ru
  Nodes = {n1, n2}
  Home = n1
  Creator = cr
  Runner = ru
  Cancellers = {c1}
  Waiters = {w1, w2}
  NodeOf <- MCNodeOf
  MaxFaults = 1
INVARIANT TypeOK OutcomeMatchesStatus NoStuckTask ListenersStayConnected
PROPERTY ImplementsRecord WaitersReturn
CHECK_DEADLOCK FALSE
