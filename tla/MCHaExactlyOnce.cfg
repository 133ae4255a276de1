SPECIFICATION Spec
CONSTANTS
  n1 = n1
  n2 = n2
  n3 = n3
  m1 = m1
  m2 = m2
  d1 = d1
  Nodes = {n1, n2, n3}
  NoNode = none
  Messages = {m1}
  Initialize = init
  Deletes = {}
  MaxFaults = 1
INVARIANT ExactlyOneClaim
CHECK_DEADLOCK FALSE
