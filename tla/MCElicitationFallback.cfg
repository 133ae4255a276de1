SPECIFICATION FairSpec
CONSTANTS
  c0 = c0
  d1 = d1
  d2 = d2
  Original = c0
  Answerers = {d1, d2}
  Steps = 2
  None = none
  MaxFaults = 1
INVARIANT TypeOK RunTookRecord ExecutionHappened NoIdleSubscription
PROPERTY CallsReturn
CHECK_DEADLOCK FALSE
