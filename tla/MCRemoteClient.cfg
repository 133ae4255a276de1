SPECIFICATION FairSpec
CONSTANTS
  k1 = k1
  k2 = k2
  r1 = r1
  r2 = r2
  None = None
  Clients <- MCClients
  Runs <- MCRuns
  UnhealthyThreshold = 2
  HealthyThreshold = 1
  MaxAttempts = 1
  MaxRequests = 2
  MaxCalls = 1
  MaxFaults = 1
INVARIANT TypeOK Monitored Reconnectable HealerLeft
CHECK_DEADLOCK FALSE
PROPERTY Heals
