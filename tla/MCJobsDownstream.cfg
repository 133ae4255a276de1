CONSTANTS
  NumSteps = 3
  Workflows <- Chain
  MaxConcurrency = 2
  MaxAttempts = 1
  MaxFaults = 0
SPECIFICATION Spec
INVARIANT DownstreamSkipped
CHECK_DEADLOCK FALSE
