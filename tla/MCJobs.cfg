CONSTANTS
  NumSteps = 3
  Workflows <- AllGraphs
  MaxConcurrency = 2
  MaxAttempts = 2
  MaxFaults = 2
SPECIFICATION FairSpec
INVARIANT TypeOK
INVARIANT DependenciesFirst
INVARIANT NeverStuck
INVARIANT AnswerIsTrue
PROPERTY Settles
CHECK_DEADLOCK FALSE
