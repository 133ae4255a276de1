CONSTANTS
  Parent = parent
  Worker = worker
  Cancellers = {c1}
  Readers = {r1}
  MaxFaults = 2
SPECIFICATION FairSpec
INVARIANT TypeOK OutcomeFits OrphansAreDead
PROPERTY ImplementsRecord OrphansReported
CHECK_DEADLOCK FALSE
