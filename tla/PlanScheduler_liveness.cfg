SPECIFICATION CancelSpec
CONSTANTS
  Tasks <- Three
  Deps <- Free
  Priority <- JoinPriority
  MaxParallel = 2
  MaxAttempts = 2
  SpentAttempts <- Fresh
  MaxRequests = 2
  MaxFaults = 1
INVARIANT
  ParallelLimit
PROPERTIES
  CancelEndsRun
  RunningMovesOn
CHECK_DEADLOCK FALSE
