SPECIFICATION FirstRun
CONSTANTS
  Tasks <- Two
  Deps <- Independent
  Priority <- Flat
  MaxParallel = 2
  MaxAttempts = 2
  SpentAttempts <- Fresh
  MaxRequests = 1
  MaxFaults = 0
PROPERTY
  BlockedTasksWait
CHECK_DEADLOCK FALSE
