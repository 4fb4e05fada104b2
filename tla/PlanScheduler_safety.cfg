SPECIFICATION Spec
CONSTANTS
  Tasks <- Three
  Deps <- Join
  Priority <- JoinPriority
  MaxParallel = 2
  MaxAttempts = 2
  SpentAttempts <- Fresh
  MaxRequests = 2
  MaxFaults = 1
INVARIANTS
  DependenciesFirst
  SchedulerInv
  WorkflowKeepsRows
PROPERTIES
  FailureHasCause
  PromiseKept
CHECK_DEADLOCK FALSE
