SPECIFICATION SumSpec
CONSTANTS
  h1 = h1  u1 = u1  stranger = stranger  f1 = f1  f2 = f2  k1 = k1
  Hooks <- OneHook  Users <- Everyone  Allowed <- Owner  PlanButtons <- PlanButtonsMC
  MaxTexts = 1  MaxPresses = 2  MaxGrants = 2  MaxFailures = 1
  Files = {f1, f2}  Workers = {k1}  MaxAttempts = 2  MaxReviews = 2  MaxDeliveries = 2  MaxFaults = 1
INVARIANTS
  ButtonsAreSafe
  OneLivePlanPerMessage
  OffsetSkipsNothing
  CommitWasReviewed
  RowsTellOutcomes
PROPERTIES
  QueueDrains
  ContractKept
  ExecutionEnds
CHECK_DEADLOCK FALSE
