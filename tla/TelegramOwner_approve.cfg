SPECIFICATION SumSpec
CONSTANTS
  h1 = h1  u1 = u1  stranger = stranger  f1 = f1  f2 = f2  k1 = k1
  Hooks <- OneHook
  Users <- Everyone
  Allowed <- Owner
  PlanButtons <- PlanButtonsMC
  MaxTexts = 1
  MaxPresses = 1
  MaxGrants = 1
  MaxFailures = 0
  Files = {f1, f2}  Workers = {k1}  MaxAttempts = 1  MaxReviews = 1  MaxDeliveries = 1  MaxFaults = 0
PROPERTIES
  ApproveButtonApproves
CHECK_DEADLOCK FALSE
