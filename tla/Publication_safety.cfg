SPECIFICATION SumSpec
CONSTANTS
  a1 = a1  a2 = a2  f1 = f1  f2 = f2  other = other  p1 = p1  d1 = d1  d2 = d2
  Files = {f1, f2}  Foreign = other  GitLab = TRUE  Workers = {a1, a2}
  MaxCommits = 1  MaxMeddling = 1  MaxFaults = 2
  Tasks = {1, 2}  Publishers = {p1}  Deliverers = {d1, d2}  MaxBroken = 2
INVARIANTS
  ApplyIsExact
  DeliveryIsExact
PROPERTIES
  FailedIsApplied
  ProposalsKeepDecisions
CHECK_DEADLOCK FALSE
