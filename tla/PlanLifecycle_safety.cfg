SPECIFICATION Spec
CONSTANTS
  p1 = p1
  p2 = p2
  t1 = t1
  t2 = t2
  Procs <- TwoProcs
  MaxVersion = 2
  Tasks <- TwoTasks
INVARIANTS
  RunIsApproved
  OwnerCanDecide
PROPERTIES
  VersionsKept
SYMMETRY Symmetric
CHECK_DEADLOCK FALSE
