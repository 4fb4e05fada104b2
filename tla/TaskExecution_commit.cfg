SPECIFICATION Spec
CONSTANTS
  Files = {a, b}
  Workers = {k1}
  MaxAttempts = 2
  MaxReviews = 2
  MaxDeliveries = 2
  MaxFaults = 0
INVARIANT
  ApprovedIsCommitted
CHECK_DEADLOCK FALSE
