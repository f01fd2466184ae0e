SPECIFICATION Spec
CONSTANTS
  q1 = q1
  q2 = q2
  Request = {q1, q2}
  MaxRuns = 1
  MaxStops = 1
  MaxFailures = 0
INVARIANTS
  AlwaysReleased
CHECK_DEADLOCK FALSE
