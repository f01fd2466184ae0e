SPECIFICATION Spec
CONSTANTS
  t1 = t1
  t2 = t2
  e1 = e1
  e2 = e2
  Task = {t1, t2}
  Endpoint = {e1, e2}
  Initial = {e1}
  Kind = {"alarm", "value"}
  Wants <- SomeWants
  MaxEvents = 2
  MaxRequests = 2
  MaxFailures = 1
SYMMETRY TaskSymmetry
INVARIANTS
  TypeOK
  MarkIsRight
  ReportsKept
CHECK_DEADLOCK FALSE
