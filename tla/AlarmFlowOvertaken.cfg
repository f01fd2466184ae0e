SPECIFICATION Spec
CONSTANTS
  t1 = t1
  t2 = t2
  p1 = p1
  p2 = p2
  p3 = p3
  n1 = n1
  n2 = n2
  Task = {t1, t2}
  Point = {p1, p3}
  Name = {n1, n2}
  NameOf <- OwnNames
  NoAlarm = NoAlarm
  MaxReadings = 3
  MaxFailures = 0
  MaxCancels = 0
  MaxRestarts = 0
SYMMETRY TaskSymmetry
INVARIANTS
  QuietOpenRowsActive
CHECK_DEADLOCK FALSE
