SPECIFICATION Spec
CONSTANTS
  t1 = t1
  t2 = t2
  p1 = p1
  p2 = p2
  v1 = v1
  v2 = v2
  Task = {t1, t2}
  Point = {p1, p2}
  Value = {v1, v2}
  Running = {p1}
  MaxChanges = 4
  MaxFailures = 1
  MaxCancels = 1
SYMMETRY Symmetry
INVARIANTS
  TypeOK
  QuietCopiesAgree
  CommandReachedDevice
PROPERTIES
  ImplementsRegister
CHECK_DEADLOCK FALSE
