SPECIFICATION Spec
CONSTANTS
  v1 = v1
  v2 = v2
  q1 = q1
  Point = {1, 2}
  Late = {2}
  Value = {v1, v2}
  Request = {q1}
  NoValue = NoValue
  MaxLoops = 3
  MaxStops = 2
  MaxFaults = 1
  MaxCommands = 1
  MaxFailures = 1
SYMMETRY ValueSymmetry
INVARIANTS
  TypeOK
  StatusMatchesLoops
  LastValueAgrees
PROPERTIES
  StuckStays
CHECK_DEADLOCK FALSE
