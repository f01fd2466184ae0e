SPECIFICATION FairSpec
CONSTANTS
  q1 = q1
  q2 = q2
  Request = {q1, q2}
  MaxRuns = 3
  MaxStops = 3
  MaxFailures = 1
INVARIANTS
  TypeOK
  EffectUndone
  StatusMatchesRuns
PROPERTIES
  StoppedWindsDown
CHECK_DEADLOCK FALSE
