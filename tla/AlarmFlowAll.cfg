SPECIFICATION FairSpec
CONSTANTS
  t1 = t1
  t2 = t2
  p1 = p1
  p2 = p2
  p3 = p3
  n1 = n1
  n2 = n2
  Task = {t1, t2}
  Point = {p1, p2, p3}
  Name = {n1, n2}
  NameOf <- SharedName
  NoAlarm = NoAlarm
  MaxReadings = 3
  MaxFailures = 1
  MaxCancels = 1
  MaxRestarts = 1
INVARIANTS
  TypeOK
  OpenNeverCleared
  OpenIsStored
  StoredOpenAccounted
  QuietListMatches
PROPERTIES
  RaisedEventuallyStored
CHECK_DEADLOCK FALSE
