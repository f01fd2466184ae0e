SPECIFICATION FairSpec
CONSTANTS
  MaxQueue = 2
  ReasoningEnabled = TRUE
  AutoWorkOrders = TRUE
  MaxAlarms = 4
  Point = {p1, p2}
  MaxItems = 3
  MaxAcks = 1
  p1 = p1
  p2 = p2
INVARIANTS
  TypeOK
  EveryAlarmAccounted
  FeedInOrder
PROPERTIES
  ImplementsFifo
  QueuedEventuallyEnriched
CHECK_DEADLOCK FALSE
