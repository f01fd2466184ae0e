CONSTANTS
  Clients = {c1, c2}
  MaxMessages = 2
  Devices = {"d1", "d2"}
  KnxDevices = {"d1", "d2"}
  PointsOf <- MCPointsOf
  NamesOf <- MCNamesOf
  Tasks = {"boot", "t1"}
  Boot = "boot"
  MaxId = 4
  Addresses = {"g1", "g2"}
  Values = {"v", "w"}
  Links = {1, 2}
  MaxFlight = 2
SPECIFICATION Spec
INVARIANTS
  WatchersTold
  SamplesOfOwnPoint
  GroupValueAgrees
PROPERTY PublicationsEnd
CHECK_DEADLOCK FALSE
