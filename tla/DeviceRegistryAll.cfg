SPECIFICATION Spec
CONSTANTS
  seed = seed
  real = real
  controller = controller
  plant = plant
  modbus = modbus
  knx = knx
  q1 = q1
  q2 = q2
  s1 = s1
  s2 = s2
  NoDevice = NoDevice
  Device <- ADevice
  Seeded = {seed}
  Configured = {real}
  BACnet = {controller, plant}
  OwnId <- AnOwnId
  Slot = {s1, s2}
  SlotsOf <- ASlotsOf
  Batch <- ABatch
  Request = {q1, q2}
  MaxId = 4
  MaxRequests = 3
  MaxFailures = 1
  MaxRestarts = 1
SYMMETRY RequestSymmetry
VIEW Live
INVARIANTS
  TypeOK
  ReplacedForCause
  StoredAsInMemory
  PointsOfOneDevice
  PolledIsInMemory
CHECK_DEADLOCK FALSE
