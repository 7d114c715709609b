SPECIFICATION Spec
CONSTANTS
  Ports = {p1, p2}
  Size = 2
  MaxEvents = 4
  Faults = {"record", "frame", "thread"}
  Polled = TRUE
  NoRecord = NoRecord
INVARIANTS
  TypeOK
  InOrder
PROPERTIES
  NothingLost
  ReleaseCleans
  EventuallyServed
CHECK_DEADLOCK FALSE
