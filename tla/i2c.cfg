SPECIFICATION Spec
CONSTANTS
  Threads = {t1, t2}
  Devices = {d1, d2}
  MaxUnits = 2
  MaxCalls = 2
  Callback = Callback
  None = None
INVARIANTS
  TypeOK
  NoDangling
  BusServesHead
  WholeTransfers
PROPERTIES
  ExecuteReturns
CHECK_DEADLOCK FALSE
