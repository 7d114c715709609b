SPECIFICATION Spec
CONSTANTS
  Timers = {c1, c2, c3}
  InIsr = {c1}
  MaxTime = 3
  MaxDelta = 3
  MaxDiff = 2
  Masks <- TimerAndDevice
  SleepRunsIsr = FALSE
INVARIANTS
  TypeOK
  InterruptComes
  AssertDue
  NoSleepOnWork
PROPERTIES
  WaitReturns
  ImplementsAlarms
CHECK_DEADLOCK FALSE
