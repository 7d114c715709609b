SPECIFICATION Spec
CONSTANTS
  Timers = {c1, c2}
  InIsr = {c1}
  MaxTime = 4
  MaxDelta = 3
  MaxDiff = 2
  Masks <- TimerAndDevice
  SleepRunsIsr = TRUE
INVARIANTS
  AssertDue
CHECK_DEADLOCK FALSE
