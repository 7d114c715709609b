SPECIFICATION Spec
CONSTANTS
  Threads = {t1, t2, t3}
  Main = t1
  NoThread = NoThread
  SystemHighest = 1
  Priorities = {0, 1}
  Wakers = {t1}
  Yielders = {t1, t2}
  Adjustable = {t2}
  Maximum = 6
  Adjustment = 3
  MaxContextSwitch = 1
INVARIANTS
  TypeOK
  CountersInRange
  StreakLimited
PROPERTIES
  YieldsToEqual
  NoStarvation
