SPECIFICATION Spec
CONSTANTS
  Threads = {t1, t2, t3}
  Main = t1
  NoThread = NoThread
  SystemHighest = 2
  Priorities = {1}
  Wakers = {t1, t2}
  Yielders = {t1}
  Adjustable = {}
  Maximum = 10
  Adjustment = 5
  MaxContextSwitch = 1
PROPERTIES
  HighestRuns
