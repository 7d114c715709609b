SPECIFICATION Spec
CONSTANTS
  Threads = {t1, t2, t3}
  Main = t1
  Locks = {}
  AutoReset = {e1, e2}
  ManualReset = {m}
  WaitArrays <- TwoEvents
  Abortable = {}
  Suspendable = {}
  MaxAborts = 0
  MaxRecursion = 1
  NoThread = NoThread
  NoLock = NoLock
  e1 = e1
  e2 = e2
SYMMETRY OtherThreads
INVARIANTS
  WaitHasReason
  JoinSeesEnd
PROPERTIES
  SetFreesWaiter
  SignalSpentOnce
CHECK_DEADLOCK FALSE
