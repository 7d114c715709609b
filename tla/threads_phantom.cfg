SPECIFICATION Spec
CONSTANTS
  Threads = {t1, t2, t3}
  Main = t1
  Locks = {l1}
  AutoReset = {e1}
  ManualReset = {}
  WaitArrays <- NoArrays
  Abortable = {t2, t3}
  Suspendable = {}
  MaxAborts = 1
  MaxRecursion = 1
  NoThread = NoThread
  NoLock = NoLock
  e1 = e1
  e2 = e2
SYMMETRY OtherThreads
INVARIANTS
  WaitHasReason
CHECK_DEADLOCK FALSE
