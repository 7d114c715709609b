SPECIFICATION Spec
CONSTANTS
  Threads = {t1, t2, t3}
  Main = t1
  Locks = {l1}
  AutoReset = {e1}
  ManualReset = {m}
  WaitArrays <- NoArrays
  Abortable = {}
  Suspendable = {t2, t3}
  MaxAborts = 0
  MaxRecursion = 2
  NoThread = NoThread
  NoLock = NoLock
  e1 = e1
  e2 = e2
SYMMETRY OtherThreads
INVARIANTS
  TypeOK
  ListsAgree
  WaitersUnsignaled
PROPERTIES
  ImplementsMonitor
CHECK_DEADLOCK FALSE
