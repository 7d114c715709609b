SPECIFICATION Spec
CONSTANTS
  Threads = {t1, t2, t3}
  Main = t1
  Locks = {l1, l2}
  AutoReset = {}
  ManualReset = {}
  WaitArrays <- NoArrays
  Abortable = {t2}
  Suspendable = {}
  MaxAborts = 3
  MaxRecursion = 1
  NoThread = NoThread
  NoLock = NoLock
  e1 = e1
  e2 = e2
INVARIANTS
  ListsAgree
  EnterOwns
  NoStuckThread
  LocksConsistent
  RequestsAccounted
CHECK_DEADLOCK FALSE
