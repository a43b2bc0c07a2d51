CONSTANTS
  t1 = t1  t2 = t2  t3 = t3  s1 = s1  l1 = l1  c1 = c1
  Threads = {t1, t2, t3}
  Idle = idle
  PriMax = 2
  InitPriority <- MixedPriorities
  NewPriorities = {0}
  Sems = {}
  InitValue <- OneEach
  MaxValue = 0
  Locks = {l1}
  Conds = {c1}
  CondLock <- OneLock
  Null = null
  UserProg = TRUE
  Naps = {1}
  TimeSlice = 2
  MaxTicks = 1
  INT64_MAX = 99
  Aging = FALSE
SPECIFICATION SynchSpec
INVARIANTS ElemInOneList LockMutex SignalNotLost
