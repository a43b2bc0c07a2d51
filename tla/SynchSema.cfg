CONSTANTS
  t1 = t1  t2 = t2  t3 = t3  s1 = s1  l1 = l1  c1 = c1
  Threads = {t1, t2, t3}
  Idle = idle
  PriMax = 2
  InitPriority <- MixedPriorities
  NewPriorities = {0, 2}
  Sems = {s1}
  InitValue <- OneEach
  MaxValue = 2
  Locks = {}
  Conds = {}
  CondLock <- OneLock
  Null = null
  UserProg = FALSE
  Naps = {}
  TimeSlice = 2
  MaxTicks = 1
  INT64_MAX = 99
  Aging = TRUE
SPECIFICATION FairSynchSpec
INVARIANTS NoLostWakeup
PROPERTIES WakesHighestPriority ImplementsSemaphores ServesWaiters
