CONSTANTS
  t1 = t1  t2 = t2  t3 = t3
  Threads = {t1, t2, t3}
  Idle = idle
  PriMax = 2
  InitPriority <- SpreadPriorities
  NewPriorities = {0}
  Naps = {0, 2}
  TimeSlice = 2
  MaxTicks = 3
  INT64_MAX = 99
  Aging = TRUE
SPECIFICATION FairSchedSpec
INVARIANTS SchedConsistent ElemSharedSafely
PROPERTIES NoEarlyWakeup HighestPriorityRuns ThreadsGoOn
