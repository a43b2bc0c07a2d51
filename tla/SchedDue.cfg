CONSTANTS
  t1 = t1  t2 = t2  t3 = t3
  Threads = {t1, t2, t3}
  Idle = idle
  PriMax = 2
  InitPriority <- MixedPriorities
  NewPriorities = {0}
  Naps <- LateNaps
  TimeSlice = 2
  MaxTicks = 4
  INT64_MAX = 99
  Aging = FALSE
SPECIFICATION SchedSpec
INVARIANTS WakesAllDue
