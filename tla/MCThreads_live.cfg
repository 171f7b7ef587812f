SPECIFICATION MCFairSpec
CONSTANTS
  Thread = {main, idle, a}
  InitialThread = main
  IdleThread = idle
  Sema = {s, tidlock}
  Lock = {tidlock}
  TidLock = tidlock
  IntrSema = {}
  PriMax = 2
  PriDefault = 1
  TimeSlice = 2
  SleepTicks = {1}
  IntMax = 1000
  NewPriority = {0, 2}
  Aging = TRUE
  NULL = NULL
  MaxTicks = 2
  MaxValue = 1
  MaxTid = 5
  MaxThreads = 3
  Workload = {"mixed"}
PROPERTIES ReadyThreadRuns SleeperWakes
