SPECIFICATION MCSpec
CONSTANTS
  Thread = {main, idle, a, b, c}
  InitialThread = main
  IdleThread = idle
  Sema = {s, l, tidlock}
  Lock = {l, tidlock}
  TidLock = tidlock
  IntrSema = {s}
  PriMax = 2
  PriDefault = 1
  TimeSlice = 1
  SleepTicks = {}
  IntMax = 1000
  NewPriority = {0, 2}
  Aging = FALSE
  NULL = NULL
  MaxTicks = 1
  MaxValue = 2
  MaxTid = 6
  MaxThreads = 4
  Workload = {"mixed", "create"}
SYMMETRY Symmetry
INVARIANTS NoThreadLost LockExclusion NoLostWakeup NeverIdleWithWork RunningIsHighest TidsUnique
