SPECIFICATION MCSpec
CONSTANTS
  Thread = {main, idle, a, b}
  InitialThread = main
  IdleThread = idle
  Sema = {s, tidlock}
  Lock = {tidlock}
  TidLock = tidlock
  IntrSema = {s}
  PriMax = 2
  PriDefault = 1
  TimeSlice = 2
  SleepTicks = {}
  IntMax = 1000
  NewPriority = {0, 2}
  Aging = FALSE
  NULL = NULL
  MaxTicks = 1
  MaxValue = 1
  MaxTid = 5
  MaxThreads = 4
  Workload = {"mixed"}
SYMMETRY Symmetry
INVARIANTS NoPanic
