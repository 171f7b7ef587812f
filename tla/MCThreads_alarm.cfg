SPECIFICATION MCSpec
CONSTANTS
  Thread = {main, idle, a, b}
  InitialThread = main
  IdleThread = idle
  Sema = {tidlock}
  Lock = {tidlock}
  TidLock = tidlock
  IntrSema = {}
  PriMax = 2
  PriDefault = 1
  TimeSlice = 2
  SleepTicks = {1, 2}
  IntMax = 1000
  NewPriority = {0, 2}
  Aging = TRUE
  NULL = NULL
  MaxTicks = 3
  MaxValue = 1
  MaxTid = 5
  MaxThreads = 4
  Workload = {"mixed"}
SYMMETRY Symmetry
INVARIANTS TypeOK ElemOnOneList QueuesSorted
PROPERTIES AwakeOnTime DispatchesHighest
