SPECIFICATION FairSpec
CONSTANTS
  Proc = {main, a, b}
  Main = main
  MaxLive = 3
  ExitCode = {0, 7}
  ExitReturns = {TRUE, FALSE}
  NULL = NULL
INVARIANTS NoWaitInVain ChildrenSound
PROPERTIES ExecReportsLoad CallsReturn
CHECK_DEADLOCK FALSE
