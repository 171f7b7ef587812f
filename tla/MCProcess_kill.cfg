SPECIFICATION FairSpec
CONSTANTS
  Proc = {main, a}
  Main = main
  MaxLive = 2
  ExitCode = {0, 7}
  ExitReturns = {FALSE}
  NULL = NULL
PROPERTIES WaitForKilledReturns
CHECK_DEADLOCK FALSE
