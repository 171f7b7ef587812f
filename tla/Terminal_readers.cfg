SPECIFICATION TermSpec
CONSTANTS
  NULL = NULL
  Reader = {r, s}
  Writer = {w}
  MsgLen = 2
  INTQ_BUFSIZE = 2
  MaxKeys = 2
  MaxUnexpected = 1
INVARIANT WaitersWait
CHECK_DEADLOCK FALSE
