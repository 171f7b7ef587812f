SPECIFICATION Spec
CONSTANTS
  NULL = NULL
  Reader = {r}
  Writer = {w, x}
  MsgLen = 2
  INTQ_BUFSIZE = 2
  MaxKeys = 2
  MaxUnexpected = 1
  Client = {c, d}
  Device <- Partitions
  Data = {v0, v1}
  MaxSpurious = 1
INVARIANTS TrafficRight
PROPERTIES ImplementsBlockDevice DevicesAnswer
CHECK_DEADLOCK FALSE
