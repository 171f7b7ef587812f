SPECIFICATION Spec
CONSTANTS
  Process = {p, q}
  MaxInodes = 2
  NULL = NULL
INVARIANTS DeletedByLastCloser
CHECK_DEADLOCK FALSE
