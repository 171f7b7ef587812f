SPECIFICATION Spec
CONSTANTS
  NULL = NULL
  PGSIZE = 12
  Thread = {a, b}
  FreePages = 6
  UserPageLimit = 2
  MaxCnt = 2
  Flags = {{"PAL_ZERO"}, {"PAL_USER", "PAL_ASSERT"}}
  HeapPages = 2
  MinBlock = 2
  ArenaSize = 6
  Size = {2, 3, 7}
  MaxBlocks = 2
  Proc = {p, q}
  TableSize = 2
  UserDirs = 2
  KernelPool = 3
  UserPool = 3
SYMMETRY Symmetry
INVARIANTS PoolsExact HeapSound PagesAccounted SpacesOwn
PROPERTIES ImplementsPagePool
CHECK_DEADLOCK FALSE
