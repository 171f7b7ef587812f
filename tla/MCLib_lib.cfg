SPECIFICATION Spec
CONSTANTS
  NULL = NULL
  Thread = {t, u, v}
  PGSIZE = 64
  AddrSize = 512
  PHYS_BASE = 384
  COPY_SIZE = 8
  ARGV_MAX = 4
  W = 4
  ELEM_BITS = 2
  Elem = {"a", "b", "b2", "c", "d"}
  Key <- KeyOf
  Hash <- HashOf
  MinBuckets = 1
  BEST_ELEMS_PER_BUCKET = 1
  File = {f, g}
  SectorSize = 2
  FileLength = 3
  MaxTransfer = 3
  Files <- TwoFiles
  BLOCK_SECTOR_SIZE = 2
  ScratchSize = 6
  MaxName = 3
  COL_CNT = 4
  ROW_CNT = 2
  TabStop = 2
  Shown = {7, 8, 9, 10, 12, 13, 65}
  Scancode = {2, 3, 26, 30, 42, 54, 56, 58, 83, 57373}
  Keycap <- Caps
  MaxChars = 6
  MaxEvents = 6
  FP_F = 64
  PRI_MAX = 15
  TIMER_FREQ = 32
  TIME_SLICE = 2
  NiceValue = {0, 1}
  MaxCalls = 1
  MaxTicks = 100
  MaxWait = 40
INVARIANTS LibraryRight TablesAgree FileIsBytes ProgramLoaded ArchiveKept ConsoleRight NoLostSignal FairShare
CHECK_DEADLOCK FALSE
