SPECIFICATION Spec
CONSTANTS
  Process = {p, q}
  Main = main
  Name = {f, g, h}
  LastSector = 5
  DirSlots = 2
  Length = {0, 1}
  FdtMax = 1
  NULL = NULL
SYMMETRY Symmetry
CONSTRAINT NoOverlap
INVARIANTS CountsExact DiskKept OpenFilesKeepSectors
