SPECIFICATION DaSpec
CONSTANTS
  r1 = r1
  r2 = r2
  w1 = w1
  w2 = w2
  p1 = p1
  p2 = p2
  p3 = p3
  d1 = d1
  d2 = d2
  h1 = h1
  h2 = h2
  h3 = h3
  None = None
  Readers <- MCReaders
  Removers <- MCRemovers
  Paths <- MCPaths
  Dirs <- MCOneDir
  Dir <- MCDir
  Handles <- MCHandles
  Max = 1
  MaxClock = 3
  MaxInode = 3
  DropUnresolved = FALSE
  Overlap = FALSE
  MayLose <- MCNothing
  MaxFaults = 1
SYMMETRY MCSymmetry
INVARIANTS
  NoReadOnClosedHandle
  NoHandleLeak
  BoundedMap
  CompletionIsBacked
PROPERTY
  WrittenIsKept
