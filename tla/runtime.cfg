SPECIFICATION RuntimeSpec
CONSTANTS
  ALIGNMENT = 2
  HEADER_SIZE = 4
  MIN_SPLIT = 8
  Base = 16
  HeapSize = 62
  Word <- MCWord
  Requests <- SaneLengths
  o1 = o1
  o2 = o2
  o3 = o3
  Objects = {o1, o2, o3}
  Header = Header
  Junk = Junk
  Threads = {1, 2}
  Regions = {1, 2}
  Frame = 2
  Arena = 5
  MaxNesting = 6
  Minters = {1, 2}
  Functions = {1, 2}
  Programs <- MCPrograms
  Windows <- MCWindows
  MinRuns = {0, 2}
  PoolSize = 7
  StubBytes = 2
  MaxSlots = 4
  Drawn = 8
SYMMETRY Symmetry
CHECK_DEADLOCK FALSE
INVARIANTS
  HeapCounts
  FreeMerges
  CallBacksHold
  CallsNest
  ThunksLead
