SPECIFICATION Spec
CONSTANTS
  ALIGNMENT = 2
  HEADER_SIZE = 4
  MIN_SPLIT = 8
  Base = 16
  HeapSize = 48
  Word <- MCWord
  Requests <- AllLengths
  o1 = o1
  o2 = o2
  o3 = o3
  Objects = {o1, o2, o3}
  Header = Header
  Junk = Junk
SYMMETRY Symmetry
INVARIANTS
  TypeOK
  ChainTilesHeap
  UsedIsHeld
  SaneRequestsHonoured
PROPERTIES
  StoresObjects
