SPECIFICATION CrossingSpec
CONSTANTS
  Threads = {1, 2}
  Regions = {1, 2}
  Frame = 2
  Arena = 5
  MaxNesting = 6
CHECK_DEADLOCK FALSE
INVARIANTS
  ReturnsHome
