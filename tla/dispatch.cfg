SPECIFICATION FairSpec
CONSTANTS
  Functions = {10, 20}
  ReturnPoint <- MCReturnPoint
  Lifted = {10, 11}
  ThunkImports = {100}
  HostImports = {101}
  Home = 0
  kMaxDispatchDepth = 3
  kMaxDirectDepth = 1
  kMaxMissing = 1
  MaxStack = 3
  MaxBody = 3
INVARIANTS
  DepthCounts
  RunsInATrace
  MissingOnlyUnlifted
PROPERTIES
  StopsEndTheRun
