SPECIFICATION OrderlySpec
CONSTANTS
  Functions = {10, 20, 30}
  ReturnPoint <- MCReturnPoint
  Lifted = {10, 20}
  ThunkImports = {100}
  HostImports = {101}
  Home = 0
  kMaxDispatchDepth = 3
  kMaxDirectDepth = 4
  kMaxMissing = 2
  MaxStack = 4
  MaxBody = 5
INVARIANTS
  InStep
  NoStaleReturn
PROPERTIES
  UnwindsToItself
