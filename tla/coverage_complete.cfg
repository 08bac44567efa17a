SPECIFICATION Spec
CONSTANTS
  Addresses = {1, 3, 4, 6}
  Entry = 1
  Called = {3, 6}
  Jumped = {4}
  Returned = {4}
  Given = {1, 3}
  Longest = 1
  Drivers = {"script"}
  kMaxMissing = 1
  Rounds = 3
INVARIANTS
  CompleteMeansCovered
