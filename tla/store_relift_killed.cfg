SPECIFICATION KillSpec
CONSTANTS
  None = None
  Partial = Partial
  Images = {a}
  Contents = {c1}
  Functions = {f}
  Followed = {f}
  Workers = {w1}
  MaxReplaced = 0
SYMMETRY Symmetry
CHECK_DEADLOCK FALSE
INVARIANTS
  TrustedManifest
