SPECIFICATION KillSpec
CONSTANTS
  None = None
  Partial = Partial
  Images = {a, b}
  Contents = {c1, c2}
  Functions = {f}
  Followed = {f}
  Workers = {w1, w2}
  MaxReplaced = 1
SYMMETRY Symmetry
CHECK_DEADLOCK FALSE
INVARIANTS
  TrustedWhereNotKilled
  NoMixedBuild
