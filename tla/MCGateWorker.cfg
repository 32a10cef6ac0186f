CONSTANTS
  Images = {i1, i2, broken}
  Verified = {i1, i2}
  Workers = {w1}
  Api = api
  Runs = {r1, r2}
  None = None
  UseRedisQueue = TRUE
  MaxStarts = 4
SPECIFICATION Spec
SYMMETRY Symmetry
INVARIANTS
  OnlyVerifiedRun
CHECK_DEADLOCK FALSE
