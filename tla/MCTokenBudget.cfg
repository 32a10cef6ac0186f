CONSTANTS
  Callers = {c1, c2, c3}
  Budget = 3
  MaxTokens = 2
  LastDay = 1
  MaxRedisErrors = 2
  MaxPostErrors = 1
  MaxResets = 1
SPECIFICATION Spec
SYMMETRY Symmetry
INVARIANTS
  SpendBound
  Reserved
CHECK_DEADLOCK FALSE
