CONSTANTS
  w1 = w1
  t1 = t1
  t2 = t2
  None = None
  Names = {"parties"}
  Core = {"parties"}
  Procs = {w1}
  Callers = {t1, t2}
  ProcOf <- TwoTasks
  LlmEnabled = FALSE
  MaxChunks = 1
  MaxDbErrors = 1
  MaxCrashes = 1
SPECIFICATION Spec
INVARIANTS
  SnapshotCoherent
PROPERTIES
  ResultWrittenOnce
CHECK_DEADLOCK FALSE
