CONSTANTS
  w1 = w1
  t1 = t1
  t2 = t2
  None = None
  Names = {"parties"}
  Core = {"parties"}
  Procs = {w1}
  Callers = {t1}
  ProcOf <- OneTask
  LlmEnabled = TRUE
  MaxChunks = 1
  MaxDbErrors = 0
  MaxCrashes = 0
SPECIFICATION Spec
INVARIANTS
  NoVerdictFromNothing
CHECK_DEADLOCK FALSE
