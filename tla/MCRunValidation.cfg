CONSTANTS
  w1 = w1
  t1 = t1
  t2 = t2
  None = None
  Names = {"parties", "signatures", "other"}
  Core = {"parties", "signatures"}
  Procs = {w1}
  Callers = {t1}
  ProcOf <- OneTask
  LlmEnabled = TRUE
  MaxChunks = 2
  MaxDbErrors = 1
  MaxCrashes = 1
SPECIFICATION FairSpec
INVARIANTS
  TypeOK
  RowsAgree
  VerdictIsMachines
  CoreFieldsChecked
  AiLayerConsistent
PROPERTIES
  VerdictSettled
  VerdictDelivered
  PipelineFollowsMachine
  PipelineIsLifecycle
CHECK_DEADLOCK FALSE
