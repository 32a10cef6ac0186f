CONSTANTS
  p1 = p1
  p2 = p2
  c1 = c1
  c2 = c2
  None = None
  Names = {"parties", "signatures"}
  Procs = {p1, p2}
  Callers = {c1, c2}
  ProcOf <- MCProcOf
  MaxDbErrors = 2
  MaxCrashes = 1
SPECIFICATION BridgeSpec
INVARIANTS
  MemoryAheadOfSnapshot
PROPERTIES
  DurableSpec
