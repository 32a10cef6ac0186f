CONSTANTS
  Runs = {r1, r2, r3}
  Workers = {w1, w2}
  Api = api
  NoRun = NoRun
  WorkerConcurrency = 2
  Queued = {r1, r2}
  MaxCrashes = 1
  MaxApiCrashes = 1
  MaxDbErrors = 1
  MaxRedisErrors = 1
  MaxLateReplies = 1
  MaxFlushed = 2
SPECIFICATION Spec
SYMMETRY Symmetry
INVARIANTS
  TypeOK
  SlotConservation
  OneHolder
  HoldersAgree
  LossAccounted
PROPERTIES
  LifecycleSpec
