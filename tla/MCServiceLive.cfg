CONSTANTS
  Runs = {r1, r2}
  Workers = {w1, w2}
  Api = api
  NoRun = NoRun
  WorkerConcurrency = 1
  Queued = {r1, r2}
  MaxCrashes = 1
  MaxApiCrashes = 0
  MaxDbErrors = 1
  MaxRedisErrors = 2
  MaxLateReplies = 1
  MaxFlushed = 2
SPECIFICATION FairSpec
INVARIANTS
  BoundedWork
PROPERTIES
  Settles
