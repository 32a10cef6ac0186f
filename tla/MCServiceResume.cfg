CONSTANTS
  Runs = {r1}
  Workers = {w1}
  Api = api
  NoRun = NoRun
  WorkerConcurrency = 1
  Queued = {r1}
  MaxCrashes = 1
  MaxApiCrashes = 0
  MaxDbErrors = 0
  MaxRedisErrors = 0
  MaxLateReplies = 0
  MaxFlushed = 0
SPECIFICATION FairSpec
PROPERTIES
  RunsResume
