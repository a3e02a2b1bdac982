SPECIFICATION PipelineSpec
CONSTANTS
  Key = {u1}
  MaxTimers = 3
  MaxRevision = 3
  MaxQueries = 1
  Broken = {}
  CacheCapacity = 0
  SyncModes = {FALSE}
INVARIANTS
  QueryUsesLatest
CHECK_DEADLOCK FALSE
