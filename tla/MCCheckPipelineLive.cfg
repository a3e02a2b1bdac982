SPECIFICATION PipelineFairSpec
CONSTANTS
  Key = {u1}
  MaxTimers = 3
  MaxRevision = 3
  MaxQueries = 1
  Broken = {2}
  CacheCapacity = 1
  SyncModes = {TRUE, FALSE}
PROPERTIES
  EveryEditChecked
  LastCallbackRuns
CHECK_DEADLOCK FALSE
