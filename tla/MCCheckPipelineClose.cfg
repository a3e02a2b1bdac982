SPECIFICATION PipelineSpec
CONSTANTS
  Key = {u1}
  MaxTimers = 3
  MaxRevision = 3
  MaxQueries = 0
  Broken = {}
  CacheCapacity = 0
  SyncModes = {FALSE}
INVARIANTS
  ClosedDocumentsClear
CHECK_DEADLOCK FALSE
