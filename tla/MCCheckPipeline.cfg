SPECIFICATION PipelineSpec
CONSTANTS
  Key = {u1, u2}
  MaxTimers = 3
  MaxRevision = 3
  MaxQueries = 1
  Broken = {2}
  CacheCapacity = 1
  SyncModes = {TRUE, FALSE}
INVARIANTS
  MapHoldsLatest
  LatestNeverStopped
  OrphanedByOlderCallback
  PipelineTypeOK
  OwnerAlive
  OwnerCurrent
  EditsChecked
  SyncShowsCurrent
CHECK_DEADLOCK FALSE
