SPECIFICATION RedisSpec
CONSTANTS
  Client = {"main", "read"}
  Db = 1
  MaxDrops = 1
  CacheDrops = 2
  Starts = {"persistent_id", "start", "top"}
  MaxEntries = 2
  PerRead = 1
  MaxCrashes = 1
  EnableKeyevents = TRUE
  MaxUpdates = 1
CHECK_DEADLOCK FALSE
INVARIANTS
  NoSkip
PROPERTIES
  EveryEntryRead
  WatchedSync
  SyncRestored
