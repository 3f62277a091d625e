SPECIFICATION MCSpec
CONSTANTS
  Processes = {"p1", "p2"}
  Threads = {"t1", "t2"}
  MayDestroy = TRUE
  None = "none"
  MaxFiles = 2
  Files = {"f1", "f2", "f3", "f4"}
  MmapLimit = 1
  FdLimit = 1
  Keys = {1, 2, 3}
  ShardOf <- TwoShards
  NumShards = 2
  Capacity = 3
  Charges = {1, 2}
  Handles = {1, 2, 3, 4, 5}
  MaxHeld = 2
INVARIANTS
  MessagesKeepMeaning
  MemoryIsOwned
  LocksAreKept
  LimitsAreKept
  OneHolder
  CacheIsExact
PROPERTIES
  InsertMakesRoom
  ReadBack
  WritesAreKept
CHECK_DEADLOCK FALSE
