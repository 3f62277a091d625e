SPECIFICATION MCSpec
CONSTANTS
  Threads = {"t1", "t2"}
  Sync = {FALSE}
  WriteBufferSize = 1
  MaxGroup = 2
  L0_Compaction = 2
  L0_StopWrites = 3
  ReuseLogs = FALSE
  Existing = TRUE
  MaxIds = 3
  Budget <- TwoKills
  Keys = {1, 2, 3, 4}
  ShardOf <- TwoShards
  NumShards = 2
  Capacity = 2
  Charges = {1}
  Handles = {1, 2, 3, 4, 5, 6}
  MaxHeld = 2
  Readers = {"r1", "r2"}
INVARIANTS
  AckedAreRead
  KillLosesNothing
  NeverCorrupt
  PinnedTablesExist
  SequencesTellApart
  TablesStayOpen
CHECK_DEADLOCK FALSE
