SPECIFICATION MCFairSpec
CONSTANTS
  Schedulers = {"c1", "c2"}
  Nobody = "none"
  MaxItems = 4
INVARIANTS
  CutIsHarmless
PROPERTIES
  IsWorkQueue
  WritesReturn
  CompactionsEnd
  CallsEnd
CHECK_DEADLOCK FALSE
