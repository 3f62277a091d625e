SPECIFICATION MCSpec
CONSTANTS
  ListKeys = {1, 2, 3}
  Null = 4
  MaxHeight = 2
  MaxKey = 2
  Handles = {"h1"}
  NumLevels = 4
  MaxMemLevel = 1
  L0_Trigger = 2
  LevelLimit = 2
  MaxOutput = 2
  MaxGrandparents = 2
  MaxExpanded = 6
  ManualLevels = {}
  Seeks = TRUE
  Deletes = TRUE
  MaxSeq = 4
INVARIANTS
  LevelsInOrder
  OnlyWrittenRecords
  StatusTellsErrors
  NothingMissed
  NothingVanishes
PROPERTIES
  ReadsAreRight
  WalksSnapshot
CHECK_DEADLOCK FALSE
