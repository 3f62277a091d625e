SPECIFICATION Spec
CONSTANTS
  MaxKey = 2
  Handles = {h1}
  NumLevels = 3
  MaxMemLevel = 0
  L0_Trigger = 1
  LevelLimit = 9
  MaxOutput = 2
  MaxGrandparents = 9
  MaxExpanded = 0
  ManualLevels = {}
  Seeks = FALSE
  Deletes = TRUE
  MaxSeq = 4
PROPERTIES
  ReadsAreRight
CHECK_DEADLOCK FALSE
