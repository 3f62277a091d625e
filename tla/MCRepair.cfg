SPECIFICATION Spec
CONSTANTS
  Key = {k1}
  MaxWrites = 2
  MaxCompactions = 0
  MaxDamage = 1
  MaxErrors = 0
  MaxKills = 0
  MaxCrashes = 0
INVARIANTS
  OnlyWritten
CHECK_DEADLOCK FALSE
