SPECIFICATION MCSpec
CONSTANTS
  RowCount = 2
  EraShift = 0
  EventIds = {1, 2, 3, 4, 5, 6, 7, 8}
  Names = {"me", "ann"}
  UserName = "me"
  Faults = {"lost", "rejected"}
  Calendars = {"home", "work"}
  InitialEvents <- TwoCalendars
  OtherEvents <- AnnsEvents
  LastDay = 1
  Budget <- AnyBudget
  Prompt = {}
INVARIANTS
  DoomedUnselected
  Provenance
PROPERTIES
  ForeignEventsSurvive
