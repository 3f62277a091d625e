SPECIFICATION MCSpec
CONSTANTS
  Parts = {"signIn"}
  RowCount = 1
  EraShift = 0
  EventIds <- AllIds
  Calendars = {"home"}
  Names = {"me", "ann"}
  UserName = "me"
  InitialEvents <- TidyCalendar
  OtherEvents <- AnnsEvents
  LastDay = 0
  Budget <- HurriedBudget
  Faults = {}
  Prompt <- Unhurried
PROPERTY
  GivesUpOnlyWithoutCalendar
