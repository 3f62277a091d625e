SPECIFICATION MCSpec
CONSTANTS
  Parts = {"screen"}
  RowCount = 2
  EraShift = 0
  EventIds <- AllIds
  Calendars = {"home"}
  Names = {"me", "ann"}
  UserName = "me"
  InitialEvents <- TidyCalendar
  OtherEvents <- BusyFamily
  LastDay = 0
  Budget <- HurriedBudget
  Faults = {"lost", "rejected"}
  Prompt <- NothingQuick
PROPERTY
  InsertsOnlyUnplanned
