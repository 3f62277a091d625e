SPECIFICATION MCFairSpec
CONSTANTS
  Parts = {"screen", "slow", "midnight", "signIn"}
  RowCount = 3
  EraShift = 0
  EventIds <- AllIds
  Calendars = {"home"}
  Names = {"me", "ann"}
  UserName = "me"
  InitialEvents <- TidyCalendar
  OtherEvents <- AnnsEvents
  LastDay = 0
  Budget <- UnhurriedBudget
  Faults = {}
  Prompt <- Unhurried
INVARIANTS
  CleanScreenShowsPlan
  HomeHasIdentity
PROPERTIES
  InsertsOnlyUnplanned
  ImplementsMealPlan
  SavesEnd
  ScreensSettle
  FoundCalendarIsSaved
