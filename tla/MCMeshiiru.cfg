SPECIFICATION Spec
CONSTANTS
  e1 = e1
  e2 = e2
  home = home
  work = work
  ann = ann
  bob = bob
  noId = noId
  NoCalendar = noId
  NoName = "none"
  NoOne = "nobody"
  Accounts <- People
  CalendarIds <- CalendarsOf
  NameOf <- Named
  InitialLists <- FirstLists
  MaxFetches = 2
  RowCount = 1
  EraShift = 0
  EventIds <- Ids
  Names <- Members
  UserName = "Ann"
  InitialEvents <- OneMeal
  OtherEvents <- NoEvents
  LastDay = 0
  Budget <- SmallBudget
  Faults <- NoFaults
  Prompt <- QuickWrites
INVARIANT
  RequestsAreAddressed
PROPERTY
  ImplementsSchedule
