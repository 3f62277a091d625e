------------------------------ MODULE MCScreens ------------------------------
(***************************************************************************)
(* Small instances of the two screens of the app.  The schedule screen     *)
(* itself has the constants of the cfg; a second one, slow and unlucky,    *)
(* has those below; and sign-in.  Each behaviour is of one of them: part   *)
(* names it, and the variables of the others stay as they are.  me is the  *)
(* user, ann another member.                                               *)
(***************************************************************************)
EXTENDS ScheduleSelect, TLC

CONSTANT Parts  \* the parts of a run

VARIABLES
  part,  \* the part whose behaviours these are
  slowEvents, slowAlive, slowToday, slowRefreshing, slowOpenedOn, slowMeshiiranList,
  slowSelected, slowCompleteEnabled, slowMainQueue, slowPc, slowSelectedIndexPaths,
  slowRowsLeft, slowIdsForDelete, slowDeleteFrom, slowLoads, slowWrites, slowOrphans,
  slowBroken, slowSaves, slowBudget, slowCalendarId, slowScreen,
  \* of the slow schedule screen
  userName, savedId, keychain, currentUser, homeScreen, signIns, checking, fetches,
  lists  \* of SignIn

slowVars == <<slowEvents, slowAlive, slowToday, slowRefreshing, slowOpenedOn,
              slowMeshiiranList, slowSelected, slowCompleteEnabled, slowMainQueue,
              slowPc, slowSelectedIndexPaths, slowRowsLeft, slowIdsForDelete,
              slowDeleteFrom, slowLoads, slowWrites, slowOrphans, slowBroken,
              slowSaves, slowBudget, slowCalendarId, slowScreen>>
signInVars == <<userName, savedId, keychain, currentUser, homeScreen, signIns,
                checking, fetches, lists>>
mcVars == <<part, vars, slowVars, signInVars>>
-----------------------------------------------------------------------------
(***************************************************************************)
(* The schedule screen.                                                    *)
(***************************************************************************)
Meal(name, start, length, allDay) ==
  [cal |-> "home", summary |-> name, start |-> start, length |-> length,
   allDay |-> allDay]

\* Single-day events of two members, and a timed event under the user's name.
TidyCalendar ==
  {1 :> Meal("ann", 0, 1, TRUE) @@ 2 :> Meal("me", 0, 1, TRUE)
     @@ 3 :> Meal("me", 1, 1, FALSE)}
\* Two events of the user on one day; and one.
TwinCalendar == {1 :> Meal("me", 0, 1, TRUE) @@ 2 :> Meal("me", 0, 1, TRUE)}
OwnCalendar == {1 :> Meal("me", 0, 1, TRUE)}

AnnsEvents == {Meal("ann", 0, 1, TRUE), Meal("ann", 1, 2, TRUE)}
BusyFamily == {Meal("ann", 0, 1, TRUE), Meal("me", 1, 1, TRUE)}

BudgetOf(tap, edit, kill, fault, refresh) ==
  "tap" :> tap @@ "edit" :> edit @@ "kill" :> kill @@ "fault" :> fault
    @@ "refresh" :> refresh
UnhurriedBudget == BudgetOf(2, 1, 1, 0, 1)
HurriedBudget == BudgetOf(1, 0, 0, 0, 1)
Unhurried == {"writes", "loads", "user"}
NothingQuick == {}
AllIds == 1..8

\* Nothing is quick, and a fault comes; and one where midnight passes, too.
SlowScreen == INSTANCE ScheduleSelect WITH
  RowCount <- 1, InitialEvents <- TwinCalendar, OtherEvents <- BusyFamily, LastDay <- 0,
  Budget <- BudgetOf(1, 0, 0, 1, 0), Faults <- {"lost", "rejected"}, Prompt <- {},
  events <- slowEvents, alive <- slowAlive, today <- slowToday, refreshing <-
  slowRefreshing, openedOn <- slowOpenedOn, meshiiranList <- slowMeshiiranList,
  selected <- slowSelected, completeEnabled <- slowCompleteEnabled, mainQueue <-
  slowMainQueue, pc <- slowPc, selectedIndexPaths <- slowSelectedIndexPaths, rowsLeft
  <- slowRowsLeft, idsForDelete <- slowIdsForDelete, deleteFrom <- slowDeleteFrom,
  loads <- slowLoads, writes <- slowWrites, orphans <- slowOrphans, broken <-
  slowBroken, saves <- slowSaves, budget <- slowBudget, calendarId <- slowCalendarId,
  screen <- slowScreen
SlowAtMidnight == INSTANCE ScheduleSelect WITH
  RowCount <- 1, InitialEvents <- OwnCalendar, OtherEvents <- BusyFamily, LastDay <- 1,
  Budget <- BudgetOf(1, 0, 0, 1, 0), Faults <- {"lost", "rejected"}, Prompt <- {},
  events <- slowEvents, alive <- slowAlive, today <- slowToday, refreshing <-
  slowRefreshing, openedOn <- slowOpenedOn, meshiiranList <- slowMeshiiranList,
  selected <- slowSelected, completeEnabled <- slowCompleteEnabled, mainQueue <-
  slowMainQueue, pc <- slowPc, selectedIndexPaths <- slowSelectedIndexPaths, rowsLeft
  <- slowRowsLeft, idsForDelete <- slowIdsForDelete, deleteFrom <- slowDeleteFrom,
  loads <- slowLoads, writes <- slowWrites, orphans <- slowOrphans, broken <-
  slowBroken, saves <- slowSaves, budget <- slowBudget, calendarId <- slowCalendarId,
  screen <- slowScreen
-----------------------------------------------------------------------------
(***************************************************************************)
(* Sign-in: two accounts, the second without a profile name; home and work *)
(* are calendars.                                                          *)
(***************************************************************************)
Cal(summary, id) == [summary |-> summary, id |-> id]

\* The user's own calendars, before anything is shared.
Empty == <<>>
Private == <<Cal("other", "work")>>
\* The shared calendar behind another; behind an entry that cannot be read; and before
\* one without an id.  Two that can be saved are left to MCMeshiiru.
Behind == <<Cal("other", "work"), Cal("meshiiru", "home")>>
Hidden == <<Cal("none", "work"), Cal("meshiiru", "home")>>
Broken == <<Cal("meshiiru", "home"), Cal("meshiiru", "noId")>>

MaxFetches == 2
SignIn == INSTANCE SignIn WITH
  Accounts <- {"ann", "bob"}, CalendarIds <- {"home", "work"},
  NameOf <- "ann" :> "Ann" @@ "bob" :> "none",
  InitialLists <-
    {"ann" :> Private @@ "bob" :> Empty, "ann" :> Behind @@ "bob" :> Hidden},
  SharedLists <- {Behind, Hidden, Broken},
  NoName <- "none", NoCalendar <- "noId", NoOne <- "nobody",
  calendarId <- savedId, screen <- homeScreen

ASSUME SignInConstants == SignIn!SignInAssumption
-----------------------------------------------------------------------------
MCInit ==
  /\ part \in Parts
  /\ Init
  /\ SignIn!Init /\ (part # "signIn" => lists["ann"] = Private)
  /\ CASE part = "slow" -> SlowScreen!Init
       [] part = "midnight" -> SlowAtMidnight!Init
       [] OTHER -> /\ slowEvents = 0 /\ slowAlive = 0 /\ slowToday = 0
                   /\ slowRefreshing = 0 /\ slowOpenedOn = 0 /\ slowMeshiiranList = 0
                   /\ slowSelected = 0 /\ slowCompleteEnabled = 0
                   /\ slowMainQueue = 0 /\ slowPc = 0 /\ slowSelectedIndexPaths = 0
                   /\ slowRowsLeft = 0 /\ slowIdsForDelete = 0 /\ slowDeleteFrom = 0
                   /\ slowLoads = 0 /\ slowWrites = 0 /\ slowOrphans = 0
                   /\ slowBroken = 0 /\ slowSaves = 0 /\ slowBudget = 0
                   /\ slowCalendarId = 0 /\ slowScreen = 0

ScreenStep == part = "screen" /\ Next /\ UNCHANGED <<part, slowVars, signInVars>>
SlowStep ==
  /\ \/ part = "slow" /\ SlowScreen!Next
     \/ part = "midnight" /\ SlowAtMidnight!Next
  /\ UNCHANGED <<part, vars, signInVars>>
SignInStep == part = "signIn" /\ SignIn!Next /\ UNCHANGED <<part, vars, slowVars>>
MCNext == ScreenStep \/ SlowStep \/ SignInStep
MCSpec == MCInit /\ [][MCNext]_mcVars

(***************************************************************************)
(* Fairness, of each module's own FairSpec.                                *)
(***************************************************************************)
GoesOn(ScreenAction, SlowAction, MidnightAction) ==
  \/ part = "screen" /\ ScreenAction /\ UNCHANGED <<part, slowVars, signInVars>>
  \/ part = "slow" /\ SlowAction /\ UNCHANGED <<part, vars, signInVars>>
  \/ part = "midnight" /\ MidnightAction /\ UNCHANGED <<part, vars, signInVars>>
SignInGoesOn(Action) ==
  part = "signIn" /\ Action /\ UNCHANGED <<part, vars, slowVars>>
Handles == GoesOn(Handler, SlowScreen!Handler, SlowAtMidnight!Handler)
RunsBlock == GoesOn(MainBlock, SlowScreen!MainBlock, SlowAtMidnight!MainBlock)
Completes == GoesOn(Completion, SlowScreen!Completion, SlowAtMidnight!Completion)
Answers == GoesOn(Network, SlowScreen!Network, SlowAtMidnight!Network)
Checks == SignInGoesOn(SignIn!CheckCalendar)
Stores(n) == SignInGoesOn(SignIn!Storing(n))
MCFairSpec ==
  /\ MCSpec
  /\ WF_mcVars(Handles) /\ WF_mcVars(RunsBlock)
  /\ WF_mcVars(Completes) /\ WF_mcVars(Answers)
  /\ WF_mcVars(Checks)
  /\ \A n \in 1 .. MaxFetches : WF_mcVars(Stores(n))
-----------------------------------------------------------------------------
\* Whatever is tapped or lost, with midnight or without, the last request,
\* completion and block of a schedule screen are done with in the end.
ScreensSettle ==
  []<>(/\ AtRest
       /\ part = "slow" => SlowScreen!AtRest
       /\ part = "midnight" => SlowAtMidnight!AtRest)

\* Those of SignIn: who the home screen shows, what becomes of a calendar that is
\* found, and when sign-in gives up.
HomeHasIdentity == SignIn!HomeHasIdentity
FoundCalendarIsSaved == SignIn!FoundCalendarIsSaved
GivesUpOnlyWithoutCalendar == SignIn!GivesUpOnlyWithoutCalendar
=============================================================================
