------------------------------- MODULE MCFaults ------------------------------
(***************************************************************************)
(* The schedule screen with what can go wrong: lost and rejected requests  *)
(* and a killed process; a calendar id that sign-in saves meanwhile; two   *)
(* saves that overlap; and midnight. Each behaviour is of one scenario,    *)
(* named by part, with that scenario's constants; the properties speak of  *)
(* all of them.                                                            *)
(***************************************************************************)
EXTENDS ScheduleSelect, TLC

Meal(cal, name, start, length, allDay) ==
  [cal |-> cal, summary |-> name, start |-> start, length |-> length,
   allDay |-> allDay]

\* One event of the user in each of two calendars, and one of another member.
TwoCalendars ==
  {1 :> Meal("home", "me", 0, 1, TRUE) @@ 2 :> Meal("work", "me", 0, 1, TRUE)
     @@ 3 :> Meal("work", "ann", 0, 1, TRUE)}

\* An event of the user and one of another member on the same day.
SharedCalendar ==
  {1 :> Meal("home", "me", 0, 1, TRUE) @@ 2 :> Meal("home", "ann", 0, 1, TRUE)}

\* Two events of the user on one day.
TwinCalendar ==
  {1 :> Meal("home", "me", 0, 1, TRUE) @@ 2 :> Meal("home", "me", 0, 1, TRUE)}

\* An event of the user that began the day before the window, and one of
\* another member.
LongEvents ==
  {1 :> Meal("home", "ann", 1, 1, TRUE) @@ 2 :> Meal("home", "me", -1, 3, TRUE)}

AnnsEvents == {Meal("home", "ann", 0, 1, TRUE), Meal("home", "ann", 1, 2, TRUE)}
BusyFamily == {Meal("home", "ann", 0, 1, TRUE), Meal("home", "me", 1, 1, TRUE)}

BudgetOf(tap, edit, kill, fault, refresh) ==
  [k \in {"tap", "edit", "kill", "fault", "refresh"} |->
     CASE k = "tap" -> tap [] k = "edit" -> edit
       [] k = "kill" -> kill [] k = "fault" -> fault
       [] k = "refresh" -> refresh]
AnyBudget == BudgetOf(2, 0, 1, 1, 1)

VARIABLE
  part  \* the part whose behaviours these are

mcVars == <<part, vars>>
-----------------------------------------------------------------------------
Faulty == INSTANCE ScheduleSelect WITH
  Calendars <- {"home"}, InitialEvents <- SharedCalendar,
  OtherEvents <- AnnsEvents, LastDay <- 0, Budget <- BudgetOf(1, 0, 1, 1, 0),
  Prompt <- {}
RefreshedScreen == INSTANCE ScheduleSelect WITH
  Calendars <- {"home", "work"}, InitialEvents <- TwoCalendars,
  OtherEvents <- AnnsEvents, LastDay <- 0, Budget <- BudgetOf(1, 0, 0, 0, 1),
  Prompt <- {}
Overlapping == INSTANCE ScheduleSelect WITH
  Calendars <- {"home"}, InitialEvents <- TwinCalendar, OtherEvents <- BusyFamily,
  LastDay <- 0, Budget <- BudgetOf(2, 0, 0, 0, 0), Prompt <- {"loads"}
AtMidnight == INSTANCE ScheduleSelect WITH
  Calendars <- {"home"}, InitialEvents <- LongEvents, OtherEvents <- BusyFamily,
  LastDay <- 1, Budget <- BudgetOf(1, 0, 0, 0, 0), Prompt <- {"writes"}

-----------------------------------------------------------------------------
\* The variables of the other parts stay as they are.
MCInit ==
  /\ part \in {"faults", "refresh", "overlap", "midnight"}
  /\ CASE part = "faults" -> Faulty!Init
       [] part = "refresh" -> RefreshedScreen!Init
       [] part = "overlap" -> Overlapping!Init
       [] part = "midnight" -> AtMidnight!Init

MCNext ==
  /\ \/ part = "faults" /\ Faulty!Next
     \/ part = "refresh" /\ RefreshedScreen!Next
     \/ part = "overlap" /\ Overlapping!Next
     \/ part = "midnight" /\ AtMidnight!Next
  /\ UNCHANGED part
MCSpec == MCInit /\ [][MCNext]_mcVars
=============================================================================
