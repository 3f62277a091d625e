----------------------------- MODULE MCMeshiiru -----------------------------
(***************************************************************************)
(* A small instance of the app: one named account and one without a name,  *)
(* two calendars named "meshiiru", one event of the user.                  *)
(***************************************************************************)
EXTENDS Meshiiru, TLC

CONSTANTS e1, e2, home, work, ann, bob, noId

Cal(summary, id) == [summary |-> summary, id |-> id]
Both == <<Cal("meshiiru", home), Cal("meshiiru", work)>>
Broken == <<Cal("meshiiru", home), Cal("meshiiru", noId)>>

People == {ann, bob}
CalendarsOf == {home, work}
Named == ann :> "Ann" @@ bob :> "none"
FirstLists == {ann :> Both @@ bob :> Broken}

Ids == {e1, e2}
Members == {"Ann"}
OneMeal ==
  {e1 :> [cal |-> home, summary |-> "Ann", start |-> 0, length |-> 1,
          allDay |-> TRUE]}
NoEvents == {}

BudgetOf(tap, kill, fault, refresh) ==
  "tap" :> tap @@ "edit" :> 0 @@ "kill" :> kill @@ "fault" :> fault
    @@ "refresh" :> refresh
SmallBudget == BudgetOf(1, 1, 0, 2)
QuickWrites == {"writes"}
NoFaults == {}
=============================================================================
