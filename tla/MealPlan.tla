------------------------------ MODULE MealPlan ------------------------------
(***************************************************************************)
(* What the schedule screen promises its user, without requests, rows or   *)
(* threads.  The plan is the set of days on which the member has said "no  *)
(* meal for me".  While the screen is open the user commits a new choice;  *)
(* saving it first adds every chosen day that is missing and only then     *)
(* removes the others, so that an interrupted save never lacks a day that  *)
(* was both planned and chosen, and it ends with the plan equal to the     *)
(* choice.  The app may be closed at any moment; a request already under   *)
(* way may still arrive after that.                                        *)
(***************************************************************************)
CONSTANT Days

VARIABLES
  plan,     \* days in the shared calendar
  choice,   \* the days last committed
  phase     \* "closed", "open" or "saving"

vars == <<plan, choice, phase>>

Init ==
  /\ plan \in SUBSET Days
  /\ choice = {}
  /\ phase = "closed"

Open ==
  /\ phase = "closed"
  /\ phase' = "open"
  /\ UNCHANGED <<plan, choice>>

Commit ==
  /\ phase = "open"
  /\ choice' \in SUBSET Days
  /\ phase' = "saving"
  /\ plan' = plan

Add ==
  /\ phase # "open"
  /\ \E d \in choice \ plan : plan' = plan \cup {d}
  /\ UNCHANGED <<choice, phase>>

Remove ==
  /\ phase # "open"
  /\ choice \subseteq plan
  /\ \E d \in plan \ choice : plan' = plan \ {d}
  /\ UNCHANGED <<choice, phase>>

Finish ==
  /\ phase = "saving"
  /\ plan = choice
  /\ phase' = "open"
  /\ UNCHANGED <<plan, choice>>

Close ==
  /\ phase # "closed"
  /\ phase' = "closed"
  /\ UNCHANGED <<plan, choice>>

Next == Open \/ Commit \/ Add \/ Remove \/ Finish \/ Close

Spec == Init /\ [][Next]_vars

\* A save ends, in the plan that was chosen or in the app being closed.
Saving == phase = "saving"
Ended == (phase = "open" /\ plan = choice) \/ phase = "closed"
SaveEnds == Saving ~> Ended
==============================================================================
