--------------------------- MODULE GoogleCalendar ---------------------------
(***************************************************************************)
(* The Google Calendar service as the app uses it: events with a summary   *)
(* and a start date in one of several calendars, listed by a time window,  *)
(* inserted and deleted.  The service is not part of the repository: this  *)
(* module is the environment that GoogleCalendarService.swift relies on.   *)
(* An event never changes once inserted; removing it leaves its record in  *)
(* events, so that an id always tells which event it named.                *)
(***************************************************************************)
EXTENDS Integers

-----------------------------------------------------------------------------
(***************************************************************************)
(* Days, table rows and the query window of the schedule screen.  A day is *)
(* the number of local midnights since some origin: what startOfDay,       *)
(* date(byAdding: .day) and dateComponents([.day]) compute with.           *)
(***************************************************************************)

CONSTANTS
  RowCount,   \* rows of the table, numberOfRowsInSection (7 in the app)
  EraShift    \* days between the device calendar's "yyyy" and the wire's

ASSUME RowCountAssumption == RowCount \in Nat \ {0}
ASSUME EraShiftAssumption == EraShift \in Int

\* Calendar.move(_:byDays:) and Calendar.nextDay(for:).
Move(day, days) == day + days
NextDay(day) == Move(day, 1)

\* A faulty end of the window, one day early.
MaxDateEarly(day) == Move(NextDay(day), RowCount - 2)

\* timeMin and timeMax of the events query: today's midnight, and the
\* midnight RowCount - 1 days after tomorrow's.
MinDate(day) == Move(day, 0)
MaxDate(day) == Move(NextDay(day), RowCount - 1)

\* The day a row stands for when the Complete button reads the clock.
DayOfRow(day, row) == Move(day, row)

(***************************************************************************)
(* DateFormatter with "yyyy-MM-dd" and no fixed calendar writes and reads  *)
(* the year of the calendar set on the device, whereas the server reads a  *)
(* Gregorian year: on a device set to another era the two differ by        *)
(* EraShift.  The query window goes through ISO8601DateFormatter, which is *)
(* always Gregorian.                                                       *)
(***************************************************************************)
FormatDay(day) == day - EraShift
ParseDay(wire) == wire + EraShift

\* dateComponents([.day], from: today, to: meshiiranDay): the row an event's
\* date is stored under.  Nothing in the code keeps it inside Rows.
RowOfWire(day, wire) == ParseDay(wire) - day
-----------------------------------------------------------------------------

CONSTANTS
  EventIds,    \* ids the service can mint; an id is never used twice
  Calendars,   \* calendars named "meshiiru" the account can see
  Names        \* what an event's summary can be: display names of members

VARIABLES
  events,      \* every event ever inserted: id -> event
  alive        \* ids of the events that have not been deleted

serverVars == <<events, alive>>

\* allDay is "start has a date": a timed event has a dateTime instead.
Event ==
  [cal: Calendars, summary: Names, start: Int, length: Nat \ {0},
   allDay: BOOLEAN]

\* Dictionary.updateValue(_:forKey:), the one way a dictionary grows here.
Put(f, k, v) == [x \in DOMAIN f \cup {k} |-> IF x = k THEN v ELSE f[x]]

EmptyDict == [x \in {} |-> 0]

\* events.list: timeMax bounds the start and timeMin bounds the end.
InWindow(e, from, to) == e.start < to /\ e.start + e.length > from

Listing(cal, from, to) ==
  {id \in alive : events[id].cal = cal /\ InWindow(events[id], from, to)}

\* The service mints an unused id; which one makes no difference to anybody.
FreeIds == EventIds \ DOMAIN events
NewId == CHOOSE id \in FreeIds : TRUE

Insert(e) ==
  /\ FreeIds # {}
  /\ events' = Put(events, NewId, e)
  /\ alive' = alive \cup {NewId}

\* Deleting an unknown id, or one of another calendar, answers with an error
\* body and changes nothing.
Delete(cal, id) ==
  /\ alive' = alive \ {i \in {id} \cap alive : events[i].cal = cal}
  /\ events' = events

ServerTypeOK ==
  /\ DOMAIN events \subseteq EventIds
  /\ \A id \in DOMAIN events : events[id] \in Event
  /\ alive \subseteq DOMAIN events
=============================================================================
