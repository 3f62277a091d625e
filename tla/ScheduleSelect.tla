--------------------------- MODULE ScheduleSelect ---------------------------
(***************************************************************************)
(* The schedule screen: ScheduleSelectTableViewController and the methods  *)
(* of GoogleCalendarService it calls.  A row of the table is one of the    *)
(* next RowCount days; a selected row is a day without a meal.  Complete   *)
(* inserts an event for every selected row that has none, deletes the      *)
(* events of the rows that are not selected, and loads the table again.    *)
(*                                                                         *)
(* Four kinds of threads interleave: the main thread (touches, the handler *)
(* of the Complete button with its Thread.sleep calls, and the blocks of   *)
(* DispatchQueue.main), the delegate queue of each URLSession (the         *)
(* completion of a load, which writes meshiiranList), the network and the  *)
(* server, and the other members of the family.                            *)
(***************************************************************************)
EXTENDS GoogleCalendar, FiniteSets

CONSTANTS
  UserName,        \* UserDefaults "userName"
  InitialEvents,   \* the calendars' contents before the app is opened
  OtherEvents,     \* events other clients may insert and delete
  LastDay,         \* bound: midnights that may pass
  Budget,          \* bound: taps, edits by others, kills, faults, and calendar
                   \* ids saved or asked for again by sign-in
  Faults,          \* network faults that may happen: "lost", "rejected"
  Prompt           \* what is quick: "writes" and "loads" are answered before
                   \* the next sleep ends, and a patient "user" waits for the
                   \* screen to settle

BudgetKinds == {"tap", "edit", "kill", "fault", "refresh"}

ASSUME UserNameAssumption == UserName \in Names
ASSUME InitialEventsAssumption ==
  \A es \in InitialEvents :
    DOMAIN es \subseteq EventIds /\ \A id \in DOMAIN es : es[id] \in Event
ASSUME OtherEventsAssumption == OtherEvents \subseteq Event
ASSUME LastDayAssumption == LastDay \in Nat
ASSUME BudgetAssumption == Budget \in [BudgetKinds -> Nat]
ASSUME PromptAssumption == Prompt \subseteq {"writes", "loads", "user"}

VARIABLES
  today,             \* Date(), in days
  calendarId,        \* UserDefaults "calendarId"
  refreshing,        \* fetchCalendarList requests of sign-in are pending
  screen,            \* "closed" or "open": the process and its home screen
  openedOn,          \* the day viewDidLoad ran
  meshiiranList,     \* id of a loaded event -> row
  selected,          \* rows selected in the table
  completeEnabled,   \* completeButton.isEnabled
  mainQueue,         \* setupRows' blocks waiting in DispatchQueue.main
  pc,                \* where onTapCompleteButton is on the main thread
  selectedIndexPaths,\* its snapshot of the selection; kept when it returns
  rowsLeft,          \* rows the insertion loop has not reached
  idsForDelete,      \* ids the deletion loop has not reached
  deleteFrom,        \* calendarId as deleteEvents read it
  loads,             \* getEvents calls under way
  writes,            \* insert and delete requests under way
  orphans,           \* those of a process that has died
  broken,            \* a write's completion is about to unwrap nil data
  saves,             \* taps on Complete so far, to tell requests apart
  budget

appVars == <<screen, openedOn, meshiiranList, selected, completeEnabled,
             mainQueue>>
handlerVars == <<saves, pc, selectedIndexPaths, rowsLeft, idsForDelete,
                 deleteFrom>>
netVars == <<loads, writes, orphans, broken>>
defaultsVars == <<calendarId, refreshing>>

vars == <<serverVars, today, defaultsVars, appVars, handlerVars, netVars,
          budget>>
\* The rows of the table, tableView(_:numberOfRowsInSection:).
Rows == 0 .. RowCount - 1
-----------------------------------------------------------------------------
(* Requests.  A load goes from "asked" (request sent) to "answered" (ids   *)
(* is what the server listed) to "storing" (its completion runs and ids is *)
(* what it has still to store, with day the today it computes rows from).  *)

Load ==
  [save: Nat, phase: {"asked", "answered", "storing"}, cal: Calendars,
   day: Nat, ids: SUBSET EventIds]

\* A block of setupRows: the load it belongs to and the entry it selects.
Block == [save: Nat, id: EventIds, row: Int]

InsertRequest == [save: Nat, op: {"insert"}, row: Int, event: Event]
DeleteRequest ==
  [save: Nat, op: {"delete"}, cal: Calendars, id: EventIds]
Write == InsertRequest \cup DeleteRequest

Spend(kind) ==
  /\ budget[kind] > 0
  /\ budget' = [budget EXCEPT ![kind] = @ - 1]

Settled == loads = {} /\ writes = {} /\ orphans = {} /\ ~refreshing

\* The main thread goes on after a sleep, the user after a look at the table.
AfterSleep ==
  /\ "writes" \in Prompt => writes = {} /\ orphans = {}
  /\ "loads" \in Prompt => loads = {} /\ ~refreshing

UserReady == "user" \in Prompt => Settled /\ mainQueue = {}
-----------------------------------------------------------------------------
(* The filter of getEvents' completion.                                    *)

\* Faulty filter: any member's all-day event.
IsAnyones(e) == e.allDay

\* summary equal to the stored user name, and a start date.
IsMine(e) == e.summary = UserName /\ e.allDay

\* Dictionary.allKeysForValue, and the rows in meshiiranList.values.
AllKeysForNothing(row) == {}
AllKeysForValue(row) ==
  {id \in DOMAIN meshiiranList : meshiiranList[id] = row}
ListedRows == {meshiiranList[id] : id \in DOMAIN meshiiranList}

(***************************************************************************)
(* The rows the deletion loop visits: those listed and not selected.  Its  *)
(* keyForValue takes the first key in the dictionary's order, which is     *)
(* arbitrary but the same for both entries of a row listed twice, so one   *)
(* of two events on a row is deleted (twice: the second request finds      *)
(* nothing) and the other is not.                                          *)
(***************************************************************************)
RowsBelowToDelete ==
  {row \in ListedRows : row + 1 \notin selectedIndexPaths}
RowsToDelete == {row \in ListedRows : row \notin selectedIndexPaths}

KeysForRows(rows) ==
  {ids \in SUBSET DOMAIN meshiiranList :
     /\ {meshiiranList[id] : id \in ids} = rows
     /\ \A i, j \in ids : meshiiranList[i] = meshiiranList[j] => i = j}
-----------------------------------------------------------------------------
(* The initial state: the app is not running; its user has signed in       *)
(* before, so UserDefaults holds a name and a calendar.                    *)

Init ==
  /\ events \in InitialEvents
  /\ alive = DOMAIN events
  /\ today = 0
  /\ calendarId \in Calendars
  /\ refreshing = FALSE
  /\ screen = "closed"
  /\ openedOn = 0
  /\ meshiiranList = EmptyDict
  /\ selected = {}
  /\ completeEnabled = FALSE
  /\ mainQueue = {}
  /\ pc = "idle"
  /\ selectedIndexPaths = {}
  /\ rowsLeft = {}
  /\ idsForDelete = {}
  /\ deleteFrom = calendarId
  /\ loads = {}
  /\ writes = {}
  /\ orphans = {}
  /\ broken = FALSE
  /\ saves = 0
  /\ budget = Budget
-----------------------------------------------------------------------------
(* Memory shared by the main thread and the completions.  meshiiranList is *)
(* a Swift dictionary without a lock.  While one thread is inside the      *)
(* storing loop and another uses the dictionary, either thread's store may *)
(* be lost and the process may crash.                                      *)

Storing(l) == l.phase = "storing" /\ l.ids # {}

AnotherStores(l) == \E k \in loads \ {l} : Storing(k)

DictionaryRace ==
  \E l \in loads : Storing(l) /\ (pc # "idle" \/ AnotherStores(l))

\* The process dies: nothing of it is left but UserDefaults and, of its
\* requests, those the network will still carry to the server.
ProcessDies ==
  /\ screen = "open"
  /\ screen' = "closed"
  /\ refreshing' = FALSE
  /\ meshiiranList' = EmptyDict
  /\ selected' = {}
  /\ completeEnabled' = FALSE
  /\ mainQueue' = {}
  /\ pc' = "idle"
  /\ rowsLeft' = {}
  /\ idsForDelete' = {}
  /\ loads' = {}
  /\ writes' = {}
  /\ broken' = FALSE
  /\ \E kept \in SUBSET writes : orphans' = orphans \cup kept
  /\ UNCHANGED <<serverVars, today, calendarId, openedOn, selectedIndexPaths,
                 deleteFrom, saves>>

Kill == Spend("kill") /\ ProcessDies

CrashInDictionary == DictionaryRace /\ Spend("fault") /\ ProcessDies

\* String(data: data!, encoding: .utf8)! in the completion of a write.
CrashInCompletion == broken /\ ProcessDies /\ budget' = budget
-----------------------------------------------------------------------------
(* Loading.                                                                *)

NewLoad ==
  [save |-> saves, phase |-> "asked", cal |-> calendarId, day |-> today,
   ids |-> {}]

\* getEvents of the controller: reset the dictionary, start the request.
GetEvents ==
  /\ \/ meshiiranList' = EmptyDict
     \/ (\E l \in loads : Storing(l)) /\ meshiiranList' = meshiiranList
  /\ loads' = loads \cup {NewLoad}

\* The segue to the home screen, right after sign-in has started
\* fetchCalendarList, which may have been answered: viewDidLoad.
ViewDidLoad ==
  /\ screen = "closed"
  /\ AfterSleep
  /\ screen' = "open"
  /\ refreshing' \in BOOLEAN
  /\ openedOn' = today
  /\ selected' = {}
  /\ completeEnabled' = FALSE
  /\ GetEvents
  /\ UNCHANGED <<serverVars, today, calendarId, mainQueue, handlerVars,
                 writes, orphans, broken, budget>>

\* Sign-in, behind the home screen or before it opens, goes on by itself: it
\* saves an id for each calendar named "meshiiru" in an answer, its requests
\* end, and a sign-in still under way when the screen opened asks again.
SaveCalendarId ==
  /\ refreshing \/ screen = "closed"
  /\ Spend("refresh")
  /\ calendarId' \in Calendars
  /\ UNCHANGED <<serverVars, today, refreshing, appVars, handlerVars, netVars>>

EndRefresh ==
  /\ refreshing
  /\ refreshing' = FALSE
  /\ UNCHANGED <<serverVars, today, calendarId, appVars, handlerVars, netVars,
                 budget>>

RefreshAgain ==
  /\ screen = "open"
  /\ Spend("refresh")
  /\ refreshing' = TRUE
  /\ UNCHANGED <<serverVars, today, calendarId, appVars, handlerVars, netVars>>

AnswerLoad(l) ==
  /\ l.phase = "asked"
  /\ LET items == Listing(l.cal, MinDate(l.day), MaxDate(l.day)) IN
       loads' = (loads \ {l}) \cup
                {[l EXCEPT !.phase = "answered", !.ids = items]}
  /\ UNCHANGED <<serverVars, today, defaultsVars, appVars, handlerVars,
                 writes, orphans, broken, budget>>

\* data is nil, or not JSON: the completion returns without calling back.
LoseLoad(l) ==
  /\ "lost" \in Faults
  /\ Spend("fault")
  /\ l.phase = "asked"
  /\ loads' = loads \ {l}
  /\ UNCHANGED <<serverVars, today, defaultsVars, appVars, handlerVars,
                 writes, orphans, broken>>

\* An error body has no "items": the forced cast traps.
CrashOnErrorBody(l) ==
  /\ "rejected" \in Faults
  /\ Spend("fault")
  /\ l.phase = "asked"
  /\ ProcessDies

\* The completion filters the items and reads the clock once.
BeginStoring(l) ==
  /\ l.phase = "answered"
  /\ LET mine == {id \in l.ids : IsMine(events[id])} IN
       loads' = (loads \ {l}) \cup
                {[l EXCEPT !.phase = "storing", !.day = today, !.ids = mine]}
  /\ UNCHANGED <<serverVars, today, defaultsVars, appVars, handlerVars,
                 writes, orphans, broken, budget>>

\* One updateValue of the loop.
StoreRow(l) ==
  /\ l.phase = "storing"
  /\ \E id \in l.ids :
       /\ \/ meshiiranList' =
               Put(meshiiranList, id, RowOfWire(l.day, events[id].start))
          \/ AnotherStores(l) /\ meshiiranList' = meshiiranList
       /\ loads' = (loads \ {l}) \cup {[l EXCEPT !.ids = @ \ {id}]}
  /\ UNCHANGED <<serverVars, today, defaultsVars, screen, openedOn, selected,
                 completeEnabled, mainQueue, handlerVars, writes, orphans,
                 broken, budget>>

\* Faulty completion that starts another load instead of filling the table.
SetupRowsByPolling(l) ==
  /\ l.phase = "storing"
  /\ l.ids = {}
  /\ loads' = (loads \ {l}) \cup {NewLoad}
  /\ UNCHANGED <<serverVars, today, defaultsVars, appVars, handlerVars,
                 writes, orphans, broken, budget>>

\* setupRows: one block per entry of the dictionary as it is now.
SetupRows(l) ==
  /\ l.phase = "storing"
  /\ l.ids = {}
  /\ mainQueue' = mainQueue \cup
       {[save |-> l.save, id |-> id, row |-> meshiiranList[id]] :
          id \in DOMAIN meshiiranList}
  /\ loads' = loads \ {l}
  /\ UNCHANGED <<serverVars, today, defaultsVars, screen, openedOn,
                 meshiiranList, selected, completeEnabled, handlerVars,
                 writes, orphans, broken, budget>>
-----------------------------------------------------------------------------
(* The main thread when it is free: blocks and touches.                    *)


\* tableView.selectRow(at:) has no effect outside the table.
InTable(row) == row \in Rows

\* A block of setupRows; it calls no delegate method.
SelectRow(block) ==
  /\ pc = "idle"
  /\ mainQueue' = mainQueue \ {block}
  /\ selected' = selected \cup {row \in {block.row} : InTable(row)}
  /\ UNCHANGED <<serverVars, today, defaultsVars, screen, openedOn,
                 meshiiranList, completeEnabled, handlerVars, netVars, budget>>

\* didSelectRowAt and didDeselectRowAt.
TouchRow(row) ==
  /\ screen = "open"
  /\ pc = "idle"
  /\ UserReady
  /\ selected' = IF row \in selected THEN selected \ {row}
                                     ELSE selected \cup {row}
  /\ completeEnabled' = TRUE
  /\ UNCHANGED <<serverVars, today, defaultsVars, screen, openedOn,
                 meshiiranList, mainQueue, handlerVars, netVars, budget>>
-----------------------------------------------------------------------------
(* onTapCompleteButton.  pc is "create" in the insertion loop, "delete" in *)
(* deleteEvents; each iteration ends in a sleep.                           *)

\* indexPathsForSelectedRows is nil when nothing is selected: then every
\* listed event is deleted, out of a snapshot of the keys.
TapComplete ==
  /\ screen = "open"
  /\ pc = "idle"
  /\ completeEnabled
  /\ UserReady
  /\ Spend("tap")
  /\ completeEnabled' = FALSE
  /\ saves' = saves + 1
  /\ selectedIndexPaths' = selected
  /\ IF selected = {}
     THEN /\ pc' = "delete"
          /\ rowsLeft' = {}
          /\ idsForDelete' = DOMAIN meshiiranList
          /\ deleteFrom' = calendarId
     ELSE /\ pc' = "create"
          /\ rowsLeft' = selected
          /\ UNCHANGED <<idsForDelete, deleteFrom>>
  /\ UNCHANGED <<serverVars, today, defaultsVars, screen, openedOn,
                 meshiiranList, selected, mainQueue, netVars>>

\* createEvent: an all-day event on the row's day, named after the user.
NewEvent(row) ==
  [cal |-> calendarId, summary |-> UserName,
   start |-> FormatDay(DayOfRow(today, row)), length |-> 1, allDay |-> TRUE]

CreateEvent(row) ==
  /\ writes' = writes \cup
       {[save |-> saves, op |-> "insert", row |-> row,
         event |-> NewEvent(row)]}

\* One iteration of the insertion loop.
VisitSelectedRow(row) ==
  /\ pc = "create"
  /\ row \in rowsLeft
  /\ AfterSleep
  /\ rowsLeft' = rowsLeft \ {row}
  /\ IF AllKeysForValue(row) = {} THEN CreateEvent(row)
                                  ELSE writes' = writes
  /\ UNCHANGED <<serverVars, today, defaultsVars, appVars, pc, saves,
                 selectedIndexPaths, idsForDelete, deleteFrom, loads, orphans,
                 broken, budget>>

\* The loop that collects the ids, and the entry of deleteEvents.
CollectIds ==
  /\ pc = "create"
  /\ rowsLeft = {}
  /\ AfterSleep
  /\ pc' = "delete"
  /\ idsForDelete' \in KeysForRows(RowsToDelete)
  /\ deleteFrom' = calendarId
  /\ UNCHANGED <<serverVars, today, defaultsVars, appVars, saves,
                 selectedIndexPaths, rowsLeft, netVars, budget>>

\* One iteration of the deletion loop.
DeleteEvent(id) ==
  /\ pc = "delete"
  /\ id \in idsForDelete
  /\ AfterSleep
  /\ idsForDelete' = idsForDelete \ {id}
  /\ writes' = writes \cup
       {[save |-> saves, op |-> "delete", cal |-> deleteFrom, id |-> id]}
  /\ UNCHANGED <<serverVars, today, defaultsVars, appVars, pc, saves,
                 selectedIndexPaths, rowsLeft, deleteFrom, loads, orphans,
                 broken, budget>>

\* The completion of deleteEvents loads the table again.
FinishComplete ==
  /\ pc = "delete"
  /\ idsForDelete = {}
  /\ AfterSleep
  /\ pc' = "idle"
  /\ GetEvents
  /\ UNCHANGED <<serverVars, today, defaultsVars, screen, openedOn, selected,
                 completeEnabled, mainQueue, saves, selectedIndexPaths,
                 rowsLeft, idsForDelete, deleteFrom, writes, orphans, broken,
                 budget>>
-----------------------------------------------------------------------------
(* The network, the server and the other members.                          *)

Apply(w) ==
  \/ w.op = "insert" /\ Insert(w.event)
  \/ w.op = "delete" /\ Delete(w.cal, w.id)

\* The data that comes back, an error body included, is not looked at.
ServeWrite(w) ==
  /\ Apply(w)
  /\ writes' = writes \ {w}
  /\ UNCHANGED <<today, defaultsVars, appVars, handlerVars, loads, orphans,
                 broken, budget>>

RejectWrite(w) ==
  /\ "rejected" \in Faults
  /\ Spend("fault")
  /\ writes' = writes \ {w}
  /\ UNCHANGED <<serverVars, today, defaultsVars, appVars, handlerVars, loads,
                 orphans, broken>>

\* The request or its answer is lost: data is nil.
LoseWrite(w) ==
  /\ "lost" \in Faults
  /\ Spend("fault")
  /\ Apply(w) \/ UNCHANGED serverVars
  /\ writes' = writes \ {w}
  /\ broken' = TRUE
  /\ UNCHANGED <<today, defaultsVars, appVars, handlerVars, loads, orphans>>

ServeOrphan(w) ==
  /\ Apply(w)
  /\ orphans' = orphans \ {w}
  /\ UNCHANGED <<today, defaultsVars, appVars, handlerVars, loads, writes,
                 broken, budget>>

OtherInserts ==
  /\ Spend("edit")
  /\ \E e \in OtherEvents : Insert(e)
  /\ UNCHANGED <<today, defaultsVars, appVars, handlerVars, netVars>>

OtherDeletes ==
  /\ Spend("edit")
  /\ \E id \in alive :
       events[id] \in OtherEvents /\ Delete(events[id].cal, id)
  /\ UNCHANGED <<today, defaultsVars, appVars, handlerVars, netVars>>

Midnight ==
  /\ today < LastDay
  /\ today' = today + 1
  /\ UNCHANGED <<serverVars, defaultsVars, appVars, handlerVars, netVars,
                 budget>>
-----------------------------------------------------------------------------
Handler ==
  \/ \E row \in rowsLeft : VisitSelectedRow(row)
  \/ CollectIds
  \/ \E id \in idsForDelete : DeleteEvent(id)
  \/ FinishComplete

MainBlock == \E block \in mainQueue : SelectRow(block)

User == TapComplete \/ \E row \in Rows : TouchRow(row)

Completion ==
  \E l \in loads : BeginStoring(l) \/ StoreRow(l) \/ SetupRows(l)

Network ==
  \/ \E l \in loads : AnswerLoad(l)
  \/ \E w \in writes : ServeWrite(w)
  \/ \E w \in orphans : ServeOrphan(w)
  \/ EndRefresh

Fault ==
  \/ \E l \in loads : LoseLoad(l) \/ CrashOnErrorBody(l)
  \/ \E w \in writes : RejectWrite(w) \/ LoseWrite(w)
  \/ CrashInDictionary
  \/ CrashInCompletion
  \/ Kill

World ==
  \/ OtherInserts
  \/ OtherDeletes
  \/ Midnight
  \/ SaveCalendarId
  \/ RefreshAgain

Next ==
  \/ ViewDidLoad
  \/ User
  \/ Handler
  \/ MainBlock
  \/ Completion
  \/ Network
  \/ Fault
  \/ World

Spec == Init /\ [][Next]_vars

(***************************************************************************)
(* Nothing obliges the user, the other members or the clock to act.  The   *)
(* run loop, the dispatch queues and the server do go on: sleeps end,      *)
(* blocks and completions run, and a request that is not lost is answered. *)
(***************************************************************************)
Fairness ==
  /\ WF_vars(Handler)
  /\ WF_vars(MainBlock)
  /\ WF_vars(Completion)
  /\ WF_vars(Network)

FairSpec == Spec /\ Fairness
-----------------------------------------------------------------------------
(***************************************************************************)
(* What the schedule screen must keep.                                     *)
(***************************************************************************)

\* Ids of the user's own all-day events, whatever the app's filter makes of them.
Mine ==
  {id \in DOMAIN events : events[id].summary = UserName /\ events[id].allDay}

\* The wire dates of the rows, and those the shared calendar has the user's
\* events on: the plan the table should show.
WireDays(rows) == {FormatDay(DayOfRow(today, row)) : row \in rows}

PlanDays ==
  WireDays(Rows) \cap
    {events[id].start :
       id \in {i \in alive \cap Mine : events[i].cal = calendarId}}

\* Every variable has its type; among others only rows of the table are ever
\* selected, although a loaded event may lie outside it (setupRows), and the
\* ids a load carries are those of events.
TypeOK ==
  /\ ServerTypeOK
  /\ today \in Nat
  /\ calendarId \in Calendars
  /\ refreshing \in BOOLEAN
  /\ screen \in {"closed", "open"}
  /\ openedOn \in Nat
  /\ DOMAIN meshiiranList \subseteq EventIds
  /\ \A id \in DOMAIN meshiiranList : meshiiranList[id] \in Int
  /\ selected \subseteq Rows
  /\ completeEnabled \in BOOLEAN
  /\ mainQueue \subseteq Block
  /\ pc \in {"idle", "create", "delete"}
  /\ selectedIndexPaths \subseteq Rows
  /\ rowsLeft \subseteq Rows
  /\ idsForDelete \subseteq EventIds
  /\ deleteFrom \in Calendars
  /\ loads \subseteq Load
  /\ \A l \in loads : l.ids \subseteq DOMAIN events
  /\ writes \subseteq Write
  /\ orphans \subseteq Write
  /\ broken \in BOOLEAN
  /\ saves \in Nat
  /\ budget \in [BudgetKinds -> Nat]

(***************************************************************************)
(* Another member's event never disappears from a calendar except by an    *)
(* edit of another client: whatever order loads, taps, midnights, crashes  *)
(* and late requests come in, the app deletes only events under the user's *)
(* name (getEvents filters by summary, deleteEvents deletes by id alone).  *)
(***************************************************************************)
ForeignEventsSurvive ==
  [][alive \ alive' \subseteq Mine \/ budget'["edit"] < budget["edit"]]_vars

\* On some day since the screen was opened, the event's row was one that was
\* not selected when Complete was last tapped.
Unselected(id) ==
  \E day \in openedOn .. today :
    RowOfWire(day, events[id].start) \notin selectedIndexPaths

(***************************************************************************)
(* Every event the running save is about to delete, or has asked to be     *)
(* deleted, lay on a row that was not selected: stale loads, overlapping   *)
(* completions and the dictionary's duplicate rows never make the deletion *)
(* loop take a day the user kept.  (On another day the same event is on    *)
(* another row: rows are not renumbered at midnight.)                      *)
(***************************************************************************)
DoomedUnselected ==
  /\ pc = "delete" => \A id \in idsForDelete : Unselected(id)
  /\ \A w \in writes : w.op = "delete" /\ w.save = saves => Unselected(w.id)

\* Every id the app holds, in memory or in a request, is one of the user's own
\* events' from the completion of getEvents on; no request is of a later save.
HeldIdsAreMine ==
  /\ DOMAIN meshiiranList \cup idsForDelete \subseteq Mine
  /\ \A w \in writes \cup orphans : w.op = "delete" => w.id \in Mine
  /\ \A l \in loads : l.phase = "storing" => l.ids \subseteq Mine
  /\ \A w \in writes : w.save \leq saves

\* Every stored row was its event's on some day since the screen was opened.
RowsAreDated ==
  /\ openedOn \leq today
  /\ \A l \in loads : l.day \in openedOn .. today
  /\ \A id \in DOMAIN meshiiranList : \E day \in openedOn .. today :
       meshiiranList[id] = RowOfWire(day, events[id].start)

\* Nothing of a dead process is left to act.
ClosedIsEmpty ==
  screen = "closed" =>
    /\ pc = "idle"
    /\ loads = {}
    /\ writes = {}
    /\ idsForDelete = {}
    /\ meshiiranList = EmptyDict

(***************************************************************************)
(* The inductive invariant: what getEvents puts into the dictionary are    *)
(* the user's own events under a row they once had, and every later list   *)
(* of ids or request is made from it, across races, midnights and deaths.  *)
(***************************************************************************)
Provenance ==
  /\ TypeOK
  /\ HeldIdsAreMine
  /\ RowsAreDated
  /\ ClosedIsEmpty
  /\ DoomedUnselected

(***************************************************************************)
(* A row that has an event gets no second one: the comment of the          *)
(* insertion loop, "originally not selected", read as a fact about the     *)
(* calendar.                                                               *)
(***************************************************************************)
PlansNoDayTwice ==
  \A w \in writes' \ writes : w.op = "insert" => w.event.start \notin PlanDays
InsertsOnlyUnplanned == [][PlansNoDayTwice]_vars

(***************************************************************************)
(* When nothing is under way and the user has touched no row since the     *)
(* screen opened or Complete was tapped, the selected rows are exactly the *)
(* days planned in the calendar: loading, selecting, inserting, deleting   *)
(* and reopening after a crash all agree.                                  *)
(***************************************************************************)
CleanScreenShowsPlan ==
  /\ screen = "open"
  /\ pc = "idle"
  /\ Settled
  /\ mainQueue = {}
  /\ ~completeEnabled
  => WireDays(selected) = PlanDays

(***************************************************************************)
(* The screen implements the abstract meal plan: while Complete runs,      *)
(* chosen days are added before others are removed, it returns with the    *)
(* plan equal to the choice, and a crash leaves the plan in between.       *)
(***************************************************************************)
Plan == INSTANCE MealPlan WITH
  Days <- Int,
  plan <- PlanDays,
  choice <- WireDays(selectedIndexPaths),
  phase <- IF screen = "closed" THEN "closed"
           ELSE IF pc = "idle" THEN "open" ELSE "saving"

ImplementsMealPlan == Plan!Spec

\* A tap on Complete ends in the chosen plan unless the process dies.
SavesEnd == Plan!SaveEnds

\* The main thread is back from its handler, and the last request, completion
\* and block are done with.
AtRest == pc = "idle" /\ Settled /\ mainQueue = {}
==============================================================================
