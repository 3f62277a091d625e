------------------------------ MODULE Meshiiru ------------------------------
(***************************************************************************)
(* The app: sign-in and the schedule screen in one process.  They share    *)
(* UserDefaults and the screen, and nothing else: sign-in opens the home   *)
(* screen, its calendar list requests go on behind it and save ids that    *)
(* the screen's requests are addressed to, and the process dies as one.    *)
(* Faults of the network and edits by the family are left to the runs of   *)
(* the two parts.                                                          *)
(***************************************************************************)
EXTENDS Naturals, Sequences, TLAPS

CONSTANTS
  Accounts, CalendarIds, NameOf, InitialLists, NoName,
  NoCalendar, NoOne, MaxFetches,                            \* of SignIn
  RowCount, EraShift, EventIds, Names, UserName, InitialEvents, OtherEvents,
  LastDay, Budget, Faults, Prompt                           \* of ScheduleSelect

VARIABLES
  userName, calendarId, keychain, currentUser, screen, signIns, checking,
  fetches, lists,                                           \* of SignIn
  events, alive, today, openedOn, meshiiranList, selected, completeEnabled,
  mainQueue, pc, selectedIndexPaths, rowsLeft, idsForDelete, deleteFrom,
  loads, writes, orphans, broken, saves, budget             \* of ScheduleSelect

SignIn == INSTANCE SignIn WITH SharedLists <- {}

\* What the schedule screen sees of sign-in.
Open == screen = "home"
Refreshing == Open /\ fetches # {}
Table == INSTANCE ScheduleSelectProofs WITH
  Calendars <- CalendarIds \cup {NoCalendar},
  screen <- IF Open THEN "open" ELSE "closed",
  refreshing <- Refreshing

signInVars == <<userName, calendarId, keychain, currentUser, screen, signIns,
  checking, fetches, lists>>
tableVars == <<events, alive, today, openedOn, meshiiranList, selected,
  completeEnabled, mainQueue, pc, selectedIndexPaths, rowsLeft, idsForDelete,
  deleteFrom, loads, writes, orphans, broken, saves>>
vars == <<signInVars, tableVars, budget>>

Init == SignIn!Init /\ Table!Init

\* Ids saved, and requests made while the home screen shows, are bounded.
SpendRefresh ==
  IF calendarId' # calendarId \/ (Refreshing' /\ ~Refreshing)
  THEN Table!Spend("refresh") ELSE UNCHANGED budget

\* Sign-in alone, before the home screen opens and behind it.
SignInGoesOn ==
  /\ \/ SignIn!Launch \/ SignIn!TapSignIn \/ SignIn!Callback
     \/ \E n \in 1..MaxFetches : SignIn!Storing(n)
     \/ \E f \in fetches : SignIn!LoseFetch(f)
  /\ SpendRefresh
  /\ UNCHANGED tableVars

\* The callback finds no calendar, or the home screen is already presented.
StaysOnScreen ==
  /\ SignIn!CheckCalendar
  /\ screen' = screen
  /\ UNCHANGED <<tableVars, budget>>

OpensHome ==
  /\ SignIn!CheckCalendar
  /\ screen' # screen
  /\ Table!ViewDidLoad

\* The schedule screen, its requests, the service and the family.
TableGoesOn ==
  /\ UNCHANGED signInVars
  /\ \/ Table!User \/ Table!Handler \/ Table!MainBlock \/ Table!Completion
     \/ \E l \in loads : Table!AnswerLoad(l)
     \/ \E w \in writes : Table!ServeWrite(w)
     \/ \E w \in orphans : Table!ServeOrphan(w)

\* The process dies at login, or with the home screen in any state, as a crash
\* of the schedule screen would have it.
DiesAtLogin == SignIn!Die /\ ~Open /\ UNCHANGED <<tableVars, budget>>
DiesAtHome == SignIn!Die /\ Table!Kill

Next ==
  \/ SignInGoesOn \/ StaysOnScreen \/ OpensHome
  \/ TableGoesOn
  \/ DiesAtLogin \/ DiesAtHome

Spec == Init /\ [][Next]_vars
-----------------------------------------------------------------------------
(***************************************************************************)
(* The schedule screen is used as it was modelled: whatever sign-in does   *)
(* before and behind it - a second sign-in, two lists at once, a list with *)
(* two calendars, an answer before the screen opens - is among the steps   *)
(* ScheduleSelect allows its surroundings, so what holds there holds here. *)
(***************************************************************************)
ImplementsSchedule == Table!Spec

(***************************************************************************)
(* Every request of the schedule screen is addressed to a calendar that    *)
(* exists: the id is read from UserDefaults again for each of them, while  *)
(* the lists of two sign-ins may still be writing it (createEvent and      *)
(* deleteEvents return silently when there is none, and Complete would     *)
(* save one half of the plan).                                             *)
(***************************************************************************)
RequestsAreAddressed ==
  /\ \A l \in loads : l.cal \in CalendarIds
  /\ \A w \in writes \cup orphans :
       IF w.op = "insert" THEN w.event.cal \in CalendarIds
                          ELSE w.cal \in CalendarIds
-----------------------------------------------------------------------------
(***************************************************************************)
(* Theorems.  The two parts were proved about on their own; here their     *)
(* invariants are shown to hold of the app, whose steps are theirs.        *)
(***************************************************************************)
USE DEF vars, signInVars, tableVars

\* What the constants must be, for the two parts.
TableAssumption ==
  /\ Table!RowCountAssumption /\ Table!EraShiftAssumption
  /\ Table!UserNameAssumption /\ Table!InitialEventsAssumption
  /\ Table!OtherEventsAssumption /\ Table!LastDayAssumption
  /\ Table!BudgetAssumption /\ Table!PromptAssumption

ASSUME PartsAssumption == SignIn!SignInAssumption /\ TableAssumption

\* Sign-in sees in the app the steps of its own module, and nothing of the
\* schedule screen's but stuttering.
LEMMA SignInSteps == [Next]_vars => [SignIn!Next]_(SignIn!vars)
BY DEF Next, SignInGoesOn, StaysOnScreen, OpensHome, TableGoesOn,
       DiesAtLogin, DiesAtHome, SignIn!Next, SignIn!vars, SignIn!defaults

\* So its invariant is kept.
LEMMA IdentityKept ==
  ASSUME SignIn!SignInAssumption, SignIn!Identity, [Next]_vars
  PROVE  SignIn!Identity'
BY SignInSteps, SignIn!IdentityStep

\* While sign-in goes on no screen opens or closes, and an id is saved only
\* with a request under way, which the step does not end.
LEMMA BehindTheScreen ==
  ASSUME SignInGoesOn
  PROVE  /\ Open' = Open
         /\ calendarId' # calendarId => Refreshing' = Open /\ Refreshing = Open
<1>1. CASE \E n \in 1..MaxFetches : SignIn!Storing(n)
  BY <1>1
     DEF SignIn!Storing, SignIn!AnswerFetch, SignIn!StoreItem,
         SignIn!EndStoring, SignIn!defaults, Open, Refreshing
<1>2. CASE ~\E n \in 1..MaxFetches : SignIn!Storing(n)
  BY <1>2
     DEF SignInGoesOn, SignIn!Launch, SignIn!TapSignIn, SignIn!Callback,
         SignIn!SignedIn, SignIn!SignInFails, SignIn!LoseFetch,
         SignIn!defaults, Open, Refreshing
<1>. QED
  BY <1>1, <1>2

\* Every step of the app is one that ScheduleSelect knows: an id saved, a
\* request ended or begun behind the screen, the opening of the screen, its
\* own steps, a kill, or nothing.
LEMMA TableSteps ==
  ASSUME SignIn!SignInTypeOK', [Next]_vars
  PROVE  [Table!Next]_(Table!vars)
<1>. USE DEF Table!vars, Table!serverVars, Table!appVars, Table!handlerVars,
             Table!netVars, Table!defaultsVars
<1>1. CASE SignInGoesOn
  <2>1. CASE calendarId' # calendarId
    <3>1. Table!SaveCalendarId
      BY <1>1, <2>1, BehindTheScreen
         DEF SignInGoesOn, SpendRefresh, Table!SaveCalendarId,
             SignIn!SignInTypeOK, Table!serverVars, Table!appVars,
         Table!handlerVars, Table!netVars
    <3>. QED
      BY <3>1 DEF Table!Next, Table!World
  <2>2. CASE calendarId' = calendarId /\ ~Refreshing /\ Refreshing'
    <3>1. Table!RefreshAgain
      BY <1>1, <2>2, BehindTheScreen
         DEF SignInGoesOn, SpendRefresh, Table!RefreshAgain, Refreshing,
             Table!serverVars, Table!appVars, Table!handlerVars, Table!netVars
    <3>. QED
      BY <3>1 DEF Table!Next, Table!World
  <2>3. CASE calendarId' = calendarId /\ Refreshing /\ ~Refreshing'
    <3>1. Table!EndRefresh
      BY <1>1, <2>3, BehindTheScreen
         DEF SignInGoesOn, SpendRefresh, Table!EndRefresh, Refreshing,
             Table!serverVars, Table!appVars, Table!handlerVars, Table!netVars
    <3>. QED
      BY <3>1 DEF Table!Next, Table!Network
  <2>4. CASE calendarId' = calendarId /\ Refreshing = Refreshing'
    BY <1>1, <2>4, BehindTheScreen DEF SignInGoesOn, SpendRefresh
  <2>. QED
    BY <2>1, <2>2, <2>3, <2>4 DEF Refreshing, Open
<1>2. CASE StaysOnScreen \/ DiesAtLogin
  BY <1>2
     DEF StaysOnScreen, DiesAtLogin, SignIn!CheckCalendar, SignIn!Die, Open,
         Refreshing, SignIn!defaults
<1>3. CASE OpensHome
  BY <1>3 DEF OpensHome, Table!Next
<1>4. CASE TableGoesOn
  BY <1>4 DEF TableGoesOn, Table!Next, Table!Network
<1>5. CASE DiesAtHome
  BY <1>5 DEF DiesAtHome, Table!Next, Table!Fault
<1>6. CASE UNCHANGED vars
  BY <1>6 DEF Open, Refreshing
<1>. QED
  BY <1>1, <1>2, <1>3, <1>4, <1>5, <1>6 DEF Next

\* So its invariant is kept as well.
LEMMA ProvenanceKept ==
  ASSUME SignIn!SignInAssumption, TableAssumption, SignIn!Identity,
         Table!Provenance, [Next]_vars
  PROVE  Table!Provenance'
<1>1. [Table!Next]_(Table!vars)
  BY TableSteps, IdentityKept DEF SignIn!Identity
<1>. QED
  BY <1>1, Table!ProvenanceStep DEF TableAssumption

\* RequestsAreAddressed made inductive: the invariants of the two parts, and
\* the calendar deleteEvents has read and is still to ask.
Addressed ==
  /\ SignIn!Identity
  /\ Table!Provenance
  /\ pc = "delete" => deleteFrom \in CalendarIds
  /\ RequestsAreAddressed

\* Every step keeps Addressed.
LEMMA AddressedStep ==
  ASSUME Addressed, [Next]_vars
  PROVE  Addressed'
<1>1. SignIn!Identity' /\ Table!Provenance' /\ Table!TypeOK /\ Table!TypeOK'
  BY PartsAssumption, IdentityKept, ProvenanceKept
     DEF Addressed, Table!Provenance
<1>2. Open => calendarId \in CalendarIds
  BY PartsAssumption
     DEF Addressed, SignIn!SignInAssumption, SignIn!Identity,
         SignIn!HomeHasIdentity, SignIn!SignInTypeOK, Open
<1>3. pc # "idle" => Open
  BY DEF Addressed, Table!Provenance, Table!ClosedIsEmpty
<1>. SUFFICES /\ pc' = "delete" => deleteFrom' \in CalendarIds
              /\ RequestsAreAddressed'
  BY <1>1 DEF Addressed
<1>. USE <1>1, <1>2, <1>3 DEF Addressed, RequestsAreAddressed
<1>4. ASSUME loads' \subseteq loads,
             writes' \cup orphans' \subseteq writes \cup orphans,
             deleteFrom' = deleteFrom, pc' \in {pc, "idle", "create"}
      PROVE  Addressed'
  BY <1>4
<1>5. CASE OpensHome
  <2>1. calendarId \in CalendarIds
    BY <1>5, PartsAssumption
       DEF OpensHome, SignIn!CheckCalendar, SignIn!SignInAssumption,
           SignIn!Identity, SignIn!SignInTypeOK
  <2>2. \A l \in loads' : l \in loads \/ l.cal = calendarId
    BY <1>5 DEF OpensHome, Table!ViewDidLoad, Table!GetEvents, Table!NewLoad
  <2>. QED
    BY <1>5, <2>1, <2>2 DEF OpensHome, Table!ViewDidLoad, Table!handlerVars
<1>6. CASE Table!User
  BY <1>6
     DEF Table!User, Table!TapComplete, Table!TouchRow, Table!handlerVars,
         Table!netVars
<1>7. CASE Table!Handler
  <2>1. ASSUME NEW row \in rowsLeft, Table!VisitSelectedRow(row)
        PROVE  Addressed'
    <3>1. \A w \in writes' : w \in writes \/
            (w.op = "insert" /\ w.event.cal = calendarId)
      BY <2>1 DEF Table!VisitSelectedRow, Table!CreateEvent, Table!NewEvent
    <3>. QED
      BY <2>1, <3>1 DEF Table!VisitSelectedRow
  <2>2. ASSUME Table!CollectIds PROVE Addressed'
    BY <2>2 DEF Table!CollectIds, Table!netVars
  <2>3. ASSUME NEW id \in idsForDelete, Table!DeleteEvent(id) PROVE Addressed'
    <3>1. \A w \in writes' : w \in writes \/
            (w.op = "delete" /\ w.cal = deleteFrom)
      BY <2>3 DEF Table!DeleteEvent
    <3>. QED
      BY <2>3, <3>1 DEF Table!DeleteEvent
  <2>4. ASSUME Table!FinishComplete PROVE Addressed'
    <3>1. \A l \in loads' : l \in loads \/ l.cal = calendarId
      BY <2>4 DEF Table!FinishComplete, Table!GetEvents, Table!NewLoad
    <3>. QED
      BY <2>4, <3>1 DEF Table!FinishComplete
  <2>. QED
    BY <1>7, <2>1, <2>2, <2>3, <2>4 DEF Table!Handler
<1>8. CASE Table!MainBlock
  BY <1>8
     DEF Table!MainBlock, Table!SelectRow, Table!handlerVars, Table!netVars
<1>9. CASE Table!Completion \/ \E l \in loads : Table!AnswerLoad(l)
  <2>1. PICK l \in loads : \/ Table!BeginStoring(l) \/ Table!StoreRow(l)
                           \/ Table!SetupRows(l) \/ Table!AnswerLoad(l)
    BY <1>9 DEF Table!Completion
  <2>2. l \in Table!Load
    BY DEF Table!TypeOK
  <2>3. \A k \in loads' : k \in loads \/ k.cal = l.cal
    <3>1. CASE Table!BeginStoring(l)
      <4>1. \A k \in loads' : k \in loads \/ \E ids :
              k = [l EXCEPT !.phase = "storing", !.day = today, !.ids = ids]
        BY <3>1 DEF Table!BeginStoring
      <4>. QED
        BY <2>2, <4>1 DEF Table!Load
    <3>2. CASE Table!AnswerLoad(l)
      <4>1. \A k \in loads' : k \in loads \/ \E ids :
              k = [l EXCEPT !.phase = "answered", !.ids = ids]
        BY <3>2 DEF Table!AnswerLoad
      <4>. QED
        BY <2>2, <4>1 DEF Table!Load
    <3>3. CASE Table!StoreRow(l) \/ Table!SetupRows(l)
      <4>1. \A k \in loads' : k \in loads \/ \E ids :
              k = [l EXCEPT !.ids = ids]
        BY <3>3 DEF Table!StoreRow, Table!SetupRows
      <4>. QED
        BY <2>2, <4>1 DEF Table!Load
    <3>. QED
      BY <2>1, <3>1, <3>2, <3>3
  <2>4. UNCHANGED <<writes, orphans, pc, deleteFrom>>
    BY <2>1
       DEF Table!BeginStoring, Table!StoreRow, Table!SetupRows,
           Table!AnswerLoad, Table!handlerVars
  <2>. QED
    BY <2>3, <2>4
<1>10. CASE \/ \E w \in writes : Table!ServeWrite(w)
            \/ \E w \in orphans : Table!ServeOrphan(w)
  BY <1>4, <1>10 DEF Table!ServeWrite, Table!ServeOrphan, Table!handlerVars
<1>11. CASE DiesAtHome
  BY <1>4, <1>11 DEF DiesAtHome, Table!Kill, Table!ProcessDies
<1>12. CASE UNCHANGED tableVars
  BY <1>4, <1>12
<1>. QED
  BY <1>5, <1>6, <1>7, <1>8, <1>9, <1>10, <1>11, <1>12
  DEF Next, SignInGoesOn, StaysOnScreen, TableGoesOn, DiesAtLogin

\* It holds initially.
LEMMA AddressedInit == Init => Addressed
<1>1. Init => SignIn!Identity
  BY PartsAssumption, SignIn!SignInTypeInit
     DEF SignIn!SignInAssumption, Init, SignIn!Init, SignIn!Identity,
         SignIn!HomeHasIdentity
<1>2. Init => Table!Provenance
  BY PartsAssumption, Table!ProvenanceInit DEF TableAssumption, Init
<1>. QED
  BY <1>1, <1>2 DEF Init, Addressed, RequestsAreAddressed, Table!Init

\* So it holds throughout.
LEMMA AddressedKept == Spec => []Addressed
BY AddressedInit, AddressedStep, PTL DEF Spec

\* Every request is addressed to a calendar that exists, for any accounts,
\* lists, tables and events.
THEOREM RequestsReachCalendars == Spec => []RequestsAreAddressed
BY AddressedKept, PTL DEF Addressed

\* The app uses the schedule screen as it was modelled.
THEOREM AppUsesScreenAsModelled == Spec => ImplementsSchedule
<1>1. Init => Table!Init
  BY DEF Init
<1>2. Addressed /\ Addressed' /\ [Next]_vars => [Table!Next]_(Table!vars)
  BY TableSteps DEF Addressed, SignIn!Identity
<1>. QED
  BY <1>1, <1>2, AddressedKept, PTL DEF Spec, ImplementsSchedule, Table!Spec

\* So what holds of the screen holds in the app: other members' events survive.
THEOREM AppSparesOthers == Spec => Table!ForeignEventsSurvive
<1>1. Table!Spec => Table!ForeignEventsSurvive
  BY PartsAssumption, Table!ForeignEventsAreSafe DEF TableAssumption
<1>. QED
  BY <1>1, AppUsesScreenAsModelled DEF ImplementsSchedule

\* And what holds of sign-in does: the screen never runs without an identity.
THEOREM AppHome == Spec => []SignIn!HomeHasIdentity
BY AddressedKept, PTL DEF Addressed, SignIn!Identity
=============================================================================
