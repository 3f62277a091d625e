------------------------ MODULE ScheduleSelectProofs ------------------------
(***************************************************************************)
(* Theorems about the schedule screen, for every table length, every set   *)
(* of events, calendars and faults, and any number of midnights.           *)
(***************************************************************************)
EXTENDS ScheduleSelect, TLAPS

USE DEF Put, EmptyDict, vars, serverVars, appVars, handlerVars, netVars,
        defaultsVars

\* What an edit of the service leaves alone: the events there were.
Grows ==
  /\ DOMAIN events \subseteq DOMAIN events'
  /\ \A id \in DOMAIN events : events'[id] = events[id]

-----------------------------------------------------------------------------
(* Days and rows.                                                          *)

\* On a Gregorian device the query window of getEvents is the table: a one-day
\* event is listed exactly if its row is one of the table's.
THEOREM WindowIsTable ==
  ASSUME EraShift = 0, NEW day \in Int, NEW e \in Event, e.length = 1
  PROVE  InWindow(e, MinDate(day), MaxDate(day))
           <=> RowOfWire(day, e.start) \in Rows
BY RowCountAssumption
   DEF InWindow, MinDate, MaxDate, NextDay, Move, RowOfWire, ParseDay, Rows,
       Event

-----------------------------------------------------------------------------
(* The service.                                                            *)

\* Inserting an event keeps the service's types and every other event.
LEMMA InsertKeeps ==
  ASSUME ServerTypeOK, NEW e \in Event, Insert(e)
  PROVE  ServerTypeOK' /\ Grows /\ alive \subseteq alive'
<1>1. NewId \in FreeIds
  BY DEF Insert, NewId
<1>2. NewId \in EventIds /\ NewId \notin DOMAIN events
  BY <1>1 DEF FreeIds
<1>3. DOMAIN events' = DOMAIN events \cup {NewId}
  BY DEF Insert
<1>4. \A id \in DOMAIN events : events'[id] = events[id]
  BY <1>2 DEF Insert
<1>5. events'[NewId] = e
  BY DEF Insert
<1>6. alive' = alive \cup {NewId}
  BY DEF Insert
<1>. QED
  BY <1>2, <1>3, <1>4, <1>5, <1>6 DEF ServerTypeOK, Grows

\* Deleting keeps them too, and takes away nothing but the id asked for.
LEMMA DeleteKeeps ==
  ASSUME ServerTypeOK, NEW cal, NEW id, Delete(cal, id)
  PROVE  ServerTypeOK' /\ Grows /\ alive \ alive' \subseteq {id}
BY DEF Delete, ServerTypeOK, Grows

\* So does either write of the app, and only a delete takes its id away.
LEMMA ApplyKeeps ==
  ASSUME ServerTypeOK, NEW w \in Write, Apply(w)
  PROVE  /\ ServerTypeOK'
         /\ Grows
         /\ alive \ alive' \subseteq
              {id \in EventIds : w.op = "delete" /\ w.id = id}
<1>1. CASE w.op = "insert" /\ Insert(w.event)
  <2>1. w.event \in Event
    BY <1>1 DEF Write, InsertRequest, DeleteRequest
  <2>. QED
    BY <1>1, <2>1, InsertKeeps
<1>2. CASE w.op = "delete" /\ Delete(w.cal, w.id)
  <2>1. w.id \in EventIds
    BY <1>2 DEF Write, InsertRequest, DeleteRequest
  <2>. QED
    BY <1>2, <2>1, DeleteKeeps
<1>. QED
  BY <1>1, <1>2 DEF Apply
-----------------------------------------------------------------------------
(* Type correctness.                                                       *)

\* The types of everything but the service and the budget.
AppTypeOK ==
  /\ today \in Nat
  /\ calendarId \in Calendars
  /\ refreshing \in BOOLEAN
  /\ screen \in {"closed", "open"}
  /\ openedOn \in Nat
  /\ DOMAIN meshiiranList \subseteq EventIds
  /\ \A id \in DOMAIN meshiiranList : meshiiranList[id] \in Int
  /\ selected \subseteq Rows
  /\ completeEnabled \in BOOLEAN
  /\ mainQueue \subseteq Block
  /\ saves \in Nat
  /\ pc \in {"idle", "create", "delete"}
  /\ selectedIndexPaths \subseteq Rows
  /\ rowsLeft \subseteq Rows
  /\ idsForDelete \subseteq EventIds
  /\ deleteFrom \in Calendars
  /\ loads \subseteq Load
  /\ \A l \in loads : l.ids \subseteq DOMAIN events
  /\ writes \subseteq Write
  /\ orphans \subseteq Write
  /\ broken \in BOOLEAN

\* Spending keeps the budget a function to the naturals.
LEMMA SpendType ==
  ASSUME budget \in [BudgetKinds -> Nat], NEW kind \in BudgetKinds, Spend(kind)
  PROVE  budget' \in [BudgetKinds -> Nat]
BY DEF Spend

\* The death of the process leaves everything typed.
LEMMA ProcessDiesType ==
  ASSUME TypeOK, ProcessDies
  PROVE  AppTypeOK' /\ ServerTypeOK'
BY DEF TypeOK, AppTypeOK, ServerTypeOK, ProcessDies

\* So does getEvents of the controller.
LEMMA GetEventsType ==
  ASSUME TypeOK, GetEvents
  PROVE  /\ loads' \subseteq Load
         /\ \A l \in loads' : l.ids \subseteq DOMAIN events
         /\ DOMAIN meshiiranList' \subseteq EventIds
         /\ \A id \in DOMAIN meshiiranList' : meshiiranList'[id] \in Int
<1>1. NewLoad \in Load /\ NewLoad.ids = {}
  BY DEF NewLoad, Load, TypeOK
<1>. QED
  BY <1>1 DEF GetEvents, TypeOK

\* The initial state is typed.
LEMMA TypeInit == Init => TypeOK
<1>. SUFFICES ASSUME Init PROVE TypeOK
  OBVIOUS
<1>1. ServerTypeOK
  BY InitialEventsAssumption DEF Init, ServerTypeOK
<1>. QED
  BY <1>1, BudgetAssumption DEF Init, TypeOK

\* Every step keeps the types.
LEMMA TypeStep == TypeOK /\ [Next]_vars => TypeOK'
<1>. SUFFICES ASSUME TypeOK, [Next]_vars PROVE TypeOK'
  OBVIOUS
<1>. USE DEF TypeOK, AppTypeOK
<1>1. ASSUME ViewDidLoad PROVE TypeOK'
  BY <1>1, GetEventsType DEF ViewDidLoad, ServerTypeOK
<1>2. ASSUME TapComplete PROVE TypeOK'
  <2>1. budget' \in [BudgetKinds -> Nat]
    BY <1>2, SpendType DEF TapComplete, BudgetKinds
  <2>2. /\ pc' \in {"idle", "create", "delete"}
        /\ rowsLeft' \subseteq Rows
        /\ idsForDelete' \subseteq EventIds
        /\ deleteFrom' \in Calendars
    BY <1>2 DEF TapComplete
  <2>3. saves' \in Nat
    BY <1>2 DEF TapComplete
  <2>. QED
    BY <1>2, <2>1, <2>2, <2>3 DEF TapComplete, ServerTypeOK
<1>3. ASSUME NEW row \in Rows, TouchRow(row) PROVE TypeOK'
  BY <1>3 DEF TouchRow, ServerTypeOK
<1>4. ASSUME NEW row \in rowsLeft, VisitSelectedRow(row) PROVE TypeOK'
  <2>1. NewEvent(row) \in Event
    BY UserNameAssumption, EraShiftAssumption, RowCountAssumption
       DEF NewEvent, Event, FormatDay, DayOfRow, Move, Rows
  <2>2. writes' \subseteq Write
    BY <1>4, <2>1, RowCountAssumption
       DEF VisitSelectedRow, CreateEvent, Write, InsertRequest, Rows
  <2>. QED
    BY <1>4, <2>2 DEF VisitSelectedRow, ServerTypeOK
<1>5. ASSUME CollectIds PROVE TypeOK'
  BY <1>5 DEF CollectIds, ServerTypeOK, KeysForRows
<1>6. ASSUME NEW id \in idsForDelete, DeleteEvent(id) PROVE TypeOK'
  <2>1. writes' \subseteq Write
    BY <1>6 DEF DeleteEvent, Write, DeleteRequest
  <2>. QED
    BY <1>6, <2>1 DEF DeleteEvent, ServerTypeOK
<1>7. ASSUME FinishComplete PROVE TypeOK'
  BY <1>7, GetEventsType DEF FinishComplete, ServerTypeOK
<1>8. ASSUME NEW block \in mainQueue, SelectRow(block) PROVE TypeOK'
  BY <1>8 DEF SelectRow, InTable, ServerTypeOK
<1>9. ASSUME NEW l \in loads, BeginStoring(l) PROVE TypeOK'
  <2>1. /\ loads' \subseteq Load
        /\ \A k \in loads' : k.ids \subseteq DOMAIN events
    <3>. DEFINE begun == [l EXCEPT !.phase = "storing", !.day = today,
                                   !.ids = {id \in l.ids : IsMine(events[id])}]
    <3>1. loads' \subseteq loads \cup {begun} /\ UNCHANGED events
      BY <1>9 DEF BeginStoring
    <3>2. l \in Load /\ today \in Int
      BY <1>9
    <3>3. begun \in Load /\ begun.ids \subseteq l.ids
      BY <3>2 DEF Load
    <3>. HIDE DEF begun
    <3>. QED
      BY <1>9, <3>1, <3>3
  <2>. QED
    BY <1>9, <2>1 DEF BeginStoring, ServerTypeOK
<1>10. ASSUME NEW l \in loads, StoreRow(l) PROVE TypeOK'
  <2>1. /\ loads' \subseteq Load
        /\ \A k \in loads' : k.ids \subseteq DOMAIN events
    BY <1>10 DEF StoreRow, Load
  <2>2. /\ DOMAIN meshiiranList' \subseteq EventIds
        /\ \A id \in DOMAIN meshiiranList' : meshiiranList'[id] \in Int
    <3>1. PICK id \in l.ids :
            \/ meshiiranList' =
                 Put(meshiiranList, id, RowOfWire(l.day, events[id].start))
            \/ meshiiranList' = meshiiranList
      BY <1>10 DEF StoreRow
    <3>2. id \in EventIds
      BY DEF Load
    <3>3. events[id] \in Event
      BY DEF ServerTypeOK
    <3>4. RowOfWire(l.day, events[id].start) \in Int
      BY <3>3, EraShiftAssumption DEF RowOfWire, ParseDay, Load, Event
    <3>. QED
      BY <3>1, <3>2, <3>4
  <2>. QED
    BY <1>10, <2>1, <2>2 DEF StoreRow, ServerTypeOK
<1>11. ASSUME NEW l \in loads, SetupRows(l) PROVE TypeOK'
  <2>1. mainQueue' \subseteq Block
    BY <1>11 DEF SetupRows, Block, Load
  <2>. QED
    BY <1>11, <2>1 DEF SetupRows, ServerTypeOK
<1>12. ASSUME NEW l \in loads, AnswerLoad(l) PROVE TypeOK'
  <2>1. /\ loads' \subseteq Load
        /\ \A k \in loads' : k.ids \subseteq DOMAIN events
    <3>1. Listing(l.cal, MinDate(l.day), MaxDate(l.day)) \subseteq DOMAIN events \cap EventIds
      BY DEF Listing, ServerTypeOK
    <3>2. loads' \subseteq loads \cup {[l EXCEPT !.phase = "answered",
                     !.ids = Listing(l.cal, MinDate(l.day), MaxDate(l.day))]}
      BY <1>12 DEF AnswerLoad
    <3>. QED
      BY <1>12, <3>1, <3>2 DEF Load
  <2>. QED
    BY <1>12, <2>1 DEF AnswerLoad, ServerTypeOK
<1>13. ASSUME NEW w \in writes, ServeWrite(w) PROVE TypeOK'
  BY <1>13, ApplyKeeps DEF ServeWrite, Grows
<1>14. ASSUME NEW w \in orphans, ServeOrphan(w) PROVE TypeOK'
  BY <1>14, ApplyKeeps DEF ServeOrphan, Grows
<1>15. ASSUME EndRefresh PROVE TypeOK'
  BY <1>15 DEF EndRefresh, ServerTypeOK
<1>16. ASSUME NEW l \in loads, LoseLoad(l) PROVE TypeOK'
  BY <1>16, SpendType DEF LoseLoad, ServerTypeOK, BudgetKinds
<1>17. ASSUME NEW l \in loads, CrashOnErrorBody(l) PROVE TypeOK'
  BY <1>17, ProcessDiesType, SpendType DEF CrashOnErrorBody, BudgetKinds
<1>18. ASSUME NEW w \in writes, RejectWrite(w) PROVE TypeOK'
  BY <1>18, SpendType DEF RejectWrite, ServerTypeOK, BudgetKinds
<1>19. ASSUME NEW w \in writes, LoseWrite(w) PROVE TypeOK'
  <2>1. ServerTypeOK' /\ Grows
    BY <1>19, ApplyKeeps DEF LoseWrite, ServerTypeOK, Grows
  <2>. QED
    BY <1>19, <2>1, SpendType DEF LoseWrite, BudgetKinds, Grows
<1>20. ASSUME CrashInDictionary PROVE TypeOK'
  BY <1>20, ProcessDiesType, SpendType DEF CrashInDictionary, BudgetKinds
<1>21. ASSUME CrashInCompletion PROVE TypeOK'
  BY <1>21, ProcessDiesType DEF CrashInCompletion
<1>22. ASSUME Kill PROVE TypeOK'
  BY <1>22, ProcessDiesType, SpendType DEF Kill, BudgetKinds
<1>23. ASSUME OtherInserts PROVE TypeOK'
  <2>1. ServerTypeOK' /\ Grows
    BY <1>23, InsertKeeps, OtherEventsAssumption DEF OtherInserts
  <2>. QED
    BY <1>23, <2>1, SpendType DEF OtherInserts, BudgetKinds, Grows
<1>24. ASSUME OtherDeletes PROVE TypeOK'
  <2>1. ServerTypeOK' /\ Grows
    BY <1>24, DeleteKeeps DEF OtherDeletes
  <2>. QED
    BY <1>24, <2>1, SpendType DEF OtherDeletes, BudgetKinds, Grows
<1>25. ASSUME Midnight PROVE TypeOK'
  BY <1>25 DEF Midnight, ServerTypeOK
<1>27. ASSUME SaveCalendarId PROVE TypeOK'
  BY <1>27, SpendType DEF SaveCalendarId, ServerTypeOK, BudgetKinds
<1>28. ASSUME RefreshAgain PROVE TypeOK'
  BY <1>28, SpendType DEF RefreshAgain, ServerTypeOK, BudgetKinds
<1>26. ASSUME UNCHANGED vars PROVE TypeOK'
  BY <1>26 DEF ServerTypeOK
<1>. QED
  BY <1>1, <1>2, <1>3, <1>4, <1>5, <1>6, <1>7, <1>8, <1>9, <1>10, <1>11,
     <1>12, <1>13, <1>14, <1>15, <1>16, <1>17, <1>18, <1>19, <1>20, <1>21,
     <1>22, <1>23, <1>24, <1>25, <1>26, <1>27, <1>28
  DEF Next, User, Handler, MainBlock, Completion, Network, Fault, World
(***************************************************************************)
(* Every variable keeps its type; among others, only rows of the table are *)
(* ever selected, and a load only ever carries ids of events.              *)
(***************************************************************************)
THEOREM TypeCorrect == Spec => []TypeOK
BY TypeInit, TypeStep, PTL DEF Spec
-----------------------------------------------------------------------------
(* Where the ids come from.                                                *)

\* The user's events stay the user's.
LEMMA MineGrows ==
  ASSUME Grows
  PROVE  Mine \subseteq Mine'
BY DEF Grows, Mine, IsMine

\* A write of the app reaches the service: the invariant is kept as long as
\* nothing but events, alive and the requests changes.
LEMMA ServiceStep ==
  ASSUME Provenance, TypeOK', Grows,
         writes' \subseteq writes, orphans' \subseteq orphans,
         UNCHANGED <<today, screen, openedOn, meshiiranList, loads, pc, saves,
                     selectedIndexPaths, idsForDelete>>
  PROVE  Provenance'
<1>. USE MineGrows DEF Provenance
<1>1. HeldIdsAreMine'
  BY DEF HeldIdsAreMine
<1>2. RowsAreDated' /\ DoomedUnselected'
  <2>1. \A id \in Mine : events'[id] = events[id]
    BY DEF Mine, Grows
  <2>. QED
    BY <2>1 DEF HeldIdsAreMine, RowsAreDated, DoomedUnselected, Unselected,
                    RowOfWire, ParseDay
<1>3. ClosedIsEmpty'
  BY DEF ClosedIsEmpty
<1>. QED
  BY <1>1, <1>2, <1>3

\* The death of the process keeps the invariant: nothing is left to break it.
LEMMA DeathStep ==
  ASSUME Provenance, TypeOK', ProcessDies
  PROVE  Provenance'
<1>. USE DEF ProcessDies, Provenance
<1>1. Mine' = Mine
  BY DEF Mine, IsMine
<1>2. HeldIdsAreMine'
  BY <1>1 DEF HeldIdsAreMine
<1>3. RowsAreDated' /\ ClosedIsEmpty' /\ DoomedUnselected'
  BY DEF RowsAreDated, ClosedIsEmpty, DoomedUnselected
<1>. QED
  BY <1>2, <1>3

\* The initial state satisfies the invariant.
LEMMA ProvenanceInit == Init => Provenance
<1>. SUFFICES ASSUME Init PROVE Provenance
  OBVIOUS
<1>1. TypeOK
  BY TypeInit
<1>2. HeldIdsAreMine /\ RowsAreDated /\ ClosedIsEmpty /\ DoomedUnselected
  BY DEF Init, HeldIdsAreMine, RowsAreDated, ClosedIsEmpty, DoomedUnselected
<1>. QED
  BY <1>1, <1>2 DEF Provenance
\* Every step keeps the invariant.
LEMMA ProvenanceStep == Provenance /\ [Next]_vars => Provenance'
<1>. SUFFICES ASSUME Provenance, [Next]_vars PROVE Provenance'
  OBVIOUS
<1>0. TypeOK'
  BY TypeStep DEF Provenance
<1>. USE <1>0 DEF Provenance, HeldIdsAreMine, RowsAreDated, ClosedIsEmpty,
                  DoomedUnselected, Unselected, Mine, IsMine
<1>1. ASSUME ViewDidLoad PROVE Provenance'
  BY <1>1 DEF ViewDidLoad, GetEvents, NewLoad, Storing, TypeOK
<1>2. ASSUME TapComplete PROVE Provenance'
  <2>1. saves \in Nat /\ saves' = saves + 1
    BY <1>2 DEF TapComplete, TypeOK
  <2>2. \A w \in writes : w.save \in Nat /\ w.save \leq saves
    BY DEF TypeOK, Write, InsertRequest, DeleteRequest
  <2>3. \A w \in writes : w.save # saves' /\ w.save \leq saves'
    BY <2>1, <2>2
  <2>4. pc' = "delete" => selectedIndexPaths' = {}
    BY <1>2 DEF TapComplete
  <2>5. openedOn \in openedOn .. today
    BY DEF TypeOK
  <2>6. HeldIdsAreMine'
    BY <1>2, <2>3 DEF TapComplete
  <2>7. DoomedUnselected'
    BY <1>2, <2>3, <2>4, <2>5 DEF TapComplete
  <2>8. RowsAreDated' /\ ClosedIsEmpty'
    BY <1>2 DEF TapComplete
  <2>. QED
    BY <2>6, <2>7, <2>8
<1>3. ASSUME NEW row \in Rows, TouchRow(row) PROVE Provenance'
  BY <1>3 DEF TouchRow
<1>4. ASSUME NEW row \in rowsLeft, VisitSelectedRow(row) PROVE Provenance'
  <2>1. \A w \in writes' : w \in writes \/
          (w.op = "insert" /\ w.save = saves)
    BY <1>4 DEF VisitSelectedRow, CreateEvent
  <2>2. saves \in Nat
    BY DEF TypeOK
  <2>3. HeldIdsAreMine'
    BY <1>4, <2>1, <2>2 DEF VisitSelectedRow
  <2>4. DoomedUnselected' /\ RowsAreDated' /\ ClosedIsEmpty'
    BY <1>4, <2>1 DEF VisitSelectedRow
  <2>. QED
    BY <2>3, <2>4
<1>5. ASSUME CollectIds PROVE Provenance'
  <2>1. idsForDelete' \subseteq DOMAIN meshiiranList
    BY <1>5 DEF CollectIds, KeysForRows
  <2>2. \A id \in idsForDelete' : meshiiranList[id] \in RowsToDelete
    BY <1>5 DEF CollectIds, KeysForRows
  <2>3. DoomedUnselected'
    BY <1>5, <2>1, <2>2 DEF CollectIds, RowsToDelete
  <2>. QED
    BY <1>5, <2>1, <2>3 DEF CollectIds
<1>6. ASSUME NEW id \in idsForDelete, DeleteEvent(id) PROVE Provenance'
  <2>1. \A w \in writes' : w \in writes \/
          (w.op = "delete" /\ w.save = saves /\ w.id = id)
    BY <1>6 DEF DeleteEvent
  <2>2. saves \in Nat
    BY DEF TypeOK
  <2>3. HeldIdsAreMine'
    BY <1>6, <2>1, <2>2 DEF DeleteEvent
  <2>4. DoomedUnselected'
    BY <1>6, <2>1 DEF DeleteEvent
  <2>5. RowsAreDated' /\ ClosedIsEmpty'
    BY <1>6 DEF DeleteEvent
  <2>. QED
    BY <2>3, <2>4, <2>5
<1>7. ASSUME FinishComplete PROVE Provenance'
  BY <1>7 DEF FinishComplete, GetEvents, NewLoad, TypeOK
<1>8. ASSUME NEW block \in mainQueue, SelectRow(block) PROVE Provenance'
  BY <1>8 DEF SelectRow
<1>9. ASSUME NEW l \in loads, BeginStoring(l) PROVE Provenance'
  <2>. DEFINE mine == {id \in l.ids : IsMine(events[id])}
              new == [l EXCEPT !.phase = "storing", !.day = today,
                               !.ids = mine]
  <2>0. l \in Load /\ mine \subseteq Mine
    BY DEF TypeOK
  <2>1. \A k \in loads' :
          k \in loads \/ (k.day = today /\ k.ids \subseteq Mine)
    <3>1. new.day = today /\ new.ids = mine
      BY <2>0 DEF Load
    <3>2. loads' = (loads \ {l}) \cup {new}
      BY <1>9 DEF BeginStoring
    <3>. HIDE DEF new, mine
    <3>. QED
      BY <2>0, <3>1, <3>2
  <2>2. UNCHANGED <<events, writes, orphans, today, screen, openedOn, pc,
                    saves, meshiiranList, selectedIndexPaths, idsForDelete>>
    BY <1>9 DEF BeginStoring
  <2>3. today \in openedOn .. today
    BY DEF TypeOK
  <2>4. HeldIdsAreMine' /\ RowsAreDated'
    BY <2>1, <2>2, <2>3
  <2>5. ClosedIsEmpty' /\ DoomedUnselected'
    BY <1>9, <2>2
  <2>. QED
    BY <2>4, <2>5
<1>10. ASSUME NEW l \in loads, StoreRow(l) PROVE Provenance'
  <2>1. PICK id \in l.ids :
          \/ meshiiranList' =
               Put(meshiiranList, id, RowOfWire(l.day, events[id].start))
          \/ meshiiranList' = meshiiranList
    BY <1>10 DEF StoreRow
  <2>2. id \in Mine /\ l.day \in openedOn .. today
    BY <1>10 DEF StoreRow
  <2>3. UNCHANGED <<events, writes, orphans, today, screen, openedOn, pc,
                    saves, selectedIndexPaths, idsForDelete>>
    BY <1>10 DEF StoreRow
  <2>4. \A k \in loads' : k \in loads \/
          (k.day = l.day /\ k.phase = "storing" /\ k.ids \subseteq l.ids)
    BY <1>10 DEF StoreRow, Load, TypeOK
  <2>5. HeldIdsAreMine'
    BY <1>10, <2>1, <2>2, <2>3, <2>4 DEF StoreRow
  <2>6. RowsAreDated'
    BY <2>1, <2>2, <2>3, <2>4
  <2>7. ClosedIsEmpty' /\ DoomedUnselected'
    BY <2>3
  <2>. QED
    BY <2>5, <2>6, <2>7
<1>11. ASSUME NEW l \in loads, SetupRows(l) PROVE Provenance'
  BY <1>11 DEF SetupRows
<1>12. ASSUME NEW l \in loads, AnswerLoad(l) PROVE Provenance'
  BY <1>12 DEF AnswerLoad, Load, TypeOK
<1>13. ASSUME NEW w \in writes, ServeWrite(w) PROVE Provenance'
  <2>1. Grows
    BY <1>13, ApplyKeeps DEF ServeWrite, TypeOK
  <2>. QED
    BY <1>13, <2>1, ServiceStep DEF ServeWrite
<1>14. ASSUME NEW w \in orphans, ServeOrphan(w) PROVE Provenance'
  <2>1. Grows
    BY <1>14, ApplyKeeps DEF ServeOrphan, TypeOK
  <2>. QED
    BY <1>14, <2>1, ServiceStep DEF ServeOrphan
<1>15. ASSUME EndRefresh PROVE Provenance'
  BY <1>15 DEF EndRefresh
<1>16. ASSUME NEW l \in loads, LoseLoad(l) PROVE Provenance'
  BY <1>16 DEF LoseLoad
<1>17. ASSUME NEW l \in loads, CrashOnErrorBody(l) PROVE Provenance'
  BY <1>17, DeathStep DEF CrashOnErrorBody
<1>18. ASSUME NEW w \in writes, RejectWrite(w) PROVE Provenance'
  BY <1>18 DEF RejectWrite
<1>19. ASSUME NEW w \in writes, LoseWrite(w) PROVE Provenance'
  <2>1. Grows
    BY <1>19, ApplyKeeps DEF LoseWrite, TypeOK, Grows
  <2>. QED
    BY <1>19, <2>1, ServiceStep DEF LoseWrite
<1>20. ASSUME CrashInDictionary PROVE Provenance'
  BY <1>20, DeathStep DEF CrashInDictionary
<1>21. ASSUME CrashInCompletion PROVE Provenance'
  BY <1>21, DeathStep DEF CrashInCompletion
<1>22. ASSUME Kill PROVE Provenance'
  BY <1>22, DeathStep DEF Kill
<1>23. ASSUME OtherInserts PROVE Provenance'
  <2>1. Grows
    BY <1>23, InsertKeeps, OtherEventsAssumption DEF OtherInserts, TypeOK
  <2>. QED
    BY <1>23, <2>1, ServiceStep DEF OtherInserts
<1>24. ASSUME OtherDeletes PROVE Provenance'
  <2>1. Grows
    BY <1>24, DeleteKeeps DEF OtherDeletes, TypeOK
  <2>. QED
    BY <1>24, <2>1, ServiceStep DEF OtherDeletes
<1>25. ASSUME Midnight PROVE Provenance'
  BY <1>25 DEF Midnight, TypeOK
<1>27. ASSUME SaveCalendarId PROVE Provenance'
  BY <1>27 DEF SaveCalendarId
<1>28. ASSUME RefreshAgain PROVE Provenance'
  BY <1>28 DEF RefreshAgain
<1>26. ASSUME UNCHANGED vars PROVE Provenance'
  BY <1>26
<1>. QED
  BY <1>1, <1>2, <1>3, <1>4, <1>5, <1>6, <1>7, <1>8, <1>9, <1>10, <1>11,
     <1>12, <1>13, <1>14, <1>15, <1>16, <1>17, <1>18, <1>19, <1>20, <1>21,
     <1>22, <1>23, <1>24, <1>25, <1>26, <1>27, <1>28
  DEF Next, User, Handler, MainBlock, Completion, Network, Fault, World
(***************************************************************************)
(* Every id the app holds is one of the user's own events', under a row it *)
(* had while the screen was open; nothing of a dead process is left.       *)
(***************************************************************************)
THEOREM IdsHaveProvenance == Spec => []Provenance
BY ProvenanceInit, ProvenanceStep, PTL DEF Spec

(***************************************************************************)
(* The rows the deletion loop takes ids from were not selected, whatever   *)
(* the order of loads, races, midnights, deaths and late requests.         *)
(***************************************************************************)
THEOREM DoomedRowsUnselected == Spec => []DoomedUnselected
<1>1. Provenance => DoomedUnselected
  BY DEF Provenance
<1>. QED
  BY <1>1, IdsHaveProvenance, PTL

\* Under the invariant no step of the app removes another member's event.
LEMMA SurviveStep ==
  Provenance /\ [Next]_vars
    => [alive \ alive' \subseteq Mine \/ budget'["edit"] < budget["edit"]]_vars
<1>. SUFFICES ASSUME Provenance, Next
              PROVE  \/ alive \ alive' \subseteq Mine
                     \/ budget'["edit"] < budget["edit"]
  OBVIOUS
<1>. USE DEF Provenance, TypeOK, HeldIdsAreMine
<1>1. ASSUME NEW w \in writes \cup orphans, Apply(w)
      PROVE  alive \ alive' \subseteq Mine
  BY <1>1, ApplyKeeps
<1>2. CASE \E w \in writes : ServeWrite(w) \/ LoseWrite(w)
  BY <1>1, <1>2 DEF ServeWrite, LoseWrite
<1>3. CASE \E w \in orphans : ServeOrphan(w)
  BY <1>1, <1>3 DEF ServeOrphan
<1>4. CASE World
  BY <1>4 DEF World, OtherInserts, OtherDeletes, Midnight, SaveCalendarId,
             RefreshAgain, Spend, BudgetKinds
<1>5. CASE alive' = alive
  BY <1>5
<1>. QED
  BY <1>2, <1>3, <1>4, <1>5
  DEF Next, User, Handler, MainBlock, Completion, Network, Fault, ViewDidLoad,
      TapComplete, TouchRow, VisitSelectedRow, CollectIds, DeleteEvent,
      FinishComplete, SelectRow, BeginStoring, StoreRow, SetupRows, AnswerLoad,
      EndRefresh, LoseLoad, CrashOnErrorBody, RejectWrite,
      CrashInDictionary, CrashInCompletion, Kill, ProcessDies

(***************************************************************************)
(* Another member's event never disappears because of the app, for any     *)
(* number of taps, kills, faults and midnights.                            *)
(***************************************************************************)
THEOREM ForeignEventsAreSafe == Spec => ForeignEventsSurvive
BY IdsHaveProvenance, SurviveStep, PTL DEF Spec, ForeignEventsSurvive
-----------------------------------------------------------------------------
(***************************************************************************)
(* The unhurried screen.  Under the conditions below, those of the part    *)
(* "screen" of MCScreens, the screen keeps its promise: it shows the plan  *)
(* of the calendar, adds no second event to a day, and implements MealPlan.*)
(* The process may still be killed at any moment, other members may edit   *)
(* the calendars, and a sign-in may go on behind the screen.               *)
(***************************************************************************)

\* Each request is answered within the sleep that follows it and before the
\* user's next touch; no fault and no midnight comes between; the device is
\* set to the Gregorian calendar; the account sees one calendar "meshiiru", in
\* which nobody else adds the user's events; and to begin with the user's
\* events last one day each and no day has two.
Unhurried ==
  /\ Prompt = {"writes", "loads", "user"}
  /\ Faults = {}
  /\ LastDay = 0
  /\ EraShift = 0
  /\ \E cal : Calendars = {cal}
  /\ \A e \in OtherEvents : ~IsMine(e)
  /\ \A es \in InitialEvents : \A i, j \in DOMAIN es :
       IsMine(es[i]) =>
         /\ es[i].length = 1
         /\ IsMine(es[j]) /\ es[i].start = es[j].start => i = j

\* The user's events of the table's days, those days as rows, and the events
\* of days that the last tap on Complete left out.
PlannedIds == {id \in alive \cap Mine : events[id].start \in Rows}
PlannedRows == {events[id].start : id \in PlannedIds}
DoomedIds == {id \in PlannedIds : events[id].start \notin selectedIndexPaths}

\* No day has two events of the user's, and today stays today.
OneEventADay ==
  /\ today = 0 /\ openedOn = 0
  /\ \A id \in Mine : events[id].length = 1
  /\ \A i, j \in alive \cap Mine : events[i].start = events[j].start => i = j

\* Requests do not overlap, nor does the handler of Complete overlap a load;
\* Complete is enabled only by a touch on a table that has been filled.
OneAtATime ==
  /\ \A v, w \in writes \cup orphans : v = w
  /\ \A k, l \in loads : k = l
  /\ IF screen = "open" THEN orphans = {} ELSE mainQueue = {}
  /\ ~broken
  /\ pc = "idle" => writes = {}
  /\ pc # "idle" => /\ loads = {} /\ mainQueue = {}
                    /\ selected = selectedIndexPaths /\ ~completeEnabled
  /\ completeEnabled => loads = {} /\ mainQueue = {}

\* What a load has listed and what it has stored make up the plan.
ListIsPlan ==
  /\ \A l \in loads :
       /\ l.day = 0
       /\ l.phase # "storing" => meshiiranList = EmptyDict
       /\ l.phase = "answered" => l.ids \cap Mine = PlannedIds
       /\ l.phase = "storing" => DOMAIN meshiiranList \cup l.ids = PlannedIds
  /\ screen = "open" /\ pc = "idle" /\ loads = {} =>
       DOMAIN meshiiranList = PlannedIds

\* Until the user touches a row, the rows selected, with those the waiting
\* blocks will select, are the plan.
SelectionIsPlan ==
  /\ \A b \in mainQueue : b.row \in PlannedRows
  /\ screen = "open" /\ pc = "idle" /\ ~completeEnabled =>
       /\ selected \subseteq PlannedRows
       /\ loads = {} =>
            PlannedRows \subseteq selected \cup {b.row : b \in mainQueue}

\* A request under way, of this process or of a dead one, brings the plan
\* closer to the choice; deletes come once every chosen day is planned.
WritesMend ==
  \A w \in writes \cup orphans :
    /\ w.op = "insert" => /\ w.row \in selectedIndexPaths \ PlannedRows
                          /\ w.event = NewEvent(w.row)
    /\ w.op = "delete" => /\ w.id \in DoomedIds
                          /\ selectedIndexPaths \subseteq PlannedRows

\* The loops of Complete: what is planned or asked for is what was listed and
\* the chosen rows the insertion loop has passed; then, what is planned and not
\* chosen is what the deletion loop still has to ask for or has asked for.
SaveMends ==
  /\ pc = "create" =>
       /\ rowsLeft \subseteq selectedIndexPaths
       /\ \A w \in writes : w.op = "insert"
       /\ DOMAIN meshiiranList \subseteq PlannedIds
       /\ PlannedRows \cup {w.row : w \in writes}
            = ListedRows \cup (selectedIndexPaths \ rowsLeft)
  /\ pc = "delete" =>
       /\ selectedIndexPaths \subseteq PlannedRows
       /\ \A w \in writes : w.op = "delete" /\ w.id \notin idsForDelete
       /\ DoomedIds = idsForDelete \cup {w.id : w \in writes}

\* The inductive invariant of the unhurried screen.
PlanInv ==
  /\ Provenance
  /\ OneEventADay
  /\ OneAtATime
  /\ ListIsPlan
  /\ SelectionIsPlan
  /\ WritesMend
  /\ SaveMends

\* A step that changes neither the plan nor what is measured by it.
KeepsPlan ==
  /\ Mine' = Mine
  /\ PlannedIds' = PlannedIds
  /\ PlannedRows' = PlannedRows
  /\ DoomedIds' = DoomedIds
  /\ \A row : NewEvent(row)' = NewEvent(row)

\* After a sleep of the main thread nothing is under way.
LEMMA Rested ==
  ASSUME Unhurried, AfterSleep
  PROVE  writes = {} /\ orphans = {} /\ loads = {} /\ ~refreshing
BY DEF Unhurried, AfterSleep
\* When the user touches the screen nothing is, and every block has run.
LEMMA Ready ==
  ASSUME Unhurried, UserReady
  PROVE  writes = {} /\ orphans = {} /\ loads = {} /\ mainQueue = {}
BY DEF Unhurried, UserReady, Settled

\* Written to the wire, the day of a row has the row's number.
LEMMA DaysAreRows ==
  ASSUME Unhurried, TypeOK, today = 0, NEW S \in SUBSET Int
  PROVE  WireDays(S) = S
<1>1. \A row \in S : FormatDay(DayOfRow(today, row)) = row
  BY DEF Unhurried, FormatDay, DayOfRow, Move
<1>. QED
  BY <1>1 DEF WireDays

\* The plan of the properties is the set of planned rows.
LEMMA PlanIsPlanned ==
  ASSUME Unhurried, TypeOK, today = 0
  PROVE  PlanDays = PlannedRows
<1>1. WireDays(Rows) = Rows
  BY DaysAreRows, RowCountAssumption DEF Rows
<1>2. \A id \in alive : events[id].cal = calendarId
  BY DEF TypeOK, ServerTypeOK, Event, Unhurried
<1>. QED
  BY <1>1, <1>2 DEF PlanDays, PlannedRows, PlannedIds

\* The plan depends on the service alone.
LEMMA SamePlan ==
  ASSUME UNCHANGED <<events, alive>>
  PROVE  /\ Mine' = Mine
         /\ PlannedIds' = PlannedIds
         /\ PlannedRows' = PlannedRows
BY DEF Mine, IsMine, PlannedIds, PlannedRows

\* Other members do not touch the user's events.
LEMMA OthersKeepPlan ==
  ASSUME Unhurried, TypeOK, OtherInserts \/ OtherDeletes
  PROVE  /\ Mine' = Mine /\ alive' \cap Mine = alive \cap Mine
         /\ \A id \in Mine : events'[id] = events[id]
         /\ PlannedIds' = PlannedIds
         /\ PlannedRows' = PlannedRows
<1>1. /\ Mine' = Mine
      /\ alive' \cap Mine = alive \cap Mine
      /\ \A id \in Mine : events'[id] = events[id]
  <2>1. CASE OtherInserts
    <3>1. PICK e \in OtherEvents : Insert(e)
      BY <2>1 DEF OtherInserts
    <3>2. NewId \notin DOMAIN events
      <4>1. NewId \in FreeIds
        BY <3>1 DEF Insert, NewId
      <4>. QED
        BY <4>1 DEF FreeIds
    <3>3. ~(e.summary = UserName /\ e.allDay)
      BY DEF Unhurried, IsMine
    <3>. HIDE DEF NewId
    <3>. QED
      BY <3>1, <3>2, <3>3 DEF Insert, Mine, TypeOK, ServerTypeOK
  <2>2. CASE OtherDeletes
    <3>1. PICK id \in alive :
            events[id] \in OtherEvents /\ Delete(events[id].cal, id)
      BY <2>2 DEF OtherDeletes
    <3>2. id \notin Mine
      BY <3>1 DEF Unhurried, IsMine, Mine
    <3>. QED
      BY <3>1, <3>2 DEF Delete, Mine
  <2>. QED
    BY <2>1, <2>2
<1>2. PlannedIds' = PlannedIds
  BY <1>1 DEF PlannedIds
<1>. QED
  BY <1>1, <1>2 DEF PlannedRows, PlannedIds

\* Inserting an event for an unplanned row plans that row, and only it.
LEMMA InsertPlans ==
  ASSUME Unhurried, TypeOK, OneEventADay, NEW row \in Rows \ PlannedRows,
         Insert(NewEvent(row))
  PROVE  \E n : /\ n \notin DOMAIN events
                /\ Mine' = Mine \cup {n} /\ alive' = alive \cup {n}
                /\ \A id \in Mine : events'[id] = events[id]
                /\ events'[n] = NewEvent(row)
                /\ events'[n].start = row /\ events'[n].length = 1
                /\ PlannedIds' = PlannedIds \cup {n}
                /\ PlannedRows' = PlannedRows \cup {row}
<1>. DEFINE n == NewId
<1>1. n \notin DOMAIN events
  <2>1. NewId \in FreeIds
    BY DEF Insert, NewId
  <2>. QED
    BY <2>1 DEF FreeIds
<1>2. /\ DOMAIN events' = DOMAIN events \cup {n} /\ alive' = alive \cup {n}
      /\ events'[n] = NewEvent(row)
      /\ \A id \in DOMAIN events : events'[id] = events[id]
  BY <1>1 DEF Insert
<1>3. /\ events'[n].start = row /\ events'[n].length = 1 
      /\ events'[n].summary = UserName /\ events'[n].allDay
  BY <1>2, RowCountAssumption
     DEF NewEvent, Unhurried, OneEventADay, FormatDay, DayOfRow, Move, Rows
<1>. HIDE DEF n
<1>4. Mine' = Mine \cup {n} /\ \A id \in Mine : events'[id] = events[id]
  BY <1>2, <1>3 DEF Mine
<1>5. PlannedIds' = PlannedIds \cup {n}
  BY <1>1, <1>2, <1>3, <1>4 DEF PlannedIds, Mine, TypeOK, ServerTypeOK
<1>6. PlannedRows' = PlannedRows \cup {row}
  BY <1>3, <1>4, <1>5 DEF PlannedRows, PlannedIds
<1>. QED
  BY <1>1, <1>2, <1>3, <1>4, <1>5, <1>6

\* Deleting a planned event takes its row out of the plan, and only it.
LEMMA DeleteUnplans ==
  ASSUME Unhurried, TypeOK, OneEventADay, NEW cal \in Calendars,
         NEW id \in PlannedIds, Delete(cal, id)
  PROVE  /\ events' = events /\ alive' = alive \ {id} /\ Mine' = Mine
         /\ PlannedIds' = PlannedIds \ {id}
         /\ PlannedRows' = PlannedRows \ {events[id].start}
<1>1. id \in alive /\ id \in Mine /\ events[id].cal = cal
  BY DEF PlannedIds, TypeOK, ServerTypeOK, Event, Unhurried
<1>2. events' = events /\ alive' = alive \ {id} /\ Mine' = Mine
  BY <1>1 DEF Delete, Mine
<1>3. PlannedIds' = PlannedIds \ {id}
  BY <1>2 DEF PlannedIds
<1>4. \A i \in PlannedIds : events[i].start = events[id].start => i = id
  BY DEF OneEventADay, PlannedIds
<1>. QED
  BY <1>2, <1>3, <1>4 DEF PlannedRows

\* A step that leaves the service and the choice alone keeps the plan.
LEMMA SameView ==
  ASSUME Unhurried, PlanInv, TypeOK', UNCHANGED <<events, alive,
                                                  selectedIndexPaths, today>>
  PROVE  KeepsPlan
<1>1. calendarId' = calendarId
  BY DEF Unhurried, PlanInv, Provenance, TypeOK
<1>. QED
  BY <1>1, SamePlan
     DEF KeepsPlan, DoomedIds, PlannedIds, Mine, IsMine, NewEvent, DayOfRow

\* In the table an event is listed under its own day.
LEMMA ListedUnderItsDay ==
  ASSUME Unhurried, PlanInv
  PROVE  /\ DOMAIN meshiiranList \subseteq Mine
         /\ \A id \in DOMAIN meshiiranList :
              meshiiranList[id] = events[id].start
<1>1. \A id \in DOMAIN meshiiranList : id \in Mine /\ events[id].start \in Int
  BY DEF PlanInv, Provenance, HeldIdsAreMine, Mine, TypeOK, ServerTypeOK, Event
<1>2. openedOn .. today = {0}
  BY DEF PlanInv, OneEventADay
<1>3. \A id \in DOMAIN meshiiranList :
        meshiiranList[id] = RowOfWire(0, events[id].start)
  BY <1>2 DEF PlanInv, Provenance, RowsAreDated
<1>4. \A d \in Int : RowOfWire(0, d) = d
  BY DEF RowOfWire, ParseDay, Unhurried
<1>. QED
  BY <1>1, <1>3, <1>4

\* The window of getEvents lists exactly the user's events of the table's days.
LEMMA ListingIsPlan ==
  ASSUME Unhurried, PlanInv, NEW cal \in Calendars
  PROVE  Listing(cal, MinDate(0), MaxDate(0)) \cap Mine = PlannedIds
<1>1. \A id \in alive \cap Mine :
        events[id] \in Event /\ events[id].cal = cal /\ events[id].length = 1
  BY
     DEF PlanInv, Provenance, TypeOK, ServerTypeOK, Event, Unhurried,
         OneEventADay
<1>2. \A e \in Event : e.length = 1 =>
        (InWindow(e, MinDate(0), MaxDate(0)) <=> e.start \in Rows)
  <2>1. \A e \in Event : RowOfWire(0, e.start) = e.start
    BY DEF RowOfWire, ParseDay, Unhurried, Event
  <2>. QED
    BY <2>1, WindowIsTable DEF Unhurried
<1>. QED
  BY <1>1, <1>2 DEF Listing, PlannedIds

\* A write that reaches the service mends the plan: an insert adds a chosen day
\* that was missing, a delete takes a day that was not chosen.
LEMMA WriteMendsPlan ==
  ASSUME Unhurried, PlanInv, NEW w \in writes \cup orphans, Apply(w),
         UNCHANGED <<today, openedOn, selectedIndexPaths>>
  PROVE  /\ OneEventADay'
         /\ \/ /\ w.op = "insert" /\ w.row \in selectedIndexPaths \ PlannedRows
               /\ PlannedIds \subseteq PlannedIds'
               /\ PlannedRows' = PlannedRows \cup {w.row}
            \/ /\ w.op = "delete" /\ w.id \in DoomedIds
               /\ selectedIndexPaths \subseteq PlannedRows
               /\ PlannedIds' = PlannedIds \ {w.id}
               /\ DoomedIds' = DoomedIds \ {w.id}
               /\ PlannedRows' = PlannedRows \ {events[w.id].start}
<1>. USE DEF PlanInv, Provenance
<1>1. w \in Write
  BY DEF TypeOK
<1>2. CASE w.op = "insert" /\ Insert(w.event)
  <2>1. /\ w.row \in selectedIndexPaths \ PlannedRows
        /\ w.row \in Rows /\ w.event = NewEvent(w.row)
    BY <1>2 DEF WritesMend, TypeOK
  <2>2. PICK n :
          /\ n \notin DOMAIN events
          /\ Mine' = Mine \cup {n} /\ alive' = alive \cup {n}
          /\ \A id \in Mine : events'[id] = events[id]
          /\ events'[n].start = w.row /\ events'[n].length = 1
          /\ PlannedIds' = PlannedIds \cup {n}
          /\ PlannedRows' = PlannedRows \cup {w.row}
    BY <1>2, <2>1, InsertPlans
  <2>3. \A id \in alive \cap Mine : events[id].start # w.row
    BY <2>1 DEF PlannedRows, PlannedIds
  <2>4. n \notin Mine /\ n \notin alive
    BY <2>2 DEF Mine, TypeOK, ServerTypeOK
  <2>5. OneEventADay'
    BY <2>2, <2>3, <2>4 DEF OneEventADay
  <2>. QED
    BY <1>2, <2>1, <2>2, <2>5
<1>3. CASE w.op = "delete" /\ Delete(w.cal, w.id)
  <2>1. /\ w.id \in DoomedIds /\ w.id \in PlannedIds /\ w.cal \in Calendars
        /\ selectedIndexPaths \subseteq PlannedRows
    BY <1>1, <1>3
       DEF WritesMend, DoomedIds, Write, InsertRequest, DeleteRequest
  <2>2. /\ events' = events /\ alive' = alive \ {w.id} /\ Mine' = Mine
        /\ PlannedIds' = PlannedIds \ {w.id}
        /\ PlannedRows' = PlannedRows \ {events[w.id].start}
    BY <1>3, <2>1, DeleteUnplans
  <2>3. OneEventADay' /\ DoomedIds' = DoomedIds \ {w.id}
    BY <2>2 DEF OneEventADay, DoomedIds
  <2>. QED
    BY <1>3, <2>1, <2>2, <2>3
<1>. QED
  BY <1>2, <1>3 DEF Apply

\* Every step keeps the invariant.
LEMMA PlanStep ==
  ASSUME Unhurried, PlanInv, [Next]_vars
  PROVE  PlanInv'
<1>0. Provenance' /\ Provenance /\ TypeOK /\ TypeOK'
  BY ProvenanceStep DEF PlanInv, Provenance
<1>. USE <1>0 DEF PlanInv, KeepsPlan
<1>1. ASSUME ViewDidLoad PROVE PlanInv'
  <2>0. KeepsPlan
    BY <1>1, SameView DEF ViewDidLoad
  <2>1. /\ loads' = {NewLoad} /\ NewLoad.phase = "asked" /\ NewLoad.day = 0
        /\ meshiiranList' = EmptyDict
    BY <1>1, Rested DEF ViewDidLoad, GetEvents, NewLoad, Storing, OneEventADay
  <2>2. /\ pc = "idle" /\ pc' = "idle" /\ screen' = "open" /\ selected' = {}
        /\ ~completeEnabled' /\ mainQueue' = {} /\ writes' = {}
        /\ orphans' = {} /\ broken' = broken
    BY <1>1, Rested DEF ViewDidLoad, Provenance, ClosedIsEmpty, OneAtATime
  <2>3. OneEventADay' /\ WritesMend'
    BY <1>1, <2>0, <2>2 DEF ViewDidLoad, OneEventADay, Mine, WritesMend
  <2>4. OneAtATime' /\ ListIsPlan' /\ SelectionIsPlan' /\ SaveMends'
    <3>. HIDE DEF NewLoad
    <3>. QED
      BY <2>0, <2>1, <2>2
         DEF OneAtATime, ListIsPlan, SelectionIsPlan, SaveMends
  <2>. QED
    BY <2>3, <2>4
<1>2. ASSUME TapComplete PROVE PlanInv'
  <2>0. Mine' = Mine /\ PlannedIds' = PlannedIds /\ PlannedRows' = PlannedRows
    BY <1>2, SamePlan DEF TapComplete
  <2>1. /\ DOMAIN meshiiranList = PlannedIds /\ ListedRows = PlannedRows
        /\ writes = {} /\ orphans = {} /\ loads = {} /\ mainQueue = {}
    <3>1. /\ DOMAIN meshiiranList = PlannedIds
          /\ writes = {} /\ orphans = {} /\ loads = {} /\ mainQueue = {}
      BY <1>2, Ready DEF TapComplete, ListIsPlan
    <3>. QED
      BY <3>1, ListedUnderItsDay DEF ListedRows, PlannedRows
  <2>2. OneEventADay'
    BY <1>2, <2>0 DEF TapComplete, OneEventADay
  <2>3. OneAtATime'
    BY <1>2, <2>1 DEF TapComplete, OneAtATime
  <2>4. ListIsPlan' /\ SelectionIsPlan' /\ WritesMend'
    BY <1>2, <2>0, <2>1
       DEF TapComplete, ListIsPlan, SelectionIsPlan, WritesMend
  <2>5. pc' = "create" => SaveMends'
    BY <1>2, <2>0, <2>1 DEF TapComplete, SaveMends, ListedRows
  <2>6. pc' = "delete" => SaveMends'
    <3>1. pc' = "delete" => /\ selectedIndexPaths' = {}
                            /\ idsForDelete' = PlannedIds /\ writes' = {}
      BY <1>2, <2>1 DEF TapComplete
    <3>2. pc' = "delete" => DoomedIds' = PlannedIds
      BY <1>2, <2>0, <3>1 DEF TapComplete, DoomedIds
    <3>. QED
      BY <3>1, <3>2 DEF SaveMends
  <2>. QED
    BY <1>2, <2>2, <2>3, <2>4, <2>5, <2>6 DEF TapComplete
<1>3. ASSUME NEW row \in Rows, TouchRow(row) PROVE PlanInv'
  BY <1>3, Ready, SameView DEF TouchRow, OneEventADay, OneAtATime, ListIsPlan,
     SelectionIsPlan, WritesMend, SaveMends
<1>4. ASSUME NEW row \in rowsLeft, VisitSelectedRow(row) PROVE PlanInv'
  <2>. DEFINE request == [save |-> saves, op |-> "insert", row |-> row,
                          event |-> NewEvent(row)]
  <2>0. KeepsPlan
    BY <1>4, SameView DEF VisitSelectedRow
  <2>1. /\ PlannedRows = ListedRows \cup (selectedIndexPaths \ rowsLeft)
        /\ row \in selectedIndexPaths
        /\ writes = {} /\ orphans = {} /\ loads = {}
    BY <1>4, Rested DEF VisitSelectedRow, SaveMends
  <2>2. AllKeysForValue(row) = {} <=> row \notin ListedRows
    BY DEF AllKeysForValue, ListedRows
  <2>3. /\ row \in ListedRows => writes' = {}
        /\ row \notin ListedRows => writes' = {request}
    BY <1>4, <2>1, <2>2 DEF VisitSelectedRow, CreateEvent
  <2>4. /\ request.op = "insert" /\ request.row = row
        /\ request.event = NewEvent(row)
    OBVIOUS
  <2>. HIDE DEF request
  <2>5. OneEventADay' /\ ListIsPlan' /\ SelectionIsPlan'
    BY <1>4, <2>0
       DEF VisitSelectedRow, OneEventADay, ListIsPlan, SelectionIsPlan
  <2>6. OneAtATime'
    BY <1>4, <2>1, <2>3 DEF VisitSelectedRow, OneAtATime
  <2>7. WritesMend'
    BY <1>4, <2>0, <2>1, <2>3, <2>4 DEF VisitSelectedRow, WritesMend
  <2>8. SaveMends'
    <3>1. ListedRows' = ListedRows
      BY <1>4 DEF VisitSelectedRow, ListedRows
    <3>2. /\ pc' = "create" /\ rowsLeft' = rowsLeft \ {row}
          /\ UNCHANGED <<selectedIndexPaths, meshiiranList>>
      BY <1>4 DEF VisitSelectedRow
    <3>3. {w.row : w \in writes'} = IF row \in ListedRows THEN {} ELSE {row}
      BY <2>3, <2>4
    <3>4. PlannedRows' \cup {w.row : w \in writes'}
            = ListedRows' \cup (selectedIndexPaths' \ rowsLeft')
      BY <2>0, <2>1, <3>1, <3>2, <3>3
    <3>. QED
      BY <1>4, <2>0, <2>3, <2>4, <3>2, <3>4 DEF SaveMends, VisitSelectedRow
  <2>. QED
    BY <2>5, <2>6, <2>7, <2>8
<1>5. ASSUME CollectIds PROVE PlanInv'
  <2>0. KeepsPlan
    BY <1>5, SameView DEF CollectIds
  <2>1. /\ PlannedRows = ListedRows \cup selectedIndexPaths
        /\ DOMAIN meshiiranList \subseteq PlannedIds /\ writes = {}
    BY <1>5, Rested DEF CollectIds, SaveMends
  <2>2. DoomedIds = idsForDelete'
    <3>1. \A id \in DoomedIds : \E i \in idsForDelete' :
            events[i].start = events[id].start
      BY <1>5, <2>1, ListedUnderItsDay
         DEF CollectIds, DoomedIds, PlannedRows, ListedRows, KeysForRows,
             RowsToDelete
    <3>2. idsForDelete' \subseteq DoomedIds
      BY <1>5, <2>1, ListedUnderItsDay
         DEF CollectIds, DoomedIds, KeysForRows, RowsToDelete
    <3>. QED
      BY <3>1, <3>2 DEF OneEventADay, DoomedIds, PlannedIds
  <2>3. /\ OneEventADay' /\ OneAtATime' /\ ListIsPlan' /\ SelectionIsPlan'
        /\ WritesMend'
    BY <1>5, <2>0
       DEF CollectIds, OneEventADay, OneAtATime, ListIsPlan, SelectionIsPlan,
           WritesMend
  <2>4. SaveMends'
    BY <1>5, <2>0, <2>1, <2>2 DEF CollectIds, SaveMends
  <2>. QED
    BY <2>3, <2>4
<1>6. ASSUME NEW id \in idsForDelete, DeleteEvent(id) PROVE PlanInv'
  <2>. DEFINE request == [save |-> saves, op |-> "delete",
                          cal |-> deleteFrom, id |-> id]
  <2>0. KeepsPlan
    BY <1>6, SameView DEF DeleteEvent
  <2>1. writes' = {request} /\ orphans = {} /\ writes = {} /\ loads = {}
    BY <1>6, Rested DEF DeleteEvent
  <2>2. request.op = "delete" /\ request.id = id
    OBVIOUS
  <2>. HIDE DEF request
  <2>3. OneEventADay' /\ OneAtATime' /\ ListIsPlan' /\ SelectionIsPlan'
    BY <1>6, <2>0, <2>1
       DEF DeleteEvent, OneEventADay, OneAtATime, ListIsPlan, SelectionIsPlan
  <2>4. WritesMend' /\ SaveMends'
    BY <1>6, <2>0, <2>1, <2>2 DEF DeleteEvent, WritesMend, SaveMends
  <2>. QED
    BY <2>3, <2>4
<1>7. ASSUME FinishComplete PROVE PlanInv'
  <2>0. KeepsPlan
    BY <1>7, SameView DEF FinishComplete
  <2>1. /\ loads' = {NewLoad} /\ NewLoad.phase = "asked" /\ NewLoad.day = 0
        /\ meshiiranList' = EmptyDict
    BY <1>7, Rested
       DEF FinishComplete, GetEvents, NewLoad, Storing, OneEventADay
  <2>2. /\ writes' = {} /\ orphans' = {} /\ mainQueue' = {} /\ pc' = "idle"
        /\ ~completeEnabled' /\ screen' = screen /\ broken' = broken
    BY <1>7, Rested DEF FinishComplete, OneAtATime
  <2>3. selected' = PlannedRows
    <3>1. /\ selected = selectedIndexPaths /\ DoomedIds = {}
          /\ selectedIndexPaths \subseteq PlannedRows
      BY <1>7, Rested DEF FinishComplete, OneAtATime, SaveMends
    <3>2. PlannedRows \subseteq selectedIndexPaths
      BY <3>1 DEF DoomedIds, PlannedRows
    <3>. QED
      BY <1>7, <3>1, <3>2 DEF FinishComplete
  <2>4. OneEventADay' /\ WritesMend'
    BY <1>7, <2>0, <2>2 DEF FinishComplete, OneEventADay, WritesMend
  <2>5. OneAtATime' /\ ListIsPlan' /\ SelectionIsPlan' /\ SaveMends'
    <3>. HIDE DEF NewLoad
    <3>. QED
      BY <2>0, <2>1, <2>2, <2>3
         DEF OneAtATime, ListIsPlan, SelectionIsPlan, SaveMends
  <2>. QED
    BY <2>4, <2>5
<1>8. ASSUME NEW block \in mainQueue, SelectRow(block) PROVE PlanInv'
  <2>0. KeepsPlan
    BY <1>8, SameView DEF SelectRow
  <2>1. /\ selected' = selected \cup {block.row}
        /\ mainQueue' = mainQueue \ {block} /\ block.row \in PlannedRows
    BY <1>8 DEF SelectRow, InTable, SelectionIsPlan, PlannedRows, PlannedIds
  <2>2. /\ OneEventADay' /\ OneAtATime' /\ ListIsPlan'
        /\ WritesMend' /\ SaveMends'
    BY <1>8, <2>0
       DEF SelectRow, OneEventADay, OneAtATime, ListIsPlan, WritesMend,
           SaveMends
  <2>3. SelectionIsPlan'
    BY <1>8, <2>0, <2>1 DEF SelectRow, SelectionIsPlan, OneAtATime
  <2>. QED
    BY <2>2, <2>3
<1>9. ASSUME NEW l \in loads, BeginStoring(l) PROVE PlanInv'
  <2>. DEFINE new == [l EXCEPT !.phase = "storing", !.day = today,
                               !.ids = {id \in l.ids : IsMine(events[id])}]
  <2>0. KeepsPlan
    BY <1>9, SameView DEF BeginStoring
  <2>1. loads = {l} /\ loads' = {new}
    BY <1>9 DEF BeginStoring, OneAtATime
  <2>2. /\ new.phase = "storing" /\ new.day = 0 /\ new.ids = PlannedIds
        /\ meshiiranList = EmptyDict
    <3>1. l \in Load /\ l.ids \subseteq DOMAIN events
      BY DEF TypeOK
    <3>2. {id \in l.ids : IsMine(events[id])} = l.ids \cap Mine
      BY <3>1 DEF Mine, IsMine
    <3>. QED
      BY <1>9, <3>1, <3>2 DEF BeginStoring, Load, OneEventADay, ListIsPlan
  <2>. HIDE DEF new
  <2>3. OneEventADay' /\ SelectionIsPlan' /\ WritesMend'
    <3>1. UNCHANGED <<events, alive, today, openedOn, mainQueue, screen, pc,
                      completeEnabled, selected, writes, orphans,
                      selectedIndexPaths>>
      BY <1>9 DEF BeginStoring
    <3>. QED
      BY <2>0, <2>1, <3>1 DEF OneEventADay, SelectionIsPlan, WritesMend
  <2>4. OneAtATime' /\ ListIsPlan' /\ SaveMends'
    <3>1. UNCHANGED <<mainQueue, screen, pc, completeEnabled, selected,
                      writes, orphans, broken, meshiiranList,
                      selectedIndexPaths, idsForDelete, rowsLeft>>
      BY <1>9 DEF BeginStoring
    <3>. QED
      BY <2>0, <2>1, <2>2, <3>1 DEF OneAtATime, ListIsPlan, SaveMends
  <2>. QED
    BY <2>3, <2>4
<1>10. ASSUME NEW l \in loads, StoreRow(l) PROVE PlanInv'
  <2>0. KeepsPlan
    BY <1>10, SameView DEF StoreRow
  <2>1. loads = {l} /\ ~AnotherStores(l)
    BY DEF OneAtATime, AnotherStores
  <2>2. PICK id \in l.ids :
          /\ meshiiranList' =
               Put(meshiiranList, id, RowOfWire(l.day, events[id].start))
          /\ loads' = {[l EXCEPT !.ids = @ \ {id}]}
    BY <1>10, <2>1 DEF StoreRow
  <2>3. \A k \in loads' :
          k.phase = "storing" /\ k.day = 0 /\ k.ids = l.ids \ {id}
    BY <1>10, <2>2 DEF TypeOK, Load, StoreRow, ListIsPlan
  <2>4. DOMAIN meshiiranList' \cup (l.ids \ {id}) = PlannedIds
    BY <1>10, <2>2 DEF StoreRow, ListIsPlan
  <2>5. UNCHANGED <<events, alive, today, openedOn, mainQueue, screen, pc,
                    completeEnabled, selected, writes, orphans, broken,
                    selectedIndexPaths>>
    BY <1>10 DEF StoreRow
  <2>6. pc = "idle" /\ loads' # {} /\ \A j, k \in loads' : j = k
    BY <2>2 DEF OneAtATime
  <2>7. OneEventADay' /\ WritesMend'
    BY <2>0, <2>5 DEF OneEventADay, WritesMend
  <2>8. OneAtATime' /\ ListIsPlan' /\ SelectionIsPlan' /\ SaveMends'
    BY <2>0, <2>3, <2>4, <2>5, <2>6
       DEF OneAtATime, ListIsPlan, SelectionIsPlan, SaveMends
  <2>. QED
    BY <2>7, <2>8
<1>11. ASSUME NEW l \in loads, SetupRows(l) PROVE PlanInv'
  <2>. DEFINE block(id) == [save |-> l.save, id |-> id,
                            row |-> meshiiranList[id]]
              blocks == {block(id) : id \in DOMAIN meshiiranList}
  <2>0. KeepsPlan
    BY <1>11, SameView DEF SetupRows
  <2>1. loads = {l} /\ loads' = {} /\ mainQueue' = mainQueue \cup blocks
    BY <1>11 DEF SetupRows, OneAtATime
  <2>2. DOMAIN meshiiranList = PlannedIds
    BY <1>11 DEF SetupRows, ListIsPlan
  <2>3. {b.row : b \in blocks} = PlannedRows
    <3>1. PlannedRows = {meshiiranList[id] : id \in DOMAIN meshiiranList}
      BY <2>2, ListedUnderItsDay DEF PlannedRows
    <3>2. \A b \in blocks :
            \E id \in DOMAIN meshiiranList : b.row = meshiiranList[id]
      OBVIOUS
    <3>3. ASSUME NEW id \in DOMAIN meshiiranList
          PROVE  \E b \in blocks : b.row = meshiiranList[id]
      <4>. WITNESS block(id) \in blocks
      <4>. QED
        OBVIOUS
    <3>. HIDE DEF blocks
    <3>. QED
      BY <3>1, <3>2, <3>3
  <2>. HIDE DEF blocks
  <2>4. UNCHANGED <<events, alive, today, openedOn, screen, pc,
                    completeEnabled, meshiiranList, selected, writes, orphans,
                    broken, selectedIndexPaths>>
    BY <1>11 DEF SetupRows
  <2>5. pc = "idle" /\ screen = "open" /\ ~completeEnabled
    BY DEF OneAtATime, Provenance, ClosedIsEmpty, TypeOK
  <2>6. OneEventADay' /\ WritesMend'
    BY <2>0, <2>4 DEF OneEventADay, WritesMend
  <2>7. OneAtATime' /\ ListIsPlan' /\ SaveMends'
    BY <2>0, <2>1, <2>2, <2>4, <2>5 DEF OneAtATime, ListIsPlan, SaveMends
  <2>8. SelectionIsPlan'
    BY <2>0, <2>1, <2>3, <2>4, <2>5 DEF SelectionIsPlan
  <2>. QED
    BY <2>6, <2>7, <2>8
<1>12. ASSUME NEW l \in loads, AnswerLoad(l) PROVE PlanInv'
  <2>. DEFINE items == Listing(l.cal, MinDate(0), MaxDate(0))
              new == [l EXCEPT !.phase = "answered", !.ids = items]
  <2>0. KeepsPlan
    BY <1>12, SameView DEF AnswerLoad
  <2>1. loads = {l} /\ loads' = {new}
    BY <1>12 DEF AnswerLoad, OneAtATime, ListIsPlan
  <2>2. /\ new.phase = "answered" /\ new.day = 0 /\ meshiiranList = EmptyDict
        /\ new.ids \cap Mine = PlannedIds
    <3>1. l \in Load /\ l.cal \in Calendars
      BY DEF TypeOK, Load
    <3>2. items \cap Mine = PlannedIds
      BY <3>1, ListingIsPlan
    <3>. HIDE DEF items
    <3>. QED
      BY <1>12, <3>1, <3>2 DEF AnswerLoad, Load, ListIsPlan
  <2>. HIDE DEF new
  <2>3. UNCHANGED <<events, alive, today, openedOn, mainQueue, screen, pc,
                    completeEnabled, meshiiranList, selected, writes, orphans,
                    broken, selectedIndexPaths>>
    BY <1>12 DEF AnswerLoad
  <2>4. OneEventADay' /\ WritesMend'
    BY <2>0, <2>3 DEF OneEventADay, WritesMend
  <2>5. OneAtATime' /\ ListIsPlan' /\ SelectionIsPlan' /\ SaveMends'
    BY <2>0, <2>1, <2>2, <2>3
       DEF OneAtATime, ListIsPlan, SelectionIsPlan, SaveMends
  <2>. QED
    BY <2>4, <2>5
<1>13. ASSUME NEW w \in writes, ServeWrite(w) PROVE PlanInv'
  <2>1. /\ writes = {w} /\ writes' = {} /\ orphans' = {} /\ pc # "idle"
        /\ UNCHANGED <<pc, today, openedOn, screen, mainQueue, selected,
                       completeEnabled, loads, broken, meshiiranList,
                       selectedIndexPaths, rowsLeft, idsForDelete>>
    <3>1. orphans = {}
      BY DEF OneAtATime, Provenance, ClosedIsEmpty, TypeOK
    <3>. QED
      BY <1>13, <3>1 DEF ServeWrite, OneAtATime
  <2>2. Apply(w)
    BY <1>13 DEF ServeWrite
  <2>3. OneAtATime' /\ ListIsPlan' /\ SelectionIsPlan' /\ WritesMend'
    BY <2>1 DEF OneAtATime, ListIsPlan, SelectionIsPlan, WritesMend
  <2>4. OneEventADay' /\ SaveMends'
    <3>1. CASE w.op = "insert"
      <4>1. pc = "create" /\ ListedRows' = ListedRows
        BY <2>1, <3>1 DEF SaveMends, TypeOK, ListedRows
      <4>2. {v.row : v \in writes} = {w.row} /\ {v.row : v \in writes'} = {}
        BY <2>1
      <4>. QED
        BY <2>1, <2>2, <3>1, <4>1, <4>2, WriteMendsPlan DEF SaveMends
    <3>2. CASE w.op = "delete"
      <4>1. pc = "delete" /\ w.id \notin idsForDelete
        BY <2>1, <3>2 DEF SaveMends, TypeOK
      <4>2. {v.id : v \in writes} = {w.id} /\ {v.id : v \in writes'} = {}
        BY <2>1
      <4>3. events[w.id].start \notin selectedIndexPaths
        BY <3>2 DEF WritesMend, DoomedIds
      <4>. QED
        BY <2>1, <2>2, <3>2, <4>1, <4>2, <4>3, WriteMendsPlan DEF SaveMends
    <3>. QED
      BY <2>2, <3>1, <3>2 DEF Apply
  <2>. QED
    BY <2>3, <2>4
<1>14. ASSUME NEW w \in orphans, ServeOrphan(w) PROVE PlanInv'
  <2>1. /\ orphans' = {} /\ writes' = {} /\ loads = {} /\ mainQueue = {}
        /\ pc = "idle" /\ screen = "closed"
        /\ UNCHANGED <<pc, today, openedOn, screen, mainQueue, selected,
                       completeEnabled, loads, broken, meshiiranList,
                       selectedIndexPaths, rowsLeft, idsForDelete>>
    BY <1>14 DEF ServeOrphan, OneAtATime, Provenance, ClosedIsEmpty, TypeOK
  <2>2. OneEventADay'
    BY <1>14, <2>1, WriteMendsPlan DEF ServeOrphan
  <2>. QED
    BY <2>1, <2>2
       DEF OneAtATime, ListIsPlan, SelectionIsPlan, WritesMend, SaveMends
<1>15. ASSUME EndRefresh \/ SaveCalendarId \/ RefreshAgain \/ UNCHANGED vars
       PROVE  PlanInv'
  <2>1. UNCHANGED <<serverVars, today, appVars, handlerVars, netVars>>
    BY <1>15 DEF EndRefresh, SaveCalendarId, RefreshAgain
  <2>. QED
    BY <2>1, SameView
       DEF OneEventADay, OneAtATime, ListIsPlan, SelectionIsPlan, WritesMend,
           SaveMends, ListedRows
<1>16. ASSUME ProcessDies PROVE PlanInv'
  <2>1. /\ orphans' \subseteq writes /\ writes' = {} /\ loads' = {}
        /\ mainQueue' = {} /\ pc' = "idle"
        /\ screen' = "closed" /\ ~broken' /\ ~completeEnabled'
    BY <1>16 DEF ProcessDies, OneAtATime
  <2>2. UNCHANGED <<events, alive, today, openedOn, selectedIndexPaths>>
    BY <1>16 DEF ProcessDies
  <2>. QED
    BY <2>1, <2>2, SameView
       DEF OneEventADay, OneAtATime, ListIsPlan, SelectionIsPlan, WritesMend,
           SaveMends
<1>17. ASSUME OtherInserts \/ OtherDeletes PROVE PlanInv'
  <2>1. UNCHANGED <<today, defaultsVars, appVars, handlerVars, netVars>>
    BY <1>17 DEF OtherInserts, OtherDeletes
  <2>2. /\ Mine' = Mine /\ alive' \cap Mine = alive \cap Mine
        /\ \A id \in Mine : events'[id] = events[id]
        /\ PlannedIds' = PlannedIds /\ PlannedRows' = PlannedRows
    BY <1>17, OthersKeepPlan
  <2>3. DoomedIds' = DoomedIds
    BY <2>1, <2>2 DEF DoomedIds, PlannedIds
  <2>4. \A r : NewEvent(r)' = NewEvent(r)
    BY <2>1 DEF NewEvent, DayOfRow
  <2>5. OneEventADay'
    BY <2>1, <2>2 DEF OneEventADay
  <2>. QED
    BY <2>1, <2>2, <2>3, <2>4, <2>5
       DEF OneAtATime, ListIsPlan, SelectionIsPlan, WritesMend, SaveMends,
           ListedRows
<1>18. ~Midnight
  BY DEF Midnight, Unhurried, TypeOK
<1>19. ~CrashInCompletion
  BY DEF CrashInCompletion, OneAtATime
<1>. QED
  BY <1>1, <1>2, <1>3, <1>4, <1>5, <1>6, <1>7, <1>8, <1>9, <1>10, <1>11, <1>12,
     <1>13, <1>14, <1>15, <1>16, <1>17, <1>18, <1>19
  DEF Next, User, Handler, MainBlock, Completion, Network, Fault, World, Kill,
      CrashInDictionary, CrashOnErrorBody, LoseLoad, RejectWrite, LoseWrite,
      Unhurried

\* The initial state satisfies the invariant.
LEMMA PlanInit ==
  ASSUME Unhurried, Init
  PROVE  PlanInv
<1>1. Provenance
  BY ProvenanceInit
<1>2. OneEventADay
  <2>1. \A i \in DOMAIN events : \A j \in DOMAIN events :
          IsMine(events[i]) => /\ events[i].length = 1
                               /\ /\ IsMine(events[j])
                                  /\ events[i].start = events[j].start
                                  => i = j
    BY DEF Unhurried, Init
  <2>. QED
    BY <2>1 DEF Init, OneEventADay, Mine, IsMine
<1>3. OneAtATime /\ ListIsPlan /\ SelectionIsPlan /\ WritesMend /\ SaveMends
  BY DEF Init, OneAtATime, ListIsPlan, SelectionIsPlan, WritesMend, SaveMends
<1>. QED
  BY <1>1, <1>2, <1>3 DEF PlanInv

\* So it holds throughout.
LEMMA PlanKept ==
  ASSUME Unhurried
  PROVE  Spec => []PlanInv
<1>1. Init => PlanInv
  BY PlanInit
<1>2. PlanInv /\ [Next]_vars => PlanInv'
  BY PlanStep
<1>. QED
  BY <1>1, <1>2, PTL DEF Spec

\* Under the invariant, days and rows are the same on the screen.
LEMMA PlanShown ==
  ASSUME Unhurried, PlanInv
  PROVE  /\ PlanDays = PlannedRows
         /\ WireDays(selected) = selected
         /\ WireDays(selectedIndexPaths) = selectedIndexPaths
<1>1. TypeOK /\ today = 0
  BY DEF PlanInv, Provenance, OneEventADay
<1>2. selected \in SUBSET Int /\ selectedIndexPaths \in SUBSET Int
  BY <1>1, RowCountAssumption DEF TypeOK, Rows
<1>. QED
  BY <1>1, <1>2, PlanIsPlanned, DaysAreRows

(***************************************************************************)
(* When nothing is under way and no row has been touched, the selected     *)
(* rows are the plan, for every table, plan, choice, number of saves and   *)
(* moment of a kill.                                                       *)
(***************************************************************************)
THEOREM CleanScreen ==
  ASSUME Unhurried
  PROVE  Spec => []CleanScreenShowsPlan
<1>1. PlanInv => CleanScreenShowsPlan
  <2>. SUFFICES ASSUME PlanInv, screen = "open", pc = "idle", Settled,
                       mainQueue = {}, ~completeEnabled
                PROVE  WireDays(selected) = PlanDays
    BY DEF CleanScreenShowsPlan
  <2>1. selected = PlannedRows
    BY DEF PlanInv, SelectionIsPlan, Settled
  <2>. QED
    BY <2>1, PlanShown
<1>. QED
  BY <1>1, PlanKept, PTL

\* An insert request is for a row that has no event yet.
LEMMA UnplannedStep ==
  ASSUME Unhurried, PlanInv, Next, NEW w \in writes' \ writes, w.op = "insert"
  PROVE  w.event.start \notin PlanDays
<1>1. PICK row \in rowsLeft : VisitSelectedRow(row)
  <2>1. \A id \in idsForDelete : ~DeleteEvent(id)
    BY DEF DeleteEvent
  <2>. QED
    BY <2>1
       DEF Next, User, Handler, MainBlock, Completion, Network, Fault, World,
           Kill, CrashInDictionary, CrashOnErrorBody, LoseLoad, RejectWrite,
       LoseWrite, ViewDidLoad, TapComplete, TouchRow, CollectIds,
       FinishComplete, SelectRow, BeginStoring, StoreRow, SetupRows,
       AnswerLoad, EndRefresh, CrashInCompletion, ProcessDies, ServeWrite,
       ServeOrphan, OtherInserts, OtherDeletes, Midnight, SaveCalendarId,
       RefreshAgain
<1>2. w.event = NewEvent(row) /\ AllKeysForValue(row) = {}
  BY <1>1 DEF VisitSelectedRow, CreateEvent
<1>3. row \in Int /\ today = 0
  BY <1>1, RowCountAssumption
     DEF PlanInv, Provenance, TypeOK, Rows, OneEventADay
<1>4. w.event.start = row
  BY <1>2, <1>3 DEF NewEvent, FormatDay, DayOfRow, Move, Unhurried
<1>5. PlannedRows = ListedRows \cup (selectedIndexPaths \ rowsLeft)
  BY <1>1, Rested DEF VisitSelectedRow, PlanInv, SaveMends
<1>6. row \notin ListedRows
  BY <1>2 DEF AllKeysForValue, ListedRows
<1>. QED
  BY <1>1, <1>4, <1>5, <1>6, PlanShown DEF VisitSelectedRow

(***************************************************************************)
(* The insertion loop asks for no second event on a planned day.           *)
(***************************************************************************)
THEOREM NoSecondEvent ==
  ASSUME Unhurried
  PROVE  Spec => InsertsOnlyUnplanned
<1>1. PlanInv /\ [Next]_vars => [PlansNoDayTwice]_vars
  BY UnplannedStep DEF PlansNoDayTwice
<1>. QED
  BY <1>1, PlanKept, PTL DEF Spec, InsertsOnlyUnplanned

\* Days and rows are the same after a step, too.
LEMMA PlanShownAfter ==
  ASSUME Unhurried, PlanInv, [Next]_vars
  PROVE  /\ PlanDays' = PlannedRows'
         /\ WireDays(selectedIndexPaths)' = selectedIndexPaths'
<1>1. PlanInv'
  BY PlanStep
<1>2. TypeOK' /\ today' = 0
  BY <1>1 DEF PlanInv, Provenance, OneEventADay
<1>3. \A S \in SUBSET Int : {FormatDay(DayOfRow(0, row)) : row \in S} = S
  <2>1. \A row \in Int : FormatDay(DayOfRow(0, row)) = row
    BY DEF Unhurried, FormatDay, DayOfRow, Move
  <2>. QED
    BY <2>1
<1>4. selectedIndexPaths' \in SUBSET Int /\ Rows \in SUBSET Int
  BY <1>2, RowCountAssumption DEF TypeOK, Rows
<1>5. \A id \in alive' : events'[id].cal = calendarId'
  BY <1>2 DEF TypeOK, ServerTypeOK, Event, Unhurried
<1>6. WireDays(Rows)' = Rows
  BY <1>2, <1>3, <1>4 DEF WireDays
<1>7. PlanDays' = PlannedRows'
  BY <1>5, <1>6 DEF PlanDays, PlannedRows, PlannedIds
<1>8. WireDays(selectedIndexPaths)' = selectedIndexPaths'
  BY <1>2, <1>3, <1>4 DEF WireDays
<1>. QED
  BY <1>7, <1>8

\* Every step is a step of MealPlan or leaves its variables alone: the screen
\* opens, Complete is tapped, the server applies a write, the handler returns,
\* the process dies.
LEMMA MealPlanStep ==
  ASSUME Unhurried, PlanInv, [Next]_vars
  PROVE  [Plan!Next]_(Plan!vars)
<1>. DEFINE phase == IF screen = "closed" THEN "closed"
                     ELSE IF pc = "idle" THEN "open" ELSE "saving"
            choice == WireDays(selectedIndexPaths)
<1>0. /\ PlanDays = PlannedRows /\ PlanDays' = PlannedRows'
      /\ choice = selectedIndexPaths /\ choice' = selectedIndexPaths'
      /\ TypeOK /\ selectedIndexPaths' \in SUBSET Int
  <2>1. TypeOK /\ TypeOK'
    BY PlanStep DEF PlanInv, Provenance
  <2>. QED
    BY <2>1, PlanShown, PlanShownAfter, RowCountAssumption DEF TypeOK, Rows
<1>. USE DEF Plan!Next, Plan!vars
<1>. HIDE DEF choice
<1>1. ASSUME UNCHANGED <<events, alive>>
      PROVE  PlanDays' = PlanDays
  BY <1>0, <1>1, SamePlan
<1>2. CASE ViewDidLoad
  <2>1. phase = "closed" /\ phase' = "open"
    BY <1>2 DEF ViewDidLoad, PlanInv, Provenance, ClosedIsEmpty
  <2>2. PlanDays' = PlanDays /\ choice' = choice
    BY <1>0, <1>1, <1>2 DEF ViewDidLoad
  <2>. QED
    BY <2>1, <2>2 DEF Plan!Open, choice
<1>3. CASE TapComplete
  <2>1. phase = "open" /\ phase' = "saving"
    BY <1>3 DEF TapComplete
  <2>2. PlanDays' = PlanDays /\ choice' \in SUBSET Int
    BY <1>0, <1>1, <1>3 DEF TapComplete
  <2>. QED
    BY <2>1, <2>2 DEF Plan!Commit, choice
<1>4. ASSUME NEW w \in writes \cup orphans, Apply(w), phase # "open",
             UNCHANGED <<today, openedOn, selectedIndexPaths, screen, pc>>
      PROVE  Plan!Add \/ Plan!Remove
  <2>1. phase' = phase /\ choice' = choice
    BY <1>0, <1>4
  <2>2. CASE /\ w.row \in selectedIndexPaths \ PlannedRows
             /\ PlannedRows' = PlannedRows \cup {w.row}
    BY <1>0, <1>4, <2>1, <2>2 DEF Plan!Add, choice
  <2>3. CASE /\ w.id \in DoomedIds
             /\ selectedIndexPaths \subseteq PlannedRows
             /\ PlannedRows' = PlannedRows \ {events[w.id].start}
    <3>1. events[w.id].start \in PlannedRows \ selectedIndexPaths
      BY <2>3 DEF DoomedIds, PlannedRows
    <3>. QED
      BY <1>0, <1>4, <2>1, <2>3, <3>1 DEF Plan!Remove, choice
  <2>. QED
    BY <1>4, <2>2, <2>3, WriteMendsPlan
<1>5. CASE \E w \in writes : ServeWrite(w)
  <2>1. PICK w \in writes : ServeWrite(w)
    BY <1>5
  <2>2. phase # "open"
    BY DEF PlanInv, OneAtATime
  <2>. QED
    BY <1>4, <2>1, <2>2 DEF ServeWrite
<1>6. CASE \E w \in orphans : ServeOrphan(w)
  <2>1. PICK w \in orphans : ServeOrphan(w)
    BY <1>6
  <2>2. phase # "open"
    BY <1>0, <2>1 DEF PlanInv, OneAtATime, TypeOK
  <2>. QED
    BY <1>4, <2>1, <2>2 DEF ServeOrphan
<1>7. CASE FinishComplete
  <2>1. PlannedRows = selectedIndexPaths
    <3>1. DoomedIds = {} /\ selectedIndexPaths \subseteq PlannedRows
      BY <1>7, Rested DEF FinishComplete, PlanInv, SaveMends
    <3>. QED
      BY <3>1 DEF DoomedIds, PlannedRows
  <2>2. phase = "saving" /\ phase' = "open"
    <3>1. screen = "open"
      BY <1>0, <1>7
         DEF FinishComplete, PlanInv, Provenance, ClosedIsEmpty, TypeOK
    <3>. QED
      BY <1>7, <3>1 DEF FinishComplete
  <2>3. PlanDays' = PlanDays /\ choice' = choice
    BY <1>0, <1>1, <1>7 DEF FinishComplete
  <2>. QED
    BY <1>0, <2>1, <2>2, <2>3 DEF Plan!Finish, choice
<1>8. CASE ProcessDies
  <2>1. phase # "closed" /\ phase' = "closed"
    BY <1>8 DEF ProcessDies
  <2>2. PlanDays' = PlanDays /\ choice' = choice
    BY <1>0, <1>1, <1>8 DEF ProcessDies
  <2>. QED
    BY <2>1, <2>2 DEF Plan!Close, choice
<1>9. CASE PlannedRows' = PlannedRows /\ UNCHANGED <<selectedIndexPaths,
                                                     screen, phase>>
  BY <1>0, <1>9 DEF choice
<1>10. CASE OtherInserts \/ OtherDeletes
  BY <1>0, <1>9, <1>10, OthersKeepPlan DEF OtherInserts, OtherDeletes
<1>11. ASSUME UNCHANGED <<events, alive, selectedIndexPaths, screen, phase>>
       PROVE  UNCHANGED Plan!vars
  BY <1>0, <1>1, <1>11 DEF choice
<1>12. CASE \/ \E row \in rowsLeft : VisitSelectedRow(row)
            \/ CollectIds
            \/ \E id \in idsForDelete : DeleteEvent(id)
  BY <1>11, <1>12 DEF VisitSelectedRow, CollectIds, DeleteEvent
<1>13. CASE \/ \E row \in Rows : TouchRow(row)
            \/ MainBlock \/ Completion \/ EndRefresh
            \/ SaveCalendarId \/ RefreshAgain \/ UNCHANGED vars
            \/ \E l \in loads : AnswerLoad(l)
  BY <1>11, <1>13 DEF TouchRow, MainBlock, SelectRow, Completion, BeginStoring,
     StoreRow, SetupRows, EndRefresh, SaveCalendarId, RefreshAgain, AnswerLoad
<1>14. ~Midnight /\ ~CrashInCompletion
  BY <1>0
     DEF Midnight, Unhurried, TypeOK, CrashInCompletion, PlanInv, OneAtATime
<1>. QED
  BY <1>2, <1>3, <1>5, <1>6, <1>7, <1>8, <1>10, <1>12, <1>13, <1>14
  DEF Next, User, Handler, Network, Fault, World, Kill, CrashInDictionary,
      CrashOnErrorBody, LoseLoad, RejectWrite, LoseWrite, Unhurried

\* The initial state is one of MealPlan's.
LEMMA MealPlanInit ==
  ASSUME Unhurried, Init
  PROVE  Plan!Init
<1>1. PlanDays \in SUBSET Int
  <2>1. PlanInv
    BY PlanInit
  <2>. QED
    BY <2>1, PlanShown, RowCountAssumption DEF PlannedRows, PlannedIds, Rows
<1>2. WireDays(selectedIndexPaths) = {}
  BY DEF Init, WireDays
<1>. QED
  BY <1>1, <1>2 DEF Init, Plan!Init

(***************************************************************************)
(* The screen implements the abstract meal plan.                           *)
(***************************************************************************)
THEOREM ScreenIsMealPlan ==
  ASSUME Unhurried
  PROVE  Spec => ImplementsMealPlan
BY MealPlanInit, MealPlanStep, PlanKept, PTL
   DEF Spec, ImplementsMealPlan, Plan!Spec
=============================================================================
