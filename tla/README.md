# Meshiiru: verification project

Meshiiru ("I need a meal") is an iOS app with which the members of a family
tell each other on which of the next seven days they will not eat at home. A
day without a meal is an all-day event, named after the member, in a shared
Google calendar called "meshiiru". The repository holds the app and the source
of its pods, among them leveldb and nanopb. This directory holds TLA+ models of
the app's own code and of the vendored code with state worth checking, the TLC
runs that check them on small instances, and proofs checked by TLAPS.

Paths of the app are relative to `src/meshiiru/meshiiru/`, those of leveldb to
`src/meshiiru/Pods/leveldb-library/`, those of nanopb to
`src/meshiiru/Pods/nanopb/`.

## 1. Inventory

### The app

| component | state | operations | interacts with |
|---|---|---|---|
| Schedule screen (`ScheduleSelectTableViewController.swift`) | `meshiiranList` (event id -> row), the table's selection, `completeButton.isEnabled` | `viewDidLoad`, `getEvents` and its completion, `setupRows`, `didSelect`/`didDeselectRowAt`, `onTapCompleteButton` | calls the calendar client; its completion runs on a URLSession queue and posts blocks to the main queue |
| Calendar client, events (`GoogleCalendarService.swift`) | none of its own; reads `UserDefaults` and `GIDSignIn.currentUser` | `getEvents`, `createEvent`, `deleteEvents` | HTTP requests to Google Calendar; called by the screen, from the main thread |
| Calendar client, calendar list (same file) | `UserDefaults["calendarId"]` | `fetchCalendarList` and its completion | called by sign-in; its completion writes defaults that the screen reads |
| Sign-in (`AppDelegate.swift`, `LoginViewController.swift`) | `UserDefaults["userName"]`, GIDSignIn's user and keychain, which screen is shown | launch, sign-in button, `didSignInFor`, segue `toHome` | starts the calendar list request, opens the schedule screen |
| Firebase user store (`FireBaseService.swift`, `models/UserModel.swift`) | remote `/users` | `createUser`, `getUser`, `putData` | called from nowhere, so not modelled |
| Universal links (`AppDelegate.swift`) | none | `application(_:continue:)`, `handleUniversalLink`, `addUser` | not reached: the app has a scene manifest, and `SceneDelegate` does not forward links |
| Cell, scene delegate, storyboards, template tests | - | - | layout and templates |

### Vendored code

leveldb is the persistent store of Firebase Database (`APLevelDB.mm`; the app
does not switch persistence on, so it is linked and not run); nanopb reads and
writes the one request and one response of GoogleDataTransport. Both are C or
C++ with threads, crashes and formats, and are modelled. The other pods
are Objective-C frameworks that the app calls through a few methods; what it
relies on is an external part of the models of the app.

| component | state | what is modelled |
|---|---|---|
| writes, background thread, recovery (`db/db_impl.cc`, `db/version_set.cc`) | writer queue, memtables, log, version, MANIFEST, files | every step of a write, a flush, a merge, `DB::Open`, the deletion of files, with appends and syncs that fail |
| levels (`db/version_set.cc`, `db/db_impl.cc`) | tables of each level, compaction pointers, snapshots | which tables a compaction takes and which entries it drops |
| log format, table format, blocks, filters, batches, edits, codings | bytes of one file or record | writing, damage, reading back |
| iterators, skip list, memtable and arena | position and direction; nodes | every call, store by store for the skip list |
| caches (`util/cache.cc`, `db/table_cache.cc`) | entries, reference counts, lists | every operation, threads that look up and insert |
| POSIX environment (`util/env_posix.cc`) | locked files, limiters, queue of work, buffers | each system call or atomic operation a step |
| repair (`db/repair.cc`) | the directory | every step, with kills and failing calls |
| nanopb | streams, the message and its blocks | decoding, release, encoding, varints |

### What is hard in this code

* **Four threads of the app.** Touches and the Complete handler run on the main
  thread, the handler sleeping between requests; the completion of a load runs
  on a URLSession queue and writes `meshiiranList` without a lock; the blocks of
  `setupRows` wait for the main thread; the answer of `fetchCalendarList`
  writes `UserDefaults` on yet another queue.
* **Time instead of answers.** A save never looks at an answer; it sleeps 1 s
  or 0.5 s and goes on. The reload after it may come too early, and the user
  may tap before a load has arrived.
* **Failure.** A lost answer makes a write's completion unwrap nil and end the
  process; an error body ends it in a load; a lost load is silent. A save is
  many requests and nothing about it is persisted.
* **Days.** A row is "today plus n" at the moment the code reads the clock, and
  the code reads it at four different moments.
* **Shared calendar.** Others insert and delete events; only the display name
  tells whose an event is.
* **leveldb's mutex.** The log and the MANIFEST are written and tables built with
  the mutex released; the version on disk and the one in memory differ in
  between, and a kill or crash may fall there, or between two of the deletions
  that follow.
* **Appends that stop part-way.** A failed append leaves a torn record in a log or
  MANIFEST that goes on being used; what is appended behind it may not be found.
* **Durability.** What is written is on disk only after a sync; a new MANIFEST,
  the pointer to it and the logs it names have to be written in one order and
  read back in every state that order can leave.
* **Lock-free code.** The skip list and the limiters rely on the order of loads,
  stores and atomic operations; file locks belong to the process, not to the
  opener.
* **Limits.** Caches smaller than what is held, allocations refused halfway
  through a tree of messages, writes that cross a buffer or a block.

The hazards, each at its line with the properties that cover it, are in
`PROJECT.json`.

## 2. Modules

| module | what it is |
|---|---|
| `GoogleCalendar` | the event service as the app uses it (external), with days, rows, the query window and the date formats |
| `ScheduleSelect` | state machine of the schedule screen and the event part of the calendar client, its properties and the refinement mapping to `MealPlan` |
| `MealPlan` | abstract specification: what the screen promises, without requests, rows or threads |
| `ScheduleSelectProofs` | theorems about the screen |
| `SignIn` | launch, sign-in callback, calendar list; theorems |
| `Meshiiru` | the app: `SignIn` and `ScheduleSelect` in one process, and theorems about it |
| `DBImpl`, `DBImplProofs` | a leveldb database from `Open` to `Close`, kills and crashes included; theorems |
| `Compaction`, `SnapshotStore`, `CompactionProofs` | levels and compactions; what a reader is promised; theorems |
| `LogFormat`, `WritableFile` | the log's format; buffered files and syncs |
| `Block`, `Table`, `Strings`, `Coding` | blocks, tables with filters, keys in bytewise order, varints |
| `WriteBatch`, `VersionEdit`, `MemTable` | batches, records of the MANIFEST, memtable and arena |
| `SkipList`, `SkipListProofs` | the skip list under a weak memory model; theorem |
| `DBIter`, `Cursor` | iterators and what they promise |
| `LRUCache`, `TableCache` | the sharded cache; open tables in it |
| `FileLocks`, `ReadableFiles`, `Pool` | lock files; limiters and what one promises |
| `BackgroundWork`, `WorkQueue` | `Schedule` and its thread; what they promise |
| `UtilProofs` | theorems about `LRUCache`, `TableCache`, files and work |
| `Repair` | `RepairDB` over the files a database leaves behind |
| `PbVarint`, `PbFormat`, `PbDecode`, `PbEncode` | nanopb's varints, message descriptions, decoder with release, encoder |
| `MC*` | instances for TLC |

### How `ScheduleSelect` follows the code

| code | actions |
|---|---|
| `viewDidLoad` | `ViewDidLoad` (ends in `GetEvents`) |
| `getEvents` of the screen and of the client | `GetEvents` (reset and request), `AnswerLoad`, `BeginStoring` (filter, read the clock), one `StoreRow` per `updateValue`, `SetupRows`; `LoseLoad`, `CrashOnErrorBody` |
| blocks of `setupRows` | `SelectRow` |
| `didSelectRowAt`, `didDeselectRowAt` | `TouchRow` |
| `onTapCompleteButton`, `deleteEvents` | `TapComplete`, `VisitSelectedRow` per row, `CollectIds`, `DeleteEvent` per id, `FinishComplete` |
| completions of `createEvent`, `deleteEvents` | `ServeWrite`, `RejectWrite`, `LoseWrite`, then `CrashInCompletion` |
| answer of `fetchCalendarList` | `SaveCalendarId`, `RefreshAgain`, `EndRefresh` (in detail in `SignIn`) |
| the process, the network after its death, others, the clock | `Kill`, `ServeOrphan`, `OtherInserts`, `OtherDeletes`, `Midnight` |

Abstractions and why they are sound for the properties:

* A day is a number of local midnights; an event is calendar, name, first day,
  length and whether it is all-day. Titles, tokens and URLs are left out.
* An event never changes after it is inserted; others edit by deleting and
  inserting. An edit in place of date or name is not modelled.
* `keyForValue` takes the first key in the dictionary's order. The order is
  arbitrary but the same in both lookups of a row, so `KeysForRows` picks one
  id per row.
* The data race on `meshiiranList` is a choice over its outcomes: while another
  thread is inside the storing loop, a store or the reset may be lost, and the
  process may crash (`CrashInDictionary`).
* A dead process's requests may still reach the service: `ProcessDies` keeps an
  arbitrary subset of them as `orphans`.
* `selectRow` outside the table has no effect (UIKit), and a request id is
  never used twice (Google).
* Guards on a missing token, calendar or name inside the client are not in
  `ScheduleSelect`: `HomeIsIdentified` proves that they always pass while the
  screen is open.

`SignIn` splits the callback in two steps at the request for the calendar list
(`SignedIn`, `CheckCalendar`), because the answer may arrive in between, and the
completion's loop in one step per entry (`StoreItem`, `EndStoring`). The second
sign-in while the home screen is open changes nothing on screen: the login
controller is already presenting. `Meshiiru` conjoins the steps of the two: the
callback that opens the home screen is the screen's `ViewDidLoad`, a list entry
that is stored is its `SaveCalendarId`, and the process dies as one.

### How `DBImpl` follows leveldb

| code | actions |
|---|---|
| `DB::Open`, `NewDB`, `DBImpl::Recover`, `RecoverLogFile`, `LogAndApply` with a new MANIFEST | `OpenExisting` or `NewDB`, `NewCurrent`; `RecoverManifest`, one `RecoverLogFile` per log, `NewLog`, `WriteDescriptor`, `SyncDescriptor`, `SetCurrentFile`, `OpenReturns`; `OpenFails` |
| `Write`, `BuildBatchGroup`, `MakeRoomForWrite` | `EnterWrite`, `EnterFlush`, `StartWrite`, `WaitForRoom`, `SwitchMemTable`, `AwaitFlush`; `AppendLog`, `SyncLog`, `FinishWrite`; `RefuseWrite`, `SwitchFails`, `SyncFails`; `TearLog`, `AppendLogFails` |
| `BackgroundCall`, `BackgroundCompaction` | `RunNothing`, `StartFlush`, `PickMerge`, `MoveTable`, `EndBackgroundCall` |
| `CompactMemTable`, also called inside `DoCompactionWork` | `StartFlush`, `BuildTable`, `InstallFlush`; `BuildTableFails` |
| `DoCompactionWork`, `InstallCompactionResults` | `OpenOutput`, `FinishMerge`, `InstallCompaction`; `MergeFails` |
| `VersionSet::LogAndApply` | `AppendManifest`, a sync that may fail (`SyncManifestFails`), and the step that installs, with the mutex free in between; an append that fails: `TearManifest`, `AppendManifestFails`, in `Open` `TearDescriptor` |
| `DeleteObsoleteFiles` | the set of files at the step that installs, then `DeleteFile` one by one; the code of this version holds the mutex for the loop, so steps that need it wait (`Unlocked`) |
| `Get`, iterators | `StartRead` and `EndRead` pin a version |
| `~DBImpl`, the process, the machine | `StartClose`, `FinishClose`, `Kill`, `Reboot` |

A write is an id with the sequence number it was given; a table, a memtable or a
record is the set of its entries. A MANIFEST record is kept as the state that
replaying up to it gives. Key ranges, and which entries a merge drops, are left
to `Compaction`, bytes to `LogFormat`; a recovered log becomes at most one
table; the one-millisecond delay of writers is left out. A file keeps what was
synced through a crash and any further prefix; creations, renames and deletions
in the directory survive in their order.

A log or MANIFEST has, next to its whole records, the places `torn` where an append
stopped part-way. `LogFormat` shows what a reader makes of the bytes behind such a
place: it may miss any of the records there, and invents none. `DBImpl` takes
that over: a running process never reads its own files again, so what
is missed is settled when it ends (`Leave`). Of a torn log any records behind the
place are lost (`LeaveLogs`); `RecoverLogFile` ignores what the reader reports. A
torn MANIFEST is read as a whole, or only up to the place without a report, or
the reader reports Corruption and `Open` fails (phase `"damaged"`, where the model
stops). `Exposed` are the writes that depend on a record behind a torn one, because no
synced record of the MANIFEST has their table yet; those that are lost go out of
`acked` in that step, which is what `KillLosesNoWrite` says must not happen.

### The other models of leveldb and nanopb

* `Compaction`: a key is a number, a value the number of its write, a size the
  number of entries; a memtable becomes a table in one step at any time.
* `DBIter`: entries have sequence numbers, and the iterator one of its own; entries
  newer than that exist from the start or are inserted between two moves.
* `Compaction`'s manual compactions: a client posts its request (`CompactRange`),
  each round takes it away (`RestOf`), and the client posts the rest when it wakes up
  (`PostAgain`); an automatic compaction may come in between.
* `LogFormat`: byte by byte, a byte named by its fragment and place, so that a
  checksum tells which bytes belong; checksum collisions and read errors are
  left out. `WritableFile`: a byte is its place in what was appended.
* `SkipList`: memory is the sequence of its states after each store; a load may
  see any state the reader does not know to be older, an acquire load of a
  release store makes what came before known. With one writer this is what C++
  promises.
* `LRUCache` runs every operation under its mutex as the code does; its hash
  table is a function from keys to entries. `TableCache` splits lookup,
  open and insert, where threads meet; when nobody reads, the cache may be
  deleted with its entries.
* `FileLocks`: the kernel takes a process's lock back when it closes any
  descriptor of the file. `ReadableFiles`: `fetch_sub` and the `fetch_add` that
  takes it back are two steps.
* `Repair`: of keys only equality; deletions left out. A damage costs a
  log or table an entry; or, since repair reads logs without checksums and checks
  those of tables only with `paranoid_checks`, it makes it another entry, with a number
  above all that were written.
* nanopb's numbers have few bits (`K`, `W32`, `W64`, `Counter` scaled down with
  the same relations); extensions, callbacks that are set and delimited messages
  are left out. These modules use RECURSIVE operators and hold no theorems.

## 3. Runs

Independent modules share one run: a variable `part`, chosen at the start, names
the scenario whose behaviour it is, the other scenarios' variables stay as they
are, and each property speaks of the parts it is about.

| run | instance | shows |
|---|---|---|
| `screens` | parts `screen` (3 rows, 2 taps, 1 foreign edit, 1 kill, `Prompt` all), `slow` (1 row, 2 events on it, 1 tap, any fault, nothing prompt), `midnight` (the same with one event and a midnight), `signIn` (2 accounts, 2 list requests at once, calendars shared any time); fair | the promises of the schedule screen: `CleanScreenShowsPlan`, `InsertsOnlyUnplanned`, the refinement `ImplementsMealPlan`, `SavesEnd`; `ScreensSettle`: every screen comes to rest; `HomeHasIdentity`, `FoundCalendarIsSaved` |
| `faults` | parts `faults` (1 fault, 1 kill, nothing prompt), `refresh` (2 calendars, sign-in saves the other id), `overlap` (2 events on a day, 2 saves at once), `midnight` | `DoomedUnselected`, `Provenance` (the inductive invariant), `ForeignEventsSurvive` |
| `app` | the whole app, 2 accounts, 2 lists behind one home screen, 1 save, 1 death | `RequestsAreAddressed`, `ImplementsSchedule` |
| `database` | parts `kills` (2 threads, 2 kills), `crashes` (2 crashes of the machine, sync and other writes), `reads` (2 reads that outlive compactions, a forced flush), `closes` (2 reads, a close), `errors` (1 I/O error), `tears` (an append to a log or MANIFEST stops part-way, and a kill), `tornSyncs` (two of them, sync and other writes, a close, a crash of the machine), `reuse` (`reuse_logs`); `TableCache` with 2 threads and 4 tables, in 2 shards with room for one each | `AckedAreRead`, `KillLosesNothing`, `NeverCorrupt`, `PinnedTablesExist`, `SequencesTellApart`, `TablesStayOpen` |
| `storage` | 4 instances of `Compaction`, 3 of `LogFormat`, 3 of `DBIter` (3 entries and a snapshot with or without all of them; 2 entries and an insert between moves; unreadable blocks), 1 of `SkipList`, 2 of `Repair` (2 damages, a failing call and a kill; or 1 damage, a failing call and a crash of the machine) | `ReadsAreRight` (refines `SnapshotStore`), `LevelsInOrder`, `OnlyWrittenRecords`, `WalksSnapshot` (refines `Cursor`), `StatusTellsErrors`, `NothingMissed`, `NothingVanishes` |
| `progress` | the parts that wait or loop, fair: among them writers with a failing append, and manual compactions next to automatic ones | `WritesReturn`, `CompactionsEnd`, `CallsEnd`, `CutIsHarmless`, and `IsWorkQueue` (refines `WorkQueue`) |
| `files` | blocks, tables, batches, edits, memtables, varints, 3 messages decoded and one encoded, file locks of a process with 2 threads beside one with a single thread, and of 3 processes with one, limiters of one place, writable files; `LRUCache` with 3 keys of charge 1 or 2 in 2 shards that share a capacity of 3, 5 entries and 2 handles | `ReadBack`, `MessagesKeepMeaning`, `MemoryIsOwned`, `LocksAreKept`, `OneHolder`, `LimitsAreKept` (refines `Pool`), `WritesAreKept`, `CacheIsExact`, `InsertMakesRoom` |
| `hurried` | part `screen` with 2 rows, 1 tap, 1 save of the id, nothing prompt | finding: `InsertsOnlyUnplanned` fails |
| `gives_up` | as part `signIn`, 1 request at once | finding: `GivesUpOnlyWithoutCalendar` fails |
| `resurfaces` | `Compaction` with 2 keys, 3 levels, 1 snapshot, 4 writes, outputs of 2 entries, deletions | finding: `ReadsAreRight` fails |
| `torn_log` | `DBImpl` as in part `tears` | finding: `KillLosesNoWrite` fails |
| `repair_reads_damage` | `Repair` with 2 writes and 1 damage | finding: `OnlyWritten` fails |

**Bounds.** Of the app: `Budget` caps taps on Complete, edits by others, kills,
faults and ids saved by sign-in; `LastDay` caps midnights; `EventIds` is large
enough that the service never runs out; touches, launches, blocks and
completions are not bounded. Two rows are enough for a row that is kept next to
one that is given up, three for the order of insertions and deletions; two taps
for a save that overlaps the requests of the one before; one kill for a save cut
anywhere. In `SignIn` only the requests under way are bounded, and runs of any
length are checked. Of leveldb: `MaxIds` writes, small enough buffers that every
write or two switches the memtable, a level 0 that is full after two or three
tables, and `Budget` for kills, crashes, errors, reads and closes ("retry"
bounds the flushes a merge tries again after an error, "tear" the appends that
stop part-way). A recovery cut short needs two kills, and a number used twice
needs a third open. Of formats: blocks of 5 or 6 bytes with headers of 2 or 3
put a record's end at every place of a block; numbers whose varints take one to
three bytes.
`CHECK_DEADLOCK FALSE` stands where a scenario ends when its budget is spent.

**`Prompt`.** The promises of the screen (plan shown, plan saved) hold only if
requests are answered before the next sleep ends and the user waits for the
table, which is what the sleeps in the code count on. `Prompt` names these
assumptions: `"writes"`, `"loads"`, `"user"`. The safety of other people's
events and of kept rows needs none of them, and is checked and proved without.

**Fairness.** Nothing obliges a user, another member, a fault or the clock.
The run loop comes back after a sleep (`Handler`), a block on the main queue
runs (`MainBlock`), a URLSession completion runs (`Completion`) and a request
that is not lost is answered (`Network`): weak fairness of each. One condition
per class is enough because only finitely many requests exist at a time and
each is finished once; in `SignIn`, where requests keep coming, it is one per
request number. In leveldb weak fairness is of each writer, of the background
thread and of recovery, of a call of an iterator or a search that has begun, and
of the threads of `Schedule`; nobody is obliged to call, and no fault is needed.
`Compaction` states its weak fairness with the condition "there is work left"
written out in place of ENABLED.

**Findings.**

1. `hurried`: a comment says rows are inserted if they were not selected
   originally; the code inserts rows that are not *loaded yet*. One tap before
   the first answer plans a day twice.
2. `gives_up`: a comment says the callback goes to creating a calendar if the
   list has none; the code looks before the list has arrived, so the first
   sign-in on a device never opens the schedule screen.
3. `resurfaces`: `SetupOtherInputs` completes the inputs of the upper level with
   the tables that go on with their last key, and not those of the lower level. A
   table of level 1 that ends with the deletion of a key is compacted without the
   next one, which holds what it deleted; nothing from two levels further down
   has the key, so the deletion is dropped, and a read finds the old value again.
   It takes a snapshot, for two entries of a key to be kept and a table cut
   between them. `ReadsAreRight` therefore holds only where no level has a key in
   two tables or nothing is deleted, and the passing instances of `Compaction` are
   of these kinds.
4. `torn_log`: options.h says that no write is lost if just the process crashes. A
   failed append to the log fails only its own group; the log, with a torn record
   in it, goes on being used, and a write that returned OK behind it may be dropped
   by recovery after a kill. (After a failed *sync* the code does stop all later
   writes.) The other properties of the database therefore leave out these
   writes, and nothing else: `Exposed`.
5. `repair_reads_damage`: a comment in `db/repair.cc` says that the log's reader
   checksums, so that corruptions are skipped and no bad sequence number gets through;
   the call below it passes `false`. A damaged record becomes an entry of a table.

Met while modelling, visible in the models and not kept as runs: a process that
tries to lock a database a second time closes a descriptor and with it loses the
lock it has; `DestroyDB` removes a lock file others may hold (both are why
`OneHolder` has its conditions); `NewDB` does not sync the first MANIFEST, and a
reused MANIFEST or log is written on without a sync (why the crash scenario
starts with an existing database and does not reuse logs); a merge goes on after
the append of the flush nested in it has failed, and appends its own record
behind the torn one, which the next `Open` may refuse as corrupt (phase
`"damaged"`); the calendar list is fetched at every sign-in although the comment
says "if none is saved", and its answer may change the calendar of a screen that
is already open (`SaveCalendarId`); nanopb leaks the old member of a union and
ignores the high bits of an overlong varint.

**Refinement.** `ImplementsMealPlan` maps the plan to the days of the rows on
which the calendar has an event of the user, the choice to the rows of the
handler's snapshot and the phase to the screen and the handler. Requests, loads
and touches are stutters; an insert that arrives is `Add`, a delete `Remove`,
and the order "all insertions, then deletions" of the code is what lets
`Remove` require `choice \subseteq plan`. `ImplementsSchedule` says that every
step of the whole app is a step of the schedule screen, with "the screen is open"
read off sign-in's `screen`.

## 4. Proofs

Proved by TLAPS, for every value of the constants; the lists below name the
theorems, `PROJECT.json` what each establishes. Assumptions are the named
ones of the modules (types, sentinels and relations of the constants), which TLC
evaluates in the runs.

### The schedule screen (`ScheduleSelectProofs`)

`TypeCorrect`, `DoomedRowsUnselected`, `ForeignEventsAreSafe`,
`IdsHaveProvenance`, `WindowIsTable`: no assumption about timing.
The argument is one inductive invariant, `Provenance`. `DoomedUnselected` is
not inductive: when the ids are collected one must know that the dictionary's
rows were once the rows of their events (`RowsAreDated`), and for foreign events
that every id in the dictionary, in the handler's list and in any request, a dead
process's included, is one of the user's (`HeldIdsAreMine`). Both survive the
data race, because a lost store or reset leaves an older entry, which satisfied
them too. `ClosedIsEmpty` carries them over a restart, when `openedOn` moves.
The service enters through `ApplyKeeps`: a write leaves every existing event as
it is, and takes away at most the id it names.

`CleanScreen`, `NoSecondEvent`, `ScreenIsMealPlan`: the three promises of part
`screen` of run `screens`, under the hypothesis `Unhurried`, which says of the
constants what that part gives them (requests answered within the sleeps, a
patient user, no fault, no midnight, a Gregorian device, one calendar, nobody
else writing under the user's name, at most one one-day event of the user a day to
begin with). Kills, late requests of dead processes, foreign edits and sign-ins
behind the screen stay. The inductive invariant is `PlanInv`: next to
`Provenance`,

* `OneEventADay`: the user never gets two events on a day;
* `OneAtATime`: at most one request is under way, no load runs while Complete
  does, and Complete is enabled only once the table is filled;
* `ListIsPlan`: what a load has listed and stored so far makes up the plan;
* `SelectionIsPlan`: the selected rows and those of waiting blocks are the plan
  until the user touches one;
* `WritesMend`: a request under way brings the plan closer to the choice, and
  deletions come when every chosen day is planned;
* `SaveMends`: what the two loops of Complete have done and have left.

TLC checked `PlanInv` on the instance of part `screen` (165,010 states) before it
was proved. `ScreenIsMealPlan` maps each step to a step of `MealPlan` or a
stutter, one lemma a step.

### Sign-in and the app (`SignIn`, `Meshiiru`)

`SignInTypeCorrect`, `HomeIsIdentified`: `HomeHasIdentity` becomes inductive
with "the callback that is about to look for a calendar has saved a name and a
user"; the loop over the list never stores a missing id (`StoredIdIsCalendar`).

`AppUsesScreenAsModelled`, `AppSparesOthers`, `AppHome`,
`RequestsReachCalendars`: every step of the app is a step of the schedule screen
and a step of sign-in, or a stutter of either. The invariants proved of the parts
therefore hold in the app, and with them that no sign-in, list or second list can
make the app delete another person's event. `RequestsReachCalendars` needs the
two together: the id in `UserDefaults` is an id some list had (sign-in), the
screen is open only when there is one, and a request copies it (screen).

### The database (`DBImplProofs`)

* `NoWriteIsLost`: if the process is killed now, each state of the MANIFEST that a
  reading may end with, and the logs, hold every acknowledged write that is not
  `Exposed` (`KillLosesNothing`). A crash of the machine leaves of `acked` the writes
  that were acknowledged after a sync, and any part of what was not synced; the
  statement then speaks of those writes.
* `ReadsFindWrites`: an open database finds every acknowledged write in its
  memtables and tables (`AckedAreRead`), those excepted that a torn log exposed when
  their process ended. In the process that made them they are found.
* `RecoveryFindsAll`: recovery never meets a missing table or, in a MANIFEST it can
  read to the end, a missing number (`NeverCorrupt`). It says nothing of a MANIFEST
  that was written on behind a failed append.
* `TablesInUseExist`: no table of the current version, of a read or of a merge is
  deleted (`PinnedTablesExist`).
* `SnapshotsTellWritesApart`: while a database is open no two entries of its
  memtables and tables have the same sequence number, and none has one above the
  last sequence (`SequencesTellApart`), so a snapshot separates what was written
  before it from what came later.

They hold for any threads, buffer sizes, group sizes, triggers and budgets, across any
number of kills, errors, failed appends and recoveries cut short. The hypothesis
`Survivable` is needed. When the machine may crash at all, the database exists already
and logs are not reused: otherwise the statements are false of the code, for the
two reasons given with the findings. And when appends may fail logs are not
reused: a reused file is written on behind what a dead process's append left,
and by then nobody knows of it; `reuse_logs` is off by default. Without crashes
and failed appends it says nothing. Every scenario of run `database` satisfies it.

None of them is inductive: the first four are proved together from `DBInv`, which
says where an acknowledged write is at every moment.

* `DiskIsSound`: every state of the MANIFEST that a kill or crash may leave, at its
  torn places too, names only tables that exist, has numbers above them, and together
  with the logs from its log number on holds what must survive.
* `Recovering`: while `Open` runs, the rest of the database is `Quiet`; `Replaying`
  says what of the logs is in the edit, in the memtable or still to be replayed;
  `NewManifest` that the new descriptor says it all before CURRENT names it.
* `VersionIsFound`: the version in memory is the MANIFEST's last state, unless a
  record is being written or its append or sync has failed; and the MANIFEST is torn
  only if one has.
* `MemoryIsLogged`: the memtable is in the current log, the immutable one in the
  logs from the version's log number on, nothing acknowledged is elsewhere.
* `Working`: what the background thread has in hand: the table it builds is in
  no version, the record it writes keeps every entry it removes, and the log
  number of a flush is that of the memtable after it.
* `Deleting`: what `DeleteObsoleteFiles` chose is still unneeded when it is
  deleted, one file at a time.
* `Writing`: the queue of writers has one entry a thread, only its head
  works, and a group with a sync writer in it is synced.

TLC checked `DBInv` on five instances, with kills, crashes, errors and appends that stop
part-way (3.4 million states). The proof has a lemma for each action. Where the
process ends (`Leave`), what a torn log may lose is shown to be what goes out of
`acked`, and a MANIFEST read only up to a torn place to be a state `DiskIsSound`
speaks of.

`SnapshotsTellWritesApart` needs `SeqInv` on top of `DBInv`. A group's entries are
in the log before the last sequence has passed them, so a kill leaves numbers on
disk that no thread ever read, and recovery has to take them all in before a
number is given again:

* `SeqOnDisk`: from each state of the MANIFEST that a kill or crash may leave, what
  recovery will find has numbers of its own, and the state's last sequence is not
  below any entry of its tables (entries of logs may be above it);
* `LastLog`: the current log is the newest there is, so recovery replays it last;
* `SeqReplayed`: recovery's last sequence covers what it replayed, and logs are
  replayed in their order; `SeqNew`: the new descriptor records that number;
* `SeqMemory`: in memory the same, and every surviving state of the MANIFEST names
  only what a read can find;
* `SeqWriters`: only entries of the group being written are above the last
  sequence, by at most the size of the group;
* `SeqWorking`: the record of a flush or merge carries a last sequence that covers
  its tables, though writers go on while it is written.

TLC checked `SeqInv` on five instances of the same kinds, 11 million states.

### The levels (`CompactionProofs`)

* `LevelsStayInOrder`: the tables of a level below 0 never overlap, and of two
  entries for a key the newer is found first (`LevelsInOrder`). The invariant is
  `LevelsInv`. A compaction runs without the mutex between the choice of its inputs
  and the edit that installs its outputs, while memtables become tables of levels 0
  to 2; `Compacting` says what of its inputs stays true meanwhile. They are where
  they were found. No user key has room between them (`Covered`), so a memtable
  that overlaps none of them cannot lie among them. What stays in the next level is
  beside them all (`Apart`). What stays in their own level is newer (`StaysNewer`),
  which is the purpose of `AddBoundaryInputs`. Next to it `Numbered`: writes have
  numbers of their own, and a table of level 0 is numbered after its entries.
* `ReadsStayRight`: `Compaction` implements `SnapshotStore`, step by step
  (`ReadsAreRight`). `GetIs` shows that a `Get`, which reads one table of a level and
  stops at the first with its key, finds the newest entry of all that are stored;
  so answers depend on what is stored and not where. Writes and snapshots then
  do what `SnapshotStore` says, flushes and moves nothing. A compaction drops
  entries a newer one hides from every snapshot, and deletions if nothing below has
  the key (`DoCompactionWorkReads`). `ReadsInv` says that this holds until its
  outputs are installed: no snapshot older than its own is taken (`SeenByAll`), and
  neither what stayed in the next level (`NextApart`) nor what came to be below
  (`BelowKnown`) has a key of its inputs.

Both hold for any number of keys, levels, writes and handles and any limits on
sizes. They have a hypothesis each that the proofs showed to be needed:

* `NoManual`: nobody calls `CompactRange`; only leveldb's own C interface does. Its
  range may have room between two tables: `DoCompactionWork` writes the immutable
  memtable out before each entry (`db/db_impl.cc:908`), `PickLevelForMemTableOutput`
  does not look at running compactions (`db/version_set.cc:491`), so a table may be
  put in that gap and end up inside an output, and the assertion "Must not overlap"
  (`db/version_set.cc:741`) fails. Run `progress` has the
  manual compactions, and says that they end.
* `NoResurfacing`, of `ReadsStayRight`: nobody deletes, or nobody takes snapshots. With
  both the statement is false (finding `resurfaces`). No part of the program but
  the C interface calls `GetSnapshot`.

TLC checked `LevelsInv` and `ReadsInv` before they were proved, the latter on up to
3 keys, 4 levels and 5 writes.

### Files, caches and work

* `UtilProofs`. `TheLocksAreKept`: for every entry of the table of locked
  files and every lock of the kernel there is exactly one owner behind it
  (`OwnersHold`). `ProcessesExclude`: two processes never both hold a file, if
  each opens from one thread and nobody destroys a database (`OneFile`,
  `HoldersOwn`). `TheLimitsAreKept`: the counter of a limiter is the limit less
  those who have a place and those refused who have yet to take their
  decrement back; each step is shown to do nothing, give, deny, return or take back.
  `LimitersArePools`: so each limiter implements `Pool`.
* `SkipListProofs`. `SearchesMissNothing` (`NothingMissed`), for any keys and
  heights: a reader without a lock and the one writer, each load returning any store
  that release and acquire allow. `NothingMissed` says nothing of older memory, which
  is what a reader walks, so the invariant `SkipInv` speaks of every state memory
  had: each is a list on every level (`IsList`), later ones have what earlier had
  (`MemoryGrows`), and a store without a barrier changes no link of a linked
  node (`StoresRelease`). From these a load from a node the reader can reach returns
  what the memory it then knows of says (`LoadIsCurrent`), however old the reader's
  view is. Of the writer: what its search has found so far is still the place for
  the key (`Finding`, `Linking`), and links of nodes that are not linked were not
  written, but for one (`Unwritten`). TLC checked `SkipInv` on 3 keys and 2 levels
  (119,631 states).
* Also in `UtilProofs`, of `BackgroundWork`: `NoWakeUpIsLost`: while items wait,
  the worker is awake or signaled; `WorkIsQueued`: mutex, condition variable and
  thread implement `WorkQueue` (its safety part). The invariant is `WorkInv`.
* And of `LRUCache`, for any keys, shards, capacity (0 is "no cache"), charges and
  clients: `CacheStaysExact` (`CacheIsExact`): an entry has as many references as
  there are handles to it and one more while it is cached, so it is freed with the
  last and not before; the table leads to what is cached and to nothing else;
  each entry is on the list it should be on, once; and `usage_` is the charge of what
  is cached. `InsertsMakeRoom` (`InsertMakesRoom`): an insert leaves its shard within
  its share of the capacity, unless clients hold all of it, and without the last
  entry evicted it would not have. The invariant `CacheInv` says of each list which
  set it holds (`Lists`), and `InsertIs` writes an insert as the entry of the key that
  goes, the first n on the list that go, and the new one. `usage_` is compared with
  a sum over a set, defined by recursion over its subsets. That the sum of two
  disjoint sets is the sum of their sums (`ChargeUnion`) is proved without an
  induction theorem: of the sets for which it is false there would be a smallest
  (`SmallestSet`), and without one of its members it holds.
* On top of it `TableCache`, for any tables, threads and caches: `TablesAreKept`
  (`TablesStayOpen`). A table that a thread reads is open, and the one it asked for,
  also when two threads missed it and opened it twice, or it was evicted meanwhile;
  each file is closed once; a deleted table is neither open nor cached. The invariant
  `TableInv` adds to `CacheInv` that a handle is held as often as threads use it
  (`HeldByReaders`), that entries are for tables that exist (`EntriesFit`), and that
  a file is open once for each of its entries and each thread about to make one
  (`FilesAreClosed`). Open files are bounded, but not by the capacity: an insert
  into a shard whose entries are all held evicts none, so a shard may hold as many
  as there are threads (`ShardsFit`), and stays so full until its next insert, while
  the threads fill the next one. `LessOpen` therefore counts the greater of the share
  and the number of threads once for each shard; TLC refutes the bound that counts
  the threads once for all shards as soon as there are two shards.

### Only model-checked

* Liveness (`SavesEnd`, `ScreensSettle`, `FoundCalendarIsSaved`, `WritesReturn`,
  `CompactionsEnd`, `CallsEnd`, the liveness part of `IsWorkQueue`): out of the
  prover's reach.
* `OnlyWrittenRecords`, `StatusTellsErrors`, `NothingVanishes`, `CutIsHarmless`: no
  proof yet. They need inductive invariants over the bytes of a log and the steps of
  a repair.
* `ReadBack`, `MessagesKeepMeaning`, `MemoryIsOwned`, and the walks of
  iterators: they are about what recursive definitions compute for every
  input, which is induction over data; nanopb's modules use RECURSIVE
  operators besides.

## 5. Not modelled

Of the app: the Firebase user store is called from nowhere; universal links and
`addUser`, `createCalendar` and `getAuthentication` are reached from nowhere in
the running app. The table cell, layout and storyboards have no state of
interest. Token expiry appears only as a rejected request. Changes of the
device's time zone or calendar setting while the app runs are not modelled.

Of leveldb: an append that stops part-way to a file that is reused, after a kill
(`reuse_logs` is off by default, and only run `database`'s part `reuse` turns it on);
checksums, hashes, histograms, status objects, the C interface, the
dump tool, statistics and logging; sequential files, directory listing and
clocks of the environment; compression and the block cache's use by tables.

The other pods (Firebase, Google sign-in, the Google API client, GoogleDataTransport,
AppAuth, fetchers, utilities) are third-party Objective-C frameworks, present
mostly as headers. They make up most of the lines of the repository, which is why
the models map about an eighth of its lines: the app's own logic, leveldb
and nanopb, and nothing of what only declares an interface.

## 6. Plan

1. Prove that damage to a log loses records and invents none (`OnlyWrittenRecords`),
   and that a repair lets nothing vanish (`NothingVanishes`).
2. Abstract specification of the calendar list ("last readable match wins") and
   its relation to `fetchCalendarList`.
