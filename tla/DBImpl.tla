------------------------------- MODULE DBImpl -------------------------------
(***************************************************************************)
(* leveldb's DBImpl and the part of VersionSet that keeps the MANIFEST:    *)
(* writes through the writer queue, the log and the memtable; memtables    *)
(* and tables compacted by the background thread; recovery on open; the    *)
(* deletion of obsolete files; kills of the process, crashes of the        *)
(* machine, and appends and syncs that fail.                               *)
(*                                                                         *)
(* A write is an id, numbered in the order the log receives the writes,    *)
(* with the sequence number it was given.  A table, a memtable or a log    *)
(* record is the set of its entries; which entries a merge may drop, and   *)
(* where their keys lie, is the subject of module Compaction.              *)
(*                                                                         *)
(* A log or MANIFEST keeps its whole records and, as torn, after how many  *)
(* of them an append stopped part-way.  The bytes, and which of the        *)
(* records behind a torn one a reading misses, are the subject of          *)
(* LogFormat; here it may miss any, and does so when the process is gone.  *)
(*                                                                         *)
(* Everything the code does under mutex_ is one action; every place where  *)
(* it lets go of mutex_ (the log, the table and the MANIFEST are written   *)
(* without it) begins another.                                             *)
(***************************************************************************)
EXTENDS Integers, Sequences, FiniteSets, Functions

CONSTANTS
  Threads,        \* threads that use the database
  Sync,           \* values of WriteOptions.sync they use
  WriteBufferSize,\* entries that fill a memtable
  MaxGroup,       \* entries BuildBatchGroup puts into one record
  L0_Compaction,  \* config::kL0_CompactionTrigger
  L0_StopWrites,  \* config::kL0_StopWritesTrigger
  ReuseLogs,      \* options_.reuse_logs
  Existing,       \* the database exists already
  MaxIds,         \* bound: writes
  Budget          \* bound: other calls, kills, crashes and faults

\* "tear" bounds the appends that stop part-way, "retry" the flushes a merge
\* tries again after one has failed.
BudgetKinds ==
  {"flush", "read", "close", "kill", "reboot", "fault", "tear", "retry"}

\* What the constants must be.
DBAssumption ==
  /\ Sync \subseteq BOOLEAN /\ ReuseLogs \in BOOLEAN /\ Existing \in BOOLEAN
  /\ {WriteBufferSize, MaxGroup, L0_Compaction, L0_StopWrites} \subseteq Nat \ {0}
  /\ L0_Compaction <= L0_StopWrites
  /\ MaxIds \in Nat /\ Budget \in [BudgetKinds -> Nat]
ASSUME DatabaseAssumption == DBAssumption

\* When a crash of the machine loses nothing that was synced. NewDB does not sync
\* the first MANIFEST, and a reused MANIFEST or log is written on without a sync,
\* and behind whatever an append of an earlier process left of a record.
Survivable ==
  /\ Budget["reboot"] = 0 \/ (Existing /\ ~ReuseLogs)
  /\ Budget["tear"] = 0 \/ ~ReuseLogs

VARIABLES
  \* the database directory
  logs,           \* number -> [recs, synced, torn] of a log file
  tables,         \* number -> entries of a table file
  manifests,      \* number -> [recs, synced, torn] of a MANIFEST file
  current,        \* the MANIFEST that CURRENT names, or NoFile
  \* the open database
  phase,          \* where DB::Open is; "open" when it has returned
  versions,       \* the VersionSet and its current Version
  mem, imm,       \* entries of mem_; {} or the singleton of imm_'s entries
  logfileNumber,  \* logfile_number_; 0 while Open has no log yet
  bgError,        \* bg_error_ is set
  shuttingDown,   \* shutting_down_
  pendingOutputs, \* pending_outputs_
  readers,        \* for each reading thread, the version it references
  deleting,       \* files DeleteObsoleteFiles has still to delete
  toReplay,       \* logs Recover has still to recover
  edit,           \* the VersionEdit being built or written
  \* writers
  queue,          \* writers_
  wpc,            \* where each thread is
  group,          \* what the first writer is writing, with its followers
  \* the background thread
  bgpc,           \* where it is; "idle" if nothing is scheduled
  job,            \* what it builds or writes to the MANIFEST
  merge,          \* the table compaction in progress
  \* history and bounds
  nextId,         \* id of the next write
  asked,          \* what mem_ held when a thread asked for a flush
  acked,          \* ids that a read has to find
  durable,        \* those of them that a crash of the machine must not lose
  budget

disk == <<logs, tables, manifests, current>>
opening == <<phase, toReplay>>
memory == <<versions, mem, imm, logfileNumber, bgError, shuttingDown,
            pendingOutputs, readers, deleting, edit>>
writers == <<queue, wpc, group>>
background == <<bgpc, job, merge>>
history == <<nextId, asked, acked, durable>>

vars == <<disk, opening, memory, writers, background, history, budget>>
-----------------------------------------------------------------------------
NoTable == {}
NoFile == -1
NoNumber == -1
NoGroup == [entries |-> {}, n |-> 0, sync |-> FALSE, promised |-> {}]
NoJob == [kind |-> "none", out |-> NoFile]
NoMerge == [in |-> {}, out |-> NoFile, version |-> {}]

\* A file of a version: its level, 0 or 1 (for all deeper levels), and number.
Levels == {0, 1}
NumFiles(level, files) == Cardinality({f \in files : f[1] = level})

EmptyEdit == [log |-> NoNumber, next |-> NoNumber, seq |-> NoNumber,
              add |-> {}, del |-> {}]

\* A MANIFEST record is kept as what replaying the file up to it yields.
NothingReplayed ==
  [files |-> {}, log |-> NoNumber, next |-> NoNumber, seq |-> NoNumber]
Replayed(recs) == IF recs = <<>> THEN NothingReplayed ELSE recs[Len(recs)]
Replay(state, e) ==
  LET Newer(n, old) == IF n = NoNumber THEN old ELSE n
  IN  [files |-> (state.files \ e.del) \cup e.add,
       log   |-> Newer(e.log, state.log),
       next  |-> Newer(e.next, state.next),
       seq   |-> Newer(e.seq, state.seq)]
AddRecord(recs, e) == Append(recs, Replay(Replayed(recs), e))

Ids(entries) == {e.id : e \in entries}
EntriesOf(files) == UNION {tables[f[2]] : f \in files}
Numbers(files) == {f[2] : f \in files}
RecsOf(log) == UNION Range(log.recs)

\* What a read at the last sequence can find.
Visible ==
  mem \cup (UNION imm) \cup EntriesOf(versions.files)

Put(file, n, content) ==
  [k \in DOMAIN file \cup {n} |-> IF k = n THEN content ELSE file[k]]
Without(file, n) == Restrict(file, DOMAIN file \ {n})

EmptyLog == [recs |-> <<>>, synced |-> 0, torn |-> {}]

\* An append to a file stops part-way; block_offset_ advances all the same.
Tear(file, n) ==
  [file EXCEPT ![n].torn = @ \cup {Len(file[n].recs)}]
\* What was appended behind that, which a reading may miss.
Behind(file) == {i \in DOMAIN file.recs : \E k \in file.torn : k < i}
Certain(log) == UNION {log.recs[i] : i \in DOMAIN log.recs \ Behind(log)}

Spend(kind) ==
  /\ budget[kind] > 0
  /\ budget' = [budget EXCEPT ![kind] = @ - 1]

\* mutex_ is free: the one long loop under it deletes files.
Unlocked == phase = "open" /\ deleting = {}

ObsoleteUnpinned(v, pending, pinned) ==
  {<<"table", n>> : n \in DOMAIN tables \ (pending \cup Numbers(v.files))}

\* DeleteObsoleteFiles, for the VersionSet v.
Obsolete(v, pending, pinned) ==
  LET live == pending \cup Numbers(v.files) \cup Numbers(UNION pinned)
  IN  {<<"log", n>> : n \in {k \in DOMAIN logs : k < v.log}}
      \cup {<<"manifest", n>> : n \in {k \in DOMAIN manifests : k < v.manifest}}
      \cup {<<"table", n>> : n \in DOMAIN tables \ live}

\* background_work_finished_signal_.SignalAll.
SignalAll(pc) ==
  [t \in Threads |-> CASE pc[t] = "waitRoom" -> "front"
                       [] pc[t] = "waitFlush" -> "flushed"
                       [] OTHER -> pc[t]]

\* MaybeScheduleCompaction.
MaybeSchedule(pc, files, table, error) ==
  IF /\ pc = "idle"
     /\ ~shuttingDown /\ ~error
     /\ table # NoTable \/ NumFiles(0, files) >= L0_Compaction
  THEN "scheduled" ELSE pc
-----------------------------------------------------------------------------
ClosedVersions ==
  [files |-> {}, log |-> 0, next |-> 2, seq |-> 0, manifest |-> 0]

\* The directory after DB::Open has created the database and it was closed.
CreatedDisk ==
  /\ logs = [n \in {3} |-> EmptyLog]
  /\ tables = <<>>
  /\ manifests = [n \in {2} |->
       [recs |-> <<NothingReplayed,
                   [files |-> {}, log |-> 3, next |-> 4, seq |-> 0]>>,
        synced |-> 2, torn |-> {}]]
  /\ current = 2

EmptyDisk ==
  logs = <<>> /\ tables = <<>> /\ manifests = <<>> /\ current = NoFile

ClosedMemory ==
  /\ versions = ClosedVersions
  /\ mem = {} /\ imm = NoTable
  /\ logfileNumber = 0
  /\ bgError = FALSE
  /\ shuttingDown = FALSE
  /\ pendingOutputs = {}
  /\ readers = [t \in Threads |-> {}]
  /\ deleting = {}
  /\ edit = EmptyEdit

Init ==
  /\ IF Existing THEN CreatedDisk ELSE EmptyDisk
  /\ phase = "closed" /\ toReplay = {}
  /\ ClosedMemory
  /\ queue = <<>> /\ wpc = [t \in Threads |-> "idle"] /\ group = NoGroup
  /\ bgpc = "idle" /\ job = NoJob /\ merge = NoMerge
  /\ nextId = 1
  /\ asked = [t \in Threads |-> {}]
  /\ acked = {} /\ durable = {}
  /\ budget = Budget
-----------------------------------------------------------------------------
(***************************************************************************)
(* DB::Write.                                                              *)
(***************************************************************************)
Writes(n) == Cardinality({i \in 1..n : queue[i].kind = "write"})

Enter(t, kind, sync) ==
  /\ Unlocked /\ ~shuttingDown /\ wpc[t] = "idle"
  /\ queue' = Append(queue, [t |-> t, kind |-> kind, sync |-> sync])
  /\ wpc' = [wpc EXCEPT ![t] = IF queue = <<>> THEN "front" ELSE "queued"]
  /\ UNCHANGED <<disk, opening, memory, group, background, nextId, acked,
                 durable>>

EnterWrite(t) ==
  /\ nextId + Writes(Len(queue)) <= MaxIds
  /\ \E sync \in Sync : Enter(t, "write", sync)
  /\ UNCHANGED <<asked, budget>>

\* TEST_CompactMemTable: a null batch.
EnterFlush(t) ==
  /\ Spend("flush")
  /\ Enter(t, "flush", FALSE)
  /\ asked' = [asked EXCEPT ![t] = Ids(mem)]

IsFront(t) == Unlocked /\ wpc[t] = "front"
IsFlush(t) == Head(queue).kind = "flush"
Room == Cardinality(mem) < WriteBufferSize

\* Mutant: nobody signals the new head.
PoppedSilently(n, ok) ==
  [t \in Threads |->
     IF \E i \in 1..n : queue[i].t = t THEN "idle" ELSE wpc[t]]

\* The first n writers leave with the outcome ok; the next one is signalled.
Popped(n, ok) ==
  [t \in Threads |->
     LET mine == {i \in 1..Len(queue) : queue[i].t = t}
     IN  IF mine \cap 1..n # {}
         THEN IF ok /\ \E i \in mine : queue[i].kind = "flush"
              THEN "flushed" ELSE "idle"
         ELSE IF mine = {n + 1} THEN "front" ELSE wpc[t]]

PopFront(n, pc) ==
  /\ queue' = SubSeq(queue, n + 1, Len(queue))
  /\ group' = NoGroup
  /\ wpc' = pc

\* MakeRoomForWrite yields the earlier error.
RefuseWrite(t) ==
  /\ IsFront(t) /\ bgError
  /\ PopFront(1, Popped(1, FALSE))
  /\ UNCHANGED <<disk, opening, memory, background, history, budget>>

\* BuildBatchGroup takes the batches of the first n writers together.
MayGroup(n) ==
  /\ Writes(n) <= MaxGroup
  /\ \A i \in 2..n : queue[i].sync => queue[1].sync
LastWriter(n) == MayGroup(n) /\ \A k \in n + 1..Len(queue) : ~MayGroup(k)

BuildBatchGroup(n) ==
  LET IsWrite(i) == queue[i].kind = "write"
      Id(i) == nextId + Writes(i) - 1
      all == {i \in 1..n : IsWrite(i)}
  IN  /\ group' = [entries |-> {[id |-> Id(i), seq |-> versions.seq + Writes(i)]
                                  : i \in all},
                   n |-> n, sync |-> queue[1].sync,
                   promised |-> {Id(i) : i \in {k \in all : queue[k].sync}}]
      /\ nextId' = nextId + Writes(n)

Lead(t) ==
  /\ wpc' = [wpc EXCEPT ![t] = "log"]
  /\ \E n \in 1..Len(queue) : LastWriter(n) /\ BuildBatchGroup(n)
  /\ UNCHANGED <<queue, asked, acked, durable, budget>>

\* There is room in mem_.
StartWrite(t) ==
  /\ IsFront(t) /\ ~bgError /\ ~IsFlush(t) /\ Room
  /\ Lead(t)
  /\ UNCHANGED <<disk, opening, memory, background>>

MustWait == imm # NoTable \/ NumFiles(0, versions.files) >= L0_StopWrites

WaitForRoom(t) ==
  /\ IsFront(t) /\ ~bgError /\ (IsFlush(t) \/ ~Room) /\ MustWait
  /\ wpc' = [wpc EXCEPT ![t] = "waitRoom"]
  /\ UNCHANGED <<disk, opening, memory, queue, group, background, history,
                 budget>>

\* Switch to a new memtable and log; mem_ then has room.
SwitchMemTable(t) ==
  /\ IsFront(t) /\ ~bgError /\ (IsFlush(t) \/ ~Room) /\ ~MustWait
  /\ versions' = [versions EXCEPT !.next = @ + 1]
  /\ logs' = Put(logs, versions.next, EmptyLog)
  /\ logfileNumber' = versions.next
  /\ imm' = {mem} /\ mem' = {}
  /\ bgpc' = MaybeSchedule(bgpc, versions.files, {mem}, FALSE)
  /\ IF IsFlush(t) THEN PopFront(1, Popped(1, TRUE)) /\ UNCHANGED <<history, budget>>
                   ELSE Lead(t)
  /\ UNCHANGED <<tables, manifests, current, opening, bgError, shuttingDown,
                 pendingOutputs, readers, deleting, edit, job, merge>>

\* NewWritableFile fails: only this write does.
SwitchFails(t) ==
  /\ IsFront(t) /\ ~bgError /\ (IsFlush(t) \/ ~Room) /\ ~MustWait
  /\ Spend("fault")
  /\ PopFront(1, Popped(1, FALSE))
  /\ UNCHANGED <<disk, opening, memory, background, history>>

\* Without mutex_: the log record, then its sync.
AppendLog(t) ==
  /\ phase = "open" /\ wpc[t] = "log"
  /\ logs' = [logs EXCEPT ![logfileNumber].recs = Append(@, group.entries)]
  /\ wpc' = [wpc EXCEPT ![t] = IF group.sync THEN "sync" ELSE "insert"]
  /\ UNCHANGED <<tables, manifests, current, opening, memory, queue, group,
                 background, history, budget>>

SyncLog(t) ==
  /\ phase = "open" /\ wpc[t] = "sync"
  /\ logs' = [logs EXCEPT ![logfileNumber].synced =
                Len(logs[logfileNumber].recs)]
  /\ wpc' = [wpc EXCEPT ![t] = "insert"]
  /\ UNCHANGED <<tables, manifests, current, opening, memory, queue, group,
                 background, history, budget>>

TakenSequences ==
  [versions EXCEPT !.seq = @ + Cardinality(group.entries)]

\* AddRecord fails, or is about to when the process dies.
TearLog(t) ==
  /\ phase = "open" /\ wpc[t] = "log"
  /\ Spend("tear")
  /\ logs' = Tear(logs, logfileNumber)
  /\ wpc' = [wpc EXCEPT ![t] = "torn"]
  /\ UNCHANGED <<tables, manifests, current, opening, memory, queue, group,
                 background, history>>

\* Only this group learns of it: the log goes on being used.
AppendLogFails(t) ==
  /\ Unlocked /\ wpc[t] = "torn"
  /\ versions' = TakenSequences
  /\ PopFront(group.n, Popped(group.n, FALSE))
  /\ UNCHANGED <<disk, opening, mem, imm, logfileNumber, bgError, shuttingDown,
                 pendingOutputs, readers, deleting, edit, background, history,
                 budget>>

\* mem_ has the group; mutex_ is taken again.
FinishWrite(t) ==
  /\ Unlocked /\ wpc[t] = "insert"
  /\ mem' = mem \cup group.entries
  /\ versions' = TakenSequences
  /\ PopFront(group.n, Popped(group.n, TRUE))
  /\ acked' = acked \cup Ids(group.entries)
  /\ durable' = durable \cup group.promised
  /\ UNCHANGED <<disk, opening, imm, logfileNumber, bgError, shuttingDown,
                 pendingOutputs, readers, deleting, edit, background, nextId,
                 asked, budget>>

\* The log's state is indeterminate: all later writes fail.
SyncFails(t) ==
  /\ Unlocked /\ wpc[t] = "sync"
  /\ Spend("fault")
  /\ versions' = TakenSequences
  /\ bgError' = TRUE
  /\ PopFront(group.n, SignalAll(Popped(group.n, FALSE)))
  /\ UNCHANGED <<disk, opening, mem, imm, logfileNumber, shuttingDown,
                 pendingOutputs, readers, deleting, edit, background, history>>

\* TEST_CompactMemTable waits for imm_ to go.
AwaitFlush(t) ==
  /\ Unlocked /\ wpc[t] = "flushed"
  /\ wpc' = [wpc EXCEPT ![t] = IF imm # NoTable /\ ~bgError THEN "waitFlush"
                               ELSE "idle"]
  /\ UNCHANGED <<disk, opening, memory, queue, group, background, history,
                 budget>>
-----------------------------------------------------------------------------
(***************************************************************************)
(* Reads and iterators: a reference on the current version.                *)
(***************************************************************************)
StartRead(t) ==
  /\ Unlocked /\ ~shuttingDown
  /\ readers[t] = {} /\ versions.files # {}
  /\ Spend("read")
  /\ readers' = [readers EXCEPT ![t] = versions.files]
  /\ UNCHANGED <<disk, opening, versions, mem, imm, logfileNumber, bgError,
                 shuttingDown, pendingOutputs, deleting, edit, writers,
                 background, history>>

EndRead(t) ==
  /\ Unlocked /\ readers[t] # {}
  /\ readers' = [readers EXCEPT ![t] = {}]
  /\ UNCHANGED <<disk, opening, versions, mem, imm, logfileNumber, bgError,
                 shuttingDown, pendingOutputs, deleting, edit, writers,
                 background, history, budget>>
-----------------------------------------------------------------------------
(***************************************************************************)
(* The background thread: BackgroundCall and what it runs.                 *)
(***************************************************************************)
Runs == Unlocked /\ bgpc = "scheduled"

RunNothing ==
  /\ Runs
  /\ \/ shuttingDown \/ bgError
     \/ imm = NoTable /\ NumFiles(0, versions.files) < L0_Compaction
  /\ bgpc' = "end"
  /\ UNCHANGED <<disk, opening, memory, writers, job, merge, history, budget>>

\* CompactMemTable, on its own or in the loop of DoCompactionWork.
StartFlush ==
  /\ Unlocked /\ imm # NoTable
  /\ \/ bgpc = "scheduled" /\ ~shuttingDown /\ ~bgError
     \/ bgpc = "merge"
  /\ job' = [kind |-> "flush", out |-> versions.next]
  /\ pendingOutputs' = pendingOutputs \cup {versions.next}
  /\ versions' = [versions EXCEPT !.next = @ + 1]
  /\ bgpc' = "build"
  /\ IF bgError THEN Spend("retry") ELSE UNCHANGED budget
  /\ UNCHANGED <<disk, opening, mem, imm, logfileNumber, bgError, shuttingDown,
                 readers, deleting, edit, writers, merge, history>>

\* Where a flush goes on: a nested one returns to the merge.
AfterFlush == IF merge = NoMerge THEN "end" ELSE "merge"

\* The compaction failed: RecordBackgroundError.  CleanupCompaction gives up
\* the outputs of a merge, of which a nested flush knows nothing.
FailJob(pending) ==
  /\ bgError' = TRUE
  /\ wpc' = SignalAll(wpc)
  /\ job' = NoJob
  /\ edit' = EmptyEdit
  /\ IF job.kind = "flush"
     THEN /\ bgpc' = AfterFlush
          /\ merge' = merge
          /\ pendingOutputs' = pending
     ELSE /\ bgpc' = "end"
          /\ merge' = NoMerge
          /\ pendingOutputs' = pending \ {merge.out}
  /\ UNCHANGED <<opening, versions, mem, imm, logfileNumber, shuttingDown,
                 readers, deleting, queue, group, history>>

Output == UNION imm

\* WriteLevel0Table, and the rest of CompactMemTable up to the MANIFEST.
BuildTable ==
  /\ Unlocked /\ bgpc = "build" /\ ~shuttingDown
  /\ tables' = IF Output = {} THEN tables ELSE Put(tables, job.out, Output)
  /\ pendingOutputs' = pendingOutputs \ {job.out}
  /\ \E level \in Levels :
       edit' = [EmptyEdit EXCEPT
                  !.log = logfileNumber, !.next = versions.next,
                  !.seq = versions.seq,
                  !.add = IF Output = {} THEN {} ELSE {<<level, job.out>>}]
  /\ bgpc' = "append"
  /\ UNCHANGED <<logs, manifests, current, opening, versions, mem, imm,
                 logfileNumber, bgError, shuttingDown, readers, deleting,
                 writers, job, merge, history, budget>>

\* The table is not written, or not wanted any more.
BuildTableFails ==
  /\ Unlocked /\ bgpc = "build"
  /\ IF shuttingDown
     THEN /\ tables' = IF Output = {} THEN tables ELSE Put(tables, job.out, Output)
          /\ UNCHANGED budget
     ELSE UNCHANGED tables /\ Spend("fault")
  /\ FailJob(pendingOutputs \ {job.out})
  /\ UNCHANGED <<logs, manifests, current>>

\* LogAndApply, without mutex_.
AppendManifest ==
  /\ phase = "open" /\ bgpc = "append"
  /\ manifests' = [manifests EXCEPT ![versions.manifest].recs =
                     AddRecord(@, edit)]
  /\ bgpc' = "sync"
  /\ UNCHANGED <<logs, tables, current, opening, memory, writers, job, merge,
                 history, budget>>

TearManifest ==
  /\ phase = "open" /\ bgpc = "append"
  /\ Spend("tear")
  /\ manifests' = Tear(manifests, versions.manifest)
  /\ bgpc' = "torn"
  /\ UNCHANGED <<logs, tables, current, opening, memory, writers, job, merge,
                 history>>

\* After a nested flush the merge goes on, and appends behind the torn record.
AppendManifestFails ==
  /\ Unlocked /\ bgpc = "torn"
  /\ FailJob(pendingOutputs)
  /\ UNCHANGED <<disk, budget>>

SyncedManifest(n) ==
  [manifests EXCEPT ![n].synced = Len(manifests[n].recs)]
Installed(v) ==
  [v EXCEPT !.files = (@ \ edit.del) \cup edit.add, !.log = edit.log]

Pinned == Range(readers)

\* After an error nobody knows which version the MANIFEST holds.
MayDelete == ~bgError

\* LogAndApply, with mutex_ again, and what its caller does next.
InstallFlush ==
  /\ Unlocked /\ bgpc = "sync" /\ job.kind = "flush"
  /\ manifests' = SyncedManifest(versions.manifest)
  /\ versions' = Installed(versions)
  /\ imm' = NoTable
  /\ deleting' = IF ~MayDelete THEN {}
                 ELSE Obsolete(versions', pendingOutputs,
                               Pinned \cup {merge.version})
  /\ bgpc' = AfterFlush
  /\ wpc' = IF merge = NoMerge THEN wpc ELSE SignalAll(wpc)
  /\ job' = NoJob
  /\ edit' = EmptyEdit
  /\ UNCHANGED <<logs, tables, current, opening, mem, logfileNumber, bgError,
                 shuttingDown, pendingOutputs, readers, queue, group, merge,
                 history, budget>>

InstallCompaction ==
  /\ Unlocked /\ bgpc = "sync" /\ job.kind # "flush"
  /\ manifests' = SyncedManifest(versions.manifest)
  /\ versions' = Installed(versions)
  /\ pendingOutputs' = pendingOutputs \ {merge.out}
  /\ deleting' = IF ~MayDelete \/ job.kind = "move" THEN {}
                 ELSE Obsolete(versions', pendingOutputs', Pinned)
  /\ merge' = NoMerge
  /\ bgpc' = "end"
  /\ job' = NoJob
  /\ edit' = EmptyEdit
  /\ UNCHANGED <<logs, tables, current, opening, mem, imm, logfileNumber,
                 bgError, shuttingDown, readers, writers, history, budget>>

\* The record may or may not show up when the database is reopened.
SyncManifestFails ==
  /\ Unlocked /\ bgpc = "sync"
  /\ Spend("fault")
  /\ FailJob(pendingOutputs)
  /\ UNCHANGED disk

\* LogAndApply keeps the log number for an edit that has none.
\* Mutant: it takes the log in use.
NewestLog == logfileNumber
KeptLog == versions.log

\* PickCompaction: some files of level 0 and those of the next level they
\* overlap.
PickMerge ==
  /\ Runs /\ ~shuttingDown /\ ~bgError /\ imm = NoTable
  /\ NumFiles(0, versions.files) >= L0_Compaction
  /\ \E in \in SUBSET versions.files :
       /\ NumFiles(0, in) > 0
       /\ merge' = [in |-> in, out |-> NoFile, version |-> versions.files]
  /\ bgpc' = "merge"
  /\ UNCHANGED <<disk, opening, memory, writers, job, history, budget>>

\* IsTrivialMove.
MoveTable ==
  /\ Runs /\ ~shuttingDown /\ ~bgError /\ imm = NoTable
  /\ NumFiles(0, versions.files) >= L0_Compaction
  /\ \E f \in versions.files :
       /\ f[1] = 0
       /\ edit' = [log |-> KeptLog, next |-> versions.next,
                   seq |-> versions.seq, add |-> {<<1, f[2]>>}, del |-> {f}]
  /\ job' = [kind |-> "move", out |-> NoFile]
  /\ bgpc' = "append"
  /\ UNCHANGED <<disk, opening, versions, mem, imm, logfileNumber, bgError,
                 shuttingDown, pendingOutputs, readers, deleting, writers,
                 merge, history, budget>>

\* OpenCompactionOutputFile, and what is written to the file.
OpenOutput ==
  /\ Unlocked /\ bgpc = "merge" /\ merge.out = NoFile
  /\ merge' = [merge EXCEPT !.out = versions.next]
  /\ pendingOutputs' = pendingOutputs \cup {versions.next}
  /\ tables' = Put(tables, versions.next, EntriesOf(merge.in))
  /\ versions' = [versions EXCEPT !.next = @ + 1]
  /\ UNCHANGED <<logs, manifests, current, opening, mem, imm, logfileNumber,
                 bgError, shuttingDown, readers, deleting, edit, writers, bgpc,
                 job, history, budget>>

\* AddInputDeletions.  Mutant: with whatever was flushed meanwhile.
AllDeletions == versions.files
InputDeletions == merge.in

\* InstallCompactionResults.
FinishMerge ==
  /\ Unlocked /\ bgpc = "merge" /\ merge.out # NoFile
  /\ edit' = [log |-> KeptLog, next |-> versions.next,
              seq |-> versions.seq, add |-> {<<1, merge.out>>},
              del |-> InputDeletions]
  /\ job' = [kind |-> "merge", out |-> NoFile]
  /\ bgpc' = "append"
  /\ UNCHANGED <<disk, opening, versions, mem, imm, logfileNumber, bgError,
                 shuttingDown, pendingOutputs, readers, deleting, writers,
                 merge, history, budget>>

\* The database is being closed, or the output fails.
MergeFails ==
  /\ Unlocked /\ bgpc = "merge"
  /\ IF shuttingDown THEN UNCHANGED budget ELSE Spend("fault")
  /\ FailJob(pendingOutputs)
  /\ UNCHANGED disk

\* The end of BackgroundCall.
EndBackgroundCall ==
  /\ Unlocked /\ bgpc = "end"
  /\ bgpc' = MaybeSchedule("idle", versions.files, imm, bgError)
  /\ wpc' = SignalAll(wpc)
  /\ UNCHANGED <<disk, opening, memory, queue, group, job, merge, history,
                 budget>>

\* One DeleteFile of DeleteObsoleteFiles, in the order GetChildren returned.
DeleteFile ==
  /\ phase = "open"
  /\ \E f \in deleting :
       /\ deleting' = deleting \ {f}
       /\ logs' = IF f[1] = "log" THEN Without(logs, f[2]) ELSE logs
       /\ tables' = IF f[1] = "table" THEN Without(tables, f[2]) ELSE tables
       /\ manifests' =
            IF f[1] = "manifest" THEN Without(manifests, f[2]) ELSE manifests
  /\ UNCHANGED <<current, opening, versions, mem, imm, logfileNumber, bgError,
                 shuttingDown, pendingOutputs, readers, edit, writers,
                 background, history, budget>>
-----------------------------------------------------------------------------
(***************************************************************************)
(* DB::Open.                                                               *)
(***************************************************************************)
Opening(p) == phase = p /\ UNCHANGED <<writers, background, history>>

OpenExisting ==
  /\ Opening("closed") /\ current # NoFile
  /\ phase' = "recover"
  /\ UNCHANGED <<disk, toReplay, memory, budget>>

\* NewDB: the first MANIFEST is written and closed, not synced.
NewDB ==
  /\ Opening("closed") /\ current = NoFile
  /\ manifests' = Put(manifests, 1,
       [recs |-> <<[files |-> {}, log |-> 0, next |-> 2, seq |-> 0]>>,
        synced |-> 0, torn |-> {}])
  /\ phase' = "created"
  /\ UNCHANGED <<logs, tables, current, toReplay, memory, budget>>

NewCurrent ==
  /\ Opening("created")
  /\ current' = 1
  /\ phase' = "recover"
  /\ UNCHANGED <<logs, tables, manifests, toReplay, memory, budget>>

Corruption(state) ==
  \/ NoNumber \in {state.log, state.next, state.seq}
  \/ ~(Numbers(state.files) \subseteq
         DOMAIN tables \cup DOMAIN logs \cup DOMAIN manifests)


\* Used(n, k) is MarkFileNumberUsed(k) with next_file_number_ at n.
Used(n, k) == IF n <= k THEN k + 1 ELSE n

\* VersionSet::Recover, and the files DBImpl::Recover looks for.  Its reader
\* reports what it finds damaged: then Open returns Corruption.
RecoverManifest ==
  LET state == Replayed(manifests[current].recs)
  IN  /\ Opening("recover")
      /\ \/ /\ Behind(manifests[current]) # {}
            /\ phase' = "damaged"
            /\ UNCHANGED <<versions, toReplay>>
         \/ /\ Corruption(state)
            /\ phase' = "corrupt"
            /\ UNCHANGED <<versions, toReplay>>
         \/ /\ ~Corruption(state)
            /\ phase' = "replay"
            /\ \E reuse \in {FALSE, ReuseLogs} :
                 versions' = [files |-> state.files, log |-> state.log,
                              next |-> Used(state.next + 1, state.log),
                              seq |-> state.seq,
                              manifest |-> IF reuse THEN current ELSE state.next]
            /\ toReplay' = {n \in DOMAIN logs : n >= state.log}
      /\ UNCHANGED <<disk, mem, imm, logfileNumber, bgError, shuttingDown,
                     pendingOutputs, readers, deleting, edit, budget>>


\* Mutant: recovery keeps the sequence of the MANIFEST.
OldSequence(last, entries, seq) == last = seq

\* The last sequence after the recovery of entries: no entry has a later one.
LastSequence(last, entries, seq) ==
  \A k \in {seq} \cup {e.seq : e \in entries} : k <= last

MayReuse(n, entries) ==
  toReplay = {n} /\ Cardinality(entries) < WriteBufferSize

\* RecoverLogFile on the oldest log left: its entries go to tables at level 0,
\* kept as one, or become mem_ when the last log goes on being used.
RecoverLogFile ==
  /\ Opening("replay")
  /\ \E n \in toReplay :
       LET entries == RecsOf(logs[n])
           reuse == ReuseLogs /\ MayReuse(n, entries)
           table == IF reuse \/ entries = {} THEN {} ELSE {versions.next}
       IN  /\ \A k \in toReplay : n <= k
           /\ toReplay' = toReplay \ {n}
           /\ tables' = [k \in DOMAIN tables \cup table |->
                           IF k \in table THEN entries ELSE tables[k]]
           /\ edit' = [edit EXCEPT !.add = @ \cup ({0} \X table)]
           /\ mem' = IF reuse THEN entries ELSE mem
           /\ logfileNumber' = IF reuse THEN n ELSE logfileNumber
           /\ \E last \in {versions.seq} \cup {e.seq : e \in entries} :
                /\ LastSequence(last, entries, versions.seq)
                /\ versions' = [versions EXCEPT
                     !.next = Used(@ + Cardinality(table), n), !.seq = last]
  /\ UNCHANGED <<logs, manifests, current, phase, imm, bgError, shuttingDown,
                 pendingOutputs, readers, deleting, budget>>

\* A new log unless the last one is reused, then the number LogAndApply
\* writes; phase "ready" if there is nothing to write.
NewLog ==
  /\ Opening("replay") /\ toReplay = {}
  /\ LET create == logfileNumber = 0
         number == IF create THEN versions.next ELSE logfileNumber
         next == versions.next + (IF create THEN 1 ELSE 0)
         save == versions.manifest # current \/ edit.add # {}
     IN  /\ logs' = IF create THEN Put(logs, number, EmptyLog) ELSE logs
         /\ logfileNumber' = number
         /\ versions' = [versions EXCEPT !.next = next]
         /\ edit' = [edit EXCEPT !.log = number, !.next = next,
                                 !.seq = versions.seq]
         /\ phase' = IF save THEN "descriptor" ELSE "ready"
  /\ UNCHANGED <<tables, manifests, current, toReplay, mem, imm, bgError,
                 shuttingDown, pendingOutputs, readers, deleting, budget>>

\* LogAndApply in a new MANIFEST, with a snapshot first, or the reused one.
WriteDescriptor ==
  /\ Opening("descriptor")
  /\ LET snapshot == [EmptyEdit EXCEPT !.add = versions.files]
         fresh == [recs |-> AddRecord(<<>>, snapshot), synced |-> 0, torn |-> {}]
         file == IF versions.manifest = current THEN manifests[current]
                                                ELSE fresh
     IN  manifests' = Put(manifests, versions.manifest,
                          [file EXCEPT !.recs = AddRecord(@, edit)])
  /\ phase' = "sync"
  /\ UNCHANGED <<logs, tables, current, toReplay, memory, budget>>

\* An append to the reused MANIFEST stops part-way.
TearDescriptor ==
  /\ Opening("descriptor") /\ versions.manifest = current
  /\ Spend("tear")
  /\ manifests' = Tear(manifests, current)
  /\ phase' = "torn"
  /\ UNCHANGED <<logs, tables, current, toReplay, memory>>

\* Mutant: CURRENT may name a MANIFEST that is not on disk yet.
SkipSync ==
  /\ Opening("sync")
  /\ phase' = "current"
  /\ UNCHANGED <<disk, toReplay, memory, budget>>

SyncDescriptor ==
  /\ Opening("sync")
  /\ manifests' = SyncedManifest(versions.manifest)
  /\ phase' = "current"
  /\ UNCHANGED <<logs, tables, current, toReplay, memory, budget>>

\* SetCurrentFile: a temporary file, synced and renamed.
SetCurrentFile ==
  /\ Opening("current")
  /\ current' = versions.manifest
  /\ versions' = Installed(versions)
  /\ edit' = EmptyEdit
  /\ phase' = "ready"
  /\ UNCHANGED <<logs, tables, manifests, toReplay, mem, imm, logfileNumber,
                 bgError, shuttingDown, pendingOutputs, readers, deleting,
                 budget>>

\* What a read finds now it has to find from now on.
OpenReturns ==
  /\ phase = "ready"
  /\ phase' = "open"
  /\ edit' = EmptyEdit
  /\ deleting' = Obsolete(versions, {}, {})
  /\ bgpc' = MaybeSchedule(bgpc, versions.files, imm, FALSE)
  /\ acked' = acked \cup Ids(Visible)
  /\ UNCHANGED <<disk, toReplay, versions, mem, imm, logfileNumber, bgError,
                 shuttingDown, pendingOutputs, readers, writers, job, merge,
                 nextId, asked, durable, budget>>
-----------------------------------------------------------------------------
(***************************************************************************)
(* Close, kill, crash.                                                     *)
(***************************************************************************)
LoseMemory ==
  /\ phase' = "closed" /\ toReplay' = {}
  /\ versions' = ClosedVersions
  /\ mem' = {} /\ imm' = NoTable
  /\ logfileNumber' = 0
  /\ bgError' = FALSE /\ shuttingDown' = FALSE
  /\ pendingOutputs' = {}
  /\ readers' = [t \in Threads |-> {}]
  /\ deleting' = {}
  /\ edit' = EmptyEdit
  /\ queue' = <<>> /\ wpc' = [t \in Threads |-> "idle"] /\ group' = NoGroup
  /\ bgpc' = "idle" /\ job' = NoJob /\ merge' = NoMerge
  /\ asked' = [t \in Threads |-> {}]
  /\ UNCHANGED nextId

\* The first k records of a file.
CutAt(file, k, synced) ==
  [recs |-> SubSeq(file.recs, 1, k), synced |-> synced,
   torn |-> {j \in file.torn : j <= k}]

\* The logs as readings will find them, without the records that are lost.
Reread(files, lost) ==
  [n \in DOMAIN files |->
     [recs |-> [i \in DOMAIN files[n].recs |->
                  IF <<n, i>> \in lost THEN {} ELSE files[n].recs[i]],
      synced |-> files[n].synced,
      torn |-> IF files[n].torn = {} THEN {} ELSE {Len(files[n].recs)}]]
LeaveLogs(files) ==
  \E lost \in SUBSET UNION {{n} \X Behind(files[n]) : n \in DOMAIN files} :
    logs' = Reread(files, lost)

\* A torn record at the end of a block hides, without a report, what is behind.
LeaveManifests(files) ==
  \/ manifests' = files
  \/ /\ current \in DOMAIN files
     /\ \E k \in files[current].torn :
          LET synced == files[current].synced
          IN  manifests' = [files EXCEPT ![current] =
                              CutAt(@, k, IF synced <= k THEN synced ELSE k)]

\* The records of a MANIFEST up to which a reading may come, and those up to
\* which the machine may have it on disk.
Found(file) == {k \in DOMAIN file.recs : k = Len(file.recs) \/ k \in file.torn}
Kept(file) == {k \in DOMAIN file.recs : k >= file.synced \/ k \in file.torn}

HeldBy(state) == EntriesOf({f \in state.files : f[2] \in DOMAIN tables})

\* The ids that depend on a record behind a torn one.
Exposed ==
  {id \in Ids(UNION {RecsOf(logs[n]) \ Certain(logs[n]) : n \in DOMAIN logs}) :
     current \in DOMAIN manifests =>
       \E k \in Kept(manifests[current]) :
         id \notin Ids(HeldBy(manifests[current].recs[k]))}

\* What reading the MANIFEST up to a state, and then the logs, surely finds.
ReadBack(state) ==
  HeldBy(state)
    \cup UNION {Certain(logs[n]) : n \in {k \in DOMAIN logs : k >= state.log}}
\* The ids it finds, up to whichever record the MANIFEST is read.
OnDisk ==
  LET recs == manifests[current].recs
  IN  {id \in Ids(ReadBack(Replayed(recs))) :
         \A k \in Found(manifests[current]) : id \in Ids(ReadBack(recs[k]))}

\* The process is gone.  Of the ids in promised those are broken that depended
\* on a torn log and that a reading may miss now.
Broken(promised) == {id \in promised \cap Exposed : id \notin OnDisk'}
Leave(logsLeft, manifestsLeft, promised) ==
  /\ LoseMemory
  /\ LeaveLogs(logsLeft) /\ LeaveManifests(manifestsLeft)
  /\ UNCHANGED <<tables, current>>
  /\ acked' = promised \ Broken(promised)
  /\ durable' = durable \ Exposed

\* A MANIFEST Open could not write, sync or install is deleted again.
OpenFails ==
  /\ \/ phase \in {"descriptor", "sync", "current"} /\ Spend("fault")
     \/ phase = "torn" /\ UNCHANGED budget
  /\ Leave(logs, IF versions.manifest = current THEN manifests
                 ELSE Without(manifests, versions.manifest), acked)

\* ~DBImpl, called when no thread uses the database.
StartClose ==
  /\ Unlocked /\ ~shuttingDown
  /\ \A t \in Threads : wpc[t] = "idle" /\ readers[t] = {}
  /\ Spend("close")
  /\ shuttingDown' = TRUE
  /\ UNCHANGED <<disk, opening, versions, mem, imm, logfileNumber, bgError,
                 pendingOutputs, readers, deleting, edit, writers, background,
                 history>>

FinishClose ==
  /\ Unlocked /\ shuttingDown /\ bgpc = "idle"
  /\ Leave(logs, manifests, acked)
  /\ UNCHANGED budget

\* The process dies; what it wrote to files stays.
Kill ==
  /\ phase \notin {"closed", "corrupt", "damaged"}
  /\ Spend("kill")
  /\ Leave(logs, manifests, acked)

\* The machine dies: each log and MANIFEST loses any part of its unsynced
\* tail.
Truncate(file, cut) ==
  [n \in DOMAIN file |-> CutAt(file[n], cut[n], cut[n])]
Cuts(file) ==
  LET lengths == UNION {0..Len(file[n].recs) : n \in DOMAIN file}
  IN  {cut \in [DOMAIN file -> lengths] :
         \A n \in DOMAIN file : cut[n] \in file[n].synced..Len(file[n].recs)}

Reboot ==
  /\ phase \notin {"corrupt", "damaged"}
  /\ Spend("reboot")
  /\ \E cut \in Cuts(logs), left \in Cuts(manifests) :
       Leave(Truncate(logs, cut), Truncate(manifests, left), durable)
-----------------------------------------------------------------------------
Writer(t) ==
  \/ RefuseWrite(t) \/ StartWrite(t) \/ WaitForRoom(t) \/ SwitchMemTable(t)
  \/ AppendLog(t) \/ AppendLogFails(t) \/ SyncLog(t) \/ FinishWrite(t)
  \/ AwaitFlush(t)

Background ==
  \/ RunNothing \/ StartFlush \/ BuildTable \/ AppendManifest
  \/ AppendManifestFails \/ InstallFlush \/ InstallCompaction \/ PickMerge
  \/ MoveTable \/ OpenOutput \/ FinishMerge \/ EndBackgroundCall \/ DeleteFile
  \/ FinishClose
  \/ shuttingDown /\ (BuildTableFails \/ MergeFails)

Recovery ==
  \/ OpenExisting \/ NewDB \/ NewCurrent \/ RecoverManifest \/ RecoverLogFile
  \/ NewLog \/ WriteDescriptor \/ SyncDescriptor \/ SetCurrentFile
  \/ OpenReturns

Calls(t) ==
  EnterWrite(t) \/ EnterFlush(t) \/ StartRead(t) \/ EndRead(t)

Faults ==
  \/ \E t \in Threads : SwitchFails(t) \/ TearLog(t) \/ SyncFails(t)
  \/ BuildTableFails \/ TearManifest \/ SyncManifestFails \/ MergeFails
  \/ TearDescriptor \/ OpenFails \/ Kill \/ Reboot

Next ==
  \/ \E t \in Threads : Calls(t) \/ Writer(t)
  \/ Background \/ Recovery \/ Faults \/ StartClose

Spec == Init /\ [][Next]_vars

\* The threads run, and the Env runs what it was given to schedule.
Fairness ==
  /\ \A t \in Threads : WF_vars(Writer(t))
  /\ WF_vars(Background)
  /\ WF_vars(Recovery)

FairSpec == Spec /\ Fairness
-----------------------------------------------------------------------------
(***************************************************************************)
(* What leveldb promises to the threads that use it, and what its own      *)
(* recovery and clean-up rely on.                                          *)
(***************************************************************************)

\* A write that returned OK is found by every later read, also after kills of
\* the process, and after a crash of the machine if it was a sync write
\* (include/leveldb/options.h, WriteOptions::sync), unless it stood behind a
\* torn record of its log when the process ended.
AckedAreRead == phase = "open" => acked \subseteq Ids(Visible)

\* Recover finds its three numbers in every MANIFEST it reads to the end, and
\* every table of the recovered version on disk: DB::Open reports Corruption
\* ("damaged") only of a MANIFEST that was written on behind a failed append.
NeverCorrupt == phase # "corrupt"

\* No table disappears while a version that some read, iterator or compaction
\* references needs it, nor the output of a compaction before its MANIFEST
\* record is written.
PinnedTablesExist ==
  phase = "open" =>
    /\ \A files \in {versions.files, merge.version} \cup Pinned :
         Numbers(files) \subseteq DOMAIN tables
    /\ merge.out # NoFile => merge.out \in DOMAIN tables
    /\ bgpc \in {"append", "sync"} => Numbers(edit.add) \subseteq DOMAIN tables

\* Two entries a read can find have different sequence numbers, and none is
\* newer than the last sequence: a snapshot tells every two writes apart.
SequencesTellApart ==
  phase = "open" =>
    /\ \A e, f \in Visible : e.seq = f.seq => e = f
    /\ \A e \in Visible : e.seq <= versions.seq

\* At any moment a kill leaves a directory that holds every acknowledged write,
\* up to whichever record the MANIFEST is read: no log is given up before its
\* memtable is in a table, no table before what replaced it is in the MANIFEST.
\* Not meant are the writes a torn log exposes while no synced record of the
\* MANIFEST has their table.
KillLosesNothing ==
  phase # "corrupt" /\ current # NoFile => acked \ Exposed \subseteq OnDisk

\* "If it is just the process that crashes, no writes will be lost even if
\* sync==false" (include/leveldb/options.h:174-176): what returned OK is found
\* after a kill.  One that follows a write whose AddRecord failed may not be.
KillLosesNoWrite == [][Kill => acked' = acked]_vars

\* A thread that waits, in the queue of writers, for room or for a flush, gets
\* an answer: no signal is lost, and the background thread is scheduled
\* whenever somebody waits for it.
WritesReturn == \A t \in Threads : wpc[t] # "idle" ~> wpc[t] = "idle"
=============================================================================
