---------------------------- MODULE DBImplProofs ----------------------------
(***************************************************************************)
(* Proofs about DBImpl, for any threads, buffer sizes, triggers and        *)
(* budgets: no acknowledged write is lost, recovery never finds the        *)
(* directory corrupt, no table that is needed is deleted, and snapshots    *)
(* tell writes apart.                                                      *)
(*                                                                         *)
(* What makes this inductive (DBInv) is where an acknowledged write is at  *)
(* every moment: on disk, in the tables of the MANIFEST's last state or in *)
(* a log that it still names (DiskIsSound); in memory, in the version, the *)
(* memtables and the logs behind them (MemoryIsLogged); and what recovery  *)
(* (Replaying, NewManifest) and the background thread (Working) have of it *)
(* in hand between one step and the next.  If the machine may crash, the   *)
(* same is said of each state of the MANIFEST that a crash may leave, and  *)
(* of what was synced.                                                     *)
(***************************************************************************)
EXTENDS DBImpl, FiniteSetTheorems, SequenceTheorems, TLAPS

MayCrash == Budget["reboot"] # 0

-----------------------------------------------------------------------------
\* Types.
Entries == [id: Nat, seq: Nat]
Files == SUBSET (Levels \X Nat)
Records(R) == [recs: Seq(R), synced: Nat, torn: SUBSET Nat]
States == [files: Files, log: Int, next: Int, seq: Int]
ThreadStates == {"idle", "queued", "front", "waitRoom", "log", "torn", "sync",
                 "insert", "flushed", "waitFlush"}

TypedLogs ==
  /\ DOMAIN logs \subseteq Nat \ {0}
  /\ \A n \in DOMAIN logs :
       logs[n] \in [recs : Seq(SUBSET Entries), synced : Nat, torn : SUBSET Nat]
  /\ \A n \in DOMAIN logs : logs[n].synced <= Len(logs[n].recs)
TypedTables ==
  DOMAIN tables \subseteq Nat /\ \A n \in DOMAIN tables : tables[n] \subseteq Entries
TypedManifests ==
  /\ DOMAIN manifests \subseteq Nat
  /\ \A n \in DOMAIN manifests : manifests[n] \in Records(States)
  /\ \A n \in DOMAIN manifests : manifests[n].synced <= Len(manifests[n].recs)
  /\ \A n \in DOMAIN manifests : manifests[n].torn \subseteq 1..Len(manifests[n].recs)
  /\ Budget["tear"] = 0 => \A n \in DOMAIN manifests : manifests[n].torn = {}
Phases == {"closed", "created", "recover", "damaged", "replay", "descriptor",
           "sync", "current", "ready", "open"}
TypedMemory ==
  /\ current \in Nat \cup {NoFile}
  /\ phase \in Phases
  /\ versions \in [files : Files, log : Nat, next : Nat, seq : Nat, manifest : Nat]
  /\ mem \subseteq Entries /\ imm \subseteq SUBSET Entries
  /\ logfileNumber \in Nat
  /\ bgError \in BOOLEAN
  /\ pendingOutputs \subseteq Nat
  /\ readers \in [Threads -> Files]
  /\ toReplay \subseteq DOMAIN logs
  /\ edit \in [log : Int, next : Int, seq : Int, add : Files, del : Files]
TypedWriters ==
  /\ queue \in Seq([t : Threads, kind : {"write", "flush"}, sync : BOOLEAN])
  /\ wpc \in [Threads -> ThreadStates]
  /\ group \in [entries : SUBSET Entries, n : Nat, sync : BOOLEAN, promised : SUBSET Nat]
  /\ IsFiniteSet(group.entries)
TypedBackground ==
  /\ bgpc \in {"idle", "scheduled", "build", "append", "torn", "sync", "merge", "end"}
  /\ job \in [kind : {"none", "flush", "merge", "move"}, out : Nat \cup {NoFile}]
  /\ merge \in [in : Files, out : Nat \cup {NoFile}, version : Files]
TypedHistory ==
  nextId \in Nat \ {0} /\ acked \subseteq Nat /\ durable \subseteq acked
TypedBudget ==
  /\ budget \in [BudgetKinds -> Nat]
  /\ budget["reboot"] <= Budget["reboot"] /\ budget["tear"] <= Budget["tear"]

Typed ==
  /\ TypedLogs /\ TypedTables /\ TypedManifests /\ TypedMemory
  /\ TypedWriters /\ TypedBackground /\ TypedHistory /\ TypedBudget
-----------------------------------------------------------------------------
SyncedRecs(log) == UNION {log.recs[i] : i \in 1..log.synced}
LogsFrom(n) == UNION {RecsOf(logs[k]) : k \in {k \in DOMAIN logs : k >= n}}
SyncedFrom(n) == UNION {SyncedRecs(logs[k]) : k \in {k \in DOMAIN logs : k >= n}}

\* The records of a MANIFEST file up to which a reopening may find it.
Cut(file) ==
  (IF MayCrash THEN file.synced..Len(file.recs) ELSE {Len(file.recs)}) \cup file.torn
LastRecord(file) == file.recs[Len(file.recs)]
St == LastRecord(manifests[current])
Survivors(n) == {manifests[n].recs[k] : k \in Cut(manifests[n])}

\* A state of the MANIFEST from which a reopening finds what it needs.
Sound(s) ==
  /\ s.log \in Nat /\ s.next \in Nat /\ s.seq \in Nat
  /\ \A f \in s.files : f[2] \in DOMAIN tables /\ f[2] < s.next
  /\ s.next <= St.next
  /\ current < s.next
  /\ MayCrash => durable \subseteq Ids(EntriesOf(s.files) \cup SyncedFrom(s.log))

\* The tables of the state and the logs it names, torn or not, have what was
\* acknowledged.
Holds(s) == acked \subseteq Ids(EntriesOf(s.files) \cup LogsFrom(s.log))

\* Of two such states the later one has taken no fewer file numbers.
NextGrows(file) ==
  \A i, j \in Cut(file) : i <= j => file.recs[i].next <= file.recs[j].next

DiskIsSound ==
  IF current = NoFile
  THEN acked = {} /\ phase \in {"closed", "created"} /\ ~MayCrash
  ELSE /\ current \in DOMAIN manifests
       /\ Len(manifests[current].recs) > 0
       /\ MayCrash => manifests[current].synced > 0
       /\ \A s \in Survivors(current) : Sound(s)
       /\ NextGrows(manifests[current])
       /\ Holds(St)
       /\ \A k \in manifests[current].torn : Holds(manifests[current].recs[k])
-----------------------------------------------------------------------------
\* Recovery.
Quiet ==
  /\ imm = NoTable /\ bgError = FALSE
  /\ pendingOutputs = {} /\ deleting = {}
  /\ readers = [t \in Threads |-> {}]
  /\ queue = <<>> /\ wpc = [t \in Threads |-> "idle"]
  /\ bgpc = "idle" /\ job = NoJob /\ merge = NoMerge

Shut ==
  phase \in {"closed", "created", "recover", "damaged"} =>
    ClosedMemory /\ toReplay = {}
Created ==
  phase = "created" =>
    /\ current = NoFile /\ 1 \in DOMAIN manifests
    /\ manifests[1].recs = <<[files |-> {}, log |-> 0, next |-> 2, seq |-> 0]>>
    /\ manifests[1].torn = {}

LogsAreOld(but) == \A n \in DOMAIN logs \ but : n < versions.next
AddsAreTables ==
  \A f \in edit.add : f[2] \in DOMAIN tables /\ f[2] < versions.next

\* replay and descriptor.
Replaying ==
  phase \in {"replay", "descriptor"} =>
    /\ current # NoFile
    /\ versions.files = St.files /\ versions.log = St.log
    /\ St.next < versions.next
    /\ versions.manifest < versions.next /\ versions.log < versions.next
    /\ \A n \in toReplay : versions.log <= n
    /\ MayCrash => versions.manifest # current
    /\ ~ReuseLogs => versions.manifest # current
    /\ LogsAreOld(toReplay) /\ AddsAreTables /\ edit.del = {}
    /\ logfileNumber = 0 => mem = {} /\ phase = "replay"
    /\ logfileNumber # 0 =>
         /\ toReplay = {} /\ logfileNumber \in DOMAIN logs
         /\ logfileNumber >= versions.log
         /\ mem = RecsOf(logs[logfileNumber])
    /\ MayCrash => mem = {}
    /\ LogsFrom(versions.log) \subseteq
         EntriesOf(edit.add) \cup mem
           \cup UNION {RecsOf(logs[n]) : n \in toReplay}
    /\ phase = "descriptor" =>
         edit.log = logfileNumber /\ edit.next = versions.next /\ edit.seq \in Nat

\* sync and current: what the new MANIFEST says.
NewManifest ==
  LET file == manifests[versions.manifest]
      s == LastRecord(file)
  IN  phase \in {"sync", "current"} =>
        /\ current # NoFile
        /\ toReplay = {} /\ LogsAreOld({}) /\ AddsAreTables /\ edit.del = {}
        /\ \A f \in versions.files : f[2] \in DOMAIN tables /\ f[2] < versions.next
        /\ versions.manifest < versions.next
        /\ MayCrash => versions.manifest # current /\ mem = {}
        /\ phase = "current" /\ MayCrash => file.synced = Len(file.recs)
        /\ logfileNumber \in DOMAIN logs
        /\ mem = RecsOf(logs[logfileNumber])
        /\ versions.log <= logfileNumber
        /\ acked \subseteq Ids(mem \cup EntriesOf(versions.files \cup edit.add))
        /\ versions.manifest \in DOMAIN manifests /\ Len(file.recs) > 0
        /\ file.torn = {}
        /\ s.files = versions.files \cup edit.add
        /\ s.log = logfileNumber /\ edit.log = logfileNumber
        /\ s.next = versions.next /\ s.seq \in Nat

Recovering == (phase # "open" => Quiet) /\ Shut /\ Created /\ Replaying /\ NewManifest
-----------------------------------------------------------------------------
Up == phase \in {"ready", "open"}

\* Versions and the MANIFEST.
FilesExist(files) == \A f \in files : f[2] \in DOMAIN tables

VersionIsFound ==
  Up =>
    /\ current # NoFile /\ versions.manifest = current
    /\ toReplay = {}
    /\ FilesExist(versions.files)
    /\ \A f \in versions.files : f[2] < versions.next
    /\ St.next <= versions.next
    /\ current < versions.next
    /\ versions.log <= St.log
    /\ \A s \in Survivors(current) : s.log <= logfileNumber
    /\ ~bgError /\ bgpc # "sync" =>
         /\ versions.files = St.files /\ versions.log = St.log
         /\ Cut(manifests[current]) = {Len(manifests[current].recs)}
    /\ ~bgError /\ bgpc # "torn" => manifests[current].torn = {}
    /\ bgpc \in {"build", "append", "torn", "merge"} => versions.files \subseteq St.files

\* Memory and the logs.
MemoryIsLogged ==
  Up =>
    /\ logfileNumber \in DOMAIN logs
    /\ versions.log <= logfileNumber
    /\ LogsAreOld({})
    /\ mem \subseteq RecsOf(logs[logfileNumber])
    /\ UNION imm \subseteq LogsFrom(versions.log)
    /\ imm = NoTable \/ \E entries \in imm : imm = {entries}
    /\ acked \subseteq Ids(Visible)
    /\ MayCrash =>
         durable \subseteq Ids((UNION imm) \cup EntriesOf(versions.files)
                                 \cup SyncedRecs(logs[logfileNumber]))

\* The background thread.
Working ==
  Up =>
    /\ bgpc \in {"idle", "scheduled", "end"} => merge = NoMerge
    /\ bgpc \in {"idle", "scheduled", "end", "merge"} => job = NoJob
    /\ bgpc \in {"build", "append", "torn", "sync"} => deleting = {}
    /\ bgpc = "build" =>
         /\ job.kind = "flush" /\ job.out # NoFile /\ imm # NoTable
         /\ job.out # merge.out /\ job.out < versions.next
         /\ \A s \in Survivors(current) : job.out \notin Numbers(s.files)
         /\ job.out \notin Numbers(versions.files)
    /\ bgpc \in {"append", "sync"} =>
         /\ edit.log \in Nat /\ edit.next \in Nat /\ edit.seq \in Nat
         /\ edit.next <= versions.next
         /\ \A f \in edit.add : f[2] \in DOMAIN tables /\ f[2] < edit.next
         /\ St.next <= edit.next
         /\ \A f \in versions.files : f[2] < edit.next
         /\ EntriesOf(edit.del) \subseteq EntriesOf(edit.add)
         /\ edit.del \subseteq versions.files
         /\ job.kind = "flush" =>
              /\ edit.log = logfileNumber /\ edit.del = {} /\ imm # NoTable
              /\ UNION imm \subseteq EntriesOf(edit.add)
         /\ job.kind # "flush" => edit.log = versions.log
         /\ job.kind # "none"
    /\ bgpc = "sync" =>
         /\ (versions.files \ edit.del) \cup edit.add \subseteq St.files
         /\ St.log = edit.log
         /\ ~bgError => St.files = (versions.files \ edit.del) \cup edit.add
    /\ merge.in \subseteq versions.files /\ merge.version \subseteq versions.files
    /\ merge.out # NoFile =>
         /\ merge.out \in DOMAIN tables /\ merge.out \in pendingOutputs
         /\ merge.out < versions.next
         /\ tables[merge.out] = EntriesOf(merge.in)
    /\ \A n \in pendingOutputs : n < versions.next

\* Readers and the files that are being deleted.
Deleting ==
  /\ \A t \in Threads : FilesExist(readers[t])
  /\ deleting # {} => phase = "open" /\ ~bgError
  /\ \A f \in deleting :
       /\ f[1] = "log" => f[2] < versions.log
       /\ f[1] = "manifest" => f[2] < versions.manifest
       /\ f[1] = "table" =>
            /\ f[2] \notin Numbers(versions.files) /\ f[2] # merge.out
            /\ \A t \in Threads : f[2] \notin Numbers(readers[t])

\* The queue of writers.
Leading == {"front", "waitRoom", "log", "torn", "sync", "insert"}
Writing ==
  /\ \A i, j \in 1..Len(queue) : queue[i].t = queue[j].t => i = j
  /\ \A i \in 1..Len(queue) :
       wpc[queue[i].t] \in IF i = 1 THEN Leading ELSE {"queued"}
  /\ \A t \in Threads : wpc[t] \in Leading => queue # <<>> /\ queue[1].t = t
  /\ \A t \in Threads : wpc[t] \in {"log", "torn", "sync", "insert"} =>
       /\ 1 <= group.n /\ group.n <= Len(queue)
       /\ group.promised \subseteq Ids(group.entries)
       /\ wpc[t] = "log" /\ group.promised # {} => group.sync
       /\ wpc[t] \in {"sync", "insert"} => group.entries \subseteq RecsOf(logs[logfileNumber])
       /\ wpc[t] = "insert" /\ group.promised # {} =>
            group.entries \subseteq SyncedRecs(logs[logfileNumber])

DBInv ==
  /\ Survivable /\ Typed /\ DiskIsSound /\ Recovering
  /\ VersionIsFound /\ MemoryIsLogged /\ Working /\ Deleting /\ Writing
-----------------------------------------------------------------------------
LEMMA KeepTyped ==
  /\ TypedLogs /\ UNCHANGED logs => TypedLogs'
  /\ TypedTables /\ UNCHANGED tables => TypedTables'
  /\ TypedManifests /\ UNCHANGED manifests => TypedManifests'
  /\ TypedMemory /\ UNCHANGED <<current, opening, memory, logs>> => TypedMemory'
  /\ TypedWriters /\ UNCHANGED writers => TypedWriters'
  /\ TypedBackground /\ UNCHANGED background => TypedBackground'
  /\ TypedHistory /\ UNCHANGED <<nextId, acked, durable>> => TypedHistory'
  /\ TypedBudget /\ UNCHANGED budget => TypedBudget'
<1>1. /\ TypedLogs /\ UNCHANGED logs => TypedLogs'
      /\ TypedTables /\ UNCHANGED tables => TypedTables'
      /\ TypedManifests /\ UNCHANGED manifests => TypedManifests'
      /\ TypedHistory /\ UNCHANGED <<nextId, acked, durable>> => TypedHistory'
      /\ TypedBudget /\ UNCHANGED budget => TypedBudget'
  BY DEF TypedLogs, TypedTables, TypedManifests, TypedHistory, TypedBudget
<1>2. TypedMemory /\ UNCHANGED <<current, opening, memory, logs>> => TypedMemory'
  BY DEF TypedMemory, opening, memory
<1>3. TypedWriters /\ UNCHANGED writers => TypedWriters'
  BY DEF TypedWriters, writers
<1>4. TypedBackground /\ UNCHANGED background => TypedBackground'
  BY DEF TypedBackground, background
<1> QED
  BY <1>1, <1>2, <1>3, <1>4

LEMMA KeepDisk ==
  DiskIsSound /\ UNCHANGED <<disk, phase, acked, durable>> => DiskIsSound'
<1> SUFFICES ASSUME DiskIsSound, UNCHANGED <<disk, phase, acked, durable>>
             PROVE  DiskIsSound'
  OBVIOUS
<1>1. UNCHANGED <<logs, tables, manifests, current, phase, acked, durable>>
  BY DEF disk
<1>2. /\ St' = St /\ Survivors(current)' = Survivors(current)
  BY <1>1 DEF St, LastRecord, Survivors, Cut, MayCrash
<1>3. \A s : Sound(s)' = Sound(s) /\ Holds(s)' = Holds(s)
  BY <1>1, <1>2 DEF Sound, Holds, Ids, EntriesOf, LogsFrom, RecsOf, SyncedFrom, SyncedRecs,
                    MayCrash
<1> QED
  BY <1>1, <1>2, <1>3 DEF DiskIsSound, MayCrash

LEMMA OpenRecovers ==
  phase' = "open" => Recovering'
BY DEF Recovering, Shut, Created, Replaying, NewManifest

LEMMA KeepVersion ==
  /\ VersionIsFound
  /\ UNCHANGED <<phase, toReplay, current, versions, tables, manifests, logfileNumber,
                 bgError, bgpc>>
  => VersionIsFound'
BY DEF VersionIsFound, Up, FilesExist, St, LastRecord, Survivors, Cut

LEMMA KeepMemory ==
  /\ MemoryIsLogged
  /\ UNCHANGED <<phase, logfileNumber, logs, versions, mem, imm, acked, durable, tables>>
  => MemoryIsLogged'
BY DEF MemoryIsLogged, Up, LogsAreOld, LogsFrom, SyncedRecs, RecsOf, Ids, Visible, EntriesOf

LEMMA KeepWorking ==
  /\ Working
  /\ UNCHANGED <<phase, bgpc, merge, job, deleting, imm, versions, manifests, current, edit,
                 tables, logfileNumber, bgError, pendingOutputs>>
  => Working'
BY DEF Working, Up, Survivors, Cut, St, LastRecord, Numbers, EntriesOf

LEMMA KeepDeleting ==
  /\ Deleting
  /\ UNCHANGED <<readers, tables, deleting, phase, bgError, versions, merge>>
  => Deleting'
BY DEF Deleting, FilesExist, Numbers

LEMMA KeepWriting ==
  /\ Writing
  /\ UNCHANGED <<writers, logs, logfileNumber>>
  => Writing'
BY DEF Writing, writers, RecsOf, SyncedRecs, Ids
-----------------------------------------------------------------------------
\* A budget is only ever spent.
LEMMA SpendTyped ==
  ASSUME TypedBudget, NEW kind \in BudgetKinds, Spend(kind)
  PROVE  TypedBudget'
BY DatabaseAssumption DEF DBAssumption, TypedBudget, Spend, BudgetKinds

\* What a step of the writers alone leaves alone.
LEMMA WriterFrame ==
  ASSUME DBInv, phase = "open",
         UNCHANGED <<disk, opening, memory, background, acked, durable>>
  PROVE  /\ TypedLogs' /\ TypedTables' /\ TypedManifests' /\ TypedMemory'
         /\ TypedBackground' /\ DiskIsSound' /\ Recovering' /\ VersionIsFound'
         /\ MemoryIsLogged' /\ Working' /\ Deleting'
BY KeepTyped, KeepDisk, OpenRecovers, KeepVersion, KeepMemory, KeepWorking, KeepDeleting
   DEF DBInv, Typed, disk, opening, memory, background

LEMMA LengthOfSeq ==
  ASSUME NEW S, NEW s \in Seq(S)
  PROVE  Len(s) \in Nat /\ (s = <<>> <=> Len(s) = 0)
OBVIOUS

LEMMA RestOfSeq ==
  ASSUME NEW S, NEW s \in Seq(S), NEW n \in 1..Len(s)
  PROVE  /\ Len(s) \in Nat /\ n \in Nat /\ 1 <= n /\ n <= Len(s)
         /\ SubSeq(s, n + 1, Len(s)) \in Seq(S)
         /\ Len(SubSeq(s, n + 1, Len(s))) = Len(s) - n
         /\ \A i \in 1..(Len(s) - n) : SubSeq(s, n + 1, Len(s))[i] = s[n + i]
<1>1. /\ n + 1 \in 1..Len(s) + 1 /\ Len(s) \in (n + 1) - 1..Len(s)
      /\ Len(s) - (n + 1) + 1 = Len(s) - n
      /\ \A i \in 1..(Len(s) - n) : (n + 1) + i - 1 = n + i
  OBVIOUS
<1>2. \A i \in n + 1..Len(s) : s[i] \in S
  BY <1>1
<1>3. n + 1 \in Int /\ Len(s) \in Int /\ (n + 1 <= Len(s) \/ n = Len(s))
  OBVIOUS
<1> DEFINE m == n + 1
           e == Len(s)
<1>4. /\ SubSeq(s, m, e) \in Seq(S)
      /\ Len(SubSeq(s, m, e)) = IF m <= e THEN e - m + 1 ELSE 0
      /\ \A i \in 1..(e - m + 1) : SubSeq(s, m, e)[i] = s[m + i - 1]
  <2>1. m \in Int /\ e \in Int /\ \A i \in m..e : s[i] \in S
    BY <1>2, <1>3
  <2> HIDE DEF m, e
  <2> QED
    BY <2>1, SubSeqProperties
<1>5. \A i \in 1..(Len(s) - n) : i \in 1..(e - m + 1) /\ m + i - 1 = n + i
  BY <1>1
<1>8. Len(s) \in Nat /\ n \in Nat /\ 1 <= n /\ n <= Len(s)
  OBVIOUS
<1>6. (IF m <= e THEN e - m + 1 ELSE 0) = Len(s) - n
  BY <1>8
<1> HIDE DEF m, e
<1>7. \A i \in 1..(Len(s) - n) : SubSeq(s, m, e)[i] = s[n + i]
  BY <1>4, <1>5
<1>9. Len(SubSeq(s, m, e)) = Len(s) - n
  <2>1. CASE m <= e
    BY <1>4, <1>6, <2>1
  <2>2. CASE ~(m <= e)
    BY <1>4, <1>6, <2>2
  <2> QED
    BY <2>1, <2>2
<1> QED
  BY <1>4, <1>7, <1>8, <1>9, Zenon DEF m, e

LEMMA QueuedThreads ==
  ASSUME TypedWriters, NEW i \in 1..Len(queue)
  PROVE  queue[i].t \in Threads
<1> DEFINE W == [t : Threads, kind : {"write", "flush"}, sync : BOOLEAN]
<1>1. queue \in Seq(W)
  BY DEF TypedWriters
<1>2. queue[i] \in W
  <2> HIDE DEF W
  <2> QED BY <1>1
<1> QED
  BY <1>2

LEMMA EnterKeeps ==
  ASSUME TypedWriters, Writing, NEW t \in Threads, NEW kind \in {"write", "flush"},
         NEW sync \in BOOLEAN, Enter(t, kind, sync)
  PROVE  TypedWriters' /\ Writing'
<1> DEFINE w == [t |-> t, kind |-> kind, sync |-> sync]
<1>1. /\ wpc[t] = "idle" /\ queue' = Append(queue, w)
      /\ wpc' = [wpc EXCEPT ![t] = IF queue = <<>> THEN "front" ELSE "queued"]
      /\ UNCHANGED <<group, logs, logfileNumber>>
  BY DEF Enter, disk, memory
<1>2. TypedWriters'
  BY <1>1 DEF TypedWriters, ThreadStates
<1>3. /\ Len(queue') = Len(queue) + 1 /\ Len(queue) \in Nat
      /\ \A i \in 1..Len(queue) : queue'[i] = queue[i]
      /\ queue'[Len(queue) + 1].t = t
  BY <1>1 DEF TypedWriters
<1>12. queue = <<>> <=> Len(queue) = 0
  <2> DEFINE W == [t : Threads, kind : {"write", "flush"}, sync : BOOLEAN]
  <2>1. queue \in Seq(W)
    BY DEF TypedWriters
  <2> HIDE DEF W
  <2> QED
    BY <2>1, LengthOfSeq
<1>4. \A i \in 1..Len(queue) : queue[i].t # t /\ queue[i].t \in Threads
  BY <1>1, QueuedThreads DEF Writing, Leading
<1>5. \A s \in Threads : s # t => wpc'[s] = wpc[s]
  BY <1>1 DEF TypedWriters
<1>6. wpc'[t] = IF Len(queue) = 0 THEN "front" ELSE "queued"
  BY <1>1, <1>12 DEF TypedWriters
<1>7. Len(queue') > 0 /\ queue' # <<>>
  BY <1>2, <1>3 DEF TypedWriters
<1>8. \A i, j \in 1..Len(queue') : queue'[i].t = queue'[j].t => i = j
  BY <1>3, <1>4 DEF Writing
<1>9. \A i \in 1..Len(queue') :
        wpc'[queue'[i].t] \in IF i = 1 THEN Leading ELSE {"queued"}
  BY <1>3, <1>4, <1>5, <1>6 DEF Writing, Leading
<1>10. \A s \in Threads : wpc'[s] \in Leading => queue'[1].t = s
  BY <1>3, <1>4, <1>5, <1>6 DEF Writing, Leading
<1>11. \A s \in Threads : wpc'[s] \in {"log", "torn", "sync", "insert"} =>
         s # t /\ wpc'[s] = wpc[s]
  BY <1>5, <1>6
<1>13. \A s \in Threads : wpc'[s] \in {"log", "torn", "sync", "insert"} =>
         /\ 1 <= group'.n /\ group'.n <= Len(queue')
         /\ group'.promised \subseteq Ids(group'.entries)
         /\ wpc'[s] = "log" /\ group'.promised # {} => group'.sync
         /\ wpc'[s] \in {"sync", "insert"} =>
              group'.entries \subseteq RecsOf(logs[logfileNumber])'
         /\ wpc'[s] = "insert" /\ group'.promised # {} =>
              group'.entries \subseteq SyncedRecs(logs[logfileNumber])'
  <2> TAKE s \in Threads
  <2> HAVE wpc'[s] \in {"log", "torn", "sync", "insert"}
  <2>1. wpc'[s] = wpc[s] /\ wpc[s] \in {"log", "torn", "sync", "insert"}
    BY <1>11
  <2>2. group.n \in Nat /\ group.n <= Len(queue) /\ 1 <= group.n
    BY <2>1 DEF Writing, TypedWriters
  <2>3. /\ RecsOf(logs[logfileNumber])' = RecsOf(logs[logfileNumber])
        /\ SyncedRecs(logs[logfileNumber])' = SyncedRecs(logs[logfileNumber])
    BY <1>1 DEF RecsOf, SyncedRecs
  <2> QED
    BY <1>1, <1>3, <2>1, <2>2, <2>3 DEF Writing, Ids
<1> QED
  BY <1>2, <1>7, <1>8, <1>9, <1>10, <1>13 DEF Writing, Ids, RecsOf, SyncedRecs

\* The first n writers leave; whoever is first then has been woken.
LEMMA PopKeeps ==
  ASSUME TypedWriters, Writing, NEW n \in 1..Len(queue), NEW ok \in BOOLEAN,
         queue' = SubSeq(queue, n + 1, Len(queue)), group' = NoGroup,
         wpc' = Popped(n, ok) \/ wpc' = SignalAll(Popped(n, ok))
  PROVE  TypedWriters' /\ Writing'
<1> DEFINE P == Popped(n, ok)
<1> DEFINE W == [t : Threads, kind : {"write", "flush"}, sync : BOOLEAN]
<1>a. queue \in Seq(W)
  BY DEF TypedWriters
<1> HIDE DEF W
<1>1. /\ Len(queue) \in Nat /\ n \in Nat /\ 1 <= n /\ n <= Len(queue)
      /\ queue' \in Seq(W) /\ Len(queue') = Len(queue) - n
      /\ \A i \in 1..Len(queue') : queue'[i] = queue[n + i]
  BY <1>a, RestOfSeq
<1>2. ASSUME NEW i \in 1..Len(queue)
      PROVE  /\ queue[i].t \in Threads
             /\ i <= n => P[queue[i].t] \in {"flushed", "idle"}
             /\ i = n + 1 => P[queue[i].t] = "front"
             /\ i > n + 1 => P[queue[i].t] = "queued"
  <2>1. queue[i].t \in Threads
    BY QueuedThreads
  <2>7. \A k \in 1..Len(queue) : queue[k].t = queue[i].t => k = i
    BY DEF Writing
  <2>2. {k \in 1..Len(queue) : queue[k].t = queue[i].t} = {i}
    BY <2>7
  <2>3. wpc[queue[i].t] \in IF i = 1 THEN Leading ELSE {"queued"}
    BY DEF Writing
  <2>4. i > n + 1 => i \notin 1..n /\ i # n + 1
    BY <1>1
  <2>11. i > n + 1 => /\ {i} \cap 1..n = {} /\ {i} # {n + 1}
    BY <2>4
  <2>5. i = n + 1 => {i} \cap 1..n = {}
    BY <1>1
  <2>6. i <= n => {i} \cap 1..n # {}
    BY <1>1
  <2>8. P[queue[i].t] =
          IF {i} \cap 1..n # {}
          THEN IF ok /\ \E k \in {i} : queue[k].kind = "flush" THEN "flushed" ELSE "idle"
          ELSE IF {i} = {n + 1} THEN "front" ELSE wpc[queue[i].t]
    BY <2>1, <2>2 DEF Popped
  <2>9. i <= n \/ i = n + 1 \/ i > n + 1
    BY <1>1
  <2>10. i > n + 1 => i # 1 /\ ~(i <= n) /\ i # n + 1
    BY <1>1
  <2> QED
    BY <2>1, <2>3, <2>5, <2>6, <2>8, <2>9, <2>10, <2>11
<1>3. ASSUME NEW t \in Threads, \A i \in 1..Len(queue) : queue[i].t # t
      PROVE  P[t] = wpc[t] /\ wpc[t] \notin Leading
  <2>1. {k \in 1..Len(queue) : queue[k].t = t} = {}
    BY <1>3
  <2>2. wpc[t] \notin Leading
    BY <1>1, <1>3 DEF Writing
  <2> QED
    BY <2>1, <2>2 DEF Popped
<1>4. P \in [Threads -> ThreadStates]
  BY DEF Popped, TypedWriters, ThreadStates
<1>5. ASSUME NEW t \in Threads
      PROVE  /\ P[t] \notin {"waitRoom", "log", "torn", "sync", "insert"}
             /\ P[t] = "front" => n < Len(queue) /\ queue[n + 1].t = t
  <2>1. CASE \E i \in 1..Len(queue) : queue[i].t = t
    BY <1>1, <1>2, <2>1
  <2>2. CASE ~\E i \in 1..Len(queue) : queue[i].t = t
    BY <1>3, <2>2 DEF Leading
  <2> QED
    BY <2>1, <2>2
<1>6. /\ wpc' \in [Threads -> ThreadStates]
      /\ \A t \in Threads :
           wpc'[t] = P[t] \/ (P[t] = "waitFlush" /\ wpc'[t] = "flushed")
  BY <1>4, <1>5 DEF SignalAll, ThreadStates, Leading
<1>7. TypedWriters'
  <2>1. group' \in [entries : SUBSET Entries, n : Nat, sync : BOOLEAN, promised : SUBSET Nat]
        /\ group'.entries = {}
    BY DEF NoGroup
  <2> QED
    BY <1>1, <1>6, <2>1, FS_EmptySet DEF TypedWriters, W
<1>8. \A i, j \in 1..Len(queue') : queue'[i].t = queue'[j].t => i = j
  <2>1. \A i, j \in 1..Len(queue) : queue[i].t = queue[j].t => i = j
    BY DEF Writing
  <2> TAKE i, j \in 1..Len(queue')
  <2>2. /\ i + n \in 1..Len(queue) /\ queue'[i] = queue[i + n]
        /\ j + n \in 1..Len(queue) /\ queue'[j] = queue[j + n]
    BY <1>1
  <2>3. queue'[i].t = queue'[j].t => i + n = j + n
    BY <2>1, <2>2
  <2> QED
    BY <2>3
<1>9. \A i \in 1..Len(queue') :
        wpc'[queue'[i].t] \in IF i = 1 THEN Leading ELSE {"queued"}
  <2> TAKE i \in 1..Len(queue')
  <2>1. n + i \in 1..Len(queue) /\ queue'[i] = queue[n + i] /\ (i > 1 => n + i > n + 1)
        /\ (i = 1 => n + i = n + 1)
    BY <1>1
  <2> DEFINE t == queue[n + i].t
  <2>2. t \in Threads /\ (i = 1 => P[t] = "front") /\ (i > 1 => P[t] = "queued")
    BY <1>2, <2>1
  <2>3. wpc'[t] = P[t] \/ (P[t] = "waitFlush" /\ wpc'[t] = "flushed")
    BY <1>6, <2>2
  <2>4. i = 1 \/ i > 1
    BY <1>1
  <2> QED
    BY <2>1, <2>2, <2>3, <2>4 DEF Leading
<1>10. \A t \in Threads : wpc'[t] \in Leading => queue' # <<>> /\ queue'[1].t = t
  <2> TAKE t \in Threads
  <2> HAVE wpc'[t] \in Leading
  <2>1. P[t] \in Leading
    BY <1>6 DEF Leading
  <2>2. n < Len(queue) /\ queue[n + 1].t = t
    BY <1>5, <2>1 DEF Leading
  <2>3. Len(queue') > 0 /\ queue'[1] = queue[n + 1]
    BY <1>1, <2>2
  <2>5. Len(queue') # 0
    BY <2>3
  <2>4. queue' # <<>>
    BY <1>1, <2>5, LengthOfSeq, Zenon
  <2> QED
    BY <2>2, <2>3, <2>4
<1>11. \A t \in Threads : wpc'[t] \notin {"log", "torn", "sync", "insert"}
  BY <1>5, <1>6 DEF Leading
<1> QED
  BY <1>7, <1>8, <1>9, <1>10, <1>11 DEF Writing

LEMMA WritesAreCounted ==
  ASSUME NEW n \in Nat
  PROVE  Writes(n) \in Nat
<1>2. IsFiniteSet(1..n)
  BY FS_Interval
<1>1. IsFiniteSet({i \in 1..n : queue[i].kind = "write"})
  BY <1>2, FS_Subset
<1> QED
  BY <1>1, FS_CardinalityType DEF Writes

\* The group of a leader: entries of its own and of its followers.
LEMMA GroupIsTyped ==
  ASSUME TypedWriters, TypedMemory, TypedHistory, Len(queue) > 0,
         NEW n \in 1..Len(queue), LastWriter(n), BuildBatchGroup(n)
  PROVE  /\ group' \in [entries : SUBSET Entries, n : Nat, sync : BOOLEAN,
                        promised : SUBSET Nat]
         /\ IsFiniteSet(group'.entries) /\ group'.n = n
         /\ group'.promised \subseteq Ids(group'.entries)
         /\ group'.promised # {} => group'.sync
         /\ nextId' \in Nat \ {0}
<1> DEFINE Id(i) == nextId + Writes(i) - 1
           Seq0(i) == versions.seq + Writes(i)
           E(i) == [id |-> Id(i), seq |-> Seq0(i)]
           all == {i \in 1..n : queue[i].kind = "write"}
           promised == {Id(i) : i \in {k \in all : queue[k].sync}}
<1>0. Len(queue) \in Nat /\ n \in Nat /\ n \in 1..Len(queue)
  BY DEF TypedWriters
<1>1. /\ group' = [entries |-> {E(i) : i \in all}, n |-> n, sync |-> queue[1].sync,
                   promised |-> promised]
      /\ nextId' = nextId + Writes(n)
  BY DEF BuildBatchGroup
<1>2. \A i \in 1..n : Writes(i) \in Nat
  BY <1>0, WritesAreCounted
<1>3. versions.seq \in Nat /\ nextId \in Nat \ {0}
  BY DEF TypedMemory, TypedHistory
<1>4. \A i \in 1..n : Id(i) \in Nat /\ Seq0(i) \in Nat
  BY <1>2, <1>3
<1>5. \A i \in all : E(i) \in Entries
  BY <1>4 DEF Entries
<1>6. IsFiniteSet(all)
  <2>1. IsFiniteSet(1..n)
    BY <1>0, FS_Interval
  <2> QED
    BY <2>1, FS_Subset
<1>7. IsFiniteSet({E(i) : i \in all})
  <2> DEFINE T == {E(i) : i \in all}
             f == [i \in all |-> E(i)]
  <2>1. f \in Surjection(all, T)
    BY DEF Surjection
  <2> HIDE DEF all, f, T
  <2>2. IsFiniteSet(T)
    BY <1>6, <2>1, FS_Surjection
  <2> QED
    BY <2>2 DEF T
<1>8. queue[1].sync \in BOOLEAN
  <2> DEFINE W == [t : Threads, kind : {"write", "flush"}, sync : BOOLEAN]
  <2>1. queue \in Seq(W) /\ 1 \in 1..Len(queue)
    BY DEF TypedWriters
  <2>2. queue[1] \in W
    <3> HIDE DEF W
    <3> QED BY <2>1
  <2> QED
    BY <2>2
<1>9. promised \subseteq Ids({E(i) : i \in all})
  <2> SUFFICES ASSUME NEW k \in all
               PROVE  Id(k) \in Ids({E(i) : i \in all})
    OBVIOUS
  <2>1. E(k) \in {E(i) : i \in all} /\ E(k).id = Id(k)
    OBVIOUS
  <2> QED
    BY <2>1 DEF Ids
<1>10. promised # {} => queue[1].sync
  <2> SUFFICES ASSUME NEW k \in all, queue[k].sync
               PROVE  queue[1].sync
    OBVIOUS
  <2>1. CASE k = 1
    BY <2>1
  <2>2. CASE k # 1
    BY <2>2, <1>0 DEF LastWriter, MayGroup
  <2> QED
    BY <2>1, <2>2
<1>11. nextId' \in Nat \ {0}
  <2>1. Writes(n) \in Nat
    BY <1>0, WritesAreCounted
  <2> QED
    BY <1>1, <1>3, <2>1
<1>12. promised \in SUBSET Nat /\ {E(i) : i \in all} \in SUBSET Entries
  BY <1>4, <1>5
<1> HIDE DEF promised, all, E
<1> QED
  BY <1>0, <1>1, <1>7, <1>8, <1>9, <1>10, <1>11, <1>12

LEMMA LeadKeeps ==
  ASSUME TypedWriters, TypedMemory, TypedHistory, Writing, NEW t \in Threads,
         wpc[t] = "front", Lead(t)
  PROVE  TypedWriters' /\ Writing' /\ TypedHistory'
<1>1. Len(queue) > 0 /\ queue[1].t = t /\ queue' = queue
  BY LengthOfSeq, QueuedThreads DEF TypedWriters, Writing, Leading, Lead
<1>2. PICK n \in 1..Len(queue) : LastWriter(n) /\ BuildBatchGroup(n)
  BY DEF Lead
<1>3. /\ group' \in [entries : SUBSET Entries, n : Nat, sync : BOOLEAN,
                     promised : SUBSET Nat]
      /\ IsFiniteSet(group'.entries) /\ group'.n = n
      /\ group'.promised \subseteq Ids(group'.entries)
      /\ group'.promised # {} => group'.sync
      /\ nextId' \in Nat \ {0}
  BY <1>1, <1>2, GroupIsTyped
<1>4. wpc' = [wpc EXCEPT ![t] = "log"] /\ UNCHANGED <<acked, durable>>
  BY DEF Lead
<1>5. \A s \in Threads : wpc'[s] = IF s = t THEN "log" ELSE wpc[s]
  BY <1>4 DEF TypedWriters
<1>6. \A s \in Threads : wpc[s] \in Leading => s = t
  BY <1>1 DEF Writing
<1>7. TypedWriters'
  BY <1>1, <1>3, <1>4 DEF TypedWriters, ThreadStates
<1>8. \A i \in 1..Len(queue) : queue[i].t \in Threads
  BY QueuedThreads
<1>9. \A i \in 1..Len(queue) :
        wpc'[queue[i].t] \in IF i = 1 THEN Leading ELSE {"queued"}
  BY <1>1, <1>5, <1>8 DEF Writing, Leading
<1>10. \A s \in Threads : wpc'[s] \in Leading => s = t
  BY <1>5, <1>6
<1>11. 1 <= n /\ n <= Len(queue)
  BY DEF TypedWriters
<1>12. queue # <<>>
  BY DEF Writing, Leading
<1>13. Writing'
  BY <1>1, <1>3, <1>5, <1>9, <1>10, <1>11, <1>12 DEF Writing, Ids, Leading
<1> QED
  BY <1>3, <1>4, <1>7, <1>13 DEF TypedHistory

\* A writer that goes from one state of its own to another.
LEMMA MoveKeeps ==
  ASSUME TypedWriters, Writing, NEW t \in Threads, NEW pc \in ThreadStates,
         wpc' = [wpc EXCEPT ![t] = pc], UNCHANGED <<queue, group, logs, logfileNumber>>,
         \/ wpc[t] \in {"front", "waitRoom"} /\ pc \in {"front", "waitRoom"}
         \/ wpc[t] \in {"idle", "flushed", "waitFlush"}
              /\ pc \in {"idle", "flushed", "waitFlush"}
  PROVE  TypedWriters' /\ Writing'
<1>1. \A s \in Threads : wpc'[s] = IF s = t THEN pc ELSE wpc[s]
  BY DEF TypedWriters
<1>2. TypedWriters'
  BY DEF TypedWriters
<1>3. \A i \in 1..Len(queue) : queue[i].t \in Threads
  BY QueuedThreads
<1>4. \A i \in 1..Len(queue) :
        wpc'[queue[i].t] \in IF i = 1 THEN Leading ELSE {"queued"}
  BY <1>1, <1>3 DEF Writing, Leading
<1>5. \A s \in Threads : wpc'[s] \in Leading => wpc[s] \in Leading
  BY <1>1 DEF Leading
<1>6. \A s \in Threads : wpc'[s] \in {"log", "torn", "sync", "insert"} => wpc'[s] = wpc[s]
  BY <1>1
<1> QED
  BY <1>2, <1>4, <1>5, <1>6 DEF Writing, RecsOf, SyncedRecs, Ids

LEMMA FrontIsFirst ==
  ASSUME TypedWriters, Writing, NEW t \in Threads, wpc[t] \in Leading
  PROVE  /\ Len(queue) \in Nat /\ Len(queue) > 0 /\ 1 \in 1..Len(queue)
         /\ queue # <<>> /\ queue[1].t = t
         /\ \A s \in Threads : wpc[s] \in Leading => s = t
BY LengthOfSeq DEF TypedWriters, Writing
-----------------------------------------------------------------------------
\* Steps of the writers that touch neither files nor memory.
LEMMA WriterStep ==
  ASSUME DBInv, NEW t \in Threads,
         \/ EnterWrite(t) \/ EnterFlush(t) \/ RefuseWrite(t) \/ StartWrite(t)
         \/ WaitForRoom(t) \/ SwitchFails(t) \/ AwaitFlush(t)
  PROVE  DBInv'
<1> USE DEF Typed
<1>1. /\ phase = "open"
      /\ UNCHANGED <<disk, opening, memory, background, acked, durable>>
  BY DEF EnterWrite, EnterFlush, Enter, RefuseWrite, StartWrite, Lead, WaitForRoom, SwitchFails,
         AwaitFlush, IsFront, Unlocked, history
<1>2. /\ TypedLogs' /\ TypedTables' /\ TypedManifests' /\ TypedMemory'
      /\ TypedBackground' /\ DiskIsSound' /\ Recovering' /\ VersionIsFound'
      /\ MemoryIsLogged' /\ Working' /\ Deleting'
  BY <1>1, WriterFrame
<1>3. UNCHANGED <<logs, logfileNumber>>
  BY <1>1 DEF disk, memory
<1> SUFFICES TypedWriters' /\ TypedHistory' /\ TypedBudget' /\ Writing'
  BY <1>2 DEF DBInv
<1>4. TypedWriters /\ TypedHistory /\ TypedBudget /\ Writing /\ TypedMemory
  BY DEF DBInv
<1>5. CASE EnterWrite(t)
  <2>1. PICK sync \in Sync : Enter(t, "write", sync)
    BY <1>5 DEF EnterWrite
  <2>2. sync \in BOOLEAN
    BY DatabaseAssumption DEF DBAssumption
  <2>3. UNCHANGED <<nextId, acked, durable, budget>>
    BY <1>5, <2>1 DEF EnterWrite, Enter
  <2> QED
    BY <1>4, <2>1, <2>2, <2>3, EnterKeeps, KeepTyped
<1>6. CASE EnterFlush(t)
  <2>1. Enter(t, "flush", FALSE) /\ Spend("flush") /\ "flush" \in BudgetKinds
    BY <1>6 DEF EnterFlush, BudgetKinds
  <2>2. UNCHANGED <<nextId, acked, durable>>
    BY <2>1 DEF Enter
  <2> QED
    BY <1>4, <2>1, <2>2, EnterKeeps, KeepTyped, SpendTyped
<1>7. CASE RefuseWrite(t) \/ SwitchFails(t)
  <2>1. PopFront(1, Popped(1, FALSE)) /\ UNCHANGED <<nextId, acked, durable>> /\ wpc[t] = "front"
    BY <1>7 DEF RefuseWrite, SwitchFails, IsFront, history
  <2>2. 1 \in 1..Len(queue)
    BY <1>4, <2>1, FrontIsFirst DEF Leading
  <2>3. TypedWriters' /\ Writing'
    BY <1>4, <2>1, <2>2, PopKeeps DEF PopFront
  <2>4. TypedBudget'
    BY <1>4, <1>7, KeepTyped, SpendTyped DEF RefuseWrite, SwitchFails, BudgetKinds
  <2> QED
    BY <1>4, <2>1, <2>3, <2>4, KeepTyped
<1>8. CASE StartWrite(t)
  <2>1. Lead(t) /\ wpc[t] = "front" /\ UNCHANGED budget
    BY <1>8 DEF StartWrite, Lead, IsFront
  <2> QED
    BY <1>4, <2>1, LeadKeeps, KeepTyped
<1>9. CASE WaitForRoom(t) \/ AwaitFlush(t)
  <2>1. /\ UNCHANGED <<queue, group, nextId, acked, durable, budget>>
        /\ \E pc \in ThreadStates :
             /\ wpc' = [wpc EXCEPT ![t] = pc]
             /\ \/ wpc[t] \in {"front", "waitRoom"} /\ pc \in {"front", "waitRoom"}
                \/ wpc[t] \in {"idle", "flushed", "waitFlush"}
                     /\ pc \in {"idle", "flushed", "waitFlush"}
    BY <1>9 DEF WaitForRoom, AwaitFlush, IsFront, ThreadStates, history
  <2>2. TypedWriters' /\ Writing'
    BY <1>3, <1>4, <2>1, MoveKeeps
  <2> QED
    BY <1>4, <2>1, <2>2, KeepTyped
<1> QED
  BY <1>5, <1>6, <1>7, <1>8, <1>9
-----------------------------------------------------------------------------
LEMMA IdsGrow ==
  /\ \A A, B : A \subseteq B => Ids(A) \subseteq Ids(B)
  /\ \A A, B : Ids(A \cup B) = Ids(A) \cup Ids(B)
BY DEF Ids

LEMMA IdsOfMore ==
  \A A, B : A \subseteq B => Ids(A) \subseteq Ids(B)
BY DEF Ids

LEMMA EntriesGrow ==
  /\ \A A, B : A \subseteq B => EntriesOf(A) \subseteq EntriesOf(B)
  /\ \A A, B : EntriesOf(A \cup B) = EntriesOf(A) \cup EntriesOf(B)
BY DEF EntriesOf

\* The last record of the MANIFEST in use is a state a reopening may find.
LEMMA LastSurvives ==
  ASSUME TypedManifests, DiskIsSound, current # NoFile
  PROVE  /\ current \in DOMAIN manifests /\ Len(manifests[current].recs) \in Nat
         /\ manifests[current].synced \in Nat
         /\ manifests[current].synced <= Len(manifests[current].recs)
         /\ manifests[current].recs \in Seq(States)
         /\ St \in Survivors(current) /\ Sound(St)
<1>1. current \in DOMAIN manifests /\ manifests[current] \in Records(States)
  BY DEF DiskIsSound, TypedManifests
<1>2. /\ Len(manifests[current].recs) \in Nat /\ manifests[current].synced \in Nat
      /\ manifests[current].synced <= Len(manifests[current].recs)
      /\ manifests[current].recs \in Seq(States)
  BY <1>1 DEF Records, TypedManifests
<1>3. Len(manifests[current].recs) \in Cut(manifests[current])
  BY <1>2 DEF Cut
<1>4. St \in Survivors(current)
  BY <1>3 DEF Survivors, St, LastRecord
<1> QED
  BY <1>1, <1>2, <1>4 DEF DiskIsSound

LEMMA TornSurvives ==
  \A k \in manifests[current].torn : manifests[current].recs[k] \in Survivors(current)
BY DEF Survivors, Cut

\* Whatever keeps the MANIFEST in use, and the tables and logs that its states name,
\* leaves a sound disk.
LEMMA DiskKeeps ==
  ASSUME TypedManifests, TypedMemory, DiskIsSound,
         UNCHANGED <<current, acked, durable>>,
         current = NoFile => phase' \in {"closed", "created"},
         current # NoFile =>
           /\ current \in DOMAIN manifests' /\ manifests'[current] = manifests[current]
           /\ \A s \in Survivors(current) :
                /\ \A f \in s.files : f[2] \in DOMAIN tables' /\ tables'[f[2]] = tables[f[2]]
                /\ \A n \in DOMAIN logs : n >= s.log =>
                     /\ n \in DOMAIN logs'
                     /\ RecsOf(logs[n]) \subseteq RecsOf(logs'[n])
                     /\ SyncedRecs(logs[n]) \subseteq SyncedRecs(logs'[n])
  PROVE  DiskIsSound'
<1>1. CASE current = NoFile
  BY <1>1 DEF DiskIsSound, MayCrash
<1>2. CASE current # NoFile
  <2>1. current \in DOMAIN manifests' /\ manifests'[current] = manifests[current]
    BY <1>2
  <2>2. St \in Survivors(current)
    BY <1>2, LastSurvives
  <2>3. St' = St /\ Survivors(current)' = Survivors(current)
    BY <2>1 DEF St, LastRecord, Survivors, Cut
  <2>4. ASSUME NEW s \in Survivors(current)
        PROVE  /\ (UNION {tables'[f[2]] : f \in s.files}) = EntriesOf(s.files)
               /\ LogsFrom(s.log) \subseteq (UNION {RecsOf(logs'[k]) : k \in {k \in DOMAIN logs' : k >= s.log}})
               /\ SyncedFrom(s.log) \subseteq (UNION {SyncedRecs(logs'[k]) : k \in {k \in DOMAIN logs' : k >= s.log}})
    BY <1>2 DEF EntriesOf, LogsFrom, SyncedFrom
  <2>5. ASSUME NEW s \in Survivors(current), Sound(s)
        PROVE  Sound(s)'
    BY <1>2, <2>3, <2>4, IdsGrow, <2>5 DEF Sound, EntriesOf, LogsFrom, SyncedFrom, MayCrash, Ids
  <2>6. ASSUME NEW s \in Survivors(current), Holds(s)
        PROVE  Holds(s)'
    BY <2>4, <2>6 DEF Holds, EntriesOf, LogsFrom, Ids
  <2> QED
    BY <1>2, <2>1, <2>2, <2>3, <2>5, <2>6, TornSurvives DEF DiskIsSound, NextGrows, Cut, MayCrash
<1> QED
  BY <1>1, <1>2
-----------------------------------------------------------------------------
LEMMA EmptyLogFacts ==
  /\ EmptyLog \in [recs : Seq(SUBSET Entries), synced : Nat, torn : SUBSET Nat]
  /\ EmptyLog.synced <= Len(EmptyLog.recs)
  /\ RecsOf(EmptyLog) = {} /\ SyncedRecs(EmptyLog) = {}
BY DEF EmptyLog, RecsOf, SyncedRecs, Range

\* A full memtable becomes imm_, and a new log is opened.
LEMMA SwitchStep ==
  ASSUME DBInv, NEW t \in Threads, SwitchMemTable(t)
  PROVE  DBInv'
<1> USE DEF Typed
<1>1. /\ phase = "open" /\ wpc[t] = "front" /\ ~bgError /\ imm = NoTable /\ deleting = {}
      /\ versions' = [versions EXCEPT !.next = @ + 1]
      /\ logs' = Put(logs, versions.next, EmptyLog)
      /\ logfileNumber' = versions.next
      /\ imm' = {mem} /\ mem' = {}
      /\ bgpc' = MaybeSchedule(bgpc, versions.files, {mem}, FALSE)
      /\ \/ PopFront(1, Popped(1, TRUE)) /\ UNCHANGED <<history, budget>>
         \/ Lead(t)
      /\ UNCHANGED <<tables, manifests, current, phase, toReplay, bgError, shuttingDown,
                     pendingOutputs, readers, deleting, edit, job, merge>>
  BY DEF SwitchMemTable, IsFront, Unlocked, MustWait, opening
<1>2. UNCHANGED <<acked, durable, budget>>
  BY <1>1 DEF Lead, history
<1>3. TypedWriters /\ TypedMemory /\ TypedHistory /\ Writing /\ TypedLogs /\ TypedTables
      /\ TypedManifests /\ TypedBackground /\ TypedBudget /\ DiskIsSound /\ Up
      /\ VersionIsFound /\ MemoryIsLogged /\ Working /\ Deleting
  BY <1>1 DEF DBInv, Up
<1> DEFINE n == versions.next
<1>4. /\ n \in Nat /\ n # 0 /\ versions'.next = n + 1
      /\ versions'.files = versions.files /\ versions'.log = versions.log
      /\ versions'.seq = versions.seq /\ versions'.manifest = versions.manifest
      /\ versions' \in [files : Files, log : Nat, next : Nat, seq : Nat, manifest : Nat]
  <2>1. /\ versions \in [files : Files, log : Nat, next : Nat, seq : Nat, manifest : Nat]
        /\ versions' = [versions EXCEPT !.next = n + 1]
    BY <1>1, <1>3 DEF TypedMemory
  <2>2. logfileNumber \in Nat /\ logfileNumber < n
    BY <1>3 DEF TypedMemory, MemoryIsLogged, LogsAreOld
  <2> QED
    BY <2>1, <2>2
<1>5. /\ \A k \in DOMAIN logs : k < n
      /\ n \notin DOMAIN logs /\ logfileNumber \in DOMAIN logs /\ logfileNumber < n
  BY <1>3, <1>4 DEF MemoryIsLogged, LogsAreOld, TypedLogs
<1>6. /\ DOMAIN logs' = DOMAIN logs \cup {n} /\ logs'[n] = EmptyLog
      /\ \A k \in DOMAIN logs : logs'[k] = logs[k]
  BY <1>1, <1>5 DEF Put
<1>7. bgpc' = bgpc \/ (bgpc = "idle" /\ bgpc' = "scheduled")
  <2>1. bgpc' = MaybeSchedule(bgpc, versions.files, {mem}, FALSE)
    BY <1>1
  <2> QED
    BY <2>1, Zenon DEF MaybeSchedule
<1>8. TypedLogs'
  BY <1>3, <1>4, <1>6, EmptyLogFacts DEF TypedLogs
<1>9. TypedTables' /\ TypedManifests' /\ TypedBudget'
  BY <1>1, <1>2, <1>3, KeepTyped
<1>10. TypedMemory'
  <2>1. toReplay' \subseteq DOMAIN logs'
    BY <1>1, <1>3, <1>6 DEF VersionIsFound
  <2> QED
    BY <1>1, <1>3, <1>4, <2>1 DEF TypedMemory
<1>11. TypedBackground'
  BY <1>1, <1>3, <1>7 DEF TypedBackground
<1>12. TypedWriters' /\ TypedHistory' /\ Writing'
  <2>1. CASE PopFront(1, Popped(1, TRUE)) /\ UNCHANGED <<history, budget>>
    <3>1. 1 \in 1..Len(queue)
      BY <1>1, <1>3, FrontIsFirst DEF Leading
    <3> QED
      BY <1>3, <2>1, <3>1, PopKeeps, KeepTyped DEF PopFront, history
  <2>2. CASE Lead(t)
    BY <1>1, <1>3, <2>2, LeadKeeps
  <2> QED
    BY <1>1, <2>1, <2>2
<1>13. DiskIsSound'
  BY <1>1, <1>2, <1>3, <1>6, LastSurvives, DiskKeeps DEF VersionIsFound, Sound, DiskIsSound
<1>14. Recovering'
  BY <1>1, OpenRecovers
<1>15. St' = St /\ Survivors(current)' = Survivors(current)
       /\ Cut(manifests[current])' = Cut(manifests[current])
  BY <1>1 DEF St, LastRecord, Survivors, Cut, MayCrash
<1>16. VersionIsFound'
  <2>1. current \in Nat
    BY <1>3 DEF VersionIsFound, TypedMemory
  <2>2. \A s \in Survivors(current) : s.log <= n
    <3>1. current # NoFile /\ \A s \in Survivors(current) : s.log <= logfileNumber
      BY <1>3 DEF VersionIsFound
    <3>2. \A s \in Survivors(current) : s.log \in Nat
      BY <1>3, <3>1 DEF DiskIsSound, Sound
    <3> QED
      BY <1>3, <1>4, <1>5, <3>1, <3>2 DEF TypedMemory
  <2>3. St.next <= versions.next + 1 /\ current < versions.next + 1
        /\ \A f \in versions.files : f[2] < versions.next + 1
    <3>1. St.next \in Nat
      BY <1>3, LastSurvives DEF VersionIsFound, Sound
    <3>2. \A f \in versions.files : f[2] \in Nat
      BY <1>3 DEF TypedMemory, Files
    <3> QED
      BY <1>3, <1>4, <2>1, <3>1, <3>2 DEF VersionIsFound
  <2> QED
    BY <1>1, <1>3, <1>4, <1>7, <1>15, <2>2, <2>3 DEF VersionIsFound, Up, FilesExist
<1>17. MemoryIsLogged'
  <2>1. UNION imm' = mem /\ \E e \in imm' : imm' = {e}
    BY <1>1
  <2>2. mem \subseteq LogsFrom(versions.log)'
    BY <1>3, <1>4, <1>6 DEF MemoryIsLogged, LogsFrom
  <2>3. Visible' = Visible
    BY <1>1, <1>4 DEF Visible, EntriesOf, NoTable
  <2>4. LogsAreOld({})'
    BY <1>3, <1>4, <1>5, <1>6 DEF LogsAreOld, TypedLogs
  <2>5. versions.log <= n
    BY <1>3, <1>4, <1>5 DEF MemoryIsLogged, TypedMemory, TypedLogs
  <2>6. durable \subseteq Ids((UNION imm') \cup EntriesOf(versions.files))
    BY <1>1, <1>3, <2>1 DEF MemoryIsLogged, Visible, TypedHistory, NoTable
  <2>7. EntriesOf(versions.files)' = EntriesOf(versions.files)
    BY <1>1, <1>4 DEF EntriesOf
  <2>8. durable' \subseteq Ids((UNION imm) \cup EntriesOf(versions.files)
                                \cup SyncedRecs(logs[logfileNumber]))'
    BY <1>2, <2>6, <2>7, IdsGrow DEF Ids
  <2>9. acked' \subseteq Ids(Visible)'
    BY <1>2, <1>3, <2>3 DEF MemoryIsLogged, Ids
  <2> QED
    BY <1>1, <1>4, <1>6, <2>1, <2>2, <2>4, <2>5, <2>8, <2>9, EmptyLogFacts
       DEF MemoryIsLogged, RecsOf
<1>18. Working'
  <2>1. \A m \in pendingOutputs : m < versions.next + 1
    BY <1>3, <1>4 DEF Working, TypedMemory
  <2>2. merge.out # NoFile => merge.out < versions.next + 1
    BY <1>3, <1>4 DEF Working, TypedBackground, NoFile
  <2>3. bgpc \in {"append", "sync"} => edit.next <= versions.next + 1
    BY <1>3, <1>4 DEF Working
  <2>4. bgpc # "build" /\ (bgpc \in {"append", "sync"} => job.kind # "flush")
    BY <1>1, <1>3 DEF Working
  <2>5. EntriesOf(edit.del)' = EntriesOf(edit.del) /\ EntriesOf(edit.add)' = EntriesOf(edit.add)
        /\ EntriesOf(merge.in)' = EntriesOf(merge.in)
    BY <1>1 DEF EntriesOf
  <2>6. CASE bgpc' = bgpc
    <3>1. /\ UNCHANGED <<edit, job, merge, deleting, pendingOutputs, tables, phase, bgError,
                       St>>
          /\ logfileNumber' = n /\ versions'.next = n + 1
          /\ versions'.files = versions.files /\ versions'.log = versions.log
      BY <1>1, <1>4, <1>15
    <3>2. CASE bgpc \in {"append", "sync"}
      <4>1. /\ bgpc' \notin {"idle", "scheduled", "end", "merge", "build"}
            /\ job.kind # "flush" /\ edit.next <= versions'.next
        BY <2>3, <2>4, <2>6, <3>1, <3>2
      <4> QED
        BY <1>3, <2>1, <2>2, <2>5, <2>6, <3>1, <3>2, <4>1 DEF Working, Up
    <3>3. CASE bgpc \notin {"append", "sync"}
      BY <1>3, <2>1, <2>2, <2>4, <2>5, <2>6, <3>1, <3>3 DEF Working, Up
    <3> QED
      BY <3>2, <3>3
  <2>7. CASE bgpc = "idle" /\ bgpc' = "scheduled"
    BY <1>1, <1>3, <1>4, <1>15, <2>1, <2>2, <2>5, <2>7 DEF Working, Up
  <2> QED
    BY <1>7, <2>6, <2>7
<1>19. Deleting'
  BY <1>1, <1>3, <1>4 DEF Deleting, FilesExist, Numbers
<1> QED
  BY <1>8, <1>9, <1>10, <1>11, <1>12, <1>13, <1>14, <1>16, <1>17, <1>18, <1>19 DEF DBInv
-----------------------------------------------------------------------------
\* What follows when one log gets more records, or more of them synced.
LEMMA LogGrows ==
  ASSUME DBInv, phase = "open", NEW n \in DOMAIN logs,
         logs' \in [DOMAIN logs -> [recs : Seq(SUBSET Entries), synced : Nat, torn : SUBSET Nat]],
         \A k \in DOMAIN logs : k # n => logs'[k] = logs[k],
         logs'[n].synced <= Len(logs'[n].recs),
         RecsOf(logs[n]) \subseteq RecsOf(logs'[n]),
         SyncedRecs(logs[n]) \subseteq SyncedRecs(logs'[n]),
         UNCHANGED <<tables, manifests, current, opening, memory, background, history>>
  PROVE  /\ TypedLogs' /\ TypedTables' /\ TypedManifests' /\ TypedMemory'
         /\ TypedBackground' /\ TypedHistory' /\ DiskIsSound' /\ Recovering'
         /\ VersionIsFound' /\ MemoryIsLogged' /\ Working' /\ Deleting'
<1> USE DEF Typed
<1>1. /\ TypedLogs /\ TypedTables /\ TypedManifests /\ TypedMemory /\ TypedBackground
      /\ TypedHistory /\ DiskIsSound /\ VersionIsFound /\ MemoryIsLogged
      /\ Working /\ Deleting /\ Up
  BY DEF DBInv, Up
<1>2. /\ DOMAIN logs' = DOMAIN logs
      /\ \A k \in DOMAIN logs : /\ RecsOf(logs[k]) \subseteq RecsOf(logs'[k])
                                /\ SyncedRecs(logs[k]) \subseteq SyncedRecs(logs'[k])
  OBVIOUS
<1>3. UNCHANGED <<phase, toReplay, versions, mem, imm, logfileNumber, bgError, pendingOutputs,
                  readers, deleting, edit, bgpc, job, merge, acked, durable, nextId>>
  BY DEF opening, memory, background, history
<1>4. TypedLogs'
  BY <1>1, <1>2 DEF TypedLogs
<1>5. TypedMemory'
  BY <1>1, <1>2, <1>3 DEF TypedMemory
<1>6. /\ TypedTables' /\ TypedManifests' /\ TypedBackground' /\ TypedHistory'
      /\ Recovering' /\ VersionIsFound' /\ Working' /\ Deleting'
  BY <1>1, <1>3, KeepTyped, OpenRecovers, KeepVersion, KeepWorking, KeepDeleting
<1>7. current # NoFile /\ current \in DOMAIN manifests /\ \A s \in Survivors(current) : Sound(s)
  BY <1>1 DEF VersionIsFound, DiskIsSound
<1>8. DiskIsSound'
  BY <1>1, <1>2, <1>3, <1>7, DiskKeeps DEF Sound
<1>9. MemoryIsLogged'
  <2>1. LogsAreOld({})' /\ logfileNumber \in DOMAIN logs' /\ versions.log <= logfileNumber
    BY <1>1, <1>2, <1>3 DEF MemoryIsLogged, LogsAreOld
  <2>2. mem \subseteq RecsOf(logs'[logfileNumber])
    BY <1>1, <1>2 DEF MemoryIsLogged
  <2>3. LogsFrom(versions.log) \subseteq LogsFrom(versions.log)'
    BY <1>2, <1>3 DEF LogsFrom
  <2>4. UNION imm' \subseteq LogsFrom(versions.log)'
    BY <1>1, <1>3, <2>3 DEF MemoryIsLogged
  <2>5. EntriesOf(versions.files)' = EntriesOf(versions.files) /\ Visible' = Visible
    BY <1>3 DEF EntriesOf, Visible
  <2>6. acked' \subseteq Ids(Visible)'
    BY <1>1, <1>3, <2>5 DEF MemoryIsLogged, Ids
  <2>7. SyncedRecs(logs[logfileNumber]) \subseteq SyncedRecs(logs'[logfileNumber])
    BY <1>1, <1>2 DEF MemoryIsLogged
  <2>8. MayCrash => durable \subseteq Ids((UNION imm) \cup EntriesOf(versions.files)
                                            \cup SyncedRecs(logs'[logfileNumber]))
    BY <1>1, <2>7 DEF MemoryIsLogged, Ids
  <2>9. (MayCrash => durable \subseteq Ids((UNION imm) \cup EntriesOf(versions.files)
                                            \cup SyncedRecs(logs[logfileNumber])))'
    BY <1>3, <2>5, <2>8 DEF Ids, SyncedRecs, MayCrash
  <2>10. imm' = NoTable \/ \E entries \in imm' : imm' = {entries}
    BY <1>1, <1>3 DEF MemoryIsLogged
  <2> QED
    BY <1>3, <2>1, <2>2, <2>4, <2>6, <2>9, <2>10 DEF MemoryIsLogged, RecsOf
<1> QED
  BY <1>4, <1>5, <1>6, <1>8, <1>9

LEMMA AppendFacts ==
  ASSUME NEW S, NEW s \in Seq(S), NEW x \in S
  PROVE  /\ Append(s, x) \in Seq(S)
         /\ Len(Append(s, x)) = Len(s) + 1 /\ Len(s) \in Nat
         /\ \A i \in 1..Len(s) : Append(s, x)[i] = s[i]
         /\ Append(s, x)[Len(s) + 1] = x
OBVIOUS

LEMMA RecsAt ==
  ASSUME NEW log \in [recs : Seq(SUBSET Entries), synced : Nat, torn : SUBSET Nat]
  PROVE  RecsOf(log) = UNION {log.recs[i] : i \in 1..Len(log.recs)}
<1> DEFINE S == SUBSET Entries
           r == log.recs
<1>1. r \in Seq(S)
  OBVIOUS
<1>2. DOMAIN r = 1..Len(r)
  <2> HIDE DEF S, r
  <2> QED BY <1>1
<1> QED
  BY <1>2 DEF RecsOf, Range

\* The leader writes its group to the log.
LEMMA AppendLogStep ==
  ASSUME DBInv, NEW t \in Threads, AppendLog(t)
  PROVE  DBInv'
<1> USE DEF Typed
<1> DEFINE n == logfileNumber
           R == SUBSET Entries
<1>1. /\ phase = "open" /\ wpc[t] = "log"
      /\ logs' = [logs EXCEPT ![n].recs = Append(@, group.entries)]
      /\ wpc' = [wpc EXCEPT ![t] = IF group.sync THEN "sync" ELSE "insert"]
      /\ UNCHANGED <<tables, manifests, current, opening, memory, background, history, budget>>
      /\ UNCHANGED <<queue, group>>
  BY DEF AppendLog
<1>2. /\ TypedLogs /\ TypedWriters /\ TypedBudget /\ Writing /\ MemoryIsLogged /\ Up
  BY <1>1 DEF DBInv, Up
<1>3. n \in DOMAIN logs /\ n' = n
  BY <1>1, <1>2 DEF MemoryIsLogged, memory
<1>4. /\ logs[n] \in [recs : Seq(R), synced : Nat, torn : SUBSET Nat] /\ logs[n].synced <= Len(logs[n].recs)
      /\ group.entries \in R
  BY <1>2, <1>3 DEF TypedLogs, TypedWriters
<1>5. logs[n].recs \in Seq(R) /\ logs[n].synced \in Nat
  BY <1>4
<1>6. /\ logs'[n].recs = Append(logs[n].recs, group.entries)
      /\ logs'[n].synced = logs[n].synced
      /\ DOMAIN logs' = DOMAIN logs /\ \A k \in DOMAIN logs : k # n => logs'[k] = logs[k]
      /\ logs'[n] = [recs |-> Append(logs[n].recs, group.entries), synced |-> logs[n].synced,
                   torn |-> logs[n].torn]
      /\ logs' = [k \in DOMAIN logs |-> logs'[k]]
  BY <1>1, <1>3, <1>4
<1>7. /\ Append(logs[n].recs, group.entries) \in Seq(R)
      /\ Len(logs'[n].recs) = Len(logs[n].recs) + 1 /\ Len(logs[n].recs) \in Nat
      /\ \A i \in 1..Len(logs[n].recs) : logs'[n].recs[i] = logs[n].recs[i]
      /\ logs'[n].recs[Len(logs[n].recs) + 1] = group.entries
  <2> HIDE DEF R, n
  <2> QED BY <1>4, <1>5, <1>6, AppendFacts
<1>8. logs'[n] \in [recs : Seq(R), synced : Nat, torn : SUBSET Nat] /\ logs'[n].synced <= Len(logs'[n].recs)
  <2> HIDE DEF R, n
  <2> QED BY <1>4, <1>5, <1>6, <1>7
<1>9. /\ RecsOf(logs[n]) = UNION {logs[n].recs[i] : i \in 1..Len(logs[n].recs)}
      /\ RecsOf(logs'[n]) = UNION {logs'[n].recs[i] : i \in 1..Len(logs'[n].recs)}
  BY <1>4, <1>8, RecsAt
<1>10. RecsOf(logs[n]) \subseteq RecsOf(logs'[n]) /\ group.entries \subseteq RecsOf(logs'[n])
  <2>1. 1..Len(logs[n].recs) \subseteq 1..Len(logs'[n].recs)
        /\ Len(logs[n].recs) + 1 \in 1..Len(logs'[n].recs)
    BY <1>7
  <2> HIDE DEF R, n
  <2> QED BY <1>7, <1>9, <2>1
<1>11. SyncedRecs(logs[n]) \subseteq SyncedRecs(logs'[n])
  <2>1. 1..logs[n].synced \subseteq 1..Len(logs[n].recs)
    BY <1>4, <1>7
  <2> HIDE DEF R, n
  <2> QED BY <1>6, <1>7, <2>1 DEF SyncedRecs
<1>12. logs' \in [DOMAIN logs -> [recs : Seq(R), synced : Nat, torn : SUBSET Nat]]
  <2>1. \A k \in DOMAIN logs : logs'[k] \in [recs : Seq(R), synced : Nat, torn : SUBSET Nat]
    BY <1>2, <1>6, <1>8 DEF TypedLogs
  <2> QED
    BY <1>6, <2>1
<1>13. /\ TypedLogs' /\ TypedTables' /\ TypedManifests' /\ TypedMemory'
       /\ TypedBackground' /\ TypedHistory' /\ DiskIsSound' /\ Recovering'
       /\ VersionIsFound' /\ MemoryIsLogged' /\ Working' /\ Deleting'
  BY <1>1, <1>3, <1>6, <1>8, <1>10, <1>11, <1>12, LogGrows
<1>14. TypedWriters' /\ TypedBudget'
  BY <1>1, <1>2, KeepTyped DEF TypedWriters, ThreadStates
<1>15. Writing'
  <2>1. \A s \in Threads : wpc'[s] = IF s = t THEN IF group.sync THEN "sync" ELSE "insert"
                                              ELSE wpc[s]
    BY <1>1, <1>2 DEF TypedWriters
  <2>2. \A s \in Threads : wpc[s] \in Leading => s = t
    BY <1>1, <1>2, FrontIsFirst DEF Leading
  <2>3. \A i \in 1..Len(queue) : queue[i].t \in Threads
    BY <1>2, QueuedThreads
  <2>4. \A i \in 1..Len(queue) : wpc'[queue[i].t] \in IF i = 1 THEN Leading ELSE {"queued"}
    BY <1>1, <1>2, <2>1, <2>3 DEF Writing, Leading
  <2>5. \A s \in Threads : wpc'[s] \in Leading => s = t
    BY <2>1, <2>2
  <2>6. /\ 1 <= group.n /\ group.n <= Len(queue)
        /\ group.promised \subseteq Ids(group.entries)
        /\ group.promised # {} => group.sync
        /\ queue # <<>> /\ queue[1].t = t
    BY <1>1, <1>2 DEF Writing, Leading
  <2>7. (group.entries \subseteq RecsOf(logs[n]))'
    BY <1>1, <1>3, <1>10
  <2>8. \A s \in Threads : wpc'[s] \in {"log", "torn", "sync", "insert"} =>
          wpc'[s] # "log" /\ (wpc'[s] = "insert" => group.promised = {})
    BY <2>1, <2>5, <2>6 DEF Leading
  <2> HIDE DEF R
  <2> QED
    BY <1>1, <1>2, <2>4, <2>5, <2>6, <2>7, <2>8 DEF Writing, Ids
<1> QED
  BY <1>13, <1>14, <1>15 DEF DBInv

\* The leader's append stops part-way.
LEMMA TearLogStep ==
  ASSUME DBInv, NEW t \in Threads, TearLog(t)
  PROVE  DBInv'
<1> USE DEF Typed
<1> DEFINE n == logfileNumber
           R == SUBSET Entries
<1>1. /\ phase = "open" /\ wpc[t] = "log" /\ Spend("tear")
      /\ logs' = Tear(logs, n)
      /\ wpc' = [wpc EXCEPT ![t] = "torn"]
      /\ UNCHANGED <<tables, manifests, current, opening, memory, background, history>>
      /\ UNCHANGED <<queue, group>>
  BY DEF TearLog
<1>2. /\ TypedLogs /\ TypedWriters /\ Writing /\ MemoryIsLogged /\ Up /\ TypedBudget
  BY <1>1 DEF DBInv, Up
<1>3. n \in DOMAIN logs /\ n' = n
  BY <1>1, <1>2 DEF MemoryIsLogged, memory
<1>4. /\ logs[n] \in [recs : Seq(R), synced : Nat, torn : SUBSET Nat]
      /\ logs[n].synced <= Len(logs[n].recs)
  BY <1>2, <1>3 DEF TypedLogs
<1>5. Len(logs[n].recs) \in Nat
  <2>1. logs[n].recs \in Seq(R)
    BY <1>4
  <2> HIDE DEF R, n
  <2> QED BY <2>1, LengthOfSeq
<1>6. /\ logs'[n] = [recs |-> logs[n].recs, synced |-> logs[n].synced,
                     torn |-> logs[n].torn \cup {Len(logs[n].recs)}]
      /\ DOMAIN logs' = DOMAIN logs /\ \A k \in DOMAIN logs : k # n => logs'[k] = logs[k]
      /\ logs' = [k \in DOMAIN logs |-> logs'[k]]
  BY <1>1, <1>3, <1>4 DEF Tear
<1>7. /\ logs'[n] \in [recs : Seq(R), synced : Nat, torn : SUBSET Nat]
      /\ logs'[n].recs = logs[n].recs /\ logs'[n].synced = logs[n].synced
  <2> HIDE DEF R, n
  <2> QED BY <1>4, <1>5, <1>6
<1>8. RecsOf(logs'[n]) = RecsOf(logs[n]) /\ SyncedRecs(logs'[n]) = SyncedRecs(logs[n])
  BY <1>7 DEF RecsOf, SyncedRecs
<1>9. logs' \in [DOMAIN logs -> [recs : Seq(R), synced : Nat, torn : SUBSET Nat]]
  <2>1. \A k \in DOMAIN logs : logs'[k] \in [recs : Seq(R), synced : Nat, torn : SUBSET Nat]
    BY <1>2, <1>6, <1>7 DEF TypedLogs
  <2> QED
    BY <1>6, <2>1
<1>10. TypedBudget'
  BY <1>1, <1>2, SpendTyped DEF BudgetKinds
<1>11. /\ TypedLogs' /\ TypedTables' /\ TypedManifests' /\ TypedMemory'
       /\ TypedBackground' /\ TypedHistory' /\ DiskIsSound' /\ Recovering'
       /\ VersionIsFound' /\ MemoryIsLogged' /\ Working' /\ Deleting'
  BY <1>1, <1>3, <1>4, <1>6, <1>7, <1>8, <1>9, LogGrows
<1>12. TypedWriters'
  BY <1>1, <1>2 DEF TypedWriters, ThreadStates
<1>13. Writing'
  <2>1. \A s \in Threads : wpc'[s] = IF s = t THEN "torn" ELSE wpc[s]
    BY <1>1, <1>2 DEF TypedWriters
  <2>2. \A s \in Threads : wpc[s] \in Leading => s = t
    BY <1>1, <1>2, FrontIsFirst DEF Leading
  <2>3. \A i \in 1..Len(queue) : queue[i].t \in Threads
    BY <1>2, QueuedThreads
  <2>4. \A i \in 1..Len(queue) : wpc'[queue[i].t] \in IF i = 1 THEN Leading ELSE {"queued"}
    BY <1>1, <1>2, <2>1, <2>3 DEF Writing, Leading
  <2>5. \A s \in Threads : wpc'[s] \in Leading => s = t
    BY <2>1, <2>2
  <2>6. /\ 1 <= group.n /\ group.n <= Len(queue)
        /\ group.promised \subseteq Ids(group.entries)
        /\ queue # <<>> /\ queue[1].t = t
    BY <1>1, <1>2 DEF Writing, Leading
  <2>7. \A s \in Threads : wpc'[s] \notin {"log", "sync", "insert"}
    BY <2>1, <2>5 DEF Leading
  <2> HIDE DEF R
  <2> QED
    BY <1>1, <1>2, <2>4, <2>5, <2>6, <2>7 DEF Writing, Ids
<1> QED
  BY <1>10, <1>11, <1>12, <1>13 DEF DBInv

\* The leader syncs the log.
LEMMA SyncLogStep ==
  ASSUME DBInv, NEW t \in Threads, SyncLog(t)
  PROVE  DBInv'
<1> USE DEF Typed
<1> DEFINE n == logfileNumber
           R == SUBSET Entries
<1>1. /\ phase = "open" /\ wpc[t] = "sync"
      /\ logs' = [logs EXCEPT ![n].synced = Len(logs[n].recs)]
      /\ wpc' = [wpc EXCEPT ![t] = "insert"]
      /\ UNCHANGED <<tables, manifests, current, opening, memory, background, history, budget>>
      /\ UNCHANGED <<queue, group>>
  BY DEF SyncLog
<1>2. /\ TypedLogs /\ TypedWriters /\ TypedBudget /\ Writing /\ MemoryIsLogged /\ Up
  BY <1>1 DEF DBInv, Up
<1>3. n \in DOMAIN logs /\ n' = n
  BY <1>1, <1>2 DEF MemoryIsLogged, memory
<1>4. logs[n] \in [recs : Seq(R), synced : Nat, torn : SUBSET Nat] /\ logs[n].synced <= Len(logs[n].recs)
  BY <1>2, <1>3 DEF TypedLogs
<1>5. /\ logs[n].recs \in Seq(R) /\ logs[n].synced \in Nat /\ Len(logs[n].recs) \in Nat
      /\ logs[n].torn \in SUBSET Nat
  <2>1. logs[n].recs \in Seq(R) /\ logs[n].synced \in Nat /\ logs[n].torn \in SUBSET Nat
    BY <1>4
  <2> HIDE DEF R, n
  <2> QED BY <2>1, LengthOfSeq
<1>6. /\ logs'[n] = [recs |-> logs[n].recs, synced |-> Len(logs[n].recs), torn |-> logs[n].torn]
      /\ DOMAIN logs' = DOMAIN logs /\ \A k \in DOMAIN logs : k # n => logs'[k] = logs[k]
      /\ logs' = [k \in DOMAIN logs |-> logs'[k]]
  BY <1>1, <1>3, <1>4
<1>8. /\ logs'[n] \in [recs : Seq(R), synced : Nat, torn : SUBSET Nat] /\ logs'[n].synced <= Len(logs'[n].recs)
      /\ logs'[n].recs = logs[n].recs /\ logs'[n].synced = Len(logs[n].recs)
  <2> HIDE DEF R, n
  <2> QED BY <1>5, <1>6
<1>9. RecsOf(logs'[n]) = RecsOf(logs[n])
  BY <1>8 DEF RecsOf
<1>10. SyncedRecs(logs'[n]) = RecsOf(logs[n])
  BY <1>4, <1>8, RecsAt DEF SyncedRecs
<1>11. SyncedRecs(logs[n]) \subseteq RecsOf(logs[n])
  <2>1. RecsOf(logs[n]) = UNION {logs[n].recs[i] : i \in 1..Len(logs[n].recs)}
    BY <1>4, RecsAt
  <2>2. 1..logs[n].synced \subseteq 1..Len(logs[n].recs)
    BY <1>4, <1>5
  <2> HIDE DEF R, n
  <2> QED BY <2>1, <2>2 DEF SyncedRecs
<1>12. logs' \in [DOMAIN logs -> [recs : Seq(R), synced : Nat, torn : SUBSET Nat]]
  <2>1. \A k \in DOMAIN logs : logs'[k] \in [recs : Seq(R), synced : Nat, torn : SUBSET Nat]
    BY <1>2, <1>6, <1>8 DEF TypedLogs
  <2> QED
    BY <1>6, <2>1
<1>13. /\ TypedLogs' /\ TypedTables' /\ TypedManifests' /\ TypedMemory'
       /\ TypedBackground' /\ TypedHistory' /\ DiskIsSound' /\ Recovering'
       /\ VersionIsFound' /\ MemoryIsLogged' /\ Working' /\ Deleting'
  BY <1>1, <1>3, <1>6, <1>8, <1>9, <1>10, <1>11, <1>12, LogGrows
<1>14. TypedWriters' /\ TypedBudget'
  BY <1>1, <1>2, KeepTyped DEF TypedWriters, ThreadStates
<1>15. Writing'
  <2>1. \A s \in Threads : wpc'[s] = IF s = t THEN "insert" ELSE wpc[s]
    BY <1>1, <1>2 DEF TypedWriters
  <2>2. \A s \in Threads : wpc[s] \in Leading => s = t
    BY <1>1, <1>2, FrontIsFirst DEF Leading
  <2>3. \A i \in 1..Len(queue) : queue[i].t \in Threads
    BY <1>2, QueuedThreads
  <2>4. \A i \in 1..Len(queue) : wpc'[queue[i].t] \in IF i = 1 THEN Leading ELSE {"queued"}
    BY <1>1, <1>2, <2>1, <2>3 DEF Writing, Leading
  <2>5. \A s \in Threads : wpc'[s] \in Leading => s = t
    BY <2>1, <2>2
  <2>6. /\ 1 <= group.n /\ group.n <= Len(queue)
        /\ group.promised \subseteq Ids(group.entries)
        /\ group.entries \subseteq RecsOf(logs[n])
        /\ queue # <<>> /\ queue[1].t = t
    BY <1>1, <1>2 DEF Writing, Leading
  <2>7. /\ (group.entries \subseteq RecsOf(logs[n]))'
        /\ (group.entries \subseteq SyncedRecs(logs[n]))'
    BY <1>1, <1>3, <1>9, <1>10, <2>6
  <2> HIDE DEF R
  <2> QED
    BY <1>1, <1>2, <2>1, <2>4, <2>5, <2>6, <2>7 DEF Writing, Ids, Leading
<1> QED
  BY <1>13, <1>14, <1>15 DEF DBInv
-----------------------------------------------------------------------------
\* What follows when the VersionSet only counts on, or an error is recorded while no file is
\* being deleted.
LEMMA VersionMoves ==
  ASSUME DBInv, Up, phase' = "open", phase = "open",
         versions' \in [files : Files, log : Nat, next : Nat, seq : Nat, manifest : Nat],
         versions'.files = versions.files, versions'.log = versions.log,
         versions'.manifest = versions.manifest, versions.next <= versions'.next,
         UNCHANGED <<toReplay, current, manifests, tables, logfileNumber, imm, pendingOutputs,
                     readers, deleting, edit, bgpc, job, merge>>,
         bgError' = bgError \/ (bgError' = TRUE /\ deleting = {})
  PROVE  VersionIsFound' /\ Working' /\ Deleting'
<1> USE DEF Typed
<1>1. TypedMemory /\ TypedManifests /\ TypedBackground /\ VersionIsFound /\ Working /\ Deleting
      /\ DiskIsSound
  BY DEF DBInv
<1>2. St' = St /\ Survivors(current)' = Survivors(current)
      /\ Cut(manifests[current])' = Cut(manifests[current])
  BY DEF St, LastRecord, Survivors, Cut, MayCrash
<1>3. /\ versions.next \in Nat /\ versions'.next \in Nat /\ current \in Nat /\ St.next \in Nat
      /\ \A f \in versions.files : f[2] \in Nat
  BY <1>1, LastSurvives DEF TypedMemory, VersionIsFound, Sound, Files
<1>4. bgError => bgError'
  BY <1>1 DEF TypedMemory
<1>5. /\ St.next <= versions'.next /\ current < versions'.next
      /\ \A f \in versions.files : f[2] < versions'.next
  BY <1>1, <1>3 DEF VersionIsFound
<1>6. VersionIsFound'
  BY <1>1, <1>2, <1>4, <1>5 DEF VersionIsFound, Up, FilesExist
<1>7. Working'
  <2>1. \A m \in pendingOutputs : m < versions'.next
    BY <1>1, <1>3 DEF Working, TypedMemory
  <2>2. merge.out # NoFile => merge.out < versions'.next
    BY <1>1, <1>3 DEF Working, TypedBackground, NoFile
  <2>3. bgpc \in {"append", "sync"} => edit.next <= versions'.next
    BY <1>1, <1>3 DEF Working
  <2>4. bgpc = "build" => job.out < versions'.next
    BY <1>1, <1>3 DEF Working, TypedBackground, NoFile
  <2>5. EntriesOf(edit.del)' = EntriesOf(edit.del) /\ EntriesOf(edit.add)' = EntriesOf(edit.add)
        /\ EntriesOf(merge.in)' = EntriesOf(merge.in)
    BY DEF EntriesOf
  <2> QED
    BY <1>1, <1>2, <1>4, <2>1, <2>2, <2>3, <2>4, <2>5 DEF Working, Up, Numbers
<1>8. Deleting'
  BY <1>1, <1>4 DEF Deleting, FilesExist, Numbers
<1> QED
  BY <1>6, <1>7, <1>8

LEMMA TakenIsTyped ==
  ASSUME TypedMemory, TypedWriters, versions' = TakenSequences
  PROVE  /\ versions' \in [files : Files, log : Nat, next : Nat, seq : Nat, manifest : Nat]
         /\ versions'.files = versions.files /\ versions'.log = versions.log
         /\ versions'.manifest = versions.manifest /\ versions.next = versions'.next
<1>1. Cardinality(group.entries) \in Nat
  BY FS_CardinalityType DEF TypedWriters
<1>2. versions \in [files : Files, log : Nat, next : Nat, seq : Nat, manifest : Nat]
  BY DEF TypedMemory
<1>3. versions' = [versions EXCEPT !.seq = @ + Cardinality(group.entries)]
  BY DEF TakenSequences
<1>4. versions.seq + Cardinality(group.entries) \in Nat
  BY <1>1, <1>2
<1> QED
  BY <1>2, <1>3, <1>4

\* The group is in the memtable; its writers return.
LEMMA FinishWriteStep ==
  ASSUME DBInv, NEW t \in Threads, FinishWrite(t)
  PROVE  DBInv'
<1> USE DEF Typed
<1> DEFINE n == logfileNumber
<1>1. /\ phase = "open" /\ deleting = {} /\ wpc[t] = "insert"
      /\ mem' = mem \cup group.entries
      /\ versions' = TakenSequences
      /\ PopFront(group.n, Popped(group.n, TRUE))
      /\ acked' = acked \cup Ids(group.entries)
      /\ durable' = durable \cup group.promised
      /\ UNCHANGED <<logs, tables, manifests, current, phase, toReplay, imm, logfileNumber,
                     bgError, shuttingDown, pendingOutputs, readers, deleting, edit, bgpc, job,
                     merge, nextId, asked, budget>>
  BY DEF FinishWrite, Unlocked, disk, opening, background
<1>2. /\ TypedLogs /\ TypedTables /\ TypedManifests /\ TypedMemory /\ TypedWriters
      /\ TypedBackground /\ TypedHistory /\ TypedBudget /\ DiskIsSound /\ VersionIsFound
      /\ MemoryIsLogged /\ Working /\ Deleting /\ Writing /\ Up
  BY <1>1 DEF DBInv, Up
<1>3. /\ versions' \in [files : Files, log : Nat, next : Nat, seq : Nat, manifest : Nat]
      /\ versions'.files = versions.files /\ versions'.log = versions.log
      /\ versions'.manifest = versions.manifest /\ versions.next = versions'.next
  BY <1>1, <1>2, TakenIsTyped
<1>4. /\ group.n \in 1..Len(queue) /\ group.promised \subseteq Ids(group.entries)
      /\ group.entries \subseteq RecsOf(logs[n])
      /\ group.promised # {} => group.entries \subseteq SyncedRecs(logs[n])
      /\ group.entries \subseteq Entries
  BY <1>1, <1>2 DEF Writing, TypedWriters
<1>5. group.promised \subseteq Ids(SyncedRecs(logs[n]))
  BY <1>4, IdsGrow
<1>6. TypedLogs' /\ TypedTables' /\ TypedManifests' /\ TypedBackground' /\ TypedBudget'
  BY <1>1, <1>2, KeepTyped DEF background
<1>7. TypedMemory'
  BY <1>1, <1>2, <1>3, <1>4 DEF TypedMemory
<1>8. TypedHistory'
  <2>1. Ids(group.entries) \subseteq Nat
    BY <1>4 DEF Ids, Entries
  <2> QED
    BY <1>1, <1>2, <1>4, <2>1 DEF TypedHistory
<1>9. TypedWriters' /\ Writing'
  BY <1>1, <1>2, <1>4, PopKeeps DEF PopFront
<1>10. Recovering'
  BY <1>1, OpenRecovers
<1>11. VersionIsFound' /\ Working' /\ Deleting'
  <2>1. versions.next <= versions'.next
    BY <1>2, <1>3 DEF TypedMemory
  <2> QED
    BY <1>1, <1>2, <1>3, <2>1, VersionMoves
<1>12. /\ current # NoFile /\ n \in DOMAIN logs /\ versions.log <= n
       /\ \A s \in Survivors(current) : s.log <= n
       /\ \A s \in Survivors(current) : Sound(s)
       /\ St \in Survivors(current)
  BY <1>2, LastSurvives DEF VersionIsFound, MemoryIsLogged, DiskIsSound
<1>13. DiskIsSound'
  <2>1. St' = St /\ Survivors(current)' = Survivors(current)
    BY <1>1 DEF St, LastRecord, Survivors, Cut, MayCrash
  <2>2. ASSUME NEW s \in Survivors(current)
        PROVE  /\ EntriesOf(s.files)' = EntriesOf(s.files)
               /\ LogsFrom(s.log)' = LogsFrom(s.log) /\ SyncedFrom(s.log)' = SyncedFrom(s.log)
    BY <1>1 DEF EntriesOf, LogsFrom, SyncedFrom, SyncedRecs, RecsOf
  <2>3. ASSUME NEW s \in Survivors(current)
        PROVE  Sound(s)'
    <3>1. SyncedRecs(logs[n]) \subseteq SyncedFrom(s.log)
      BY <1>12 DEF SyncedFrom
    <3>2. MayCrash => durable' \subseteq Ids(EntriesOf(s.files) \cup SyncedFrom(s.log))
      BY <1>1, <1>5, <1>12, <3>1, IdsGrow DEF Sound
    <3>3. Sound(s)
      BY <1>12
    <3>4. (MayCrash => durable \subseteq Ids(EntriesOf(s.files) \cup SyncedFrom(s.log)))'
      BY <2>2, <3>2 DEF MayCrash
    <3> QED
      BY <1>1, <2>1, <3>3, <3>4 DEF Sound
  <2>4. ASSUME NEW s \in Survivors(current), Holds(s)
        PROVE  Holds(s)'
    <3>1. RecsOf(logs[n]) \subseteq LogsFrom(s.log)
      BY <1>12 DEF LogsFrom
    <3>2. Ids(group.entries) \subseteq Ids(EntriesOf(s.files) \cup LogsFrom(s.log))
      BY <1>4, <3>1, IdsGrow
    <3>3. acked' \subseteq Ids(EntriesOf(s.files) \cup LogsFrom(s.log))
      BY <1>1, <2>4, <3>2 DEF Holds
    <3> QED
      BY <2>2, <3>3 DEF Holds
  <2> QED
    BY <1>1, <1>2, <1>12, <2>1, <2>3, <2>4, TornSurvives DEF DiskIsSound, MayCrash
<1>14. MemoryIsLogged'
  <2>1. EntriesOf(versions.files)' = EntriesOf(versions.files)
        /\ LogsFrom(versions.log)' = LogsFrom(versions.log)
        /\ Visible' = Visible \cup group.entries
    BY <1>1, <1>3 DEF EntriesOf, LogsFrom, RecsOf, Visible
  <2>2. acked' \subseteq Ids(Visible)'
    <3>1. Ids(Visible)' = Ids(Visible) \cup Ids(group.entries)
      BY <2>1, IdsGrow
    <3> QED
      BY <1>1, <1>2, <3>1 DEF MemoryIsLogged
  <2>3. (MayCrash => durable \subseteq Ids((UNION imm) \cup EntriesOf(versions.files)
                                            \cup SyncedRecs(logs[logfileNumber])))'
    <3>1. MayCrash => durable \cup group.promised
                        \subseteq Ids((UNION imm) \cup EntriesOf(versions.files)
                                        \cup SyncedRecs(logs[n]))
      <4> DEFINE A == (UNION imm) \cup EntriesOf(versions.files)
                 B == SyncedRecs(logs[n])
      <4>1. MayCrash => durable \subseteq Ids(A \cup B)
        BY <1>2 DEF MemoryIsLogged
      <4>2. group.promised \subseteq Ids(B)
        BY <1>5
      <4> HIDE DEF A, B
      <4>3. MayCrash => durable \cup group.promised \subseteq Ids(A \cup B)
        BY <4>1, <4>2, IdsGrow
      <4> QED
        BY <4>3 DEF A, B
    <3> QED
      BY <1>1, <2>1, <3>1 DEF MayCrash
  <2>4. mem' \subseteq RecsOf(logs[n])
    BY <1>1, <1>2, <1>4 DEF MemoryIsLogged
  <2>5. LogsAreOld({})'
    BY <1>1, <1>2, <1>3 DEF MemoryIsLogged, LogsAreOld
  <2> QED
    BY <1>1, <1>2, <1>3, <2>1, <2>2, <2>3, <2>4, <2>5 DEF MemoryIsLogged
<1> QED
  BY <1>6, <1>7, <1>8, <1>9, <1>10, <1>11, <1>13, <1>14 DEF DBInv

\* The sync fails: nobody will write any more.  Or the append has: the others may.
LEMMA WriteFailsStep ==
  ASSUME DBInv, NEW t \in Threads, SyncFails(t) \/ AppendLogFails(t)
  PROVE  DBInv'
<1> USE DEF Typed
<1>1. /\ phase = "open" /\ deleting = {} /\ wpc[t] \in {"torn", "sync"}
      /\ Spend("fault") \/ UNCHANGED budget
      /\ versions' = TakenSequences /\ bgError' \in {bgError, TRUE}
      /\ \/ PopFront(group.n, SignalAll(Popped(group.n, FALSE)))
         \/ PopFront(group.n, Popped(group.n, FALSE))
      /\ UNCHANGED <<logs, tables, manifests, current, phase, toReplay, mem, imm, logfileNumber,
                     shuttingDown, pendingOutputs, readers, deleting, edit, bgpc, job,
                     merge, nextId, asked, acked, durable>>
  BY DEF SyncFails, AppendLogFails, Unlocked, disk, opening, background, history
<1>2. /\ TypedLogs /\ TypedTables /\ TypedManifests /\ TypedMemory /\ TypedWriters
      /\ TypedBackground /\ TypedHistory /\ TypedBudget /\ DiskIsSound /\ VersionIsFound
      /\ MemoryIsLogged /\ Working /\ Deleting /\ Writing /\ Up
  BY <1>1 DEF DBInv, Up
<1>3. /\ versions' \in [files : Files, log : Nat, next : Nat, seq : Nat, manifest : Nat]
      /\ versions'.files = versions.files /\ versions'.log = versions.log
      /\ versions'.manifest = versions.manifest /\ versions.next = versions'.next
  BY <1>1, <1>2, TakenIsTyped
<1>4. group.n \in 1..Len(queue)
  BY <1>1, <1>2 DEF Writing, TypedWriters
<1>5. TypedLogs' /\ TypedTables' /\ TypedManifests' /\ TypedBackground' /\ TypedHistory'
  BY <1>1, <1>2, KeepTyped DEF background
<1>6. TypedBudget'
  BY <1>1, <1>2, SpendTyped, KeepTyped DEF BudgetKinds
<1>7. TypedMemory'
  BY <1>1, <1>2, <1>3 DEF TypedMemory
<1>8. TypedWriters' /\ Writing'
  BY <1>1, <1>2, <1>4, PopKeeps DEF PopFront
<1>9. Recovering' /\ DiskIsSound'
  BY <1>1, <1>2, OpenRecovers, KeepDisk DEF disk
<1>10. VersionIsFound' /\ Working' /\ Deleting'
  <2>1. versions.next <= versions'.next
    BY <1>2, <1>3 DEF TypedMemory
  <2> QED
    BY <1>1, <1>2, <1>3, <2>1, VersionMoves
<1>11. MemoryIsLogged'
  <2>1. EntriesOf(versions.files)' = EntriesOf(versions.files)
        /\ LogsFrom(versions.log)' = LogsFrom(versions.log) /\ Visible' = Visible
        /\ LogsAreOld({})' = LogsAreOld({})
    BY <1>1, <1>3 DEF EntriesOf, LogsFrom, RecsOf, Visible, LogsAreOld
  <2> QED
    BY <1>1, <1>2, <1>3, <2>1 DEF MemoryIsLogged, MayCrash, Up
<1> QED
  BY <1>5, <1>6, <1>7, <1>8, <1>9, <1>10, <1>11 DEF DBInv

\* A reader takes the current version, or gives it back.
LEMMA ReadStep ==
  ASSUME DBInv, NEW t \in Threads, StartRead(t) \/ EndRead(t)
  PROVE  DBInv'
<1> USE DEF Typed
<1>1. /\ phase = "open" /\ deleting = {}
      /\ \E files \in {versions.files, {}} : readers' = [readers EXCEPT ![t] = files]
      /\ Spend("read") \/ UNCHANGED budget
      /\ UNCHANGED <<disk, phase, toReplay, versions, mem, imm, logfileNumber, bgError,
                     shuttingDown, pendingOutputs, deleting, edit, writers, background,
                     nextId, asked, acked, durable>>
  BY DEF StartRead, EndRead, Unlocked, opening, history
<1>2. /\ TypedLogs /\ TypedTables /\ TypedManifests /\ TypedMemory /\ TypedWriters
      /\ TypedBackground /\ TypedHistory /\ TypedBudget /\ DiskIsSound /\ VersionIsFound
      /\ MemoryIsLogged /\ Working /\ Deleting /\ Writing /\ Up
  BY <1>1 DEF DBInv, Up
<1>3. UNCHANGED <<logs, tables, manifests, current, bgpc, job, merge>>
  BY <1>1 DEF disk, background
<1>4. /\ TypedLogs' /\ TypedTables' /\ TypedManifests' /\ TypedWriters' /\ TypedBackground'
      /\ TypedHistory' /\ DiskIsSound' /\ Recovering' /\ VersionIsFound' /\ MemoryIsLogged'
      /\ Working' /\ Writing'
  BY <1>1, <1>2, <1>3, KeepTyped, KeepDisk, OpenRecovers, KeepVersion, KeepMemory,
     KeepWorking, KeepWriting
<1>5. TypedBudget'
  BY <1>1, <1>2, SpendTyped, KeepTyped DEF BudgetKinds
<1>6. \A s \in Threads : readers'[s] \in {readers[s], versions.files, {}}
  BY <1>1, <1>2 DEF TypedMemory
<1>7. TypedMemory'
  <2>1. readers' \in [Threads -> Files]
    BY <1>1, <1>2 DEF TypedMemory, Files
  <2> QED
    BY <1>1, <1>2, <1>3, <2>1 DEF TypedMemory
<1>8. Deleting'
  <2>1. FilesExist(versions.files) /\ FilesExist({})
    BY <1>2 DEF VersionIsFound, FilesExist
  <2>2. \A s \in Threads : FilesExist(readers'[s])
    BY <1>2, <1>6, <2>1 DEF Deleting
  <2>3. (\A s \in Threads : FilesExist(readers[s]))'
    BY <1>3, <2>2 DEF FilesExist
  <2> QED
    BY <1>1, <2>3 DEF Deleting
<1> QED
  BY <1>4, <1>5, <1>7, <1>8 DEF DBInv
-----------------------------------------------------------------------------
\* The background thread wakes everybody who waits for it.
LEMMA SignalKeeps ==
  ASSUME TypedWriters, Writing, wpc' = SignalAll(wpc),
         UNCHANGED <<queue, group, logs, logfileNumber>>
  PROVE  TypedWriters' /\ Writing'
<1>1. \A t \in Threads :
        \/ wpc'[t] = wpc[t]
        \/ wpc[t] = "waitRoom" /\ wpc'[t] = "front"
        \/ wpc[t] = "waitFlush" /\ wpc'[t] = "flushed"
  BY DEF SignalAll
<1>2. wpc' \in [Threads -> ThreadStates]
  BY DEF SignalAll, TypedWriters, ThreadStates
<1>3. TypedWriters'
  BY <1>2 DEF TypedWriters
<1>4. \A i \in 1..Len(queue) : queue[i].t \in Threads
  BY QueuedThreads
<1>5. \A i \in 1..Len(queue) :
        wpc'[queue[i].t] \in IF i = 1 THEN Leading ELSE {"queued"}
  BY <1>1, <1>4 DEF Writing, Leading
<1>6. \A s \in Threads : wpc'[s] \in Leading => wpc[s] \in Leading
  BY <1>1 DEF Leading
<1>7. \A s \in Threads : wpc'[s] \in {"log", "torn", "sync", "insert"} => wpc'[s] = wpc[s]
  BY <1>1
<1> QED
  BY <1>3, <1>5, <1>6, <1>7 DEF Writing, RecsOf, SyncedRecs, Ids

\* What a step of the background thread on its own variables leaves alone.
LEMMA BackgroundFrame ==
  ASSUME DBInv, phase = "open",
         UNCHANGED <<disk, opening, mem, imm, logfileNumber, nextId, acked, durable>>,
         versions' \in [files : Files, log : Nat, next : Nat, seq : Nat, manifest : Nat],
         versions'.files = versions.files, versions'.log = versions.log,
         versions'.manifest = versions.manifest, versions.next <= versions'.next
  PROVE  /\ TypedLogs' /\ TypedTables' /\ TypedManifests' /\ TypedHistory' /\ DiskIsSound'
         /\ Recovering' /\ MemoryIsLogged'
<1> USE DEF Typed
<1>1. /\ TypedLogs /\ TypedTables /\ TypedManifests /\ TypedHistory /\ DiskIsSound
      /\ MemoryIsLogged /\ TypedMemory /\ Up /\ phase' = "open"
      /\ UNCHANGED <<logs, tables, manifests, current>>
  BY DEF DBInv, disk, opening, Up
<1>2. TypedLogs' /\ TypedTables' /\ TypedManifests' /\ TypedHistory' /\ Recovering'
  BY <1>1, KeepTyped, OpenRecovers
<1>3. DiskIsSound'
  BY <1>1, KeepDisk
<1>4. MemoryIsLogged'
  <2>1. EntriesOf(versions.files)' = EntriesOf(versions.files)
        /\ LogsFrom(versions.log)' = LogsFrom(versions.log) /\ Visible' = Visible
    BY <1>1 DEF EntriesOf, LogsFrom, RecsOf, Visible
  <2>2. LogsAreOld({})'
    BY <1>1 DEF LogsAreOld, MemoryIsLogged, TypedLogs, TypedMemory
  <2> QED
    BY <1>1, <2>1, <2>2 DEF MemoryIsLogged, MayCrash, Up
<1> QED
  BY <1>2, <1>3, <1>4

\* BackgroundCall begins in vain, or ends.
LEMMA IdleStep ==
  ASSUME DBInv, RunNothing \/ EndBackgroundCall
  PROVE  DBInv'
<1> USE DEF Typed
<1>1. /\ phase = "open" /\ bgpc \in {"scheduled", "end"}
      /\ wpc' = wpc \/ wpc' = SignalAll(wpc)
      /\ UNCHANGED <<disk, opening, memory, queue, group, job, merge, history, budget>>
  BY DEF RunNothing, EndBackgroundCall, Runs, Unlocked, writers
<1>2. bgpc' \in {"idle", "scheduled", "end"}
  BY Zenon DEF RunNothing, EndBackgroundCall, MaybeSchedule
<1>3. /\ TypedLogs /\ TypedTables /\ TypedManifests /\ TypedMemory /\ TypedWriters
      /\ TypedBackground /\ TypedHistory /\ TypedBudget /\ DiskIsSound /\ VersionIsFound
      /\ MemoryIsLogged /\ Working /\ Deleting /\ Writing /\ Up
  BY <1>1 DEF DBInv, Up
<1>4. UNCHANGED <<logs, tables, manifests, current, phase, toReplay, versions, mem, imm,
                  logfileNumber, bgError, shuttingDown, pendingOutputs, readers, deleting,
                  edit, acked, durable, nextId, budget, job, merge>>
  BY <1>1 DEF disk, opening, memory, history
<1>5. /\ TypedLogs' /\ TypedTables' /\ TypedManifests' /\ TypedMemory' /\ TypedHistory'
      /\ TypedBudget' /\ DiskIsSound' /\ Recovering' /\ MemoryIsLogged' /\ Deleting'
  BY <1>1, <1>3, <1>4, KeepTyped, KeepDisk, OpenRecovers, KeepMemory, KeepDeleting
<1>6. TypedBackground'
  BY <1>2, <1>3, <1>4 DEF TypedBackground
<1>7. TypedWriters' /\ Writing'
  BY <1>1, <1>3, <1>4, SignalKeeps, KeepWriting, KeepTyped DEF writers
<1>8. St' = St /\ Survivors(current)' = Survivors(current)
      /\ Cut(manifests[current])' = Cut(manifests[current])
  BY <1>4 DEF St, LastRecord, Survivors, Cut, MayCrash
<1>9. VersionIsFound'
  BY <1>1, <1>2, <1>3, <1>4, <1>8 DEF VersionIsFound, Up, FilesExist
<1>10. Working'
  <2>1. EntriesOf(merge.in)' = EntriesOf(merge.in)
    BY <1>4 DEF EntriesOf
  <2> QED
    BY <1>1, <1>2, <1>3, <1>4, <2>1 DEF Working, Up
<1> QED
  BY <1>5, <1>6, <1>7, <1>9, <1>10 DEF DBInv

\* The background thread picks what it will do.
LEMMA PickStep ==
  ASSUME DBInv, PickMerge \/ MoveTable \/ FinishMerge
  PROVE  DBInv'
<1> USE DEF Typed
<1>1. /\ phase = "open" /\ deleting = {}
      /\ UNCHANGED <<logs, tables, manifests, current, phase, toReplay, versions, mem, imm,
                  logfileNumber, bgError, shuttingDown, pendingOutputs, readers, deleting,
                  queue, wpc, group, nextId, acked, durable, budget>>
  BY DEF PickMerge, MoveTable, FinishMerge, Runs, Unlocked, disk, opening, memory, writers, history
<1>2. /\ TypedLogs /\ TypedTables /\ TypedManifests /\ TypedMemory /\ TypedWriters
      /\ TypedBackground /\ TypedHistory /\ TypedBudget /\ DiskIsSound /\ VersionIsFound
      /\ MemoryIsLogged /\ Working /\ Deleting /\ Writing /\ Up
  BY <1>1 DEF DBInv, Up
<1>3. /\ TypedLogs' /\ TypedTables' /\ TypedManifests' /\ TypedWriters' /\ TypedHistory'
      /\ TypedBudget' /\ DiskIsSound' /\ Recovering' /\ MemoryIsLogged' /\ Writing'
  BY <1>1, <1>2, KeepTyped, KeepDisk, OpenRecovers, KeepMemory, KeepWriting DEF disk, writers
<1>4. St' = St /\ Survivors(current)' = Survivors(current)
      /\ Cut(manifests[current])' = Cut(manifests[current])
  BY <1>1 DEF St, LastRecord, Survivors, Cut, MayCrash
<1>5. versions \in [files : Files, log : Nat, next : Nat, seq : Nat, manifest : Nat]
  BY <1>2 DEF TypedMemory
<1>6. CASE PickMerge
  <2>1. PICK in \in SUBSET versions.files :
          merge' = [in |-> in, out |-> NoFile, version |-> versions.files]
    BY <1>6 DEF PickMerge
  <2>2. bgpc = "scheduled" /\ bgpc' = "merge" /\ ~bgError /\ UNCHANGED <<edit, job>>
    BY <1>6 DEF PickMerge, Runs, memory
  <2>3. versions.files \in Files /\ in \in Files
    BY <1>5 DEF Files
  <2>4. TypedMemory' /\ TypedBackground'
    BY <1>1, <1>2, <2>1, <2>2, <2>3 DEF TypedMemory, TypedBackground
  <2>5. VersionIsFound'
    BY <1>1, <1>2, <1>4, <2>2 DEF VersionIsFound, Up, FilesExist
  <2>6. Working'
    BY <1>1, <1>2, <1>4, <2>1, <2>2 DEF Working, Up
  <2>7. Deleting'
    BY <1>1, <1>2 DEF Deleting, FilesExist
  <2> QED
    BY <1>3, <2>4, <2>5, <2>6, <2>7 DEF DBInv
<1>7. ASSUME bgpc' = "append", bgpc \in {"scheduled", "merge"}, ~bgError \/ bgpc = "merge",
             UNCHANGED merge,
             job' \in [kind : {"move", "merge"}, out : {NoFile}],
             NEW add \in Files, NEW del \in SUBSET versions.files,
             edit' = [log |-> versions.log, next |-> versions.next, seq |-> versions.seq,
                      add |-> add, del |-> del],
             \A f \in add : f[2] \in DOMAIN tables /\ f[2] < versions.next,
             EntriesOf(del) \subseteq EntriesOf(add)
      PROVE  DBInv'
  <2>1. versions.files \in Files /\ del \in Files /\ versions.log \in Int
        /\ versions.next \in Int /\ versions.seq \in Int
    BY <1>5, <1>7 DEF Files
  <2>2. edit' \in [log : Int, next : Int, seq : Int, add : Files, del : Files]
    BY <1>7, <2>1
  <2>3. TypedMemory' /\ TypedBackground'
    BY <1>1, <1>2, <1>7, <2>2 DEF TypedMemory, TypedBackground
  <2>4. /\ edit'.log = versions.log /\ edit'.next = versions.next /\ edit'.seq = versions.seq
        /\ edit'.add = add /\ edit'.del = del
        /\ job'.kind \in {"move", "merge"}
    BY <1>7
  <2>5. VersionIsFound'
    BY <1>1, <1>2, <1>4, <1>7 DEF VersionIsFound, Up, FilesExist
  <2>6. EntriesOf(edit.del)' = EntriesOf(del) /\ EntriesOf(edit.add)' = EntriesOf(add)
        /\ EntriesOf(merge.in)' = EntriesOf(merge.in)
    BY <1>1, <1>7, <2>4 DEF EntriesOf
  <2>7. /\ versions.log \in Nat /\ versions.next \in Nat /\ versions.seq \in Nat
        /\ St.next <= versions.next /\ \A f \in versions.files : f[2] < versions.next
    BY <1>2, <1>5 DEF VersionIsFound
  <2>8. merge.in \subseteq versions.files /\ merge.version \subseteq versions.files
        /\ (merge.out # NoFile =>
              /\ merge.out \in DOMAIN tables /\ merge.out \in pendingOutputs
              /\ merge.out < versions.next /\ tables[merge.out] = EntriesOf(merge.in))
        /\ \A n \in pendingOutputs : n < versions.next
    BY <1>2 DEF Working
  <2>9. versions.next <= versions.next
    BY <2>7
  <2>10. Working'
    BY <1>1, <1>4, <1>7, <2>4, <2>6, <2>7, <2>8, <2>9 DEF Working
  <2>11. Deleting'
    BY <1>1, <1>2, <1>7 DEF Deleting, FilesExist
  <2> QED
    BY <1>3, <2>3, <2>5, <2>10, <2>11 DEF DBInv
<1>8. CASE MoveTable
  <2>1. PICK f \in versions.files :
          edit' = [log |-> versions.log, next |-> versions.next,
                   seq |-> versions.seq, add |-> {<<1, f[2]>>}, del |-> {f}]
    BY <1>8 DEF MoveTable, KeptLog
  <2>2. bgpc = "scheduled" /\ bgpc' = "append" /\ ~bgError /\ UNCHANGED merge
        /\ job' = [kind |-> "move", out |-> NoFile]
    BY <1>8 DEF MoveTable, Runs
  <2>3. f[2] \in Nat /\ f[2] \in DOMAIN tables /\ f[2] < versions.next
    BY <1>2, <1>5 DEF VersionIsFound, FilesExist, Files
  <2>4. {<<1, f[2]>>} \in Files
    BY <2>3 DEF Files, Levels
  <2>5. EntriesOf({f}) \subseteq EntriesOf({<<1, f[2]>>})
    BY DEF EntriesOf
  <2>6. \A g \in {<<1, f[2]>>} : g[2] \in DOMAIN tables /\ g[2] < versions.next
    BY <2>3
  <2> QED
    BY <1>7, <2>1, <2>2, <2>4, <2>5, <2>6
<1>9. CASE FinishMerge
  <2>1. /\ edit' = [log |-> versions.log, next |-> versions.next,
                   seq |-> versions.seq, add |-> {<<1, merge.out>>}, del |-> merge.in]
        /\ bgpc = "merge" /\ bgpc' = "append" /\ UNCHANGED merge /\ merge.out # NoFile
        /\ job' = [kind |-> "merge", out |-> NoFile]
    BY <1>9 DEF FinishMerge, KeptLog, InputDeletions
  <2>2. /\ merge.out \in DOMAIN tables /\ merge.out < versions.next
        /\ tables[merge.out] = EntriesOf(merge.in) /\ merge.in \subseteq versions.files
        /\ merge.out \in Nat
    BY <1>2, <2>1 DEF Working, TypedBackground
  <2>3. {<<1, merge.out>>} \in Files
    BY <2>2 DEF Files, Levels
  <2>4. EntriesOf({<<1, merge.out>>}) = tables[merge.out]
    BY DEF EntriesOf
  <2>5. \A g \in {<<1, merge.out>>} : g[2] \in DOMAIN tables /\ g[2] < versions.next
    BY <2>2
  <2> QED
    BY <1>7, <2>1, <2>2, <2>3, <2>4, <2>5
<1> QED
  BY <1>6, <1>8, <1>9
-----------------------------------------------------------------------------
\* CompactMemTable takes a number for its table.
LEMMA StartFlushStep ==
  ASSUME DBInv, StartFlush
  PROVE  DBInv'
<1> USE DEF Typed
<1>1. /\ phase = "open" /\ deleting = {} /\ imm # NoTable
      /\ \/ bgpc = "scheduled" /\ ~bgError
         \/ bgpc = "merge"
      /\ job' = [kind |-> "flush", out |-> versions.next]
      /\ pendingOutputs' = pendingOutputs \cup {versions.next}
      /\ versions' = [versions EXCEPT !.next = @ + 1]
      /\ bgpc' = "build"
      /\ Spend("retry") \/ UNCHANGED budget
      /\ UNCHANGED <<disk, opening, mem, imm, logfileNumber, bgError, shuttingDown,
                     readers, deleting, edit, writers, merge, nextId, acked, durable>>
  BY DEF StartFlush, Unlocked, history
<1>2. /\ TypedLogs /\ TypedTables /\ TypedManifests /\ TypedMemory /\ TypedWriters
      /\ TypedBackground /\ TypedHistory /\ TypedBudget /\ DiskIsSound /\ VersionIsFound
      /\ MemoryIsLogged /\ Working /\ Deleting /\ Writing /\ Up
  BY <1>1 DEF DBInv, Up
<1> DEFINE n == versions.next
<1>3. /\ n \in Nat /\ versions'.next = n + 1
      /\ versions'.files = versions.files /\ versions'.log = versions.log
      /\ versions'.manifest = versions.manifest /\ n <= versions'.next
      /\ versions' \in [files : Files, log : Nat, next : Nat, seq : Nat, manifest : Nat]
      /\ \A f \in versions.files : f[2] \in Nat
  BY <1>1, <1>2 DEF TypedMemory, Files
<1>4. UNCHANGED <<logs, tables, manifests, current, phase, toReplay>>
  BY <1>1 DEF disk, opening
<1>5. /\ TypedLogs' /\ TypedTables' /\ TypedManifests' /\ TypedHistory' /\ DiskIsSound'
      /\ Recovering' /\ MemoryIsLogged'
  BY <1>1, <1>3, BackgroundFrame
<1>6. TypedWriters' /\ Writing'
  BY <1>1, <1>2, <1>4, KeepTyped, KeepWriting
<1>7. TypedBudget'
  BY <1>1, <1>2, SpendTyped, KeepTyped DEF BudgetKinds
<1>8. TypedMemory'
  BY <1>1, <1>2, <1>3, <1>4 DEF TypedMemory
<1>9. TypedBackground'
  BY <1>1, <1>2, <1>3 DEF TypedBackground
<1>10. St' = St /\ Survivors(current)' = Survivors(current)
      /\ Cut(manifests[current])' = Cut(manifests[current])
  BY <1>4 DEF St, LastRecord, Survivors, Cut, MayCrash
<1>11. St.next \in Nat /\ current \in Nat /\ St.next <= n /\ current < n
       /\ \A f \in versions.files : f[2] < n
  BY <1>2, LastSurvives DEF VersionIsFound, Sound, TypedMemory
<1>12. VersionIsFound'
  <2>1. St.next <= n + 1 /\ current < n + 1 /\ \A f \in versions.files : f[2] < n + 1
    BY <1>3, <1>11
  <2> QED
    BY <1>1, <1>2, <1>3, <1>4, <1>10, <2>1 DEF VersionIsFound, Up, FilesExist
<1>13. Working'
  <2>1. \A s \in Survivors(current) : n \notin Numbers(s.files)
    <3> SUFFICES ASSUME NEW s \in Survivors(current), NEW f \in s.files
                 PROVE  f[2] # n
      BY DEF Numbers
    <3>1. f[2] < s.next /\ f[2] \in DOMAIN tables /\ s.next \in Nat /\ s.next <= St.next
      BY <1>2 DEF VersionIsFound, DiskIsSound, Sound
    <3>2. f[2] \in Nat
      BY <1>2, <3>1 DEF TypedTables
    <3> QED
      BY <1>3, <1>11, <3>1, <3>2
  <2>2. n \notin Numbers(versions.files)
    BY <1>3, <1>11 DEF Numbers
  <2>3. merge.out # NoFile => merge.out < n
    BY <1>2 DEF Working
  <2>4. merge.out # n /\ n # NoFile /\ (merge.out # NoFile => merge.out < n + 1)
    BY <1>2, <1>3, <2>3 DEF TypedBackground, NoFile
  <2>5. \A m \in pendingOutputs \cup {n} : m < n + 1
    <3>1. \A m \in pendingOutputs : m \in Nat /\ m < n
      BY <1>2 DEF Working, TypedMemory
    <3> QED
      BY <1>3, <3>1
  <2>6. EntriesOf(merge.in)' = EntriesOf(merge.in)
    BY <1>1, <1>4 DEF EntriesOf
  <2>7. job'.kind = "flush" /\ job'.out = n /\ n < n + 1
    BY <1>1, <1>3
  <2> QED
    BY <1>1, <1>2, <1>3, <1>4, <1>10, <2>1, <2>2, <2>4, <2>5, <2>6, <2>7
       DEF Working, Up, Numbers
<1>14. Deleting'
  BY <1>1, <1>2, <1>4 DEF Deleting, FilesExist
<1> QED
  BY <1>5, <1>6, <1>7, <1>8, <1>9, <1>12, <1>13, <1>14 DEF DBInv

\* What a new table leaves as it was: the files of the version and of every survivor.
LEMMA TablePut ==
  ASSUME DBInv, phase = "open", NEW n \in Nat, NEW content \in SUBSET Entries,
         tables' = Put(tables, n, content),
         n \notin Numbers(versions.files),
         \A s \in Survivors(current) : n \notin Numbers(s.files),
         UNCHANGED <<logs, manifests, current, opening, mem, imm, logfileNumber, acked, durable,
                     nextId>>,
         versions' \in [files : Files, log : Nat, next : Nat, seq : Nat, manifest : Nat],
         versions'.files = versions.files, versions'.log = versions.log,
         versions'.manifest = versions.manifest, versions.next <= versions'.next
  PROVE  /\ TypedTables' /\ TypedLogs' /\ TypedManifests' /\ TypedHistory' /\ DiskIsSound'
         /\ Recovering' /\ MemoryIsLogged'
         /\ DOMAIN tables' = DOMAIN tables \cup {n} /\ tables'[n] = content
         /\ \A k \in DOMAIN tables : k # n => tables'[k] = tables[k]
         /\ \A F : F \subseteq versions.files => EntriesOf(F)' = EntriesOf(F)
<1> USE DEF Typed
<1>1. /\ TypedLogs /\ TypedTables /\ TypedManifests /\ TypedHistory /\ DiskIsSound
      /\ MemoryIsLogged /\ VersionIsFound /\ TypedMemory /\ Up /\ phase' = "open"
  BY DEF DBInv, opening, Up
<1>2. /\ DOMAIN tables' = DOMAIN tables \cup {n} /\ tables'[n] = content
      /\ \A k \in DOMAIN tables : k # n => tables'[k] = tables[k]
  BY DEF Put
<1>3. TypedTables' /\ TypedLogs' /\ TypedManifests' /\ TypedHistory' /\ Recovering'
  BY <1>1, <1>2, KeepTyped, OpenRecovers DEF TypedTables
<1>4. \A f \in versions.files : f[2] \in DOMAIN tables /\ tables'[f[2]] = tables[f[2]]
  BY <1>1, <1>2 DEF VersionIsFound, FilesExist, Numbers
<1>5. \A F : F \subseteq versions.files => EntriesOf(F)' = EntriesOf(F)
  BY <1>4 DEF EntriesOf
<1>6. DiskIsSound'
  <2>1. current # NoFile /\ current \in DOMAIN manifests /\ \A s \in Survivors(current) : Sound(s)
    BY <1>1 DEF VersionIsFound, DiskIsSound
  <2>2. ASSUME NEW s \in Survivors(current), NEW f \in s.files
        PROVE  f[2] \in DOMAIN tables' /\ tables'[f[2]] = tables[f[2]]
    <3>1. f[2] \in DOMAIN tables /\ f[2] # n
      BY <2>1 DEF Sound, Numbers
    <3> QED
      BY <1>2, <3>1
  <2> QED
    BY <1>1, <2>1, <2>2, DiskKeeps
<1>7. MemoryIsLogged'
  <2>1. EntriesOf(versions.files)' = EntriesOf(versions.files)
        /\ LogsFrom(versions.log)' = LogsFrom(versions.log) /\ Visible' = Visible
    BY <1>4 DEF EntriesOf, LogsFrom, RecsOf, Visible
  <2>2. LogsAreOld({})'
    BY <1>1 DEF LogsAreOld, MemoryIsLogged, TypedLogs, TypedMemory
  <2> QED
    BY <1>1, <2>1, <2>2 DEF MemoryIsLogged, MayCrash, Up
<1> QED
  BY <1>2, <1>3, <1>5, <1>6, <1>7

\* A compaction opens and writes its output.
LEMMA OpenOutputStep ==
  ASSUME DBInv, OpenOutput
  PROVE  DBInv'
<1> USE DEF Typed
<1> DEFINE n == versions.next
<1>1. /\ phase = "open" /\ deleting = {} /\ bgpc = "merge" /\ merge.out = NoFile
      /\ merge' = [merge EXCEPT !.out = n]
      /\ pendingOutputs' = pendingOutputs \cup {n}
      /\ tables' = Put(tables, n, EntriesOf(merge.in))
      /\ versions' = [versions EXCEPT !.next = @ + 1]
      /\ UNCHANGED <<logs, manifests, current, opening, mem, imm, logfileNumber,
                     bgError, shuttingDown, readers, deleting, edit, writers, bgpc,
                     job, nextId, acked, durable, budget>>
  BY DEF OpenOutput, Unlocked, history
<1>2. /\ TypedLogs /\ TypedTables /\ TypedManifests /\ TypedMemory /\ TypedWriters
      /\ TypedBackground /\ TypedHistory /\ TypedBudget /\ DiskIsSound /\ VersionIsFound
      /\ MemoryIsLogged /\ Working /\ Deleting /\ Writing /\ Up
  BY <1>1 DEF DBInv, Up
<1>3. /\ n \in Nat /\ versions'.next = n + 1
      /\ versions'.files = versions.files /\ versions'.log = versions.log
      /\ versions'.manifest = versions.manifest /\ n <= versions'.next
      /\ versions' \in [files : Files, log : Nat, next : Nat, seq : Nat, manifest : Nat]
      /\ \A f \in versions.files : f[2] \in Nat
  BY <1>1, <1>2 DEF TypedMemory, Files
<1>4. UNCHANGED <<phase, toReplay>>
  BY <1>1 DEF opening
<1>5. St.next \in Nat /\ current \in Nat /\ St.next <= n /\ current < n
       /\ \A f \in versions.files : f[2] < n
  BY <1>2, LastSurvives DEF VersionIsFound, Sound, TypedMemory
<1>6. \A s \in Survivors(current) : n \notin Numbers(s.files)
  <2> SUFFICES ASSUME NEW s \in Survivors(current), NEW f \in s.files
               PROVE  f[2] # n
    BY DEF Numbers
  <2>1. f[2] < s.next /\ f[2] \in DOMAIN tables /\ s.next \in Nat /\ s.next <= St.next
    BY <1>2 DEF VersionIsFound, DiskIsSound, Sound
  <2>2. f[2] \in Nat
    BY <1>2, <2>1 DEF TypedTables
  <2> QED
    BY <1>3, <1>5, <2>1, <2>2
<1>7. n \notin Numbers(versions.files)
  BY <1>3, <1>5 DEF Numbers
<1>8. /\ merge.in \subseteq versions.files /\ merge.version \subseteq versions.files
      /\ \A m \in pendingOutputs : m < n
  BY <1>2 DEF Working
<1>9. EntriesOf(merge.in) \in SUBSET Entries
  BY <1>2, <1>8 DEF VersionIsFound, FilesExist, TypedTables, EntriesOf
<1>10. /\ TypedTables' /\ TypedLogs' /\ TypedManifests' /\ TypedHistory' /\ DiskIsSound'
       /\ Recovering' /\ MemoryIsLogged'
       /\ DOMAIN tables' = DOMAIN tables \cup {n} /\ tables'[n] = EntriesOf(merge.in)
       /\ \A k \in DOMAIN tables : k # n => tables'[k] = tables[k]
       /\ \A F : F \subseteq versions.files => EntriesOf(F)' = EntriesOf(F)
  BY <1>1, <1>3, <1>6, <1>7, <1>9, TablePut
<1>11. TypedWriters' /\ Writing' /\ TypedBudget'
  BY <1>1, <1>2, KeepTyped, KeepWriting
<1>12. TypedMemory'
  BY <1>1, <1>2, <1>3, <1>4 DEF TypedMemory
<1>13. /\ merge'.out = n /\ merge'.in = merge.in /\ merge'.version = merge.version
       /\ merge' \in [in : Files, out : Nat \cup {NoFile}, version : Files]
  BY <1>1, <1>2, <1>3 DEF TypedBackground
<1>14. TypedBackground'
  BY <1>1, <1>2, <1>13 DEF TypedBackground
<1>15. St' = St /\ Survivors(current)' = Survivors(current)
      /\ Cut(manifests[current])' = Cut(manifests[current])
  BY <1>1 DEF St, LastRecord, Survivors, Cut, MayCrash
<1>16. VersionIsFound'
  <2>1. St.next <= n + 1 /\ current < n + 1 /\ \A f \in versions.files : f[2] < n + 1
    BY <1>3, <1>5
  <2> QED
    BY <1>1, <1>2, <1>3, <1>4, <1>10, <1>15, <2>1 DEF VersionIsFound, Up, FilesExist
<1>17. Working'
  <2>1. \A m \in pendingOutputs \cup {n} : m < n + 1
    <3>1. \A m \in pendingOutputs : m \in Nat /\ m < n
      BY <1>2, <1>8 DEF TypedMemory
    <3> QED
      BY <1>3, <3>1
  <2>2. tables'[n] = EntriesOf(merge.in)'
    BY <1>8, <1>10, <1>13 DEF EntriesOf
  <2>3. job = NoJob /\ n < n + 1
    BY <1>1, <1>2, <1>3 DEF Working
  <2> QED
    BY <1>1, <1>3, <1>8, <1>10, <1>13, <2>1, <2>2, <2>3 DEF Working
<1>18. Deleting'
  BY <1>1, <1>2, <1>10 DEF Deleting, FilesExist
<1> QED
  BY <1>10, <1>11, <1>12, <1>14, <1>16, <1>17, <1>18 DEF DBInv
-----------------------------------------------------------------------------
\* What Working says while a table is being built.
LEMMA BuildFacts ==
  ASSUME DBInv, Up, bgpc = "build"
  PROVE  /\ deleting = {} /\ job.kind = "flush" /\ job.out \in Nat /\ imm # NoTable
         /\ job.out # merge.out /\ job.out < versions.next
         /\ \A s \in Survivors(current) : job.out \notin Numbers(s.files)
         /\ job.out \notin Numbers(versions.files)
         /\ UNION imm \in SUBSET Entries
BY DEF DBInv, Typed, Working, TypedBackground, TypedMemory

\* The table of a flush is there, or there is nothing to write.
LEMMA OutputKeeps ==
  ASSUME DBInv, phase = "open", bgpc = "build",
         tables' = IF Output = {} THEN tables ELSE Put(tables, job.out, Output),
         UNCHANGED <<logs, manifests, current, opening, versions, mem, imm, logfileNumber,
                     acked, durable, nextId>>
  PROVE  /\ TypedTables' /\ TypedLogs' /\ TypedManifests' /\ TypedHistory' /\ DiskIsSound'
         /\ Recovering' /\ MemoryIsLogged'
         /\ DOMAIN tables \subseteq DOMAIN tables'
         /\ Output # {} => job.out \in DOMAIN tables' /\ tables'[job.out] = Output
         /\ \A k \in DOMAIN tables : k # job.out => tables'[k] = tables[k]
         /\ \A F : F \subseteq versions.files => EntriesOf(F)' = EntriesOf(F)
<1>1. /\ job.out \in Nat /\ \A s \in Survivors(current) : job.out \notin Numbers(s.files)
      /\ job.out \notin Numbers(versions.files) /\ Output \in SUBSET Entries
  BY BuildFacts DEF Up, Output
<1>2. /\ versions' \in [files : Files, log : Nat, next : Nat, seq : Nat, manifest : Nat]
      /\ versions'.files = versions.files /\ versions'.log = versions.log
      /\ versions'.manifest = versions.manifest /\ versions.next <= versions'.next
  BY DEF DBInv, Typed, TypedMemory
<1>3. CASE Output = {}
  <2>1. UNCHANGED tables /\ phase' = "open"
    BY <1>3 DEF opening
  <2>2. TypedTables /\ TypedLogs /\ TypedManifests /\ TypedHistory /\ DiskIsSound /\ MemoryIsLogged
    BY DEF DBInv, Typed
  <2>3. TypedTables' /\ TypedLogs' /\ TypedManifests' /\ TypedHistory'
    BY <2>1, <2>2, KeepTyped
  <2>4. DiskIsSound' /\ Recovering' /\ MemoryIsLogged'
    BY <2>1, <2>2, KeepDisk, OpenRecovers, KeepMemory DEF disk
  <2>5. \A F : EntriesOf(F)' = EntriesOf(F)
    BY <2>1 DEF EntriesOf
  <2> QED
    BY <1>3, <2>1, <2>3, <2>4, <2>5
<1>4. CASE Output # {}
  <2>1. tables' = Put(tables, job.out, Output)
    BY <1>4
  <2>2. /\ TypedTables' /\ TypedLogs' /\ TypedManifests' /\ TypedHistory' /\ DiskIsSound'
         /\ Recovering' /\ MemoryIsLogged'
         /\ DOMAIN tables' = DOMAIN tables \cup {job.out} /\ tables'[job.out] = Output
         /\ \A k \in DOMAIN tables : k # job.out => tables'[k] = tables[k]
         /\ \A F : F \subseteq versions.files => EntriesOf(F)' = EntriesOf(F)
    BY <1>1, <1>2, <2>1, TablePut
  <2>3. DOMAIN tables \subseteq DOMAIN tables'
        /\ (Output # {} => job.out \in DOMAIN tables' /\ tables'[job.out] = Output)
    BY <2>2
  <2>4. \A f \in versions.files : tables'[f[2]] = tables[f[2]]
    <3>1. \A f \in versions.files : f[2] \in DOMAIN tables /\ f[2] # job.out
      BY <1>1 DEF DBInv, VersionIsFound, FilesExist, Numbers, Up
    <3> QED
      BY <2>2, <3>1
  <2>5. \A F : F \subseteq versions.files => EntriesOf(F)' = EntriesOf(F)
    BY <2>4 DEF EntriesOf
  <2>6. /\ TypedTables' /\ TypedLogs' /\ TypedManifests' /\ TypedHistory' /\ DiskIsSound'
        /\ Recovering' /\ MemoryIsLogged'
        /\ \A k \in DOMAIN tables : k # job.out => tables'[k] = tables[k]
    BY <2>2
  <2> QED
    BY <2>3, <2>5, <2>6
<1> QED
  BY <1>3, <1>4

LEMMA BuildTableStep ==
  ASSUME DBInv, BuildTable
  PROVE  DBInv'
<1> USE DEF Typed
<1>1. /\ phase = "open" /\ bgpc = "build" /\ bgpc' = "append" /\ deleting = {}
      /\ tables' = IF Output = {} THEN tables ELSE Put(tables, job.out, Output)
      /\ pendingOutputs' = pendingOutputs \ {job.out}
      /\ \E level \in Levels :
           edit' = [EmptyEdit EXCEPT
                      !.log = logfileNumber, !.next = versions.next,
                      !.seq = versions.seq,
                      !.add = IF Output = {} THEN {} ELSE {<<level, job.out>>}]
      /\ UNCHANGED <<logs, manifests, current, opening, versions, mem, imm,
                     logfileNumber, bgError, shuttingDown, readers, deleting,
                     writers, job, merge, nextId, acked, durable, budget>>
  BY DEF BuildTable, Unlocked, history
<1>2. /\ TypedLogs /\ TypedTables /\ TypedManifests /\ TypedMemory /\ TypedWriters
      /\ TypedBackground /\ TypedHistory /\ TypedBudget /\ DiskIsSound /\ VersionIsFound
      /\ MemoryIsLogged /\ Working /\ Deleting /\ Writing /\ Up
  BY <1>1 DEF DBInv, Up
<1>3. /\ TypedTables' /\ TypedLogs' /\ TypedManifests' /\ TypedHistory' /\ DiskIsSound'
      /\ Recovering' /\ MemoryIsLogged'
      /\ DOMAIN tables \subseteq DOMAIN tables'
      /\ Output # {} => job.out \in DOMAIN tables' /\ tables'[job.out] = Output
      /\ \A k \in DOMAIN tables : k # job.out => tables'[k] = tables[k]
      /\ \A F : F \subseteq versions.files => EntriesOf(F)' = EntriesOf(F)
  BY <1>1, OutputKeeps
<1>4. /\ job.kind = "flush" /\ job.out \in Nat /\ imm # NoTable
      /\ job.out # merge.out /\ job.out < versions.next
  BY <1>1, <1>2, BuildFacts
<1>5. PICK level \in Levels :
           edit' = [EmptyEdit EXCEPT
                      !.log = logfileNumber, !.next = versions.next,
                      !.seq = versions.seq,
                      !.add = IF Output = {} THEN {} ELSE {<<level, job.out>>}]
  BY <1>1
<1> DEFINE add == IF Output = {} THEN {} ELSE {<<level, job.out>>}
<1>6. /\ edit'.log = logfileNumber /\ edit'.next = versions.next /\ edit'.seq = versions.seq
      /\ edit'.add = add /\ edit'.del = {}
      /\ edit' = [log |-> logfileNumber, next |-> versions.next, seq |-> versions.seq,
                  add |-> add, del |-> {}]
  BY <1>5 DEF EmptyEdit
<1>7. /\ logfileNumber \in Nat /\ versions.next \in Nat /\ versions.seq \in Nat
      /\ add \in Files
  BY <1>2, <1>4 DEF TypedMemory, Files
<1>8. edit' \in [log : Int, next : Int, seq : Int, add : Files, del : Files]
  <2>1. {} \in Files
    BY DEF Files
  <2> QED
    BY <1>6, <1>7, <2>1
<1>9. UNCHANGED <<phase, toReplay>>
  BY <1>1 DEF opening
<1>10. TypedMemory' /\ TypedBackground' /\ TypedBudget' /\ TypedWriters' /\ Writing'
  <2>1. TypedMemory'
    BY <1>1, <1>2, <1>8, <1>9 DEF TypedMemory
  <2>2. TypedBackground'
    BY <1>1, <1>2 DEF TypedBackground
  <2> QED
    BY <1>1, <1>2, <2>1, <2>2, KeepTyped, KeepWriting
<1>11. St' = St /\ Survivors(current)' = Survivors(current)
      /\ Cut(manifests[current])' = Cut(manifests[current])
  BY <1>1 DEF St, LastRecord, Survivors, Cut, MayCrash
<1>12. VersionIsFound'
  BY <1>1, <1>2, <1>3, <1>9, <1>11 DEF VersionIsFound, Up, FilesExist
<1>13. Working'
  <2>1. \A f \in add : f[2] \in DOMAIN tables' /\ f[2] < versions.next
    BY <1>3, <1>4
  <2>2. EntriesOf(edit.add)' = UNION {tables'[f[2]] : f \in add}
    BY <1>6 DEF EntriesOf
  <2>3. UNION imm \subseteq EntriesOf(edit.add)'
    BY <1>3, <2>2 DEF Output
  <2>4. EntriesOf(edit.del)' = {}
    BY <1>6 DEF EntriesOf
  <2>5. /\ St.next <= versions.next /\ \A f \in versions.files : f[2] < versions.next
        /\ versions.next <= versions.next
    BY <1>2, <1>7 DEF VersionIsFound
  <2>6. /\ merge.in \subseteq versions.files /\ merge.version \subseteq versions.files
        /\ \A n \in pendingOutputs' : n < versions.next
    BY <1>1, <1>2 DEF Working
  <2>7. merge.out # NoFile =>
              /\ merge.out \in DOMAIN tables' /\ merge.out \in pendingOutputs'
              /\ merge.out < versions.next /\ tables'[merge.out] = EntriesOf(merge.in)'
    BY <1>1, <1>2, <1>3, <1>4, <2>6 DEF Working, EntriesOf
  <2> HIDE DEF add
  <2> QED
    BY <1>1, <1>4, <1>6, <1>7, <1>11, <2>1, <2>3, <2>4, <2>5, <2>6, <2>7 DEF Working
<1>14. Deleting'
  BY <1>1, <1>2, <1>3 DEF Deleting, FilesExist
<1> QED
  BY <1>3, <1>10, <1>12, <1>13, <1>14 DEF DBInv

\* A compaction fails: nothing on disk that anybody relies on has changed.
LEMMA FailStep ==
  ASSUME DBInv,
         BuildTableFails \/ SyncManifestFails \/ MergeFails \/ AppendManifestFails
  PROVE  DBInv'
<1> USE DEF Typed
<1>1. /\ phase = "open" /\ deleting = {}
      /\ \/ bgpc = "build" /\ FailJob(pendingOutputs \ {job.out})
         \/ bgpc \in {"torn", "sync", "merge"} /\ UNCHANGED tables /\ FailJob(pendingOutputs)
      /\ bgpc = "build" => tables' \in {tables, IF Output = {} THEN tables
                                                ELSE Put(tables, job.out, Output)}
      /\ UNCHANGED <<logs, manifests, current>>
      /\ Spend("fault") \/ UNCHANGED budget
  BY DEF BuildTableFails, SyncManifestFails, MergeFails, AppendManifestFails, Unlocked, disk
<1>2. /\ bgError' = TRUE /\ wpc' = SignalAll(wpc) /\ job' = NoJob /\ edit' = EmptyEdit
      /\ \/ /\ job.kind = "flush" /\ bgpc' = AfterFlush /\ merge' = merge
            /\ pendingOutputs' = IF bgpc = "build" THEN pendingOutputs \ {job.out}
                                                   ELSE pendingOutputs
         \/ /\ job.kind # "flush" /\ bgpc' = "end" /\ merge' = NoMerge
            /\ pendingOutputs' \subseteq pendingOutputs
      /\ UNCHANGED <<phase, toReplay, versions, mem, imm, logfileNumber, shuttingDown, readers,
                     deleting, queue, group, nextId, acked, durable>>
  BY <1>1 DEF FailJob, opening, history
<1>3. /\ TypedLogs /\ TypedTables /\ TypedManifests /\ TypedMemory /\ TypedWriters
      /\ TypedBackground /\ TypedHistory /\ TypedBudget /\ DiskIsSound /\ VersionIsFound
      /\ MemoryIsLogged /\ Working /\ Deleting /\ Writing /\ Up
  BY <1>1 DEF DBInv, Up
<1>4. /\ TypedTables' /\ TypedLogs' /\ TypedManifests' /\ TypedHistory' /\ DiskIsSound'
      /\ Recovering' /\ MemoryIsLogged'
      /\ DOMAIN tables \subseteq DOMAIN tables'
      /\ \A k \in DOMAIN tables : (bgpc = "build" => k # job.out) => tables'[k] = tables[k]
      /\ \A F : F \subseteq versions.files => EntriesOf(F)' = EntriesOf(F)
  <2>1. CASE UNCHANGED tables
    <3>1. TypedTables' /\ TypedLogs' /\ TypedManifests' /\ TypedHistory'
      BY <1>1, <1>2, <1>3, <2>1, KeepTyped
    <3>2. DiskIsSound' /\ Recovering' /\ MemoryIsLogged'
      BY <1>1, <1>2, <1>3, <2>1, KeepDisk, OpenRecovers, KeepMemory DEF disk
    <3>3. \A F : EntriesOf(F)' = EntriesOf(F)
      BY <2>1 DEF EntriesOf
    <3> QED
      BY <2>1, <3>1, <3>2, <3>3
  <2>2. CASE bgpc = "build" /\ tables' = IF Output = {} THEN tables
                                         ELSE Put(tables, job.out, Output)
    <3>1. UNCHANGED opening
      BY <1>2 DEF opening
    <3> QED
      BY <1>1, <1>2, <2>2, <3>1, OutputKeeps
  <2> QED
    BY <1>1, <2>1, <2>2
<1>5. bgpc' \in {"end", "merge"} /\ (bgpc' = "end" => merge' = NoMerge)
      /\ (bgpc' = "merge" => job.kind = "flush" /\ bgpc \in {"build", "torn", "sync"})
  <2>1. bgpc = "merge" => job.kind # "flush"
    BY <1>3 DEF Working, NoJob
  <2> QED
    BY <1>1, <1>2, <2>1 DEF AfterFlush
<1>6. TypedBudget'
  BY <1>1, <1>3, SpendTyped, KeepTyped DEF BudgetKinds
<1>7. TypedWriters' /\ Writing'
  BY <1>1, <1>2, <1>3, SignalKeeps
<1>8. TypedMemory'
  <2>1. edit' \in [log : Int, next : Int, seq : Int, add : Files, del : Files]
    BY <1>2 DEF EmptyEdit, Files, NoNumber
  <2>2. pendingOutputs' \subseteq Nat
    BY <1>2, <1>3 DEF TypedMemory
  <2> QED
    BY <1>1, <1>2, <1>3, <2>1, <2>2 DEF TypedMemory
<1>9. TypedBackground'
  <2>1. NoMerge \in [in : Files, out : Nat \cup {NoFile}, version : Files]
        /\ NoJob \in [kind : {"none", "flush", "merge", "move"}, out : Nat \cup {NoFile}]
    BY DEF NoMerge, NoJob, Files
  <2> QED
    BY <1>2, <1>3, <1>5, <2>1 DEF TypedBackground
<1>10. St' = St /\ Survivors(current)' = Survivors(current)
      /\ Cut(manifests[current])' = Cut(manifests[current])
  BY <1>1 DEF St, LastRecord, Survivors, Cut, MayCrash
<1>11. VersionIsFound'
  <2>1. bgpc' = "merge" => versions.files \subseteq St.files
    BY <1>3, <1>5 DEF VersionIsFound, Working
  <2> QED
    BY <1>1, <1>2, <1>3, <1>4, <1>5, <1>10, <2>1 DEF VersionIsFound, Up, FilesExist
<1>12. Working'
  <2>1. \A n \in pendingOutputs' : n < versions.next
    BY <1>2, <1>3 DEF Working
  <2>2. CASE merge' = NoMerge
    <3>1. /\ merge'.in = {} /\ merge'.version = {} /\ merge'.out = NoFile
      BY <2>2 DEF NoMerge
    <3> QED
      BY <1>2, <1>5, <2>1, <2>2, <3>1 DEF Working
  <2>3. CASE merge' = merge /\ bgpc' = "merge"
    <3>1. bgpc = "build" => job.out # merge.out
      BY <1>3 DEF Working
    <3>2. /\ merge.in \subseteq versions.files /\ merge.version \subseteq versions.files
          /\ merge.out # NoFile =>
              /\ merge.out \in DOMAIN tables' /\ merge.out \in pendingOutputs'
              /\ merge.out < versions.next /\ tables'[merge.out] = tables[merge.out]
              /\ tables[merge.out] = EntriesOf(merge.in)
      BY <1>2, <1>3, <1>4, <1>5, <2>3, <3>1 DEF Working
    <3>3. merge.out # NoFile => tables'[merge.out] = EntriesOf(merge.in)'
      BY <1>4, <2>3, <3>2 DEF EntriesOf
    <3> QED
      BY <1>2, <2>1, <2>3, <3>2, <3>3 DEF Working
  <2> QED
    BY <1>2, <1>5, <2>2, <2>3
<1>13. Deleting'
  BY <1>1, <1>2, <1>3, <1>4 DEF Deleting, FilesExist
<1> QED
  BY <1>4, <1>6, <1>7, <1>8, <1>9, <1>11, <1>12, <1>13 DEF DBInv

\* An append to the MANIFEST stops part-way.
LEMMA TearManifestStep ==
  ASSUME DBInv, TearManifest
  PROVE  DBInv'
<1> USE DEF Typed
<1>1. /\ phase = "open" /\ bgpc = "append" /\ bgpc' = "torn" /\ Spend("tear")
      /\ manifests' = Tear(manifests, versions.manifest)
      /\ UNCHANGED <<logs, tables, current, phase, toReplay, versions, mem, imm, logfileNumber,
                     bgError, shuttingDown, pendingOutputs, readers, deleting, edit,
                     queue, wpc, group, job, merge, nextId, acked, durable>>
  BY DEF TearManifest, opening, memory, writers, history
<1>2. /\ TypedLogs /\ TypedTables /\ TypedManifests /\ TypedMemory /\ TypedWriters
      /\ TypedBackground /\ TypedHistory /\ TypedBudget /\ DiskIsSound /\ VersionIsFound
      /\ MemoryIsLogged /\ Working /\ Deleting /\ Writing /\ Up
  BY <1>1 DEF DBInv, Up
<1>3. /\ current # NoFile /\ current \in DOMAIN manifests /\ versions.manifest = current
      /\ Len(manifests[current].recs) \in Nat /\ Len(manifests[current].recs) > 0
  BY <1>2, LastSurvives DEF VersionIsFound, DiskIsSound
<1> DEFINE file == manifests[current]
           len == Len(file.recs)
<1>4. /\ file \in Records(States) /\ file.torn \subseteq 1..len
      /\ DOMAIN manifests' = DOMAIN manifests
      /\ manifests'[current] = [recs |-> file.recs, synced |-> file.synced,
                                torn |-> file.torn \cup {len}]
      /\ \A k \in DOMAIN manifests : k # current => manifests'[k] = manifests[k]
  BY <1>1, <1>2, <1>3 DEF TypedManifests, Tear, Records
<1>5. /\ manifests'[current].recs = file.recs /\ manifests'[current].synced = file.synced
      /\ manifests'[current].torn = file.torn \cup {len}
      /\ len \in Cut(file) /\ Cut(manifests'[current]) = Cut(file)
  BY <1>3, <1>4, <1>2 DEF Cut, TypedManifests
<1>6. /\ Survivors(current)' = Survivors(current) /\ St' = St
      /\ Cut(manifests[current])' = Cut(manifests[current])
  <2>1. (Cut(manifests[current]))' = Cut(manifests'[current])
    BY <1>1 DEF Cut, MayCrash
  <2> QED
    BY <1>1, <1>5, <2>1 DEF Survivors, St, LastRecord
<1>7. TypedBudget' /\ Budget["tear"] # 0
  BY <1>1, <1>2, SpendTyped DEF BudgetKinds, TypedBudget, Spend
<1>8. TypedManifests'
  <2>1. manifests'[current] \in Records(States)
    BY <1>3, <1>4 DEF Records
  <2>2. manifests'[current].synced <= Len(manifests'[current].recs)
    BY <1>2, <1>3, <1>5 DEF TypedManifests
  <2>3. manifests'[current].torn \subseteq 1..Len(manifests'[current].recs)
    BY <1>3, <1>4, <1>5
  <2> QED
    BY <1>2, <1>4, <1>7, <2>1, <2>2, <2>3 DEF TypedManifests
<1>9. TypedLogs' /\ TypedTables' /\ TypedMemory' /\ TypedWriters' /\ TypedHistory'
  BY <1>1, <1>2, KeepTyped DEF opening, memory, writers
<1>10. TypedBackground'
  BY <1>1, <1>2 DEF TypedBackground
<1>11. DiskIsSound'
  <2>1. \A s : Sound(s)' = Sound(s) /\ Holds(s)' = Holds(s)
    BY <1>1, <1>6 DEF Sound, Holds, Ids, EntriesOf, LogsFrom, SyncedFrom, MayCrash
  <2>2. \A k \in manifests'[current].torn : Holds(manifests'[current].recs[k])
    BY <1>2, <1>3, <1>5 DEF DiskIsSound, St, LastRecord
  <2>3. NextGrows(manifests[current])'
    <3>1. NextGrows(manifests[current])
      BY <1>2, <1>3 DEF DiskIsSound
    <3> QED
      BY <1>1, <1>5, <1>6, <3>1 DEF NextGrows
  <2>4. \A s \in Survivors(current) : Sound(s)
    BY <1>2, <1>3 DEF DiskIsSound
  <2>5. Holds(St)
    BY <1>2, <1>3 DEF DiskIsSound
  <2>6. MayCrash => file.synced > 0
    BY <1>2, <1>3 DEF DiskIsSound
  <2> QED
    BY <1>1, <1>3, <1>4, <1>5, <1>6, <2>1, <2>2, <2>3, <2>4, <2>5, <2>6 DEF DiskIsSound, MayCrash
<1>12. Recovering'
  BY <1>1, OpenRecovers
<1>13. VersionIsFound'
  <2>1. ~bgError => Cut(file) = {len}
    BY <1>1, <1>2 DEF VersionIsFound
  <2> QED
    BY <1>1, <1>2, <1>5, <1>6, <2>1 DEF VersionIsFound, Up, FilesExist
<1>14. MemoryIsLogged' /\ Deleting' /\ Writing'
  BY <1>1, <1>2, KeepMemory, KeepDeleting, KeepWriting DEF writers
<1>15. Working'
  BY <1>1, <1>2, <1>6 DEF Working, Up, EntriesOf
<1> QED
  BY <1>7, <1>8, <1>9, <1>10, <1>11, <1>12, <1>13, <1>14, <1>15 DEF DBInv
-----------------------------------------------------------------------------
LEMMA ReplayIs ==
  ASSUME NEW s, NEW e, e.log \in Nat, e.next \in Nat, e.seq \in Nat
  PROVE  Replay(s, e) = [files |-> (s.files \ e.del) \cup e.add, log |-> e.log,
                         next |-> e.next, seq |-> e.seq]
BY DEF Replay, NoNumber

\* The MANIFEST in use gets one more record, from which a reopening finds all it needs.
LEMMA ManifestGrows ==
  ASSUME TypedManifests, TypedMemory, DiskIsSound, current # NoFile, NEW N \in States,
         DOMAIN manifests' = DOMAIN manifests,
         manifests'[current] = [recs   |-> Append(manifests[current].recs, N),
                                synced |-> manifests[current].synced,
                                torn   |-> manifests[current].torn],
         \A k \in DOMAIN manifests : k # current => manifests'[k] = manifests[k],
         UNCHANGED <<logs, tables, current, acked, durable>>,
         N.log \in Nat, N.next \in Nat, N.seq \in Nat, St.next <= N.next,
         \A f \in N.files : f[2] \in DOMAIN tables /\ f[2] < N.next,
         MayCrash => durable \subseteq Ids(EntriesOf(N.files) \cup SyncedFrom(N.log)),
         Holds(N)
  PROVE  /\ TypedManifests' /\ DiskIsSound' /\ St' = N
         /\ Survivors(current)' \subseteq Survivors(current) \cup {N}
         /\ N \in States
<1> DEFINE r == manifests[current].recs
           y == manifests[current].synced
<1>1. /\ current \in DOMAIN manifests /\ Len(r) \in Nat /\ y \in Nat /\ y <= Len(r)
      /\ r \in Seq(States) /\ St \in Survivors(current) /\ Sound(St) /\ Len(r) > 0
      /\ MayCrash => y > 0
      /\ \A s \in Survivors(current) : Sound(s)
      /\ manifests[current].torn \subseteq 1..Len(r)
      /\ \A k \in manifests[current].torn : r[k] \in Survivors(current) /\ Holds(r[k])
  BY LastSurvives, TornSurvives DEF DiskIsSound, TypedManifests
<1>2. /\ Append(r, N) \in Seq(States)
      /\ Len(Append(r, N)) = Len(r) + 1
      /\ \A i \in 1..Len(r) : Append(r, N)[i] = r[i]
      /\ Append(r, N)[Len(r) + 1] = N
  <2> HIDE DEF r
  <2> QED BY <1>1, AppendFacts
<1>3. /\ manifests'[current].recs = Append(r, N) /\ manifests'[current].synced = y
      /\ manifests'[current].torn = manifests[current].torn
  OBVIOUS
<1>4. TypedManifests'
  <2>1. manifests[current].torn \in SUBSET Nat
    BY <1>1 DEF TypedManifests, Records
  <2>2. manifests'[current] \in Records(States) /\ y <= Len(Append(r, N))
    BY <1>1, <1>2, <2>1 DEF Records
  <2>3. manifests'[current].torn \subseteq 1..Len(Append(r, N))
    BY <1>1, <1>2, <1>3
  <2> QED
    BY <1>1, <1>3, <2>2, <2>3 DEF TypedManifests
<1>5. St' = N
  BY <1>2, <1>3 DEF St, LastRecord
<1>6. Survivors(current)' \subseteq Survivors(current) \cup {N}
  <2> SUFFICES ASSUME NEW k \in Cut(manifests'[current])
               PROVE  manifests'[current].recs[k] \in Survivors(current) \cup {N}
    BY DEF Survivors, Cut, MayCrash
  <2>0. CASE k \in manifests[current].torn
    BY <1>1, <1>2, <1>3, <2>0
  <2>1. CASE MayCrash /\ k \notin manifests[current].torn
    <3>1. k \in y..Len(r) + 1 /\ y > 0
      BY <1>1, <1>2, <1>3, <2>1 DEF Cut
    <3>2. CASE k = Len(r) + 1
      BY <1>2, <1>3, <3>2
    <3>3. CASE k # Len(r) + 1
      <4>1. k \in y..Len(r) /\ k \in 1..Len(r)
        BY <1>1, <3>1, <3>3
      <4>2. k \in Cut(manifests[current])
        BY <2>1, <4>1 DEF Cut
      <4> QED
        BY <1>2, <1>3, <4>1, <4>2 DEF Survivors
    <3> QED
      BY <3>2, <3>3
  <2>2. CASE ~MayCrash /\ k \notin manifests[current].torn
    <3>1. k = Len(r) + 1
      BY <1>2, <1>3, <2>2 DEF Cut
    <3> QED
      BY <1>2, <1>3, <3>1
  <2> QED
    BY <2>0, <2>1, <2>2
<1>7. ASSUME NEW s \in Survivors(current) \cup {N}
      PROVE  Sound(s)'
  <2>1. /\ s.log \in Nat /\ s.next \in Nat /\ s.seq \in Nat /\ s.next <= N.next
        /\ \A f \in s.files : f[2] \in DOMAIN tables /\ f[2] < s.next
        /\ current < s.next
        /\ MayCrash => durable \subseteq Ids(EntriesOf(s.files) \cup SyncedFrom(s.log))
    <3>0. St.next \in Nat /\ current \in Nat /\ current < St.next
      BY <1>1 DEF Sound, TypedMemory
    <3>1. CASE s = N
      <4>1. N.next <= N.next /\ current < N.next
        BY <3>0
      <4> QED
        BY <3>1, <4>1
    <3>2. CASE s \in Survivors(current)
      <4>1. Sound(s)
        BY <1>1, <3>2
      <4>2. s.next \in Nat /\ s.next <= St.next
        BY <4>1 DEF Sound
      <4>3. s.next <= N.next
        BY <3>0, <4>2
      <4> QED
        BY <4>1, <4>3 DEF Sound
    <3> QED
      BY <3>1, <3>2
  <2>2. EntriesOf(s.files)' = EntriesOf(s.files) /\ SyncedFrom(s.log)' = SyncedFrom(s.log)
    BY DEF EntriesOf, SyncedFrom
  <2> QED
    BY <1>5, <2>1, <2>2 DEF Sound, MayCrash
<1>8. \A s : Holds(s)' = Holds(s)
  BY DEF Holds, EntriesOf, LogsFrom
<1>9. DiskIsSound'
  <2>1. Len(manifests'[current].recs) > 0
    BY <1>1, <1>2, <1>3
  <2>2. Holds(St)'
    BY <1>5, <1>8
  <2>3. (\A k \in manifests[current].torn : Holds(manifests[current].recs[k]))'
    BY <1>1, <1>2, <1>3, <1>8
  <2>4. NextGrows(manifests[current])'
    <3>1. \A i \in Cut(manifests'[current]) : i = Len(r) + 1 \/ (i \in 1..Len(r) /\ i \in Cut(manifests[current]))
      BY <1>1, <1>2, <1>3 DEF Cut
    <3>2. NextGrows(manifests[current])
      BY DEF DiskIsSound
    <3>3. \A i \in Cut(manifests[current]) : r[i].next \in Nat /\ r[i].next <= St.next
      BY <1>1 DEF Survivors, Sound
    <3>4. St.next \in Nat
      BY <1>1 DEF Sound
    <3>5. \A i, j \in Cut(manifests'[current]) : i <= j =>
            manifests'[current].recs[i].next <= manifests'[current].recs[j].next
      BY <1>1, <1>2, <1>3, <3>1, <3>2, <3>3, <3>4 DEF NextGrows
    <3> QED
      BY <3>5 DEF NextGrows, Cut, MayCrash
  <2> QED
    BY <1>1, <1>3, <1>6, <1>7, <2>1, <2>2, <2>3, <2>4 DEF DiskIsSound, MayCrash
<1> QED
  BY <1>4, <1>5, <1>6, <1>9

\* LogAndApply appends its record.
LEMMA AppendManifestStep ==
  ASSUME DBInv, AppendManifest
  PROVE  DBInv'
<1> USE DEF Typed
<1>1. /\ phase = "open" /\ bgpc = "append" /\ bgpc' = "sync"
      /\ manifests' = [manifests EXCEPT ![versions.manifest].recs = AddRecord(@, edit)]
      /\ UNCHANGED <<logs, tables, current, phase, toReplay, versions, mem, imm, logfileNumber,
                     bgError, shuttingDown, pendingOutputs, readers, deleting, edit,
                     queue, wpc, group, job, merge, nextId, acked, durable, budget>>
  BY DEF AppendManifest, opening, memory, writers, history
<1>2. /\ TypedLogs /\ TypedTables /\ TypedManifests /\ TypedMemory /\ TypedWriters
      /\ TypedBackground /\ TypedHistory /\ TypedBudget /\ DiskIsSound /\ VersionIsFound
      /\ MemoryIsLogged /\ Working /\ Deleting /\ Writing /\ Up
  BY <1>1 DEF DBInv, Up
<1> DEFINE N == [files |-> (St.files \ edit.del) \cup edit.add, log |-> edit.log,
                 next |-> edit.next, seq |-> edit.seq]
           r == manifests[current].recs
<1>3. /\ current # NoFile /\ versions.manifest = current /\ current \in DOMAIN manifests
      /\ versions.files \subseteq St.files /\ versions.log <= St.log
      /\ \A s \in Survivors(current) : s.log <= logfileNumber
      /\ ~bgError => versions.files = St.files
  BY <1>1, <1>2 DEF VersionIsFound, DiskIsSound
<1>4. /\ edit.log \in Nat /\ edit.next \in Nat /\ edit.seq \in Nat
      /\ edit.next <= versions.next
      /\ \A f \in edit.add : f[2] \in DOMAIN tables /\ f[2] < edit.next
      /\ St.next <= edit.next
      /\ \A f \in versions.files : f[2] < edit.next
      /\ EntriesOf(edit.del) \subseteq EntriesOf(edit.add)
      /\ edit.del \subseteq versions.files
      /\ job.kind = "flush" =>
           /\ edit.log = logfileNumber /\ edit.del = {} /\ imm # NoTable
           /\ UNION imm \subseteq EntriesOf(edit.add)
      /\ job.kind # "flush" => edit.log = versions.log
      /\ job.kind # "none" /\ deleting = {}
  BY <1>1, <1>2 DEF Working
<1>5. /\ St \in Survivors(current) /\ Sound(St) /\ St \in States /\ Len(r) > 0 /\ r \in Seq(States)
  <2>1. /\ St \in Survivors(current) /\ Sound(St) /\ Len(r) > 0 /\ r \in Seq(States)
    BY <1>2, <1>3, LastSurvives DEF DiskIsSound
  <2>2. r[Len(r)] \in States
    <3> HIDE DEF r
    <3> QED BY <2>1
  <2> QED
    BY <2>1, <2>2 DEF St, LastRecord
<1>6. N \in States
  BY <1>2, <1>4, <1>5 DEF States, TypedMemory, Files
<1>7. AddRecord(r, edit) = Append(r, N)
  <2>1. r # <<>>
    <3> HIDE DEF r
    <3> QED BY <1>5
  <2>2. Replayed(r) = St
    BY <2>1 DEF Replayed, St, LastRecord
  <2> QED
    BY <1>4, <2>2, ReplayIs DEF AddRecord
<1>8. /\ DOMAIN manifests' = DOMAIN manifests
      /\ manifests'[current] = [recs   |-> Append(manifests[current].recs, N),
                                synced |-> manifests[current].synced,
                                torn   |-> manifests[current].torn]
      /\ \A k \in DOMAIN manifests : k # current => manifests'[k] = manifests[k]
  <2>1. manifests[current] \in [recs : Seq(States), synced : Nat, torn : SUBSET Nat]
    BY <1>2, <1>3 DEF TypedManifests, Records
  <2>2. manifests' = [manifests EXCEPT ![current].recs = AddRecord(@, edit)]
    BY <1>1, <1>3
  <2> HIDE DEF N
  <2> QED
    BY <1>3, <1>7, <2>1, <2>2
<1>9. /\ N.files = (St.files \ edit.del) \cup edit.add /\ N.log = edit.log
      /\ N.next = edit.next /\ N.seq = edit.seq
  OBVIOUS
<1>10. EntriesOf(St.files) \subseteq EntriesOf(N.files)
       /\ EntriesOf(versions.files) \subseteq EntriesOf(N.files)
       /\ EntriesOf(edit.add) \subseteq EntriesOf(N.files)
  BY <1>3, <1>4 DEF EntriesOf
<1>11. \A f \in N.files : f[2] \in DOMAIN tables /\ f[2] < N.next
  <2>1. \A f \in St.files : f[2] \in DOMAIN tables /\ f[2] < edit.next
    <3>1. \A f \in St.files : f[2] \in DOMAIN tables /\ f[2] < St.next
      BY <1>5 DEF Sound
    <3>2. \A f \in St.files : f[2] \in Nat /\ St.next \in Nat
      BY <1>2, <1>5, <3>1 DEF TypedTables, Sound
    <3> QED
      BY <1>4, <3>1, <3>2
  <2> QED
    BY <1>4, <2>1
<1>12. MayCrash => durable \subseteq Ids(EntriesOf(N.files) \cup SyncedFrom(N.log))
  <2> SUFFICES ASSUME MayCrash
               PROVE  durable \subseteq Ids(EntriesOf(N.files) \cup SyncedFrom(N.log))
    OBVIOUS
  <2>1. CASE job.kind = "flush"
    <3>1. durable \subseteq Ids((UNION imm) \cup EntriesOf(versions.files)
                                 \cup SyncedRecs(logs[logfileNumber]))
      BY <1>2 DEF MemoryIsLogged
    <3>2. SyncedRecs(logs[logfileNumber]) \subseteq SyncedFrom(N.log)
      BY <1>2, <1>4, <2>1 DEF MemoryIsLogged, SyncedFrom, TypedLogs
    <3>3. (UNION imm) \cup EntriesOf(versions.files) \cup SyncedRecs(logs[logfileNumber])
            \subseteq EntriesOf(N.files) \cup SyncedFrom(N.log)
      BY <1>4, <1>10, <2>1, <3>2
    <3> QED
      <4> DEFINE A == (UNION imm) \cup EntriesOf(versions.files)
                        \cup SyncedRecs(logs[logfileNumber])
                 B == EntriesOf(N.files) \cup SyncedFrom(N.log)
      <4>1. durable \subseteq Ids(A) /\ A \subseteq B
        BY <3>1, <3>3, Zenon
      <4> HIDE DEF A, B
      <4>2. durable \subseteq Ids(B)
        BY <4>1, IdsOfMore
      <4> QED
        BY <4>2, Zenon DEF B
  <2>2. CASE job.kind # "flush"
    <3>1. durable \subseteq Ids(EntriesOf(St.files) \cup SyncedFrom(St.log))
      BY <1>5 DEF Sound
    <3>2. \A k \in DOMAIN logs : k >= St.log => k >= N.log
      BY <1>2, <1>3, <1>4, <1>5, <2>2 DEF TypedLogs, TypedMemory, Sound
    <3>3. SyncedFrom(St.log) \subseteq SyncedFrom(N.log)
      BY <3>2 DEF SyncedFrom
    <3>4. EntriesOf(St.files) \cup SyncedFrom(St.log)
            \subseteq EntriesOf(N.files) \cup SyncedFrom(N.log)
      BY <1>10, <3>3
    <3> QED
      BY <3>1, <3>4, IdsOfMore
  <2> QED
    BY <2>1, <2>2
<1>13. Holds(N)
  <2>1. CASE job.kind = "flush"
    <3>1. acked \subseteq Ids(Visible)
      BY <1>2 DEF MemoryIsLogged
    <3>2. mem \subseteq LogsFrom(N.log)
      BY <1>2, <1>4, <2>1 DEF MemoryIsLogged, LogsFrom, TypedLogs
    <3>3. Visible \subseteq EntriesOf(N.files) \cup LogsFrom(N.log)
      BY <1>4, <1>10, <2>1, <3>2 DEF Visible
    <3> QED
      BY <3>1, <3>3, IdsOfMore DEF Holds
  <2>2. CASE job.kind # "flush"
    <3>1. acked \subseteq Ids(EntriesOf(St.files) \cup LogsFrom(St.log))
      BY <1>2, <1>3 DEF DiskIsSound, Holds
    <3>2. \A k \in DOMAIN logs : k >= St.log => k >= N.log
      BY <1>2, <1>3, <1>4, <1>5, <2>2 DEF TypedLogs, TypedMemory, Sound
    <3>3. LogsFrom(St.log) \subseteq LogsFrom(N.log)
      BY <3>2 DEF LogsFrom
    <3>4. EntriesOf(St.files) \cup LogsFrom(St.log)
            \subseteq EntriesOf(N.files) \cup LogsFrom(N.log)
      BY <1>10, <3>3
    <3> QED
      BY <3>1, <3>4, IdsOfMore DEF Holds
  <2> QED
    BY <2>1, <2>2
<1> HIDE DEF N
<1>14. /\ TypedManifests' /\ DiskIsSound' /\ St' = N
       /\ Survivors(current)' \subseteq Survivors(current) \cup {N}
  BY <1>1, <1>2, <1>3, <1>4, <1>6, <1>8, <1>9, <1>11, <1>12, <1>13, ManifestGrows
<1>15. /\ TypedLogs' /\ TypedTables' /\ TypedMemory' /\ TypedWriters' /\ TypedHistory'
       /\ TypedBudget' /\ Recovering' /\ MemoryIsLogged' /\ Deleting' /\ Writing'
  BY <1>1, <1>2, KeepTyped, OpenRecovers, KeepMemory, KeepDeleting, KeepWriting
     DEF opening, memory, writers
<1>16. TypedBackground'
  BY <1>1, <1>2 DEF TypedBackground
<1>17. VersionIsFound'
  <2>1. versions.log <= N.log /\ N.log <= logfileNumber
    BY <1>2, <1>4, <1>9 DEF MemoryIsLogged, TypedMemory
  <2>2. St'.next <= versions.next
    BY <1>4, <1>9, <1>14
  <2>3. \A s \in Survivors(current)' : s.log <= logfileNumber
    BY <1>3, <1>14, <2>1
  <2>4. ~bgError => manifests'[current].torn = {}
    BY <1>1, <1>2, <1>8 DEF VersionIsFound
  <2> QED
    BY <1>1, <1>2, <1>14, <2>1, <2>2, <2>3, <2>4 DEF VersionIsFound, Up, FilesExist
<1>18. Working'
  <2>1. St'.files = (St.files \ edit.del) \cup edit.add /\ St'.log = edit.log
        /\ St'.next = edit.next
    BY <1>9, <1>14
  <2>2. (versions.files \ edit.del) \cup edit.add \subseteq St'.files
        /\ (~bgError => St'.files = (versions.files \ edit.del) \cup edit.add)
        /\ St'.next <= edit.next
    BY <1>3, <1>4, <2>1
  <2>3. EntriesOf(edit.del)' = EntriesOf(edit.del) /\ EntriesOf(edit.add)' = EntriesOf(edit.add)
        /\ EntriesOf(merge.in)' = EntriesOf(merge.in)
    BY <1>1 DEF EntriesOf
  <2> QED
    BY <1>1, <1>2, <1>4, <2>1, <2>2, <2>3 DEF Working, Up
<1> QED
  BY <1>14, <1>15, <1>16, <1>17, <1>18 DEF DBInv
-----------------------------------------------------------------------------
\* The MANIFEST in use is synced: a reopening finds all of it.
LEMMA ManifestSynced ==
  ASSUME TypedManifests, TypedMemory, DiskIsSound, current # NoFile,
         manifests' = SyncedManifest(current),
         UNCHANGED <<logs, tables, current, acked, durable>>
  PROVE  /\ TypedManifests' /\ DiskIsSound' /\ St' = St
         /\ Survivors(current)' \subseteq Survivors(current)
         /\ manifests'[current].torn = manifests[current].torn
         /\ manifests[current].torn = {} =>
              /\ Survivors(current)' = {St}
              /\ Cut(manifests[current])' = {Len(manifests[current].recs)'}
<1> DEFINE r == manifests[current].recs
           y == manifests[current].synced
           torn == manifests[current].torn
<1>1. /\ current \in DOMAIN manifests /\ Len(r) \in Nat /\ y \in Nat /\ y <= Len(r)
      /\ r \in Seq(States) /\ St \in Survivors(current) /\ Sound(St) /\ Len(r) > 0
      /\ manifests[current] \in [recs : Seq(States), synced : Nat, torn : SUBSET Nat]
      /\ \A s \in Survivors(current) : Sound(s)
      /\ NextGrows(manifests[current]) /\ Holds(St) /\ \A k \in torn : Holds(r[k])
  BY LastSurvives DEF DiskIsSound, TypedManifests, Records
<1>2. /\ manifests'[current].recs = r /\ manifests'[current].synced = Len(r)
      /\ manifests'[current].torn = torn
      /\ manifests'[current] \in [recs : Seq(States), synced : Nat, torn : SUBSET Nat]
      /\ DOMAIN manifests' = DOMAIN manifests
      /\ \A k \in DOMAIN manifests : k # current => manifests'[k] = manifests[k]
  BY <1>1 DEF SyncedManifest
<1>3. TypedManifests'
  <2>1. Len(r) <= Len(r)
    BY <1>1
  <2> QED
    BY <1>1, <1>2, <2>1 DEF TypedManifests, Records
<1>4. St' = St
  BY <1>2 DEF St, LastRecord
<1>5. /\ Cut(manifests'[current]) = {Len(r)} \cup torn
      /\ Cut(manifests'[current]) \subseteq Cut(manifests[current])
      /\ Cut(manifests[current])' = Cut(manifests'[current])
  <2>1. Cut(manifests'[current]) = {Len(r)} \cup torn
    BY <1>1, <1>2 DEF Cut
  <2>2. {Len(r)} \cup torn \subseteq Cut(manifests[current])
    BY <1>1 DEF Cut
  <2>3. Cut(manifests[current])' = Cut(manifests'[current])
    BY DEF Cut, MayCrash
  <2> QED
    BY <2>1, <2>2, <2>3
<1>6. Survivors(current)' = {r[k] : k \in {Len(r)} \cup torn}
  BY <1>2, <1>5 DEF Survivors
<1>7. Survivors(current)' \subseteq Survivors(current)
  BY <1>2, <1>5, <1>6 DEF Survivors
<1>8. ASSUME NEW s
      PROVE  Holds(s)' = Holds(s) /\ Sound(s)' = Sound(s)
  BY <1>4 DEF Holds, Sound, EntriesOf, LogsFrom, SyncedFrom, MayCrash
<1>9. DiskIsSound'
  <2>1. \A s \in Survivors(current)' : Sound(s)'
    BY <1>1, <1>7, <1>8
  <2>2. NextGrows(manifests[current])'
    BY <1>1, <1>2, <1>5 DEF NextGrows
  <2>3. Holds(St)' /\ (\A k \in manifests[current].torn : Holds(manifests[current].recs[k]))'
    BY <1>1, <1>2, <1>4, <1>8
  <2> QED
    BY <1>1, <1>2, <2>1, <2>2, <2>3 DEF DiskIsSound, MayCrash
<1> QED
  BY <1>2, <1>3, <1>4, <1>5, <1>6, <1>7, <1>9 DEF St, LastRecord

\* LogAndApply is done: the new version takes the place of the old one.
LEMMA InstallStep ==
  ASSUME DBInv, InstallFlush \/ InstallCompaction
  PROVE  DBInv'
<1> USE DEF Typed
<1>1. /\ phase = "open" /\ deleting = {} /\ bgpc = "sync"
      /\ manifests' = SyncedManifest(versions.manifest)
      /\ versions' = Installed(versions)
      /\ job' = NoJob /\ edit' = EmptyEdit
      /\ UNCHANGED <<logs, tables, current, phase, toReplay, mem, logfileNumber, bgError,
                     shuttingDown, readers, queue, group, nextId, acked, durable, budget>>
      /\ \/ /\ job.kind = "flush" /\ imm' = NoTable /\ bgpc' = AfterFlush
            /\ wpc' = wpc \/ wpc' = SignalAll(wpc)
            /\ UNCHANGED <<pendingOutputs, merge>>
         \/ /\ job.kind # "flush" /\ merge' = NoMerge /\ bgpc' = "end"
            /\ pendingOutputs' = pendingOutputs \ {merge.out}
            /\ UNCHANGED <<imm, wpc>>
      /\ \/ deleting' = {}
         \/ ~bgError /\ \E P : /\ Pinned \subseteq P
                              /\ deleting' = Obsolete(versions', pendingOutputs', P)
  <2>1. CASE InstallFlush
    <3>1. deleting' = {} \/ (~bgError /\ deleting' = Obsolete(versions', pendingOutputs',
                                                   Pinned \cup {merge.version}))
      BY <2>1 DEF InstallFlush, MayDelete
    <3>2. Pinned \subseteq Pinned \cup {merge.version}
      OBVIOUS
    <3> QED
      BY <2>1, <3>1, <3>2 DEF InstallFlush, Unlocked, opening, history
  <2>2. CASE InstallCompaction
    <3>1. deleting' = {} \/ (~bgError /\ deleting' = Obsolete(versions', pendingOutputs', Pinned))
      BY <2>2 DEF InstallCompaction, MayDelete
    <3> QED
      BY <2>2, <3>1 DEF InstallCompaction, Unlocked, opening, history, writers
  <2> QED
    BY <2>1, <2>2
<1>2. /\ TypedLogs /\ TypedTables /\ TypedManifests /\ TypedMemory /\ TypedWriters
      /\ TypedBackground /\ TypedHistory /\ TypedBudget /\ DiskIsSound /\ VersionIsFound
      /\ MemoryIsLogged /\ Working /\ Deleting /\ Writing /\ Up
  BY <1>1 DEF DBInv, Up
<1>3. /\ current # NoFile /\ versions.manifest = current /\ current \in DOMAIN manifests
      /\ versions.log <= St.log /\ current < versions.next
      /\ \A s \in Survivors(current) : s.log <= logfileNumber
      /\ FilesExist(versions.files) /\ \A f \in versions.files : f[2] < versions.next
      /\ toReplay = {} /\ St.next <= versions.next
  BY <1>2 DEF VersionIsFound, DiskIsSound
<1>4. /\ edit.log \in Nat /\ edit.next \in Nat /\ edit.seq \in Nat
      /\ edit.next <= versions.next
      /\ \A f \in edit.add : f[2] \in DOMAIN tables /\ f[2] < edit.next
      /\ \A f \in versions.files : f[2] < edit.next
      /\ EntriesOf(edit.del) \subseteq EntriesOf(edit.add)
      /\ edit.del \subseteq versions.files
      /\ job.kind = "flush" =>
           /\ edit.log = logfileNumber /\ edit.del = {} /\ imm # NoTable
           /\ UNION imm \subseteq EntriesOf(edit.add)
      /\ job.kind # "flush" => edit.log = versions.log
      /\ (versions.files \ edit.del) \cup edit.add \subseteq St.files
      /\ St.log = edit.log
      /\ ~bgError => St.files = (versions.files \ edit.del) \cup edit.add
      /\ merge.in \subseteq versions.files /\ merge.version \subseteq versions.files
      /\ merge.out # NoFile =>
           /\ merge.out \in DOMAIN tables /\ merge.out \in pendingOutputs
           /\ merge.out < versions.next
           /\ tables[merge.out] = EntriesOf(merge.in)
      /\ \A n \in pendingOutputs : n < versions.next
  BY <1>1, <1>2 DEF Working
<1> DEFINE files == (versions.files \ edit.del) \cup edit.add
<1>5. /\ versions'.files = files /\ versions'.log = edit.log /\ versions'.next = versions.next
      /\ versions'.seq = versions.seq /\ versions'.manifest = versions.manifest
      /\ versions' \in [files : Files, log : Nat, next : Nat, seq : Nat, manifest : Nat]
  <2>1. files \in Files
    BY <1>2 DEF TypedMemory, Files
  <2> HIDE DEF files
  <2>2. versions' = [versions EXCEPT !.files = files, !.log = edit.log]
    BY <1>1 DEF Installed, files
  <2> QED
    BY <1>2, <1>4, <2>1, <2>2 DEF TypedMemory
<1>6. /\ TypedManifests' /\ DiskIsSound' /\ St' = St
      /\ Survivors(current)' \subseteq Survivors(current)
      /\ ~bgError => /\ manifests'[current].torn = {}
                     /\ Cut(manifests[current])' = {Len(manifests[current].recs)'}
  <2>1. ~bgError => manifests[current].torn = {}
    BY <1>1, <1>2 DEF VersionIsFound
  <2> QED
    BY <1>1, <1>2, <1>3, <2>1, ManifestSynced
<1>7. bgpc' \in {"end", "merge"} /\ (bgpc' = "end" => merge' = NoMerge)
      /\ (bgpc' = "merge" => job.kind = "flush" /\ UNCHANGED <<merge, pendingOutputs>>)
  BY <1>1 DEF AfterFlush
<1>8. /\ TypedLogs' /\ TypedTables' /\ TypedHistory' /\ TypedBudget' /\ Recovering'
  BY <1>1, <1>2, KeepTyped, OpenRecovers
<1>9. TypedWriters' /\ Writing'
  <2>1. CASE wpc' = wpc
    BY <1>1, <1>2, <2>1, KeepTyped, KeepWriting DEF writers
  <2>2. CASE wpc' = SignalAll(wpc)
    BY <1>1, <1>2, <2>2, SignalKeeps
  <2> QED
    BY <1>1, <2>1, <2>2
<1>10. TypedMemory'
  <2>1. edit' \in [log : Int, next : Int, seq : Int, add : Files, del : Files]
    BY <1>1 DEF EmptyEdit, Files, NoNumber
  <2>2. pendingOutputs' \subseteq Nat /\ imm' \subseteq SUBSET Entries
    BY <1>1, <1>2 DEF TypedMemory, NoTable
  <2> QED
    BY <1>1, <1>2, <1>5, <2>1, <2>2 DEF TypedMemory
<1>11. TypedBackground'
  <2>1. NoMerge \in [in : Files, out : Nat \cup {NoFile}, version : Files]
        /\ NoJob \in [kind : {"none", "flush", "merge", "move"}, out : Nat \cup {NoFile}]
    BY DEF NoMerge, NoJob, Files
  <2> QED
    BY <1>1, <1>2, <1>7, <2>1 DEF TypedBackground
<1>12. /\ \A f \in files : f[2] \in DOMAIN tables /\ f[2] < versions.next
  <2>1. edit.next \in Nat /\ versions.next \in Nat /\ \A f \in files : f[2] \in Nat
    BY <1>2, <1>4 DEF TypedMemory, Files
  <2>2. \A f \in files : f[2] \in DOMAIN tables /\ f[2] < edit.next
    BY <1>3, <1>4 DEF FilesExist
  <2> QED
    BY <1>4, <2>1, <2>2
<1>13. VersionIsFound'
  <2>1. edit.log <= edit.log
    BY <1>4
  <2>2. \A s \in Survivors(current)' : s.log <= logfileNumber
    BY <1>3, <1>6
  <2>3. FilesExist(versions.files)'
    BY <1>1, <1>5, <1>12 DEF FilesExist
  <2> HIDE DEF files
  <2> QED
    BY <1>1, <1>3, <1>4, <1>5, <1>6, <1>7, <1>12, <2>1, <2>2, <2>3
       DEF VersionIsFound, Up, files
<1>14. EntriesOf(versions.files) \subseteq EntriesOf(files)
       /\ EntriesOf(edit.add) \subseteq EntriesOf(files)
  BY <1>4 DEF EntriesOf
<1>15. MemoryIsLogged'
  <2>1. EntriesOf(versions.files)' = EntriesOf(files)
    BY <1>1, <1>5 DEF EntriesOf
  <2>2. (UNION imm) \cup EntriesOf(versions.files)
          \subseteq (UNION imm') \cup EntriesOf(files)
    BY <1>1, <1>4, <1>14
  <2>3. acked' \subseteq Ids(Visible)'
    <3>1. Visible \subseteq Visible'
      BY <1>1, <2>1, <2>2 DEF Visible
    <3>2. acked \subseteq Ids(Visible)
      BY <1>2 DEF MemoryIsLogged
    <3> QED
      BY <1>1, <3>1, <3>2 DEF Ids
  <2>4. (MayCrash => durable \subseteq Ids((UNION imm) \cup EntriesOf(versions.files)
                                            \cup SyncedRecs(logs[logfileNumber])))'
    <3>1. MayCrash => durable \subseteq Ids((UNION imm') \cup EntriesOf(files)
                                              \cup SyncedRecs(logs[logfileNumber]))
      <4>1. MayCrash => durable \subseteq Ids((UNION imm) \cup EntriesOf(versions.files)
                                              \cup SyncedRecs(logs[logfileNumber]))
        BY <1>2 DEF MemoryIsLogged
      <4> QED
        BY <2>2, <4>1 DEF Ids
    <3> QED
      BY <1>1, <2>1, <3>1 DEF MayCrash
  <2>5. (UNION imm \subseteq LogsFrom(versions.log))'
    <3>1. CASE imm' = NoTable
      BY <3>1 DEF NoTable
    <3>2. CASE job.kind # "flush"
      <4>1. LogsFrom(versions.log)' = LogsFrom(versions.log) /\ imm' = imm
        BY <1>1, <1>4, <1>5, <3>2 DEF LogsFrom
      <4> QED
        BY <1>2, <4>1 DEF MemoryIsLogged
    <3> QED
      BY <1>1, <3>1, <3>2
  <2>6. (imm = NoTable \/ \E entries \in imm : imm = {entries})'
    BY <1>1, <1>2 DEF MemoryIsLogged
  <2>7. versions'.log <= logfileNumber
    BY <1>2, <1>4, <1>5 DEF MemoryIsLogged, TypedMemory
  <2>8. LogsAreOld({})'
    BY <1>1, <1>2, <1>5 DEF MemoryIsLogged, LogsAreOld
  <2> QED
    BY <1>1, <1>2, <2>3, <2>4, <2>5, <2>6, <2>7, <2>8 DEF MemoryIsLogged
<1>16. Working'
  <2>1. \A n \in pendingOutputs' : n < versions.next
    BY <1>1, <1>4
  <2>2. CASE merge' = NoMerge
    <3>1. /\ merge'.in = {} /\ merge'.version = {} /\ merge'.out = NoFile
      BY <2>2 DEF NoMerge
    <3> QED
      BY <1>1, <1>5, <1>7, <2>1, <2>2, <3>1 DEF Working
  <2>3. CASE bgpc' = "merge" /\ merge' = merge /\ UNCHANGED pendingOutputs /\ job.kind = "flush"
    <3>1. versions.files \subseteq versions'.files
      BY <1>4, <1>5, <2>3
    <3>2. EntriesOf(merge.in)' = EntriesOf(merge.in)
      BY <1>1, <2>3 DEF EntriesOf
    <3> HIDE DEF files
    <3> QED
      BY <1>1, <1>4, <1>5, <2>1, <2>3, <3>1, <3>2 DEF Working
  <2> QED
    BY <1>7, <2>2, <2>3
<1>17. Deleting'
  <2>1. \A t \in Threads : FilesExist(readers[t])'
    BY <1>1, <1>2 DEF Deleting, FilesExist
  <2>2. CASE deleting' = {}
    BY <1>1, <2>1, <2>2 DEF Deleting
  <2>3. CASE ~bgError /\ \E P : /\ Pinned \subseteq P
                               /\ deleting' = Obsolete(versions', pendingOutputs', P)
    <3>1. PICK P : deleting' = Obsolete(versions', pendingOutputs', P) /\ Pinned \subseteq P
      BY <2>3
    <3>2. ASSUME NEW f \in deleting'
          PROVE  /\ f[1] = "log" => f[2] < versions'.log
                 /\ f[1] = "manifest" => f[2] < versions'.manifest
                 /\ f[1] = "table" => f[2] \in DOMAIN tables
                      /\ f[2] \notin pendingOutputs' \cup Numbers(versions'.files)
                                     \cup Numbers(UNION P)
      <4> DEFINE live == pendingOutputs' \cup Numbers(versions'.files) \cup Numbers(UNION P)
      <4>1. \/ \E n \in DOMAIN logs : n < versions'.log /\ f = <<"log", n>>
            \/ \E n \in DOMAIN manifests : n < versions'.manifest /\ f = <<"manifest", n>>
            \/ \E n \in DOMAIN tables \ live : f = <<"table", n>>
        BY <3>1, <3>2, Zenon DEF Obsolete
      <4> HIDE DEF live
      <4>2. /\ f[1] = "log" => f[2] < versions'.log
            /\ f[1] = "manifest" => f[2] < versions'.manifest
            /\ f[1] = "table" => f[2] \in DOMAIN tables /\ f[2] \notin live
        BY <4>1
      <4> QED
        BY <4>2 DEF live
    <3>3. \A t \in Threads : Numbers(readers[t]) \subseteq Numbers(UNION P)
      <4>1. \A t \in Threads : readers[t] \in P
        BY <1>2, <3>1 DEF Pinned, Range, TypedMemory
      <4> QED
        BY <4>1 DEF Numbers
    <3>4. merge'.out \in pendingOutputs' \/ merge'.out \notin DOMAIN tables
      BY <1>1, <1>2, <1>4, <1>7 DEF NoMerge, TypedTables, NoFile
    <3>5. \A f \in deleting' : f[1] = "table" => f[2] # merge'.out
      BY <3>2, <3>4
    <3>6. \A f \in deleting' : f[1] = "table" =>
            /\ f[2] \notin Numbers(versions'.files)
            /\ \A t \in Threads : f[2] \notin Numbers(readers'[t])
      BY <1>1, <3>2, <3>3
    <3> QED
      BY <1>1, <2>1, <2>3, <3>2, <3>5, <3>6 DEF Deleting
  <2> QED
    BY <1>1, <2>2, <2>3
<1> QED
  BY <1>6, <1>8, <1>9, <1>10, <1>11, <1>13, <1>15, <1>16, <1>17 DEF DBInv
\* DeleteObsoleteFiles deletes a file: the version, and the MANIFEST that is in step with it,
\* do without.
LEMMA DeleteFileStep ==
  ASSUME DBInv, DeleteFile
  PROVE  DBInv'
<1> USE DEF Typed
<1>1. PICK f \in deleting :
        /\ deleting' = deleting \ {f}
        /\ logs' = IF f[1] = "log" THEN Without(logs, f[2]) ELSE logs
        /\ tables' = IF f[1] = "table" THEN Without(tables, f[2]) ELSE tables
        /\ manifests' =
             IF f[1] = "manifest" THEN Without(manifests, f[2]) ELSE manifests
  BY DEF DeleteFile
<1>2. /\ phase = "open"
      /\ UNCHANGED <<current, phase, toReplay, versions, mem, imm, logfileNumber, bgError,
                     shuttingDown, pendingOutputs, readers, edit, queue, wpc, group, bgpc, job,
                     merge, nextId, acked, durable, budget>>
  BY DEF DeleteFile, opening, writers, background, history
<1>3. /\ TypedLogs /\ TypedTables /\ TypedManifests /\ TypedMemory /\ TypedWriters
      /\ TypedBackground /\ TypedHistory /\ TypedBudget /\ DiskIsSound /\ VersionIsFound
      /\ MemoryIsLogged /\ Working /\ Deleting /\ Writing /\ Up
  BY <1>2 DEF DBInv, Up
<1>4. /\ ~bgError /\ bgpc \notin {"build", "append", "torn", "sync"}
      /\ f[1] = "log" => f[2] < versions.log
      /\ f[1] = "manifest" => f[2] < versions.manifest
      /\ f[1] = "table" =>
           /\ f[2] \notin Numbers(versions.files) /\ f[2] # merge.out
           /\ \A t \in Threads : f[2] \notin Numbers(readers[t])
  BY <1>3 DEF Deleting, Working
<1>5. /\ current # NoFile /\ versions.manifest = current /\ current \in Nat
      /\ current \in DOMAIN manifests /\ toReplay = {}
      /\ versions.files = St.files /\ versions.log = St.log
      /\ FilesExist(versions.files)
      /\ Cut(manifests[current]) = {Len(manifests[current].recs)}
  BY <1>3, <1>4 DEF VersionIsFound, DiskIsSound, TypedMemory
<1>6. Survivors(current) = {St}
  BY <1>5 DEF Survivors, St, LastRecord
<1>7. /\ \A k \in DOMAIN logs : k >= versions.log => k \in DOMAIN logs' /\ logs'[k] = logs[k]
      /\ DOMAIN logs' \subseteq DOMAIN logs
      /\ \A k \in DOMAIN logs' : logs'[k] = logs[k]
  <2>1. \A k \in DOMAIN logs : k >= versions.log => (f[1] = "log" => k # f[2])
    BY <1>3, <1>4 DEF TypedLogs, TypedMemory
  <2> QED
    BY <1>1, <2>1 DEF Without, Restrict
<1>8. /\ \A k \in DOMAIN tables : (f[1] = "table" => k # f[2]) =>
                                     k \in DOMAIN tables' /\ tables'[k] = tables[k]
      /\ DOMAIN tables' \subseteq DOMAIN tables
      /\ \A k \in DOMAIN tables' : tables'[k] = tables[k]
  BY <1>1 DEF Without, Restrict
<1>9. /\ current \in DOMAIN manifests'
      /\ DOMAIN manifests' \subseteq DOMAIN manifests
      /\ \A k \in DOMAIN manifests' : manifests'[k] = manifests[k]
  <2>1. f[1] = "manifest" => f[2] # current
    BY <1>4, <1>5
  <2> QED
    BY <1>1, <1>5, <2>1 DEF Without, Restrict
<1>10. \A g \in versions.files : g[2] \in DOMAIN tables' /\ tables'[g[2]] = tables[g[2]]
  <2>1. \A g \in versions.files : g[2] \in DOMAIN tables /\ (f[1] = "table" => g[2] # f[2])
    BY <1>4, <1>5 DEF FilesExist, Numbers
  <2> QED
    BY <1>8, <2>1
<1>11. TypedLogs' /\ TypedTables' /\ TypedManifests'
  <2>1. TypedLogs'
    BY <1>3, <1>7 DEF TypedLogs
  <2>2. TypedTables'
    BY <1>3, <1>8 DEF TypedTables
  <2>3. TypedManifests'
    BY <1>3, <1>9 DEF TypedManifests
  <2> QED
    BY <2>1, <2>2, <2>3
<1>12. TypedMemory'
  BY <1>2, <1>3, <1>5 DEF TypedMemory
<1>13. TypedWriters' /\ TypedBackground' /\ TypedHistory' /\ TypedBudget' /\ Recovering'
  BY <1>2, <1>3, KeepTyped, OpenRecovers DEF writers, background
<1>14. DiskIsSound'
  <2>1. \A s \in Survivors(current) :
          /\ \A g \in s.files : g[2] \in DOMAIN tables' /\ tables'[g[2]] = tables[g[2]]
          /\ \A n \in DOMAIN logs : n >= s.log =>
               /\ n \in DOMAIN logs'
               /\ RecsOf(logs[n]) \subseteq RecsOf(logs'[n])
               /\ SyncedRecs(logs[n]) \subseteq SyncedRecs(logs'[n])
    BY <1>5, <1>6, <1>7, <1>10
  <2> QED
    BY <1>2, <1>3, <1>5, <1>9, <2>1, DiskKeeps
<1>15. St' = St /\ Survivors(current)' = Survivors(current)
      /\ Cut(manifests[current])' = Cut(manifests[current])
  BY <1>2, <1>9 DEF St, LastRecord, Survivors, Cut, MayCrash
<1>16. VersionIsFound'
  <2>1. FilesExist(versions.files)'
    BY <1>2, <1>10 DEF FilesExist
  <2>2. manifests'[current] = manifests[current]
    BY <1>9
  <2> QED
    BY <1>2, <1>3, <1>4, <1>15, <2>1, <2>2 DEF VersionIsFound, Up
<1>17. MemoryIsLogged'
  <2>1. EntriesOf(versions.files)' = EntriesOf(versions.files) /\ Visible' = Visible
    BY <1>2, <1>10 DEF EntriesOf, Visible
  <2>2. LogsFrom(versions.log)' = LogsFrom(versions.log)
    BY <1>2, <1>7 DEF LogsFrom
  <2>3. logfileNumber \in DOMAIN logs /\ versions.log <= logfileNumber
    BY <1>3 DEF MemoryIsLogged
  <2>4. logfileNumber \in DOMAIN logs' /\ logs'[logfileNumber] = logs[logfileNumber]
    BY <1>3, <1>7, <2>3 DEF TypedLogs, TypedMemory
  <2>5. LogsAreOld({})'
    BY <1>2, <1>3, <1>7 DEF MemoryIsLogged, LogsAreOld
  <2> QED
    BY <1>2, <1>3, <2>1, <2>2, <2>3, <2>4, <2>5 DEF MemoryIsLogged, MayCrash
<1>18. Working'
  <2>1. /\ merge.in \subseteq versions.files /\ merge.version \subseteq versions.files
        /\ (merge.out # NoFile =>
              /\ merge.out \in DOMAIN tables /\ merge.out \in pendingOutputs
              /\ merge.out < versions.next /\ tables[merge.out] = EntriesOf(merge.in))
        /\ \A n \in pendingOutputs : n < versions.next
        /\ bgpc \in {"idle", "scheduled", "end"} => merge = NoMerge
        /\ bgpc \in {"idle", "scheduled", "end", "merge"} => job = NoJob
    BY <1>3 DEF Working
  <2>2. EntriesOf(merge.in)' = EntriesOf(merge.in)
    BY <1>2, <1>10, <2>1 DEF EntriesOf
  <2>3. merge.out # NoFile => merge.out \in DOMAIN tables'
                                /\ tables'[merge.out] = tables[merge.out]
    BY <1>4, <1>8, <2>1
  <2> QED
    BY <1>2, <1>4, <2>1, <2>2, <2>3 DEF Working
<1>19. Deleting'
  <2>1. \A t \in Threads : \A g \in readers[t] : g[2] \in DOMAIN tables'
    BY <1>3, <1>4, <1>8 DEF Deleting, FilesExist, Numbers
  <2> QED
    BY <1>1, <1>2, <1>3, <2>1 DEF Deleting, FilesExist, Numbers
<1>20. Writing'
  <2>1. logs'[logfileNumber] = logs[logfileNumber]
    BY <1>3, <1>7 DEF MemoryIsLogged, TypedLogs, TypedMemory
  <2> QED
    BY <1>2, <1>3, <2>1 DEF Writing, Ids
<1> QED
  BY <1>11, <1>12, <1>13, <1>14, <1>16, <1>17, <1>18, <1>19, <1>20 DEF DBInv
-----------------------------------------------------------------------------
\* What recovery leaves alone: nobody uses the database yet.
LEMMA QuietDatabase ==
  ASSUME Quiet'
  PROVE  /\ Deleting' /\ Writing'
         /\ phase' \notin {"ready", "open"} => VersionIsFound' /\ MemoryIsLogged' /\ Working'
<1>1. /\ readers' = [t \in Threads |-> {}] /\ deleting' = {}
      /\ queue' = <<>> /\ wpc' = [t \in Threads |-> "idle"]
  BY DEF Quiet
<1>2. Deleting'
  BY <1>1 DEF Deleting, FilesExist
<1>3. Writing'
  <2>1. Len(queue') = 0
    BY <1>1
  <2>2. 1..Len(queue') = {}
    BY <2>1
  <2>3. \A t \in Threads : wpc'[t] = "idle"
    BY <1>1
  <2> QED
    BY <2>2, <2>3 DEF Writing, Leading
<1>4. phase' \notin {"ready", "open"} => VersionIsFound' /\ MemoryIsLogged' /\ Working'
  BY DEF VersionIsFound, MemoryIsLogged, Working, Up
<1> QED
  BY <1>2, <1>3, <1>4

LEMMA RecoveryFrame ==
  ASSUME DBInv, phase # "open",
         UNCHANGED <<imm, bgError, pendingOutputs, readers, deleting, writers, background,
                     history, budget>>
  PROVE  /\ TypedWriters' /\ TypedBackground' /\ TypedHistory' /\ TypedBudget'
         /\ Quiet' /\ Deleting' /\ Writing'
         /\ UNCHANGED <<nextId, acked, durable>>
         /\ phase' \notin {"ready", "open"} => VersionIsFound' /\ MemoryIsLogged' /\ Working'
<1>1. Quiet
  BY DEF DBInv, Recovering
<1>2. Quiet'
  BY <1>1 DEF Quiet, writers, background
<1>3. UNCHANGED <<nextId, acked, durable>>
  BY DEF history
<1> QED
  BY <1>2, <1>3, QuietDatabase, KeepTyped DEF DBInv, Typed

LEMMA OpenExistingStep ==
  ASSUME DBInv, OpenExisting
  PROVE  DBInv'
<1> USE DEF Typed
<1>1. /\ phase = "closed" /\ phase' = "recover" /\ current # NoFile
      /\ UNCHANGED <<disk, toReplay, memory, writers, background, history, budget>>
  BY DEF OpenExisting, Opening
<1>2. UNCHANGED <<logs, tables, manifests, current, versions, mem, imm, logfileNumber, bgError,
                  shuttingDown, pendingOutputs, readers, deleting, edit>>
  BY <1>1 DEF disk, memory
<1>3. /\ TypedLogs /\ TypedTables /\ TypedManifests /\ TypedMemory /\ DiskIsSound /\ Recovering
  BY DEF DBInv
<1>4. /\ TypedWriters' /\ TypedBackground' /\ TypedHistory' /\ TypedBudget'
      /\ Quiet' /\ Deleting' /\ Writing' /\ UNCHANGED <<nextId, acked, durable>>
      /\ VersionIsFound' /\ MemoryIsLogged' /\ Working'
  BY <1>1, <1>2, RecoveryFrame
<1>5. TypedLogs' /\ TypedTables' /\ TypedManifests'
  BY <1>2, <1>3, KeepTyped
<1>6. TypedMemory'
  BY <1>1, <1>2, <1>3 DEF TypedMemory, Phases
<1>7. DiskIsSound'
  BY <1>1, <1>2, <1>3, <1>4, DiskKeeps DEF DiskIsSound, Sound
<1>8. Recovering'
  <2>1. Shut'
    BY <1>1, <1>2, <1>3 DEF Recovering, Shut, ClosedMemory
  <2> QED
    BY <1>1, <1>4, <2>1 DEF Recovering, Created, Replaying, NewManifest
<1> QED
  BY <1>4, <1>5, <1>6, <1>7, <1>8 DEF DBInv

\* NewDB writes the first MANIFEST.
LEMMA NewDBStep ==
  ASSUME DBInv, NewDB
  PROVE  DBInv'
<1> USE DEF Typed
<1> DEFINE first == [files |-> {}, log |-> 0, next |-> 2, seq |-> 0]
<1>1. /\ phase = "closed" /\ phase' = "created" /\ current = NoFile
      /\ manifests' = Put(manifests, 1,
           [recs |-> <<first>>, synced |-> 0, torn |-> {}])
      /\ UNCHANGED <<logs, tables, current, toReplay, memory, writers, background, history,
                     budget>>
  BY DEF NewDB, Opening
<1>2. UNCHANGED <<logs, tables, current, versions, mem, imm, logfileNumber, bgError,
                  shuttingDown, pendingOutputs, readers, deleting, edit>>
  BY <1>1 DEF memory
<1>3. /\ TypedLogs /\ TypedTables /\ TypedManifests /\ TypedMemory /\ DiskIsSound /\ Recovering
  BY DEF DBInv
<1>4. /\ TypedWriters' /\ TypedBackground' /\ TypedHistory' /\ TypedBudget'
      /\ Quiet' /\ Deleting' /\ Writing' /\ UNCHANGED <<nextId, acked, durable>>
      /\ VersionIsFound' /\ MemoryIsLogged' /\ Working'
  BY <1>1, <1>2, RecoveryFrame
<1>6. /\ 1 \in DOMAIN manifests' /\ manifests'[1] = [recs |-> <<first>>, synced |-> 0, torn |-> {}]
      /\ DOMAIN manifests' = DOMAIN manifests \cup {1}
      /\ \A k \in DOMAIN manifests : k # 1 => manifests'[k] = manifests[k]
  BY <1>1 DEF Put
<1>7. first \in States
  BY DEF States, Files
<1>8. manifests'[1] \in Records(States) /\ manifests'[1].synced <= Len(manifests'[1].recs)
      /\ manifests'[1].recs = <<first>> /\ manifests'[1].torn = {}
  <2>1. <<first>> \in Seq(States) /\ Len(<<first>>) = 1
    BY <1>7
  <2> HIDE DEF first
  <2> QED
    BY <1>6, <2>1 DEF Records
<1>9. TypedLogs' /\ TypedTables' /\ TypedManifests'
  <2> HIDE DEF first
  <2>1. manifests'[1].torn = {}
    BY <1>6
  <2>2. TypedManifests'
    <3>1. DOMAIN manifests' \subseteq Nat
      BY <1>3, <1>6 DEF TypedManifests
    <3>2. ASSUME NEW k \in DOMAIN manifests'
          PROVE  /\ manifests'[k] \in Records(States)
                 /\ manifests'[k].synced <= Len(manifests'[k].recs)
                 /\ manifests'[k].torn \subseteq 1..Len(manifests'[k].recs)
                 /\ Budget["tear"] = 0 => manifests'[k].torn = {}
      BY <1>3, <1>6, <1>8, <2>1 DEF TypedManifests
    <3> QED
      BY <3>1, <3>2 DEF TypedManifests
  <2> QED
    BY <1>2, <1>3, <2>2, KeepTyped
<1>10. TypedMemory'
  BY <1>1, <1>2, <1>3 DEF TypedMemory, Phases
<1>11. DiskIsSound'
  BY <1>1, <1>3, <1>4 DEF DiskIsSound, MayCrash
<1>12. Recovering'
  <2>1. Shut'
    BY <1>1, <1>2, <1>3 DEF Recovering, Shut, ClosedMemory
  <2>2. Created'
    BY <1>1, <1>6, <1>8 DEF Created
  <2> QED
    BY <1>1, <1>4, <2>1, <2>2 DEF Recovering, Replaying, NewManifest
<1> QED
  BY <1>4, <1>9, <1>10, <1>11, <1>12 DEF DBInv

\* CURRENT names the first MANIFEST.
LEMMA NewCurrentStep ==
  ASSUME DBInv, NewCurrent
  PROVE  DBInv'
<1> USE DEF Typed
<1> DEFINE first == [files |-> {}, log |-> 0, next |-> 2, seq |-> 0]
<1>1. /\ phase = "created" /\ phase' = "recover" /\ current' = 1
      /\ UNCHANGED <<logs, tables, manifests, toReplay, memory, writers, background, history,
                     budget>>
  BY DEF NewCurrent, Opening
<1>2. UNCHANGED <<logs, tables, manifests, versions, mem, imm, logfileNumber, bgError,
                  shuttingDown, pendingOutputs, readers, deleting, edit>>
  BY <1>1 DEF memory
<1>3. /\ TypedLogs /\ TypedTables /\ TypedManifests /\ TypedMemory /\ DiskIsSound /\ Recovering
  BY DEF DBInv
<1>4. /\ TypedWriters' /\ TypedBackground' /\ TypedHistory' /\ TypedBudget'
      /\ Quiet' /\ Deleting' /\ Writing' /\ UNCHANGED <<nextId, acked, durable>>
      /\ VersionIsFound' /\ MemoryIsLogged' /\ Working'
  BY <1>1, <1>2, RecoveryFrame
<1>5. TypedLogs' /\ TypedTables' /\ TypedManifests'
  BY <1>2, <1>3, KeepTyped
<1>6. TypedMemory'
  BY <1>1, <1>2, <1>3 DEF TypedMemory, Phases
<1>7. /\ current = NoFile /\ 1 \in DOMAIN manifests /\ manifests[1].recs = <<first>>
      /\ manifests[1].torn = {} /\ acked = {} /\ ~MayCrash
  BY <1>1, <1>3 DEF Recovering, Created, DiskIsSound
<1>8. Len(manifests'[1].recs) = 1 /\ manifests'[1].recs[1] = first
  BY <1>2, <1>7
<1>9. St' = first /\ Survivors(current)' = {first} /\ Cut(manifests'[1]) = {1}
  BY <1>1, <1>7, <1>8 DEF St, LastRecord, Survivors, Cut, MayCrash
<1>10. DiskIsSound'
  <2>1. Sound(first)'
    BY <1>1, <1>4, <1>7, <1>9 DEF Sound, MayCrash
  <2>2. 1 # NoFile
    BY DEF NoFile
  <2> HIDE DEF first
  <2>3. \A s \in Survivors(current)' : Sound(s)'
    BY <1>9, <2>1
  <2>4. NextGrows(manifests'[1]) /\ NextGrows(manifests[current])' = NextGrows(manifests'[1])
    BY <1>1, <1>8, <1>9, <2>1 DEF NextGrows, Cut, MayCrash, Sound
  <2>5. Holds(St)'
    BY <1>4, <1>7 DEF Holds
  <2> QED
    BY <1>1, <1>2, <1>4, <1>7, <1>8, <2>2, <2>3, <2>4, <2>5 DEF DiskIsSound, MayCrash
<1>11. Recovering'
  <2>1. Shut'
    BY <1>1, <1>2, <1>3 DEF Recovering, Shut, ClosedMemory
  <2> QED
    BY <1>1, <1>4, <2>1 DEF Recovering, Created, Replaying, NewManifest
<1> QED
  BY <1>4, <1>5, <1>6, <1>10, <1>11 DEF DBInv
-----------------------------------------------------------------------------
LEMMA UsedGrows ==
  ASSUME NEW n \in Nat, NEW k \in Nat
  PROVE  Used(n, k) \in Nat /\ n <= Used(n, k) /\ k < Used(n, k)
BY DEF Used

\* VersionSet::Recover reports a MANIFEST that was written on behind a failed append.
LEMMA ManifestDamagedStep ==
  ASSUME DBInv, RecoverManifest, phase' = "damaged"
  PROVE  DBInv'
<1> USE DEF Typed
<1>1. /\ phase = "recover" /\ UNCHANGED <<versions, toReplay>>
      /\ UNCHANGED <<disk, mem, imm, logfileNumber, bgError, shuttingDown, pendingOutputs,
                     readers, deleting, edit, budget, writers, background, history>>
  BY DEF RecoverManifest, Opening
<1>2. UNCHANGED <<logs, tables, manifests, current, nextId, acked, durable>>
  BY <1>1 DEF disk, history
<1>3. /\ TypedLogs /\ TypedTables /\ TypedManifests /\ TypedMemory /\ DiskIsSound /\ Recovering
  BY DEF DBInv
<1>4. /\ TypedWriters' /\ TypedBackground' /\ TypedHistory' /\ TypedBudget'
      /\ Quiet' /\ Deleting' /\ Writing'
      /\ VersionIsFound' /\ MemoryIsLogged' /\ Working'
  BY <1>1, RecoveryFrame
<1>5. TypedLogs' /\ TypedTables' /\ TypedManifests'
  BY <1>2, <1>3, KeepTyped
<1>6. TypedMemory'
  BY <1>1, <1>2, <1>3 DEF TypedMemory, Phases
<1>7. DiskIsSound'
  BY <1>1, <1>2, <1>3, DiskKeeps DEF DiskIsSound, Sound
<1>8. Recovering'
  <2>1. Shut'
    BY <1>1, <1>3 DEF Recovering, Shut, ClosedMemory
  <2> QED
    BY <1>4, <2>1 DEF Recovering, Created, Replaying, NewManifest
<1> QED
  BY <1>4, <1>5, <1>6, <1>7, <1>8 DEF DBInv

\* VersionSet::Recover reads a sound MANIFEST.
LEMMA RecoverManifestStep ==
  ASSUME DBInv, RecoverManifest, phase' # "damaged"
  PROVE  DBInv'
<1> USE DEF Typed
<1> DEFINE state == Replayed(manifests[current].recs)
<1>1. /\ phase = "recover"
      /\ UNCHANGED <<disk, mem, imm, logfileNumber, bgError, shuttingDown, pendingOutputs,
                     readers, deleting, edit, budget, writers, background, history>>
      /\ IF Corruption(state)
         THEN /\ phase' = "corrupt"
              /\ UNCHANGED <<versions, toReplay>>
         ELSE /\ phase' = "replay"
              /\ \E reuse \in {FALSE, ReuseLogs} :
                   versions' = [files |-> state.files, log |-> state.log,
                                next |-> Used(state.next + 1, state.log),
                                seq |-> state.seq,
                                manifest |-> IF reuse THEN current
                                             ELSE state.next]
              /\ toReplay' = {n \in DOMAIN logs : n >= state.log}
  BY DEF RecoverManifest, Opening
<1>2. /\ TypedLogs /\ TypedTables /\ TypedManifests /\ TypedMemory /\ DiskIsSound /\ Recovering
      /\ Survivable
  BY DEF DBInv
<1>3. current # NoFile
  BY <1>1, <1>2 DEF DiskIsSound
<1>4. /\ current \in DOMAIN manifests /\ Len(manifests[current].recs) > 0
      /\ manifests[current].recs \in Seq(States) /\ Sound(St) /\ current \in Nat
  BY <1>2, <1>3, LastSurvives DEF DiskIsSound, TypedMemory
<1>5. state = St /\ St \in States
  <2> DEFINE r == manifests[current].recs
  <2>1. r # <<>> /\ r[Len(r)] \in States
    <3>1. r \in Seq(States) /\ Len(r) > 0
      BY <1>4
    <3> HIDE DEF r
    <3> QED BY <3>1
  <2> QED
    BY <2>1 DEF Replayed, St, LastRecord
<1>6. /\ St.log \in Nat /\ St.next \in Nat /\ St.seq \in Nat /\ current < St.next
      /\ \A f \in St.files : f[2] \in DOMAIN tables /\ f[2] < St.next
  BY <1>4 DEF Sound
<1>7. ~Corruption(state)
  BY <1>5, <1>6 DEF Corruption, Numbers, NoNumber
<1> DEFINE next == Used(St.next + 1, St.log)
<1>8. /\ phase' = "replay"
      /\ toReplay' = {n \in DOMAIN logs : n >= St.log}
      /\ \E reuse \in {FALSE, ReuseLogs} :
           versions' = [files |-> St.files, log |-> St.log, next |-> next, seq |-> St.seq,
                        manifest |-> IF reuse THEN current ELSE St.next]
  BY <1>1, <1>5, <1>7
<1>9. next \in Nat /\ St.next < next /\ St.log < next
  BY <1>6 DEF Used
<1>10. PICK reuse \in {FALSE, ReuseLogs} :
           versions' = [files |-> St.files, log |-> St.log, next |-> next, seq |-> St.seq,
                        manifest |-> IF reuse THEN current ELSE St.next]
  BY <1>8
<1> HIDE DEF next, state
<1>11. /\ versions'.files = St.files /\ versions'.log = St.log /\ versions'.next = next
       /\ versions'.seq = St.seq /\ versions'.manifest = IF reuse THEN current ELSE St.next
       /\ versions' \in [files : Files, log : Nat, next : Nat, seq : Nat, manifest : Nat]
  BY <1>4, <1>5, <1>6, <1>9, <1>10 DEF States
<1>12. UNCHANGED <<logs, tables, manifests, current>>
  BY <1>1 DEF disk
<1>13. /\ TypedWriters' /\ TypedBackground' /\ TypedHistory' /\ TypedBudget'
      /\ Quiet' /\ Deleting' /\ Writing' /\ UNCHANGED <<nextId, acked, durable>>
      /\ VersionIsFound' /\ MemoryIsLogged' /\ Working'
  BY <1>1, <1>8, RecoveryFrame
<1>14. TypedLogs' /\ TypedTables' /\ TypedManifests'
  BY <1>2, <1>12, KeepTyped
<1>15. TypedMemory'
  BY <1>1, <1>2, <1>8, <1>11, <1>12 DEF TypedMemory, Phases
<1>16. DiskIsSound'
  BY <1>2, <1>3, <1>12, <1>13, DiskKeeps DEF DiskIsSound, Sound
<1>17. Replaying'
  <2>1. St' = St
    BY <1>12 DEF St, LastRecord
  <2>2. versions'.manifest < next
    BY <1>4, <1>6, <1>9, <1>11
  <2>3. ~ReuseLogs => versions'.manifest # current
    <3>1. ~ReuseLogs => reuse = FALSE
      BY <1>10, DatabaseAssumption DEF DBAssumption
    <3>2. St.next # current
      BY <1>4, <1>6
    <3> QED
      BY <1>11, <3>1, <3>2
  <2>9. MayCrash => ~ReuseLogs
    BY <1>2 DEF Survivable, MayCrash
  <2>4. LogsAreOld(toReplay)'
    <3>1. \A n \in DOMAIN logs \ toReplay' : n < next
      BY <1>2, <1>6, <1>8, <1>9 DEF TypedLogs
    <3> QED
      BY <1>11, <1>12, <3>1 DEF LogsAreOld
  <2>5. edit' = EmptyEdit /\ logfileNumber' = 0 /\ mem' = {}
    BY <1>1, <1>2 DEF Recovering, Shut, ClosedMemory
  <2>6. AddsAreTables' /\ edit'.del = {}
    BY <2>5 DEF AddsAreTables, EmptyEdit
  <2>7. (LogsFrom(versions.log) \subseteq UNION {RecsOf(logs[n]) : n \in toReplay})'
    BY <1>8, <1>11, <1>12 DEF LogsFrom
  <2>8. \A n \in toReplay' : versions'.log <= n
    BY <1>2, <1>6, <1>8, <1>11 DEF TypedLogs
  <2> QED
    BY <1>3, <1>8, <1>9, <1>11, <1>12, <2>1, <2>2, <2>3, <2>4, <2>5, <2>6, <2>7, <2>8, <2>9
       DEF Replaying, MayCrash
<1>18. Recovering'
  BY <1>8, <1>13, <1>17 DEF Recovering, Shut, Created, NewManifest
<1> QED
  BY <1>2, <1>13, <1>14, <1>15, <1>16, <1>18 DEF DBInv, Survivable

\* A MANIFEST that goes on being used was never torn.
LEMMA ReusedIsWhole ==
  ASSUME DBInv, phase \in {"replay", "descriptor"}, versions.manifest = current
  PROVE  manifests[current].torn = {}
<1>1. current # NoFile /\ ReuseLogs
  BY DEF DBInv, Recovering, Replaying
<1>2. current \in DOMAIN manifests
  BY <1>1 DEF DBInv, DiskIsSound
<1>3. Budget["tear"] = 0
  BY <1>1 DEF DBInv, Survivable
<1> QED
  BY <1>2, <1>3 DEF DBInv, Typed, TypedManifests

\* RecoverLogFile: what the log holds is in a table or in mem_.
LEMMA RecoverLogFileStep ==
  ASSUME DBInv, RecoverLogFile
  PROVE  DBInv'
<1> USE DEF Typed
<1>1. PICK n \in toReplay :
       LET entries == RecsOf(logs[n])
           reuse == ReuseLogs /\ MayReuse(n, entries)
           table == IF reuse \/ entries = {} THEN {} ELSE {versions.next}
       IN  /\ \A k \in toReplay : n <= k
           /\ toReplay' = toReplay \ {n}
           /\ tables' = [k \in DOMAIN tables \cup table |->
                           IF k \in table THEN entries ELSE tables[k]]
           /\ edit' = [edit EXCEPT !.add = @ \cup ({0} \X table)]
           /\ mem' = IF reuse THEN entries ELSE mem
           /\ logfileNumber' = IF reuse THEN n ELSE logfileNumber
           /\ \E last \in {versions.seq} \cup {e.seq : e \in entries} :
                /\ LastSequence(last, entries, versions.seq)
                /\ versions' = [versions EXCEPT
                     !.next = Used(@ + Cardinality(table), n), !.seq = last]
  BY DEF RecoverLogFile
<1> DEFINE entries == RecsOf(logs[n])
           reuse == ReuseLogs /\ MayReuse(n, entries)
           table == IF reuse \/ entries = {} THEN {} ELSE {versions.next}
           next == Used(versions.next + Cardinality(table), n)
<1>2. /\ phase = "replay" /\ phase' = phase
      /\ UNCHANGED <<logs, manifests, current, imm, bgError, shuttingDown, pendingOutputs,
                     readers, deleting, writers, background, history, budget>>
  BY DEF RecoverLogFile, Opening
<1>3. /\ TypedLogs /\ TypedTables /\ TypedManifests /\ TypedMemory /\ DiskIsSound /\ Recovering
      /\ Survivable
  BY DEF DBInv
<1>4. /\ current # NoFile
      /\ versions.files = St.files /\ versions.log = St.log
      /\ St.next < versions.next
      /\ versions.manifest < versions.next /\ versions.log < versions.next
      /\ \A k \in toReplay : versions.log <= k
      /\ MayCrash => versions.manifest # current
      /\ LogsAreOld(toReplay) /\ AddsAreTables /\ edit.del = {}
      /\ logfileNumber = 0 => mem = {} /\ phase = "replay"
      /\ logfileNumber # 0 => toReplay = {}
      /\ MayCrash => mem = {}
      /\ LogsFrom(versions.log) \subseteq
           EntriesOf(edit.add) \cup mem \cup UNION {RecsOf(logs[k]) : k \in toReplay}
  BY <1>2, <1>3 DEF Recovering, Replaying
<1>5. logfileNumber = 0 /\ mem = {} /\ n \in DOMAIN logs /\ n \in Nat /\ n # 0
  BY <1>3, <1>4 DEF TypedMemory, TypedLogs
<1>6. entries \in SUBSET Entries
  <2>1. logs[n] \in [recs : Seq(SUBSET Entries), synced : Nat, torn : SUBSET Nat]
    BY <1>3, <1>5 DEF TypedLogs
  <2>2. entries = UNION {logs[n].recs[i] : i \in 1..Len(logs[n].recs)}
    BY <2>1, RecsAt
  <2>3. \A i \in 1..Len(logs[n].recs) : logs[n].recs[i] \in SUBSET Entries
    <3> DEFINE S == SUBSET Entries
               r == logs[n].recs
    <3>1. r \in Seq(S)
      BY <2>1
    <3>2. \A i \in 1..Len(r) : r[i] \in S
      <4> HIDE DEF S, r
      <4> QED BY <3>1
    <3> QED
      BY <3>2
  <2> QED
    BY <2>2, <2>3
<1>7. Cardinality(table) \in Nat
  <2>1. IsFiniteSet({}) /\ IsFiniteSet({versions.next})
    BY FS_EmptySet, FS_Singleton
  <2> QED
    BY <2>1, FS_CardinalityType
<1>8. /\ tables' = [k \in DOMAIN tables \cup table |-> IF k \in table THEN entries ELSE tables[k]]
      /\ DOMAIN tables' = DOMAIN tables \cup table
      /\ \A k \in table : tables'[k] = entries
      /\ \A k \in DOMAIN tables : k \notin table => tables'[k] = tables[k]
  <2> HIDE DEF table, entries
  <2>1. tables' = [k \in DOMAIN tables \cup table |-> IF k \in table THEN entries ELSE tables[k]]
    BY <1>1 DEF table, entries
  <2> QED
    BY <2>1
<1>9. /\ toReplay' = toReplay \ {n}
      /\ edit' = [edit EXCEPT !.add = @ \cup ({0} \X table)]
      /\ mem' = IF reuse THEN entries ELSE mem
      /\ logfileNumber' = IF reuse THEN n ELSE logfileNumber
      /\ \A k \in toReplay : n <= k
  BY <1>1
<1>10. PICK last \in {versions.seq} \cup {e.seq : e \in entries} :
         versions' = [versions EXCEPT !.next = next, !.seq = last]
  BY <1>1
<1>11. versions.next \in Nat /\ last \in Nat
  <2>1. versions.seq \in Nat /\ versions.next \in Nat
    BY <1>3 DEF TypedMemory
  <2>2. \A e \in entries : e.seq \in Nat
    BY <1>6 DEF Entries
  <2> HIDE DEF entries
  <2> QED
    BY <2>1, <2>2
<1>12. table \subseteq {versions.next} /\ (~reuse /\ entries # {} => table = {versions.next})
       /\ (table # {} => Cardinality(table) = 1)
  BY FS_Singleton
<1>13. next \in Nat /\ versions.next <= next /\ n < next /\ (table # {} => versions.next < next)
  <2>1. versions.next + Cardinality(table) \in Nat
    BY <1>7, <1>11
  <2>2. next \in Nat /\ versions.next + Cardinality(table) <= next /\ n < next
    BY <1>5, <2>1, UsedGrows
  <2> HIDE DEF next, table
  <2> QED
    BY <1>7, <1>11, <1>12, <2>2
<1>14. reuse => ~MayCrash /\ toReplay = {n}
  BY <1>3 DEF Survivable, MayCrash, MayReuse
<1> HIDE DEF table, entries, next, reuse
<1>15. /\ versions'.files = versions.files /\ versions'.log = versions.log
       /\ versions'.next = next /\ versions'.seq = last
       /\ versions'.manifest = versions.manifest
       /\ versions' \in [files : Files, log : Nat, next : Nat, seq : Nat, manifest : Nat]
  BY <1>3, <1>10, <1>11, <1>13 DEF TypedMemory
<1>16. /\ edit'.add = edit.add \cup ({0} \X table) /\ edit'.del = {}
       /\ edit' \in [log : Int, next : Int, seq : Int, add : Files, del : Files]
  <2>1. {0} \X table \subseteq Levels \X Nat
    BY <1>11, <1>12 DEF Levels
  <2>2. edit.add \cup ({0} \X table) \in Files
    BY <1>3, <2>1 DEF TypedMemory, Files
  <2> QED
    BY <1>3, <1>4, <1>9, <2>2 DEF TypedMemory
<1>17. \A k \in DOMAIN tables : k < versions.next => tables'[k] = tables[k] /\ k \in DOMAIN tables'
  BY <1>3, <1>8, <1>11, <1>12 DEF TypedTables
<1>18. /\ TypedWriters' /\ TypedBackground' /\ TypedHistory' /\ TypedBudget'
      /\ Quiet' /\ Deleting' /\ Writing' /\ UNCHANGED <<nextId, acked, durable>>
      /\ VersionIsFound' /\ MemoryIsLogged' /\ Working'
  BY <1>2, RecoveryFrame
<1>19. TypedLogs' /\ TypedTables' /\ TypedManifests'
  <2>1. TypedTables'
    BY <1>3, <1>6, <1>8, <1>11, <1>12 DEF TypedTables
  <2> QED
    BY <1>2, <1>3, <2>1, KeepTyped
<1>20. TypedMemory'
  <2>1. mem' \subseteq Entries /\ logfileNumber' \in Nat /\ toReplay' \subseteq DOMAIN logs'
    BY <1>2, <1>3, <1>5, <1>6, <1>9 DEF TypedMemory
  <2> QED
    BY <1>2, <1>3, <1>15, <1>16, <2>1 DEF TypedMemory
<1>21. /\ Sound(St) /\ \A s \in Survivors(current) : Sound(s)
       /\ St.next \in Nat
  BY <1>3, <1>4, LastSurvives DEF DiskIsSound, Sound
<1>22. DiskIsSound'
  <2>1. ASSUME NEW s \in Survivors(current), NEW f \in s.files
        PROVE  f[2] \in DOMAIN tables' /\ tables'[f[2]] = tables[f[2]]
    <3>1. f[2] \in DOMAIN tables /\ f[2] < s.next /\ s.next \in Nat /\ s.next <= St.next
      BY <1>21 DEF Sound
    <3>2. f[2] \in Nat
      BY <1>3, <3>1 DEF TypedTables
    <3>3. f[2] < versions.next
      BY <1>4, <1>11, <1>21, <3>1, <3>2
    <3> QED
      BY <1>17, <3>1, <3>3
  <2>2. current \in DOMAIN manifests
    BY <1>3, <1>4 DEF DiskIsSound
  <2> QED
    BY <1>2, <1>3, <1>4, <1>18, <2>1, <2>2, DiskKeeps
<1>23. Replaying'
  <2>1. St' = St
    BY <1>2 DEF St, LastRecord
  <2>2. St.next < next /\ versions.manifest < next /\ versions.log < next
    BY <1>3, <1>4, <1>11, <1>13, <1>21 DEF TypedMemory
  <2>3. LogsAreOld(toReplay)'
    <3>1. \A k \in DOMAIN logs \ toReplay : k < next
      BY <1>3, <1>4, <1>11, <1>13 DEF LogsAreOld, TypedLogs
    <3> QED
      BY <1>2, <1>9, <1>13, <1>15, <3>1 DEF LogsAreOld
  <2>4. \A f \in edit.add : f[2] \in DOMAIN tables' /\ tables'[f[2]] = tables[f[2]]
    BY <1>4, <1>17 DEF AddsAreTables
  <2>5. AddsAreTables'
    <3>1. \A f \in edit.add : f[2] < next
      <4>1. \A f \in edit.add : f[2] < versions.next /\ f[2] \in Nat
        BY <1>3, <1>4 DEF AddsAreTables, TypedMemory, Files
      <4> QED
        BY <1>11, <1>13, <4>1
    <3>2. \A f \in {0} \X table : f[2] \in DOMAIN tables' /\ f[2] < next
      BY <1>8, <1>12, <1>13
    <3> QED
      BY <1>15, <1>16, <2>4, <3>1, <3>2 DEF AddsAreTables
  <2>6. EntriesOf(edit.add) \subseteq EntriesOf(edit.add)'
    BY <1>16, <2>4 DEF EntriesOf
  <2>7. entries \subseteq EntriesOf(edit.add)' \cup mem'
    <3>1. CASE reuse \/ entries = {}
      BY <1>9, <3>1
    <3>2. CASE ~reuse /\ entries # {}
      <4>1. versions.next \in table
        BY <1>12, <3>2
      <4>2. <<0, versions.next>> \in edit'.add /\ tables'[versions.next] = entries
        BY <1>8, <1>16, <4>1
      <4> QED
        BY <4>2 DEF EntriesOf
    <3> QED
      BY <3>1, <3>2
  <2>8. (LogsFrom(versions.log) \subseteq
           EntriesOf(edit.add) \cup mem \cup UNION {RecsOf(logs[k]) : k \in toReplay})'
    <3>1. LogsFrom(versions.log)' = LogsFrom(versions.log)
      BY <1>2, <1>15 DEF LogsFrom
    <3>2. UNION {RecsOf(logs[k]) : k \in toReplay}
            \subseteq entries \cup UNION {RecsOf(logs'[k]) : k \in toReplay'}
      BY <1>2, <1>9 DEF entries
    <3> QED
      BY <1>4, <1>5, <2>6, <2>7, <3>1, <3>2
  <2>9. logfileNumber' # 0 =>
          /\ toReplay' = {} /\ logfileNumber' \in DOMAIN logs'
          /\ logfileNumber' >= versions'.log
          /\ mem' = RecsOf(logs'[logfileNumber'])
    BY <1>2, <1>3, <1>4, <1>5, <1>9, <1>14, <1>15 DEF entries, TypedMemory
  <2>10. (logfileNumber' = 0 => mem' = {}) /\ (MayCrash => mem' = {})
    BY <1>4, <1>5, <1>9, <1>14
  <2>11. \A k \in toReplay' : versions'.log <= k
    BY <1>4, <1>9, <1>15
  <2>12. ~ReuseLogs => versions'.manifest # current
    BY <1>2, <1>3, <1>15 DEF Recovering, Replaying
  <2> QED
    BY <1>2, <1>4, <1>15, <1>16, <2>1, <2>2, <2>3, <2>5, <2>8, <2>9, <2>10, <2>11, <2>12
       DEF Replaying, MayCrash
<1>24. Recovering'
  BY <1>2, <1>18, <1>23 DEF Recovering, Shut, Created, NewManifest
<1> QED
  BY <1>3, <1>18, <1>19, <1>20, <1>22, <1>24 DEF DBInv, Survivable
-----------------------------------------------------------------------------
\* A log to go on with, old or new; the database is ready if nothing has to be written.
LEMMA NewLogStep ==
  ASSUME DBInv, NewLog
  PROVE  DBInv'
<1> USE DEF Typed
<1> DEFINE create == logfileNumber = 0
           number == IF create THEN versions.next ELSE logfileNumber
           next == versions.next + (IF create THEN 1 ELSE 0)
           save == versions.manifest # current \/ edit.add # {}
<1>1. /\ phase = "replay" /\ toReplay = {}
      /\ logs' = IF create THEN Put(logs, number, EmptyLog) ELSE logs
      /\ logfileNumber' = number
      /\ versions' = [versions EXCEPT !.next = next]
      /\ edit' = [edit EXCEPT !.log = number, !.next = next, !.seq = versions.seq]
      /\ phase' = IF save THEN "descriptor" ELSE "ready"
      /\ UNCHANGED <<tables, manifests, current, toReplay, mem, imm, bgError,
                     shuttingDown, pendingOutputs, readers, deleting, writers, background,
                     history, budget>>
  BY DEF NewLog, Opening
<1>2. /\ TypedLogs /\ TypedTables /\ TypedManifests /\ TypedMemory /\ DiskIsSound /\ Recovering
  BY DEF DBInv
<1>3. /\ current # NoFile
      /\ versions.files = St.files /\ versions.log = St.log
      /\ St.next < versions.next
      /\ versions.manifest < versions.next /\ versions.log < versions.next
      /\ MayCrash => versions.manifest # current
      /\ ~ReuseLogs => versions.manifest # current
      /\ LogsAreOld({}) /\ AddsAreTables /\ edit.del = {}
      /\ logfileNumber = 0 => mem = {}
      /\ logfileNumber # 0 =>
           /\ logfileNumber \in DOMAIN logs
           /\ logfileNumber >= versions.log
           /\ mem = RecsOf(logs[logfileNumber])
      /\ MayCrash => mem = {}
      /\ LogsFrom(versions.log) \subseteq EntriesOf(edit.add) \cup mem
  BY <1>1, <1>2 DEF Recovering, Replaying
<1>4. /\ versions.next \in Nat /\ versions.next # 0 /\ number \in Nat /\ number # 0 /\ next \in Nat
      /\ versions.next <= next /\ number < next /\ versions.seq \in Nat
      /\ current \in Nat
  <2>1. versions.next \in Nat /\ versions.next # 0 /\ logfileNumber \in Nat /\ versions.seq \in Nat
        /\ current \in Nat
    BY <1>2, <1>3 DEF TypedMemory
  <2>2. logfileNumber # 0 => logfileNumber < versions.next
    BY <1>3 DEF LogsAreOld
  <2> QED
    BY <2>1, <2>2
<1>5. /\ DOMAIN logs' = DOMAIN logs \cup {number}
      /\ \A k \in DOMAIN logs : logs'[k] = logs[k]
      /\ create => logs'[number] = EmptyLog
      /\ number \in DOMAIN logs'
  <2>1. CASE create
    <3>1. number \notin DOMAIN logs
      BY <1>2, <1>3, <1>4, <2>1 DEF LogsAreOld, TypedLogs
    <3>2. logs' = Put(logs, number, EmptyLog)
      BY <1>1, <2>1
    <3> HIDE DEF number, create
    <3> QED
      BY <3>1, <3>2 DEF Put
  <2>2. CASE ~create
    BY <1>1, <1>3, <2>2
  <2> QED
    BY <2>1, <2>2
<1>6. /\ versions'.files = versions.files /\ versions'.log = versions.log
      /\ versions'.next = next /\ versions'.seq = versions.seq
      /\ versions'.manifest = versions.manifest
      /\ versions' \in [files : Files, log : Nat, next : Nat, seq : Nat, manifest : Nat]
      /\ edit'.log = number /\ edit'.next = next /\ edit'.seq = versions.seq
      /\ edit'.add = edit.add /\ edit'.del = {}
      /\ edit' \in [log : Int, next : Int, seq : Int, add : Files, del : Files]
  <2> HIDE DEF number, next
  <2>1. number \in Int /\ next \in Int /\ versions.seq \in Int
    BY <1>4
  <2> QED
    BY <1>1, <1>2, <1>3, <1>4, <2>1 DEF TypedMemory
<1>7. /\ TypedWriters' /\ TypedBackground' /\ TypedHistory' /\ TypedBudget'
      /\ Quiet' /\ Deleting' /\ Writing' /\ UNCHANGED <<nextId, acked, durable>>
      /\ phase' \notin {"ready", "open"} => VersionIsFound' /\ MemoryIsLogged' /\ Working'
  BY <1>1, RecoveryFrame
<1>8. TypedLogs' /\ TypedTables' /\ TypedManifests'
  <2>1. TypedLogs'
    <3>1. \A k \in DOMAIN logs' : k \in DOMAIN logs \/ (create /\ k = number)
      BY <1>3, <1>5
    <3> HIDE DEF number, create
    <3> QED
      BY <1>2, <1>4, <1>5, <3>1, EmptyLogFacts DEF TypedLogs
  <2> QED
    BY <1>1, <1>2, <2>1, KeepTyped
<1>9. TypedMemory'
  <2>1. phase' \in Phases /\ toReplay' \subseteq DOMAIN logs' /\ logfileNumber' \in Nat
    BY <1>1, <1>4 DEF Phases
  <2> QED
    BY <1>1, <1>2, <1>6, <2>1 DEF TypedMemory
<1>10. DiskIsSound'
  <2>1. /\ current \in DOMAIN manifests /\ \A s \in Survivors(current) : Sound(s)
    BY <1>2, <1>3 DEF DiskIsSound
  <2> QED
    BY <1>1, <1>2, <1>3, <1>5, <1>7, <2>1, DiskKeeps DEF Sound
<1>11. /\ St' = St /\ Survivors(current)' = Survivors(current)
       /\ Cut(manifests[current])' = Cut(manifests[current])
       /\ EntriesOf(edit.add)' = EntriesOf(edit.add)
  BY <1>1, <1>6 DEF St, LastRecord, Survivors, Cut, MayCrash, EntriesOf
<1>12. /\ St.next \in Nat /\ St.next < next /\ versions.manifest < next /\ versions.log < next
       /\ versions.log <= number
  <2>1. St.next \in Nat /\ versions.manifest \in Nat /\ versions.log \in Nat
    BY <1>2, <1>3, LastSurvives DEF Sound, TypedMemory
  <2> QED
    BY <1>3, <1>4, <2>1
<1>13. LogsAreOld({})'
  <2>1. \A k \in DOMAIN logs' : k < next
    BY <1>2, <1>3, <1>4, <1>5 DEF LogsAreOld, TypedLogs
  <2> QED
    BY <1>6, <2>1 DEF LogsAreOld
<1>14. mem' = RecsOf(logs'[number]) /\ mem' = mem
  BY <1>1, <1>3, <1>5, EmptyLogFacts
<1>15. LogsFrom(versions.log)' \subseteq EntriesOf(edit.add) \cup mem
  <2>1. \A k \in DOMAIN logs' : k \in DOMAIN logs \/ RecsOf(logs'[k]) = {}
    BY <1>3, <1>5, EmptyLogFacts
  <2>2. LogsFrom(versions.log)' \subseteq LogsFrom(versions.log)
    BY <1>5, <1>6, <2>1 DEF LogsFrom
  <2> QED
    BY <1>3, <2>2
<1>16. CASE save
  <2>1. phase' = "descriptor"
    BY <1>1, <1>16
  <2>2. AddsAreTables'
    <3>1. \A f \in edit.add : f[2] \in Nat
      BY <1>2 DEF TypedMemory, Files
    <3> QED
      BY <1>1, <1>3, <1>4, <1>6, <3>1 DEF AddsAreTables
  <2>3. Replaying'
    <3> HIDE DEF next, number
    <3>1. toReplay' = {} /\ LogsAreOld(toReplay)'
      BY <1>1, <1>13 DEF LogsAreOld
    <3>2. logfileNumber' = number /\ number >= versions.log
      BY <1>1, <1>12
    <3>3. (LogsFrom(versions.log) \subseteq
             EntriesOf(edit.add) \cup mem \cup UNION {RecsOf(logs[k]) : k \in toReplay})'
      BY <1>11, <1>14, <1>15
    <3> QED
      BY <1>1, <1>3, <1>4, <1>5, <1>6, <1>11, <1>12, <1>14, <2>1, <2>2, <3>1, <3>2, <3>3
         DEF Replaying, MayCrash
  <2>4. Recovering'
    BY <1>7, <2>1, <2>3 DEF Recovering, Shut, Created, NewManifest
  <2> QED
    BY <1>7, <1>8, <1>9, <1>10, <2>1, <2>4 DEF DBInv
<1>17. CASE ~save
  <2>1. phase' = "ready" /\ versions.manifest = current /\ edit.add = {} /\ ~MayCrash
    BY <1>1, <1>3, <1>17
  <2>2. Recovering'
    BY <1>7, <2>1 DEF Recovering, Shut, Created, Replaying, NewManifest
  <2>3. /\ bgpc' = "idle" /\ merge' = NoMerge /\ job' = NoJob /\ imm' = NoTable
        /\ pendingOutputs' = {} /\ bgError' = FALSE /\ deleting' = {}
    BY <1>7 DEF Quiet
  <2>4. Sound(St) /\ Survivors(current) = {St}
        /\ Cut(manifests[current]) = {Len(manifests[current].recs)}
    <3>1. manifests[current].torn = {}
      BY <1>1, <2>1, ReusedIsWhole
    <3> QED
      BY <1>2, <1>3, <2>1, <3>1, LastSurvives DEF Survivors, Cut, St, LastRecord
  <2>5. /\ \A f \in versions.files : f[2] \in DOMAIN tables /\ f[2] < next
        /\ current < next
    <3>1. \A f \in St.files : f[2] \in DOMAIN tables /\ f[2] < St.next
      BY <2>4 DEF Sound
    <3>2. \A f \in versions.files : f[2] \in Nat
      BY <1>2 DEF TypedMemory, Files
    <3> HIDE DEF next
    <3> QED
      BY <1>3, <1>4, <1>12, <2>1, <3>1, <3>2
  <2>6. VersionIsFound'
    <3> HIDE DEF next, number
    <3>1. FilesExist(versions.files)'
      BY <1>1, <1>6, <2>5 DEF FilesExist
    <3>2. \A s \in Survivors(current)' : s.log <= number
      BY <1>3, <1>11, <1>12, <2>4
    <3>3. St'.next <= next /\ versions'.log <= St'.log
      BY <1>2, <1>3, <1>4, <1>6, <1>11, <1>12 DEF TypedMemory
    <3> QED
      BY <1>1, <1>3, <1>6, <1>11, <2>1, <2>3, <2>4, <2>5, <3>1, <3>2, <3>3, ReusedIsWhole
         DEF VersionIsFound
  <2>7. MemoryIsLogged'
    <3> HIDE DEF next, number
    <3>1. acked' \subseteq Ids(Visible)'
      <4>1. acked \subseteq Ids(EntriesOf(St.files) \cup LogsFrom(St.log))
        BY <1>2, <1>3 DEF DiskIsSound, Holds
      <4>2. LogsFrom(St.log) \subseteq mem
        <5>1. EntriesOf(edit.add) = {}
          BY <2>1 DEF EntriesOf
        <5> QED
          BY <1>3, <5>1
      <4>3. EntriesOf(St.files) \cup LogsFrom(St.log) \subseteq Visible'
        <5>1. EntriesOf(versions.files)' = EntriesOf(St.files)
          BY <1>1, <1>3, <1>6 DEF EntriesOf
        <5> QED
          BY <1>14, <4>2, <5>1 DEF Visible
      <4> QED
        BY <1>7, <4>1, <4>3 DEF Ids
    <3>2. UNION imm' = {}
      BY <2>3 DEF NoTable
    <3>3. versions'.log <= logfileNumber' /\ logfileNumber' \in DOMAIN logs'
      BY <1>1, <1>5, <1>6, <1>12
    <3>4. mem' \subseteq RecsOf(logs'[logfileNumber'])
      BY <1>1, <1>14
    <3> QED
      BY <1>13, <2>1, <2>3, <3>1, <3>2, <3>3, <3>4 DEF MemoryIsLogged, MayCrash
  <2>8. Working'
    BY <2>3 DEF Working, NoMerge
  <2> QED
    BY <1>7, <1>8, <1>9, <1>10, <2>2, <2>6, <2>7, <2>8 DEF DBInv
<1> QED
  BY <1>16, <1>17
-----------------------------------------------------------------------------
\* LogAndApply of DB::Open writes its record, in the MANIFEST in use or in a new one.
LEMMA WriteDescriptorStep ==
  ASSUME DBInv, WriteDescriptor
  PROVE  DBInv'
<1> USE DEF Typed
<1> DEFINE snapshot == [EmptyEdit EXCEPT !.add = versions.files]
           fresh == [recs |-> AddRecord(<<>>, snapshot), synced |-> 0, torn |-> {}]
           file == IF versions.manifest = current THEN manifests[current] ELSE fresh
           N == [files |-> (versions.files \ edit.del) \cup edit.add, log |-> edit.log,
                 next |-> edit.next, seq |-> edit.seq]
           m == versions.manifest
<1>1. /\ phase = "descriptor" /\ phase' = "sync"
      /\ manifests' = Put(manifests, m, [file EXCEPT !.recs = AddRecord(@, edit)])
      /\ UNCHANGED <<logs, tables, current, toReplay, memory, writers, background, history,
                     budget>>
  BY DEF WriteDescriptor, Opening
<1>2. UNCHANGED <<versions, mem, imm, logfileNumber, bgError, shuttingDown, pendingOutputs,
                  readers, deleting, edit>>
  BY <1>1 DEF memory
<1>3. /\ TypedLogs /\ TypedTables /\ TypedManifests /\ TypedMemory /\ DiskIsSound /\ Recovering
  BY DEF DBInv
<1>4. /\ TypedWriters' /\ TypedBackground' /\ TypedHistory' /\ TypedBudget'
      /\ Quiet' /\ Deleting' /\ Writing' /\ UNCHANGED <<nextId, acked, durable>>
      /\ VersionIsFound' /\ MemoryIsLogged' /\ Working'
  BY <1>1, <1>2, RecoveryFrame
<1>5. /\ current # NoFile
      /\ versions.files = St.files /\ versions.log = St.log
      /\ St.next < versions.next
      /\ versions.manifest < versions.next /\ versions.log < versions.next
      /\ MayCrash => versions.manifest # current
      /\ LogsAreOld(toReplay) /\ AddsAreTables /\ edit.del = {}
      /\ toReplay = {} /\ logfileNumber \in DOMAIN logs
      /\ logfileNumber >= versions.log
      /\ mem = RecsOf(logs[logfileNumber])
      /\ MayCrash => mem = {}
      /\ edit.log = logfileNumber /\ edit.next = versions.next /\ edit.seq \in Nat
      /\ LogsFrom(versions.log) \subseteq
           EntriesOf(edit.add) \cup mem \cup UNION {RecsOf(logs[n]) : n \in toReplay}
  BY <1>1, <1>3 DEF Recovering, Replaying
<1>6. /\ versions.files \in Files /\ edit.add \in Files /\ edit.log \in Nat /\ edit.next \in Nat
      /\ m \in Nat /\ versions.next \in Nat
      /\ versions.manifest < versions.next /\ versions.log \in Nat
  BY <1>3, <1>5 DEF TypedMemory
<1>7. /\ current \in DOMAIN manifests /\ Len(manifests[current].recs) > 0
      /\ manifests[current] \in [recs : Seq(States), synced : Nat, torn : SUBSET Nat]
      /\ manifests[current].synced <= Len(manifests[current].recs)
      /\ Sound(St) /\ \A s \in Survivors(current) : Sound(s)
      /\ Holds(St) /\ manifests[current].torn \subseteq 1..Len(manifests[current].recs)
      /\ \A k \in manifests[current].torn : Holds(manifests[current].recs[k])
  BY <1>3, <1>5, LastSurvives DEF DiskIsSound, TypedManifests, Records
<1>8. N \in States
  <2>1. (versions.files \ edit.del) \cup edit.add \in Files
    BY <1>6 DEF Files
  <2> QED
    BY <1>5, <1>6, <2>1 DEF States
<1>9. /\ file.recs \in Seq(States) /\ file.synced \in Nat /\ file.synced <= Len(file.recs)
      /\ file = [recs |-> file.recs, synced |-> file.synced, torn |-> {}]
      /\ Replayed(file.recs).files = versions.files
  <2>1. CASE versions.manifest = current
    <3>1. file = manifests[current]
      BY <2>1
    <3> HIDE DEF file
    <3>2. file.recs # <<>>
      BY <1>7, <3>1
    <3>3. Replayed(file.recs) = St
      BY <3>1, <3>2 DEF Replayed, St, LastRecord
    <3> QED
      BY <1>1, <1>5, <1>7, <2>1, <3>1, <3>3, ReusedIsWhole
  <2>2. CASE versions.manifest # current
    <3> DEFINE first == [files |-> versions.files, log |-> NoNumber, next |-> NoNumber,
                         seq |-> NoNumber]
    <3>1. Replay(NothingReplayed, snapshot) = first
      BY DEF Replay, NothingReplayed, EmptyEdit
    <3>2. Replayed(<<>>) = NothingReplayed
      BY DEF Replayed
    <3>3. AddRecord(<<>>, snapshot) = Append(<<>>, first)
      BY <3>1, <3>2 DEF AddRecord
    <3>4. first \in States
      BY <1>6 DEF States, NoNumber
    <3>5. first.files = versions.files
      OBVIOUS
    <3>6. file = [recs |-> Append(<<>>, first), synced |-> 0, torn |-> {}]
      BY <2>2, <3>3
    <3> HIDE DEF first, file
    <3>7. Append(<<>>, first) \in Seq(States) /\ Len(Append(<<>>, first)) = 1
          /\ Append(<<>>, first)[1] = first /\ Append(<<>>, first) # <<>>
      BY <3>4
    <3>8. Replayed(Append(<<>>, first)) = first
      BY <3>7 DEF Replayed
    <3> QED
      BY <3>5, <3>6, <3>7, <3>8
  <2> QED
    BY <2>1, <2>2
<1>10. AddRecord(file.recs, edit) = Append(file.recs, N)
  <2> HIDE DEF file
  <2>1. Replay(Replayed(file.recs), edit) =
          [files |-> (Replayed(file.recs).files \ edit.del) \cup edit.add, log |-> edit.log,
           next |-> edit.next, seq |-> edit.seq]
    BY <1>5, <1>6, ReplayIs
  <2> QED
    BY <1>9, <2>1 DEF AddRecord
<1> HIDE DEF file, fresh, snapshot
<1>11. /\ DOMAIN manifests' = DOMAIN manifests \cup {m}
       /\ manifests'[m] = [recs |-> Append(file.recs, N), synced |-> file.synced, torn |-> {}]
       /\ \A k \in DOMAIN manifests : k # m => manifests'[k] = manifests[k]
  <2>1. [file EXCEPT !.recs = AddRecord(@, edit)] =
          [recs |-> Append(file.recs, N), synced |-> file.synced, torn |-> {}]
    <3> DEFINE longer == AddRecord(file.recs, edit)
    <3>1. \A r, z, q : [[recs |-> r, synced |-> z, torn |-> q] EXCEPT !.recs = longer] =
                        [recs |-> longer, synced |-> z, torn |-> q]
      OBVIOUS
    <3>2. longer = Append(file.recs, N)
      BY <1>10
    <3> HIDE DEF N, longer
    <3>3. [file EXCEPT !.recs = longer] = [recs |-> longer, synced |-> file.synced, torn |-> {}]
      <4> DEFINE z == file.synced
                 r == file.recs
      <4>1. file = [recs |-> r, synced |-> z, torn |-> {}]
        BY <1>9
      <4> HIDE DEF r, z
      <4>2. [file EXCEPT !.recs = longer] = [recs |-> longer, synced |-> z, torn |-> {}]
        BY <3>1, <4>1
      <4> QED
        BY <4>2 DEF z
    <3>4. [file EXCEPT !.recs = longer] =
            [recs |-> Append(file.recs, N), synced |-> file.synced, torn |-> {}]
      BY <3>2, <3>3
    <3> QED
      BY <3>4 DEF longer
  <2> HIDE DEF N, m
  <2> QED
    BY <1>1, <2>1 DEF Put
<1>12. /\ N.files = versions.files \cup edit.add /\ N.log = logfileNumber
       /\ N.next = versions.next /\ N.seq \in Nat
  BY <1>5
<1> HIDE DEF N
<1>13. /\ manifests'[m] \in Records(States)
       /\ manifests'[m].synced <= Len(manifests'[m].recs) /\ manifests'[m].torn = {}
       /\ Len(manifests'[m].recs) > 0 /\ LastRecord(manifests'[m]) = N
  <2>1. /\ Append(file.recs, N) \in Seq(States)
        /\ Len(Append(file.recs, N)) = Len(file.recs) + 1
        /\ Append(file.recs, N)[Len(file.recs) + 1] = N
        /\ Len(file.recs) \in Nat
    BY <1>8, <1>9
  <2> QED
    BY <1>9, <1>11, <2>1 DEF Records, LastRecord
<1>14. \A f \in versions.files : f[2] \in DOMAIN tables /\ f[2] < versions.next
  <2>1. \A f \in St.files : f[2] \in DOMAIN tables /\ f[2] < St.next /\ St.next \in Nat
    BY <1>7 DEF Sound
  <2>2. \A f \in versions.files : f[2] \in Nat
    BY <1>6 DEF Files
  <2> QED
    BY <1>5, <1>6, <2>1, <2>2
<1>15. \A f \in N.files : f[2] \in DOMAIN tables /\ f[2] < versions.next
  BY <1>5, <1>12, <1>14 DEF AddsAreTables
<1>16. acked \subseteq Ids(mem \cup EntriesOf(versions.files \cup edit.add))
  <2>1. LogsFrom(St.log) \subseteq EntriesOf(edit.add) \cup mem
    BY <1>5
  <2>2. EntriesOf(versions.files \cup edit.add) =
          EntriesOf(St.files) \cup EntriesOf(edit.add)
    BY <1>5, EntriesGrow
  <2>3. EntriesOf(St.files) \cup LogsFrom(St.log)
          \subseteq mem \cup EntriesOf(versions.files \cup edit.add)
    BY <2>1, <2>2
  <2> QED
    BY <1>7, <2>3, IdsGrow DEF Holds
<1>17. TypedManifests' /\ DiskIsSound'
  <2>1. CASE m = current
    <3>1. file.recs = manifests[current].recs /\ file.synced = manifests[current].synced
          /\ ~MayCrash /\ DOMAIN manifests' = DOMAIN manifests /\ manifests[current].torn = {}
      BY <1>1, <1>5, <1>7, <1>11, <2>1, ReusedIsWhole DEF file
    <3>2. mem \subseteq LogsFrom(N.log)
      BY <1>3, <1>5, <1>12 DEF LogsFrom, TypedLogs
    <3>3. Holds(N)
      <4>1. mem \cup EntriesOf(versions.files \cup edit.add)
              \subseteq EntriesOf(N.files) \cup LogsFrom(N.log)
        BY <1>12, <3>2
      <4>2. Ids(mem \cup EntriesOf(versions.files \cup edit.add))
              \subseteq Ids(EntriesOf(N.files) \cup LogsFrom(N.log))
        BY <4>1 DEF Ids
      <4> QED
        BY <1>16, <4>2 DEF Holds
    <3>4. St.next <= N.next /\ N.next \in Nat /\ N.log \in Nat
      BY <1>5, <1>6, <1>7, <1>12 DEF Sound
    <3>5. /\ manifests'[current] = [recs   |-> Append(manifests[current].recs, N),
                                    synced |-> manifests[current].synced,
                                    torn   |-> manifests[current].torn]
          /\ \A k \in DOMAIN manifests : k # current => manifests'[k] = manifests[k]
      BY <1>11, <2>1, <3>1
    <3> QED
      BY <1>1, <1>3, <1>4, <1>5, <1>8, <1>12, <1>15, <3>1, <3>3, <3>4, <3>5, ManifestGrows
  <2>2. CASE m # current
    <3>1. TypedManifests'
      BY <1>3, <1>6, <1>11, <1>13 DEF TypedManifests
    <3>2. current \in DOMAIN manifests' /\ manifests'[current] = manifests[current]
      BY <1>7, <1>11, <2>2
    <3> QED
      BY <1>1, <1>3, <1>4, <1>5, <1>7, <3>1, <3>2, DiskKeeps DEF Sound
  <2> QED
    BY <2>1, <2>2
<1>18. TypedLogs' /\ TypedTables'
  BY <1>1, <1>3, KeepTyped
<1>19. TypedMemory'
  BY <1>1, <1>2, <1>3 DEF TypedMemory, Phases
<1>20. NewManifest'
  <2>1. LogsAreOld({})' /\ AddsAreTables'
    BY <1>1, <1>2, <1>5 DEF LogsAreOld, AddsAreTables
  <2>2. EntriesOf(versions.files \cup edit.add)' = EntriesOf(versions.files \cup edit.add)
    BY <1>1, <1>2 DEF EntriesOf
  <2>3. LastRecord(manifests'[versions.manifest]) = N /\ LastRecord(manifests[versions.manifest])' = N
    BY <1>2, <1>13 DEF LastRecord
  <2>4. (acked \subseteq Ids(mem \cup EntriesOf(versions.files \cup edit.add)))'
    BY <1>2, <1>4, <1>16, <2>2 DEF Ids
  <2> QED
    BY <1>1, <1>2, <1>5, <1>11, <1>12, <1>13, <1>14, <2>1, <2>3, <2>4
       DEF NewManifest, MayCrash, RecsOf
<1>21. Recovering'
  BY <1>1, <1>4, <1>20 DEF Recovering, Shut, Created, Replaying
<1> QED
  BY <1>4, <1>17, <1>18, <1>19, <1>21 DEF DBInv

\* The MANIFEST of DB::Open is synced before CURRENT names it.
LEMMA SyncDescriptorStep ==
  ASSUME DBInv, SyncDescriptor
  PROVE  DBInv'
<1> USE DEF Typed
<1> DEFINE m == versions.manifest
<1>1. /\ phase = "sync" /\ phase' = "current"
      /\ manifests' = SyncedManifest(m)
      /\ UNCHANGED <<logs, tables, current, toReplay, memory, writers, background, history,
                     budget>>
  BY DEF SyncDescriptor, Opening
<1>2. UNCHANGED <<versions, mem, imm, logfileNumber, bgError, shuttingDown, pendingOutputs,
                  readers, deleting, edit>>
  BY <1>1 DEF memory
<1>3. /\ TypedLogs /\ TypedTables /\ TypedManifests /\ TypedMemory /\ DiskIsSound /\ Recovering
  BY DEF DBInv
<1>4. /\ TypedWriters' /\ TypedBackground' /\ TypedHistory' /\ TypedBudget'
      /\ Quiet' /\ Deleting' /\ Writing' /\ UNCHANGED <<nextId, acked, durable>>
      /\ VersionIsFound' /\ MemoryIsLogged' /\ Working'
  BY <1>1, <1>2, RecoveryFrame
<1>5. /\ current # NoFile
      /\ toReplay = {} /\ LogsAreOld({}) /\ AddsAreTables /\ edit.del = {}
      /\ \A f \in versions.files : f[2] \in DOMAIN tables /\ f[2] < versions.next
      /\ versions.manifest < versions.next
      /\ MayCrash => versions.manifest # current /\ mem = {}
      /\ logfileNumber \in DOMAIN logs
      /\ mem = RecsOf(logs[logfileNumber])
      /\ versions.log <= logfileNumber
      /\ acked \subseteq Ids(mem \cup EntriesOf(versions.files \cup edit.add))
      /\ m \in DOMAIN manifests /\ Len(manifests[m].recs) > 0 /\ manifests[m].torn = {}
      /\ LastRecord(manifests[m]).files = versions.files \cup edit.add
      /\ LastRecord(manifests[m]).log = logfileNumber /\ edit.log = logfileNumber
      /\ LastRecord(manifests[m]).next = versions.next /\ LastRecord(manifests[m]).seq \in Nat
  BY <1>1, <1>3 DEF Recovering, NewManifest
<1>6. /\ manifests[m] \in [recs : Seq(States), synced : Nat, torn : SUBSET Nat] /\ Len(manifests[m].recs) \in Nat
  BY <1>3, <1>5 DEF TypedManifests, Records
<1>7. /\ manifests'[m].recs = manifests[m].recs /\ manifests'[m].synced = Len(manifests[m].recs)
      /\ manifests'[m].torn = {}
      /\ manifests'[m] \in [recs : Seq(States), synced : Nat, torn : SUBSET Nat]
      /\ DOMAIN manifests' = DOMAIN manifests
      /\ \A k \in DOMAIN manifests : k # m => manifests'[k] = manifests[k]
  <2> HIDE DEF m
  <2> QED
    BY <1>1, <1>5, <1>6 DEF SyncedManifest
<1>8. TypedManifests' /\ DiskIsSound'
  <2>1. CASE m = current
    BY <1>1, <1>3, <1>4, <1>5, <2>1, ManifestSynced
  <2>2. CASE m # current
    <3>1. TypedManifests'
      <4>1. Len(manifests[m].recs) <= Len(manifests[m].recs)
        BY <1>6
      <4> QED
        BY <1>3, <1>7, <4>1 DEF TypedManifests, Records
    <3>2. /\ current \in DOMAIN manifests' /\ manifests'[current] = manifests[current]
          /\ \A s \in Survivors(current) : Sound(s)
      BY <1>3, <1>5, <1>7, <2>2 DEF DiskIsSound
    <3> QED
      BY <1>1, <1>3, <1>4, <1>5, <3>1, <3>2, DiskKeeps DEF Sound
  <2> QED
    BY <2>1, <2>2
<1>9. TypedLogs' /\ TypedTables'
  BY <1>1, <1>3, KeepTyped
<1>10. TypedMemory'
  BY <1>1, <1>2, <1>3 DEF TypedMemory, Phases
<1>11. NewManifest'
  <2>1. LogsAreOld({})' /\ AddsAreTables'
    BY <1>1, <1>2, <1>5 DEF LogsAreOld, AddsAreTables
  <2>2. (acked \subseteq Ids(mem \cup EntriesOf(versions.files \cup edit.add)))'
    BY <1>1, <1>2, <1>4, <1>5 DEF Ids, EntriesOf
  <2>3. LastRecord(manifests'[m]) = LastRecord(manifests[m]) /\ LastRecord(manifests[m])' = LastRecord(manifests[m])
    BY <1>2, <1>7 DEF LastRecord
  <2> QED
    BY <1>1, <1>2, <1>5, <1>7, <2>1, <2>2, <2>3 DEF NewManifest, MayCrash, RecsOf
<1>12. Recovering'
  BY <1>1, <1>4, <1>11 DEF Recovering, Shut, Created, Replaying
<1> QED
  BY <1>4, <1>8, <1>9, <1>10, <1>12 DEF DBInv

\* CURRENT names the new MANIFEST, and the database is ready.
LEMMA SetCurrentFileStep ==
  ASSUME DBInv, SetCurrentFile
  PROVE  DBInv'
<1> USE DEF Typed
<1> DEFINE m == versions.manifest
           N == LastRecord(manifests[m])
           files == versions.files \cup edit.add
<1>1. /\ phase = "current" /\ phase' = "ready" /\ current' = m
      /\ versions' = Installed(versions) /\ edit' = EmptyEdit
      /\ UNCHANGED <<logs, tables, manifests, toReplay, mem, imm, logfileNumber, bgError,
                     shuttingDown, pendingOutputs, readers, deleting, writers, background,
                     history, budget>>
  BY DEF SetCurrentFile, Opening
<1>2. /\ TypedLogs /\ TypedTables /\ TypedManifests /\ TypedMemory /\ DiskIsSound /\ Recovering
      /\ TypedHistory
  BY DEF DBInv
<1>3. /\ current # NoFile
      /\ toReplay = {} /\ LogsAreOld({}) /\ AddsAreTables /\ edit.del = {}
      /\ \A f \in versions.files : f[2] \in DOMAIN tables /\ f[2] < versions.next
      /\ versions.manifest < versions.next
      /\ MayCrash => mem = {}
      /\ MayCrash => manifests[m].synced = Len(manifests[m].recs)
      /\ logfileNumber \in DOMAIN logs
      /\ mem = RecsOf(logs[logfileNumber])
      /\ versions.log <= logfileNumber
      /\ acked \subseteq Ids(mem \cup EntriesOf(files))
      /\ m \in DOMAIN manifests /\ Len(manifests[m].recs) > 0 /\ manifests[m].torn = {}
      /\ N.files = files /\ N.log = logfileNumber /\ edit.log = logfileNumber
      /\ N.next = versions.next /\ N.seq \in Nat
  BY <1>1, <1>2 DEF Recovering, NewManifest
<1>4. /\ TypedWriters' /\ TypedBackground' /\ TypedHistory' /\ TypedBudget'
      /\ Quiet' /\ Deleting' /\ Writing' /\ UNCHANGED <<nextId, acked, durable>>
  BY <1>1, RecoveryFrame
<1>5. /\ versions.next \in Nat /\ m \in Nat /\ logfileNumber \in Nat /\ files \in Files
      /\ Len(manifests[m].recs) \in Nat
  BY <1>2, <1>3 DEF TypedMemory, Files, TypedManifests, Records
<1>6. /\ versions'.files = files /\ versions'.log = logfileNumber
      /\ versions'.next = versions.next /\ versions'.seq = versions.seq
      /\ versions'.manifest = m
      /\ versions' \in [files : Files, log : Nat, next : Nat, seq : Nat, manifest : Nat]
  <2>1. (versions.files \ edit.del) \cup edit.add = files
    BY <1>3
  <2> HIDE DEF files
  <2>2. versions \in [files : Files, log : Nat, next : Nat, seq : Nat, manifest : Nat]
    BY <1>2 DEF TypedMemory
  <2> QED
    BY <1>1, <1>3, <1>5, <2>1, <2>2 DEF Installed
<1>7. /\ St' = N /\ Cut(manifests[current])' = {Len(manifests[m].recs)}
      /\ Survivors(current)' = {N}
  <2>1. St' = N
    BY <1>1 DEF St, LastRecord
  <2>2. Cut(manifests[m]) = {Len(manifests[m].recs)}
    BY <1>3, <1>5 DEF Cut
  <2> QED
    BY <1>1, <2>1, <2>2 DEF Survivors, Cut, LastRecord, MayCrash
<1>8. TypedLogs' /\ TypedTables' /\ TypedManifests'
  BY <1>1, <1>2, KeepTyped
<1>9. TypedMemory'
  <2>1. edit' \in [log : Int, next : Int, seq : Int, add : Files, del : Files]
    BY <1>1 DEF EmptyEdit, NoNumber, Files
  <2>2. current' \in Nat \cup {NoFile} /\ phase' \in Phases
    BY <1>1, <1>5 DEF Phases
  <2> QED
    BY <1>1, <1>2, <1>6, <2>1, <2>2 DEF TypedMemory
<1> HIDE DEF N
<1>10. mem \subseteq LogsFrom(N.log)
  BY <1>2, <1>3 DEF LogsFrom, TypedLogs
<1>11. \A f \in N.files : f[2] \in DOMAIN tables /\ f[2] < N.next
  <2> HIDE DEF m
  <2> QED
    BY <1>3 DEF AddsAreTables
<1>12. current' # NoFile
  BY <1>1, <1>5 DEF NoFile
<1>13. MayCrash => durable \subseteq Ids(EntriesOf(N.files) \cup SyncedFrom(N.log))
  <2> SUFFICES ASSUME MayCrash
               PROVE  durable \subseteq Ids(EntriesOf(N.files) \cup SyncedFrom(N.log))
    OBVIOUS
  <2>1. durable \subseteq Ids(EntriesOf(files))
    BY <1>2, <1>3 DEF TypedHistory, Ids
  <2>2. EntriesOf(files) \subseteq EntriesOf(N.files) \cup SyncedFrom(N.log)
    BY <1>3
  <2> QED
    BY <2>1, <2>2 DEF Ids
<1>14. Holds(N)
  <2>1. mem \cup EntriesOf(files) \subseteq EntriesOf(N.files) \cup LogsFrom(N.log)
    BY <1>3, <1>10
  <2>2. Ids(mem \cup EntriesOf(files)) \subseteq Ids(EntriesOf(N.files) \cup LogsFrom(N.log))
    BY <2>1 DEF Ids
  <2> QED
    BY <1>3, <2>2 DEF Holds
<1>15. DiskIsSound'
  <2>1. ASSUME NEW s, s = N
        PROVE  Sound(s)'
    <3>1. /\ s.log \in Nat /\ s.next \in Nat /\ s.seq \in Nat /\ s.next <= N.next
          /\ m < s.next
      BY <1>3, <1>5, <2>1
    <3>2. EntriesOf(s.files)' = EntriesOf(s.files) /\ SyncedFrom(s.log)' = SyncedFrom(s.log)
      BY <1>1 DEF EntriesOf, SyncedFrom
    <3>3. /\ \A f \in s.files : f[2] \in DOMAIN tables /\ f[2] < s.next
          /\ MayCrash => durable \subseteq Ids(EntriesOf(s.files) \cup SyncedFrom(s.log))
      BY <1>11, <1>13, <2>1
    <3> QED
      BY <1>1, <1>4, <1>7, <3>1, <3>2, <3>3 DEF Sound, MayCrash
  <2>2. \A s \in Survivors(current)' : Sound(s)'
    BY <1>7, <2>1
  <2>3. Holds(St)'
    <3>1. EntriesOf(St.files)' = EntriesOf(N.files) /\ LogsFrom(St.log)' = LogsFrom(N.log)
      BY <1>1, <1>7 DEF EntriesOf, LogsFrom
    <3> QED
      BY <1>4, <1>14, <3>1 DEF Holds
  <2>4. MayCrash => manifests'[current'].synced > 0
    BY <1>1, <1>3, <1>5
  <2>5. NextGrows(manifests[current])'
    <3>1. manifests'[current'] = manifests[m] /\ N.next <= N.next
      BY <1>1, <1>3, <1>5
    <3> QED
      BY <1>7, <3>1 DEF NextGrows, N, LastRecord
  <2> QED
    BY <1>1, <1>3, <1>12, <2>2, <2>3, <2>4, <2>5 DEF DiskIsSound, MayCrash
<1>16. Recovering'
  BY <1>1, <1>4 DEF Recovering, Shut, Created, Replaying, NewManifest
<1>17. /\ bgpc' = "idle" /\ merge' = NoMerge /\ job' = NoJob /\ imm' = NoTable
       /\ pendingOutputs' = {} /\ bgError' = FALSE /\ deleting' = {}
  BY <1>4 DEF Quiet
<1>18. VersionIsFound'
  <2>1. FilesExist(versions.files)'
    BY <1>1, <1>3, <1>6, <1>11 DEF FilesExist
  <2>2. \A s \in Survivors(current)' : s.log <= logfileNumber
    BY <1>3, <1>5, <1>7
  <2>3. \A f \in files : f[2] < versions.next
    BY <1>3, <1>11
  <2>4. St'.next <= versions.next /\ m < versions.next /\ logfileNumber <= St'.log
        /\ St'.files = files /\ St'.log = logfileNumber
    BY <1>3, <1>5, <1>7
  <2>5. Cut(manifests[current])' = {Len(manifests[current].recs)'}
    BY <1>1, <1>7
  <2> HIDE DEF files
  <2> QED
    BY <1>1, <1>3, <1>6, <1>12, <1>17, <2>1, <2>2, <2>3, <2>4, <2>5
       DEF VersionIsFound, Cut, MayCrash
<1>19. MemoryIsLogged'
  <2>1. LogsAreOld({})'
    BY <1>1, <1>3, <1>6 DEF LogsAreOld
  <2>2. UNION imm' = {}
    BY <1>17 DEF NoTable
  <2>3. mem' = mem /\ EntriesOf(versions.files)' = EntriesOf(files)
        /\ RecsOf(logs[logfileNumber])' = RecsOf(logs[logfileNumber])
    BY <1>1, <1>6 DEF EntriesOf, RecsOf
  <2>4. Visible' = mem \cup EntriesOf(files)
    <3> HIDE DEF files
    <3> QED
      BY <2>2, <2>3 DEF Visible
  <2>5. acked' \subseteq Ids(Visible)'
    <3> HIDE DEF files
    <3> QED
      BY <1>3, <1>4, <2>4 DEF Ids
  <2>6. MayCrash => durable' \subseteq Ids((UNION imm) \cup EntriesOf(versions.files)
                                         \cup SyncedRecs(logs[logfileNumber]))'
    <3>1. MayCrash => durable \subseteq Ids(EntriesOf(files))
      BY <1>2, <1>3 DEF TypedHistory, Ids
    <3> HIDE DEF files
    <3> QED
      BY <1>4, <2>3, <3>1 DEF Ids
  <2>7. versions'.log <= logfileNumber' /\ logfileNumber' \in DOMAIN logs'
    BY <1>1, <1>3, <1>5, <1>6
  <2>8. mem' \subseteq RecsOf(logs[logfileNumber])'
    BY <1>3, <2>3
  <2>9. UNION imm' \subseteq LogsFrom(versions.log)'
    BY <2>2
  <2> QED
    BY <1>17, <2>1, <2>5, <2>6, <2>7, <2>8, <2>9 DEF MemoryIsLogged, MayCrash
<1>20. Working'
  BY <1>17 DEF Working, NoMerge
<1> QED
  BY <1>4, <1>8, <1>9, <1>15, <1>16, <1>18, <1>19, <1>20 DEF DBInv
-----------------------------------------------------------------------------
\* DB::Open returns: files nobody needs are deleted, and what a read finds has to stay.
LEMMA OpenReturnsStep ==
  ASSUME DBInv, OpenReturns
  PROVE  DBInv'
<1> USE DEF Typed
<1>1. /\ phase = "ready" /\ phase' = "open" /\ edit' = EmptyEdit
      /\ deleting' = Obsolete(versions, {}, {})
      /\ bgpc' = MaybeSchedule(bgpc, versions.files, imm, FALSE)
      /\ acked' = acked \cup Ids(Visible)
      /\ UNCHANGED <<logs, tables, manifests, current, toReplay, versions, mem, imm,
                     logfileNumber, bgError, shuttingDown, pendingOutputs, readers, queue, wpc,
                     group, job, merge, nextId, durable, budget>>
  BY DEF OpenReturns, disk, writers
<1>2. /\ TypedLogs /\ TypedTables /\ TypedManifests /\ TypedMemory /\ TypedWriters
      /\ TypedBackground /\ TypedHistory /\ TypedBudget /\ DiskIsSound /\ VersionIsFound
      /\ MemoryIsLogged /\ Working /\ Writing /\ Up /\ Quiet
  BY <1>1 DEF DBInv, Up, Recovering
<1>3. /\ current # NoFile /\ versions.manifest = current
      /\ versions.files = St.files /\ versions.log = St.log
      /\ FilesExist(versions.files) /\ logfileNumber \in DOMAIN logs
      /\ versions.log <= logfileNumber /\ mem \subseteq RecsOf(logs[logfileNumber])
      /\ imm = NoTable /\ merge = NoMerge /\ job = NoJob /\ bgpc = "idle" /\ ~bgError
      /\ readers = [t \in Threads |-> {}] /\ pendingOutputs = {}
  BY <1>2 DEF VersionIsFound, MemoryIsLogged, Quiet
<1>4. bgpc' \in {"idle", "scheduled"}
  BY Zenon, <1>1, <1>3 DEF MaybeSchedule
<1>5. /\ TypedLogs' /\ TypedTables' /\ TypedManifests' /\ TypedWriters' /\ TypedBudget'
      /\ Writing' /\ Recovering'
  BY <1>1, <1>2, KeepTyped, KeepWriting, OpenRecovers DEF writers
<1>6. TypedMemory'
  <2>1. edit' \in [log : Int, next : Int, seq : Int, add : Files, del : Files]
    BY <1>1 DEF EmptyEdit, NoNumber, Files
  <2> QED
    BY <1>1, <1>2, <2>1 DEF TypedMemory, Phases
<1>7. TypedBackground'
  BY <1>1, <1>2, <1>4 DEF TypedBackground
<1>8. Visible = mem \cup EntriesOf(versions.files)
  BY <1>3 DEF Visible, NoTable
<1>9. TypedHistory'
  <2>1. mem \subseteq Entries /\ EntriesOf(versions.files) \subseteq Entries
    BY <1>2, <1>3 DEF TypedMemory, TypedTables, EntriesOf, FilesExist
  <2>2. \A e \in Visible : e \in Entries
    BY <1>8, <2>1
  <2>3. Ids(Visible) \subseteq Nat
    BY <2>2 DEF Ids, Entries
  <2> QED
    BY <1>1, <1>2, <2>3 DEF TypedHistory
<1>10. /\ St' = St /\ Survivors(current)' = Survivors(current)
       /\ Cut(manifests[current])' = Cut(manifests[current])
  BY <1>1 DEF St, LastRecord, Survivors, Cut, MayCrash
<1>11. Visible \subseteq EntriesOf(St.files) \cup LogsFrom(St.log)
  <2>1. mem \subseteq LogsFrom(St.log)
    BY <1>2, <1>3 DEF LogsFrom, TypedLogs
  <2> QED
    BY <1>3, <1>8, <2>1
<1>12. DiskIsSound'
  <2>1. /\ current \in DOMAIN manifests /\ Len(manifests[current].recs) > 0
        /\ MayCrash => manifests[current].synced > 0
        /\ \A s \in Survivors(current) : Sound(s)
        /\ NextGrows(manifests[current]) /\ Holds(St) /\ manifests[current].torn = {}
    BY <1>2, <1>3 DEF DiskIsSound, VersionIsFound
  <2>2. Ids(Visible) \subseteq Ids(EntriesOf(St.files) \cup LogsFrom(St.log))
    BY <1>11 DEF Ids
  <2>3. Holds(St)'
    <3>1. EntriesOf(St.files)' = EntriesOf(St.files) /\ LogsFrom(St.log)' = LogsFrom(St.log)
      BY <1>1, <1>10 DEF EntriesOf, LogsFrom
    <3> QED
      BY <1>1, <2>1, <2>2, <3>1 DEF Holds
  <2>4. ASSUME NEW s, Sound(s)
        PROVE  Sound(s)'
    <3>1. EntriesOf(s.files)' = EntriesOf(s.files) /\ SyncedFrom(s.log)' = SyncedFrom(s.log)
      BY <1>1 DEF EntriesOf, SyncedFrom
    <3> QED
      BY <1>1, <1>10, <2>4, <3>1 DEF Sound, MayCrash
  <2>5. NextGrows(manifests[current])'
    BY <1>1, <1>10, <2>1 DEF NextGrows
  <2> QED
    BY <1>1, <1>3, <1>10, <2>1, <2>3, <2>4, <2>5 DEF DiskIsSound, MayCrash
<1>13. VersionIsFound'
  BY <1>1, <1>2, <1>3, <1>4, <1>10 DEF VersionIsFound, Up, FilesExist
<1>14. MemoryIsLogged'
  <2>1. Visible' = Visible
    BY <1>1 DEF Visible, EntriesOf
  <2>2. acked' \subseteq Ids(Visible)'
    BY <1>1, <1>2, <2>1 DEF MemoryIsLogged, Ids
  <2>3. EntriesOf(versions.files)' = EntriesOf(versions.files)
        /\ LogsFrom(versions.log)' = LogsFrom(versions.log)
    BY <1>1 DEF EntriesOf, LogsFrom
  <2> QED
    BY <1>1, <1>2, <2>2, <2>3
       DEF MemoryIsLogged, Up, LogsAreOld, MayCrash, Ids, RecsOf, SyncedRecs
<1>15. Working'
  BY <1>1, <1>3, <1>4 DEF Working, NoMerge
<1>16. Deleting'
  <2>1. \A f \in deleting' :
          /\ f[1] = "log" => f[2] < versions.log
          /\ f[1] = "manifest" => f[2] < versions.manifest
          /\ f[1] = "table" => f[2] \in DOMAIN tables /\ f[2] \notin Numbers(versions.files)
    BY <1>1 DEF Obsolete
  <2>2. \A f \in deleting' : f[1] = "table" => f[2] # merge.out
    BY <1>2, <1>3, <2>1 DEF TypedTables, NoMerge, NoFile
  <2>3. \A t \in Threads : readers'[t] = {}
    BY <1>1, <1>3
  <2>4. \A t \in Threads : Numbers(readers[t])' = {} /\ FilesExist(readers[t])'
    BY <2>3 DEF Numbers, FilesExist
  <2>5. Numbers(versions.files)' = Numbers(versions.files)
    BY <1>1 DEF Numbers
  <2> QED
    BY <1>1, <1>3, <2>1, <2>2, <2>4, <2>5 DEF Deleting
<1> QED
  BY <1>5, <1>6, <1>7, <1>9, <1>12, <1>13, <1>14, <1>15, <1>16 DEF DBInv

\* ~DBImpl sets shutting_down_.
LEMMA StartCloseStep ==
  ASSUME DBInv, StartClose
  PROVE  DBInv'
<1> USE DEF Typed
<1>1. /\ phase = "open" /\ phase' = "open"
      /\ budget["close"] > 0 /\ budget' = [budget EXCEPT !["close"] = @ - 1]
      /\ UNCHANGED <<logs, tables, manifests, current, toReplay, versions, mem, imm,
                     logfileNumber, bgError, pendingOutputs, readers, deleting, edit, queue,
                     wpc, group, bgpc, job, merge, nextId, acked, durable>>
  BY DEF StartClose, Unlocked, Spend, disk, opening, writers, background, history
<1>2. /\ TypedLogs /\ TypedTables /\ TypedManifests /\ TypedMemory /\ TypedWriters
      /\ TypedBackground /\ TypedHistory /\ TypedBudget /\ DiskIsSound /\ VersionIsFound
      /\ MemoryIsLogged /\ Working /\ Deleting /\ Writing
  BY DEF DBInv
<1>3. /\ TypedLogs' /\ TypedTables' /\ TypedManifests' /\ TypedWriters' /\ TypedBackground'
      /\ TypedHistory' /\ DiskIsSound' /\ Recovering' /\ VersionIsFound' /\ MemoryIsLogged'
      /\ Working' /\ Deleting' /\ Writing'
  BY <1>1, <1>2, KeepTyped, KeepDisk, OpenRecovers, KeepVersion, KeepMemory, KeepWorking,
     KeepDeleting, KeepWriting DEF disk, writers, background
<1>4. TypedMemory'
  BY <1>1, <1>2 DEF TypedMemory
<1>5. TypedBudget'
  BY <1>1, <1>2 DEF TypedBudget, BudgetKinds
<1> QED
  BY <1>3, <1>4, <1>5 DEF DBInv
-----------------------------------------------------------------------------
\* The process is gone; the directory is all that counts.
LEMMA MemoryLost ==
  ASSUME DBInv, LoseMemory, UNCHANGED <<tables, current>>,
         TypedLogs', TypedManifests', TypedHistory', TypedBudget', DiskIsSound'
  PROVE  DBInv'
<1> USE DEF Typed
<1>1. /\ phase' = "closed" /\ toReplay' = {}
      /\ versions' = ClosedVersions
      /\ mem' = {} /\ imm' = NoTable /\ logfileNumber' = 0
      /\ bgError' = FALSE /\ shuttingDown' = FALSE /\ pendingOutputs' = {}
      /\ readers' = [t \in Threads |-> {}] /\ deleting' = {} /\ edit' = EmptyEdit
      /\ queue' = <<>> /\ wpc' = [t \in Threads |-> "idle"] /\ group' = NoGroup
      /\ bgpc' = "idle" /\ job' = NoJob /\ merge' = NoMerge
  BY DEF LoseMemory
<1>2. Quiet'
  BY <1>1 DEF Quiet
<1>3. Deleting' /\ Writing' /\ VersionIsFound' /\ MemoryIsLogged' /\ Working'
  BY <1>1, <1>2, QuietDatabase
<1>4. Recovering'
  <2>1. Shut'
    BY <1>1 DEF Shut, ClosedMemory
  <2> QED
    BY <1>1, <1>2, <2>1 DEF Recovering, Created, Replaying, NewManifest
<1>5. TypedTables'
  BY KeepTyped DEF DBInv
<1>6. TypedMemory'
  <2>1. edit' \in [log : Int, next : Int, seq : Int, add : Files, del : Files]
    BY <1>1 DEF EmptyEdit, NoNumber, Files
  <2>2. versions' \in [files : Files, log : Nat, next : Nat, seq : Nat, manifest : Nat]
    BY <1>1 DEF ClosedVersions, Files
  <2>3. readers' \in [Threads -> Files]
    BY <1>1 DEF Files
  <2>4. current' \in Nat \cup {NoFile}
    BY DEF DBInv, TypedMemory
  <2> QED
    BY <1>1, <2>1, <2>2, <2>3, <2>4 DEF TypedMemory, Phases, NoTable
<1>7. TypedWriters'
  <2>1. queue' \in Seq([t : Threads, kind : {"write", "flush"}, sync : BOOLEAN])
    BY <1>1
  <2>2. wpc' \in [Threads -> ThreadStates]
    BY <1>1 DEF ThreadStates
  <2>3. group' \in [entries : SUBSET Entries, n : Nat, sync : BOOLEAN, promised : SUBSET Nat]
    BY <1>1 DEF NoGroup
  <2>4. IsFiniteSet(group'.entries)
    BY <1>1, FS_EmptySet DEF NoGroup
  <2> QED
    BY <2>1, <2>2, <2>3, <2>4 DEF TypedWriters
<1>8. TypedBackground'
  BY <1>1 DEF TypedBackground, NoJob, NoMerge, Files, NoFile
<1> QED
  BY <1>3, <1>4, <1>5, <1>6, <1>7, <1>8 DEF DBInv

\* A file that loses what is behind its first records keeps those.
LEMMA CutFile ==
  ASSUME NEW S, NEW r \in Seq(S), NEW y \in Nat, NEW c \in y..Len(r)
  PROVE  /\ c \in Nat /\ SubSeq(r, 1, c) \in Seq(S) /\ Len(SubSeq(r, 1, c)) = c
         /\ \A i \in 1..c : SubSeq(r, 1, c)[i] = r[i]
         /\ Len(r) \in Nat /\ c <= Len(r)
<1>1. Len(r) \in Nat /\ c \in Nat /\ c <= Len(r)
  OBVIOUS
<1>2. \A i \in 1..c : r[i] \in S
  BY <1>1
<1> QED
  BY <1>1, <1>2

WholeLog(log) ==
  /\ log \in [recs : Seq(SUBSET Entries), synced : Nat, torn : SUBSET Nat]
  /\ log.synced <= Len(log.recs)

\* The logs the process leaves: what it wrote, or what of it the machine had on disk.
LogsLeft(files) ==
  /\ DOMAIN files = DOMAIN logs
  /\ \A n \in DOMAIN logs :
       /\ WholeLog(files[n])
       /\ logs[n].synced <= files[n].synced
       /\ Len(files[n].recs) <= Len(logs[n].recs)
       /\ \A i \in 1..Len(files[n].recs) : files[n].recs[i] = logs[n].recs[i]
       /\ files[n].torn \subseteq logs[n].torn

\* What a reading misses of them is behind a torn record.
LEMMA RereadLogs ==
  ASSUME NEW files, LogsLeft(files), LeaveLogs(files), TypedLogs
  PROVE  /\ TypedLogs' /\ DOMAIN logs' = DOMAIN logs
         /\ \A n \in DOMAIN logs :
              /\ logs'[n].synced = files[n].synced
              /\ Len(logs'[n].recs) = Len(files[n].recs)
              /\ \A i \in 1..Len(files[n].recs) :
                   /\ logs'[n].recs[i] \subseteq logs[n].recs[i]
                   /\ i \notin Behind(logs[n]) => logs'[n].recs[i] = logs[n].recs[i]
<1>1. PICK lost \in SUBSET UNION {{n} \X Behind(files[n]) : n \in DOMAIN files} :
        logs' = Reread(files, lost)
  BY DEF LeaveLogs
<1>2. DOMAIN logs' = DOMAIN logs
  BY <1>1 DEF Reread, LogsLeft
<1>3. ASSUME NEW n \in DOMAIN logs
      PROVE  /\ WholeLog(logs'[n])
             /\ logs'[n].synced = files[n].synced
             /\ Len(logs'[n].recs) = Len(files[n].recs)
             /\ \A i \in 1..Len(files[n].recs) :
                  /\ logs'[n].recs[i] \subseteq logs[n].recs[i]
                  /\ i \notin Behind(logs[n]) => logs'[n].recs[i] = logs[n].recs[i]
  <2> DEFINE R == SUBSET Entries
             r == files[n].recs
             q == [i \in DOMAIN r |-> IF <<n, i>> \in lost THEN {} ELSE r[i]]
             z == IF files[n].torn = {} THEN {} ELSE {Len(r)}
  <2>1. /\ r \in Seq(R) /\ files[n].synced \in Nat /\ files[n].synced <= Len(r)
        /\ logs'[n] = [recs |-> q, synced |-> files[n].synced, torn |-> z]
        /\ \A i \in 1..Len(r) : r[i] = logs[n].recs[i]
        /\ files[n].torn \subseteq logs[n].torn /\ Len(r) <= Len(logs[n].recs)
    BY <1>1 DEF Reread, LogsLeft, WholeLog
  <2>2. /\ Len(r) \in Nat /\ DOMAIN r = 1..Len(r)
    BY <2>1
  <2>3. /\ q \in Seq(R) /\ Len(q) = Len(r)
        /\ \A i \in 1..Len(r) : q[i] = IF <<n, i>> \in lost THEN {} ELSE r[i]
    <3>1. \A i \in 1..Len(r) : r[i] \in R /\ {} \in R
      BY <2>1
    <3>2. q = [i \in 1..Len(r) |-> IF <<n, i>> \in lost THEN {} ELSE r[i]]
      BY <2>2
    <3> HIDE DEF r, R, q
    <3> QED
      BY <2>2, <3>1, <3>2
  <2>4. ASSUME NEW i \in 1..Len(r), i \notin Behind(logs[n])
        PROVE  <<n, i>> \notin lost
    <3>1. i \in DOMAIN logs[n].recs
      <4>1. logs[n].recs \in Seq(R) /\ DOMAIN logs[n].recs = 1..Len(logs[n].recs)
        BY DEF TypedLogs
      <4> QED
        BY <2>1, <2>2, <2>4, <4>1
    <3>2. i \notin Behind(files[n])
      BY <2>1, <2>4, <3>1 DEF Behind
    <3> QED
      BY <3>2
  <2>5. z \in SUBSET Nat
    BY <2>2
  <2> HIDE DEF q, z, r
  <2>6. WholeLog(logs'[n])
    BY <2>1, <2>3, <2>5 DEF WholeLog
  <2>7. ASSUME NEW i \in 1..Len(r)
        PROVE  /\ q[i] \subseteq r[i]
               /\ i \notin Behind(logs[n]) => q[i] = r[i]
    BY <2>3, <2>4
  <2> QED
    BY <2>1, <2>3, <2>6, <2>7 DEF r
<1>4. TypedLogs'
  BY <1>2, <1>3 DEF TypedLogs, WholeLog
<1> QED
  BY <1>2, <1>3, <1>4

\* A MANIFEST up to a record that a reopening may find last.
PartOf(part, file) ==
  /\ part \in Records(States)
  /\ part.synced <= Len(part.recs)
  /\ Len(part.recs) > 0 /\ Len(part.recs) <= Len(file.recs)
  /\ \A i \in 1..Len(part.recs) : part.recs[i] = file.recs[i]
  /\ Cut(part) \subseteq Cut(file)
  /\ part.torn \subseteq file.torn /\ part.torn \subseteq 1..Len(part.recs)
  /\ MayCrash => part.synced > 0

LEMMA CutIsPart ==
  ASSUME NEW file, PartOf(file, file), NEW k \in Cut(file), k > 0,
         NEW z \in Nat, z = k \/ (z = file.synced /\ z <= k)
  PROVE  PartOf(CutAt(file, k, z), file) /\ Len(CutAt(file, k, z).recs) = k
<1> DEFINE r == file.recs
           y == file.synced
           part == CutAt(file, k, z)
<1>1. /\ r \in Seq(States) /\ y \in Nat /\ y <= Len(r) /\ Len(r) \in Nat
      /\ file.torn \subseteq 1..Len(r)
      /\ MayCrash => y > 0
  BY DEF PartOf, Records
<1>2. k \in Nat /\ k <= Len(r)
  BY <1>1 DEF Cut
<1>3. /\ SubSeq(r, 1, k) \in Seq(States) /\ Len(SubSeq(r, 1, k)) = k
      /\ \A i \in 1..k : SubSeq(r, 1, k)[i] = r[i]
  <2>1. k \in 0..Len(r)
    BY <1>1, <1>2
  <2> HIDE DEF r
  <2> QED
    BY <1>1, <2>1, CutFile
<1>4. /\ part.recs = SubSeq(r, 1, k) /\ part.synced = z
      /\ part.torn = {j \in file.torn : j <= k}
  BY DEF CutAt
<1>5. part \in Records(States)
  BY <1>1, <1>3, <1>4 DEF CutAt, Records
<1>6. Cut(part) \subseteq Cut(file)
  <2> HIDE DEF part
  <2>1. CASE MayCrash
    BY <1>1, <1>2, <1>3, <1>4, <2>1 DEF Cut
  <2>2. CASE ~MayCrash
    BY <1>3, <1>4, <2>2 DEF Cut
  <2> QED
    BY <2>1, <2>2
<1> HIDE DEF part
<1> QED
  BY <1>1, <1>2, <1>3, <1>4, <1>5, <1>6 DEF PartOf, part

\* A write that is not exposed is in the tables of each state that the MANIFEST keeps, or
\* no torn record is before it in its log.
LEMMA NotExposed ==
  ASSUME current \in DOMAIN manifests, NEW k \in Kept(manifests[current]),
         NEW n \in DOMAIN logs, NEW e \in RecsOf(logs[n]), e.id \notin Exposed
  PROVE  \/ e.id \in Ids(EntriesOf(manifests[current].recs[k].files))
         \/ e \in Certain(logs[n])
<1> SUFFICES ASSUME e \notin Certain(logs[n])
             PROVE  e.id \in Ids(EntriesOf(manifests[current].recs[k].files))
  OBVIOUS
<1>1. e.id \in Ids(UNION {RecsOf(logs[m]) \ Certain(logs[m]) : m \in DOMAIN logs})
  BY DEF Ids
<1>2. e.id \in Ids(HeldBy(manifests[current].recs[k]))
  BY <1>1 DEF Exposed
<1> QED
  BY <1>2 DEF HeldBy, EntriesOf, Ids

\* What a log has before any torn record stays, and if it was synced it stays synced.
LEMMA CertainStays ==
  ASSUME TypedLogs, NEW files, LogsLeft(files), LeaveLogs(files), NEW n \in DOMAIN logs,
         NEW e \in Certain(logs[n])
  PROVE  /\ e \in SyncedRecs(logs[n]) => e \in SyncedRecs(logs'[n])
         /\ files = logs => e \in RecsOf(logs'[n])
<1>1. PICK i \in DOMAIN logs[n].recs \ Behind(logs[n]) : e \in logs[n].recs[i]
  BY DEF Certain
<1>2. /\ logs[n] \in [recs : Seq(SUBSET Entries), synced : Nat, torn : SUBSET Nat]
      /\ logs[n].synced <= Len(logs[n].recs) /\ Len(logs[n].recs) \in Nat
      /\ DOMAIN logs[n].recs = 1..Len(logs[n].recs)
      /\ logs'[n] \in [recs : Seq(SUBSET Entries), synced : Nat, torn : SUBSET Nat]
      /\ logs'[n].synced <= Len(logs'[n].recs) /\ Len(logs'[n].recs) \in Nat
      /\ DOMAIN logs'[n].recs = 1..Len(logs'[n].recs)
  <2>1. TypedLogs' /\ DOMAIN logs' = DOMAIN logs
    BY RereadLogs
  <2> QED
    BY <2>1 DEF TypedLogs
<1>3. /\ logs'[n].synced = files[n].synced /\ Len(logs'[n].recs) = Len(files[n].recs)
      /\ \A j \in 1..Len(files[n].recs) \ Behind(logs[n]) :
           logs'[n].recs[j] = logs[n].recs[j]
      /\ logs[n].synced <= files[n].synced
  BY RereadLogs DEF LogsLeft
<1>4. ASSUME e \in SyncedRecs(logs[n])
      PROVE  e \in SyncedRecs(logs'[n])
  <2>1. PICK j \in 1..logs[n].synced : e \in logs[n].recs[j]
    BY <1>4 DEF SyncedRecs
  <2>2. \E h \in 1..logs[n].synced : h \notin Behind(logs[n]) /\ e \in logs[n].recs[h]
    <3>1. CASE j \notin Behind(logs[n])
      BY <2>1, <3>1
    <3>2. CASE j \in Behind(logs[n])
      <4>1. PICK t \in logs[n].torn : t < j
        BY <3>2 DEF Behind
      <4>2. ~(t < i) /\ t \in Nat
        BY <1>1, <1>2, <4>1 DEF Behind
      <4>3. i \in 1..logs[n].synced
        BY <1>1, <1>2, <2>1, <4>1, <4>2
      <4> QED
        BY <1>1, <4>3
    <3> QED
      BY <3>1, <3>2
  <2>3. PICK h \in 1..logs[n].synced : h \notin Behind(logs[n]) /\ e \in logs[n].recs[h]
    BY <2>2
  <2>4. h \in 1..Len(files[n].recs) /\ h \in 1..logs'[n].synced
    BY <1>2, <1>3
  <2>5. e \in logs'[n].recs[h]
    BY <1>3, <2>3, <2>4
  <2> QED
    BY <2>4, <2>5 DEF SyncedRecs
<1>5. ASSUME files = logs
      PROVE  e \in RecsOf(logs'[n])
  <2>1. i \in 1..Len(files[n].recs) /\ i \in DOMAIN logs'[n].recs
    BY <1>1, <1>2, <1>3, <1>5
  <2>2. e \in logs'[n].recs[i]
    BY <1>1, <1>3, <2>1
  <2> QED
    BY <2>1, <2>2 DEF RecsOf, Range
<1> QED
  BY <1>4, <1>5

\* The MANIFEST in use as the process leaves it.
LEMMA LeftManifests ==
  ASSUME TypedManifests, DiskIsSound, NEW left,
         DOMAIN left \subseteq DOMAIN manifests,
         \A n \in DOMAIN left :
           /\ left[n] \in Records(States) /\ left[n].synced <= Len(left[n].recs)
           /\ left[n].torn \subseteq manifests[n].torn
           /\ left[n].torn \subseteq 1..Len(left[n].recs),
         current # NoFile =>
           current \in DOMAIN left /\ PartOf(left[current], manifests[current]),
         LeaveManifests(left), UNCHANGED current
  PROVE  /\ TypedManifests'
         /\ current # NoFile =>
              /\ current \in DOMAIN manifests'
              /\ PartOf(manifests'[current], manifests[current])
              /\ Len(manifests'[current].recs) \in {Len(left[current].recs)}
                                                      \cup manifests[current].torn
<1> DEFINE whole == manifests[current]
           l == left[current]
<1>1. CASE manifests' = left
  BY <1>1 DEF TypedManifests
<1>2. ASSUME NEW k \in left[current].torn, current \in DOMAIN left,
             manifests' = [left EXCEPT ![current] =
                             CutAt(@, k, IF l.synced <= k THEN l.synced ELSE k)]
      PROVE  /\ TypedManifests'
             /\ current # NoFile =>
                  /\ current \in DOMAIN manifests'
                  /\ PartOf(manifests'[current], manifests[current])
                  /\ Len(manifests'[current].recs) \in {Len(left[current].recs)}
                                                          \cup manifests[current].torn
  <2> DEFINE z == IF l.synced <= k THEN l.synced ELSE k
  <2>1. current # NoFile
    BY <1>2 DEF TypedManifests, NoFile
  <2>2. PartOf(l, whole) /\ l \in Records(States) /\ k \in l.torn /\ l.torn \subseteq whole.torn
    BY <1>2, <2>1
  <2>3. PartOf(l, l) /\ l.synced \in Nat /\ k \in Nat /\ k > 0 /\ k \in Cut(l)
    BY <2>2 DEF PartOf, Records, Cut
  <2>4. z \in Nat /\ (z = k \/ (z = l.synced /\ z <= k))
    BY <2>3
  <2>5. manifests' = [left EXCEPT ![current] = CutAt(l, k, z)]
    BY <1>2
  <2> HIDE DEF z, l, whole
  <2>6. PartOf(CutAt(l, k, z), l) /\ Len(CutAt(l, k, z).recs) = k
    BY <2>3, <2>4, CutIsPart
  <2>7. PartOf(CutAt(l, k, z), whole)
    BY <2>2, <2>6 DEF PartOf, Records
  <2>8. /\ DOMAIN manifests' = DOMAIN left /\ manifests'[current] = CutAt(l, k, z)
        /\ \A n \in DOMAIN left : n # current => manifests'[n] = left[n]
    BY <1>2, <2>5
  <2>9. TypedManifests'
    <3>1. \A n \in DOMAIN manifests' :
            /\ manifests'[n] \in Records(States)
            /\ manifests'[n].synced <= Len(manifests'[n].recs)
            /\ manifests'[n].torn \subseteq 1..Len(manifests'[n].recs)
            /\ manifests'[n].torn \subseteq manifests[n].torn
      BY <2>7, <2>8 DEF PartOf, whole
    <3> QED
      BY <2>8, <3>1 DEF TypedManifests
  <2> QED
    BY <1>2, <2>2, <2>6, <2>7, <2>8, <2>9 DEF whole
<1> QED
  BY <1>1, <1>2 DEF LeaveManifests

\* What the process leaves is sound: closed by the program, killed or crashed.
LEMMA LeaveKeeps ==
  ASSUME DBInv, NEW files, NEW left, NEW promised, Leave(files, left, promised),
         LogsLeft(files),
         DOMAIN left \subseteq DOMAIN manifests,
         \A n \in DOMAIN left :
           /\ left[n] \in Records(States) /\ left[n].synced <= Len(left[n].recs)
           /\ left[n].torn \subseteq manifests[n].torn
           /\ left[n].torn \subseteq 1..Len(left[n].recs),
         current # NoFile =>
           current \in DOMAIN left /\ PartOf(left[current], manifests[current]),
         \/ promised = acked /\ files = logs
            /\ (current # NoFile => left[current] = manifests[current])
         \/ promised = durable /\ MayCrash,
         TypedBudget'
  PROVE  DBInv'
<1> USE DEF Typed
<1>1. /\ LoseMemory /\ phase' = "closed" /\ UNCHANGED <<tables, current, nextId>>
      /\ LeaveLogs(files) /\ LeaveManifests(left)
      /\ acked' = promised \ Broken(promised) /\ durable' = durable \ Exposed
  BY DEF Leave, LoseMemory
<1>2. TypedLogs /\ TypedTables /\ TypedManifests /\ TypedMemory /\ TypedHistory /\ DiskIsSound
  BY DEF DBInv
<1>3. TypedLogs' /\ DOMAIN logs' = DOMAIN logs
  BY <1>1, <1>2, RereadLogs
<1>4. /\ TypedManifests'
      /\ current # NoFile =>
           /\ current \in DOMAIN manifests'
           /\ PartOf(manifests'[current], manifests[current])
           /\ Len(manifests'[current].recs) \in {Len(left[current].recs)}
                                                   \cup manifests[current].torn
  BY <1>1, <1>2, LeftManifests
<1>5. TypedHistory' /\ promised \subseteq acked
  <2>1. durable \subseteq promised /\ promised \subseteq acked
    BY <1>2 DEF TypedHistory
  <2>2. durable \ Exposed \subseteq promised \ Broken(promised)
    BY <2>1 DEF Broken
  <2> QED
    BY <1>1, <1>2, <2>1, <2>2 DEF TypedHistory
<1>6. CASE current = NoFile
  <2>1. DiskIsSound'
    BY <1>1, <1>2, <1>5, <1>6 DEF DiskIsSound, MayCrash
  <2> QED
    BY <1>1, <1>3, <1>4, <1>5, <2>1, MemoryLost
<1>7. CASE current # NoFile
  <2> DEFINE r == manifests[current].recs
             q == manifests'[current].recs
             c == Len(q)
  <2>1. /\ current \in DOMAIN manifests /\ r \in Seq(States) /\ Len(r) \in Nat
        /\ manifests[current].synced \in Nat /\ manifests[current].synced <= Len(r)
        /\ manifests[current].torn \subseteq 1..Len(r)
        /\ \A k \in Cut(manifests[current]) : Sound(r[k])
        /\ NextGrows(manifests[current]) /\ Holds(St)
        /\ \A k \in manifests[current].torn : Holds(r[k])
    BY <1>2, <1>7, LastSurvives DEF DiskIsSound, Survivors, TypedManifests
  <2>2. /\ current \in DOMAIN manifests' /\ PartOf(manifests'[current], manifests[current])
        /\ q \in Seq(States) /\ c \in Nat /\ c > 0 /\ c <= Len(r)
        /\ \A i \in 1..c : q[i] = r[i]
        /\ manifests'[current].synced \in Nat /\ manifests'[current].synced <= c
        /\ Cut(manifests'[current]) \subseteq Cut(manifests[current])
        /\ manifests'[current].torn \subseteq manifests[current].torn
        /\ manifests'[current].torn \subseteq 1..c
        /\ MayCrash => manifests'[current].synced > 0
        /\ c \in {Len(left[current].recs)} \cup manifests[current].torn
    BY <1>4, <1>7 DEF PartOf, Records
  <2>3. /\ Cut(manifests[current])' = Cut(manifests'[current])
        /\ Cut(manifests'[current]) \subseteq 1..c /\ c \in Cut(manifests'[current])
        /\ St' = r[c]
    <3>1. Cut(manifests[current])' = Cut(manifests'[current])
      BY <1>1 DEF Cut, MayCrash
    <3>2. Cut(manifests'[current]) \subseteq 1..c /\ c \in Cut(manifests'[current])
      BY <2>2 DEF Cut
    <3>3. St' = q[c]
      BY <1>1 DEF St, LastRecord
    <3> QED
      BY <2>2, <3>1, <3>2, <3>3
  <2>4. ASSUME NEW k \in Cut(manifests[current])
        PROVE  k \in Kept(manifests[current])
    <3>1. DOMAIN r = 1..Len(r)
      BY <2>1
    <3>2. CASE k \in manifests[current].torn
      BY <2>1, <3>1, <3>2 DEF Kept
    <3>3. CASE k \notin manifests[current].torn
      <4>1. k \in manifests[current].synced..Len(r)
        BY <2>1, <3>3 DEF Cut
      <4>2. k > 0
        <5>1. CASE MayCrash
          BY <1>2, <1>7, <2>1, <4>1, <5>1 DEF DiskIsSound
        <5>2. CASE ~MayCrash
          BY <2>1, <2>2, <3>3, <5>2 DEF Cut
        <5> QED
          BY <5>1, <5>2
      <4> QED
        BY <2>1, <3>1, <4>1, <4>2 DEF Kept
    <3> QED
      BY <3>2, <3>3
  <2> HIDE DEF r, q, c
  <2>5. ASSUME NEW s
        PROVE  EntriesOf(s.files)' = EntriesOf(s.files)
    BY <1>1 DEF EntriesOf
  <2>6. ASSUME NEW k \in Cut(manifests[current]), NEW s, s = r[k], MayCrash,
               NEW id \in durable \ Exposed
        PROVE  id \in Ids(EntriesOf(s.files) \cup SyncedFrom(s.log)')
    <3>1. id \in Ids(EntriesOf(s.files) \cup SyncedFrom(s.log))
      BY <2>1, <2>6 DEF Sound
    <3>2. CASE id \in Ids(EntriesOf(s.files))
      BY <3>2 DEF Ids
    <3>3. CASE id \notin Ids(EntriesOf(s.files))
      <4>1. PICK n \in DOMAIN logs : n >= s.log /\ \E e \in SyncedRecs(logs[n]) : e.id = id
        BY <3>1, <3>3 DEF Ids, SyncedFrom
      <4>2. PICK e \in SyncedRecs(logs[n]) : e.id = id
        BY <4>1
      <4>3. e \in RecsOf(logs[n])
        <5>1. /\ logs[n] \in [recs : Seq(SUBSET Entries), synced : Nat, torn : SUBSET Nat]
              /\ logs[n].synced <= Len(logs[n].recs) /\ Len(logs[n].recs) \in Nat
          BY <1>2 DEF TypedLogs
        <5> QED
          BY <4>2, <5>1, RecsAt DEF SyncedRecs
      <4>4. e \in Certain(logs[n])
        BY <2>1, <2>4, <2>6, <3>3, <4>2, <4>3, NotExposed DEF r
      <4>5. e \in SyncedRecs(logs'[n])
        BY <1>1, <1>2, <4>2, <4>4, CertainStays
      <4>6. e \in SyncedFrom(s.log)'
        BY <1>3, <4>1, <4>5 DEF SyncedFrom, SyncedRecs
      <4> QED
        BY <4>2, <4>6 DEF Ids
    <3> QED
      BY <3>2, <3>3
  <2>7. ASSUME NEW k \in Cut(manifests'[current]), NEW s, s = r[k]
        PROVE  Sound(s)'
    <3>1. k \in Cut(manifests[current]) /\ Sound(s) /\ k <= c /\ c \in Cut(manifests[current])
      BY <2>1, <2>2, <2>3, <2>7
    <3>2. s.next <= St'.next
      BY <2>1, <2>3, <2>7, <3>1 DEF NextGrows, r
    <3>3. MayCrash => durable' \subseteq Ids(EntriesOf(s.files) \cup SyncedFrom(s.log))'
      <4>1. MayCrash =>
              durable' \subseteq Ids(EntriesOf(s.files) \cup SyncedFrom(s.log)')
        BY <1>1, <2>6, <2>7, <3>1
      <4>2. Ids(EntriesOf(s.files) \cup SyncedFrom(s.log)') =
              Ids(EntriesOf(s.files) \cup SyncedFrom(s.log))'
        BY <2>5 DEF Ids
      <4> QED
        BY <4>1, <4>2
    <3> QED
      <4>1. /\ s.log \in Nat /\ s.next \in Nat /\ s.seq \in Nat /\ current < s.next
            /\ \A f \in s.files : f[2] \in DOMAIN tables /\ f[2] < s.next
        BY <3>1 DEF Sound
      <4> QED
        BY <1>1, <3>2, <3>3, <4>1 DEF Sound, MayCrash
  <2>8. ASSUME NEW k \in {c} \cup manifests'[current].torn, NEW s, s = r[k]
        PROVE  Holds(s)'
    <3>1. /\ k \in Cut(manifests'[current]) /\ k \in 1..c /\ q[k] = r[k]
          /\ k \in Found(manifests[current])'
      <4>1. k \in Cut(manifests'[current]) /\ k \in 1..c /\ q[k] = r[k]
        BY <2>2, <2>3 DEF Cut
      <4>2. DOMAIN q = 1..c
        BY <2>2 DEF c
      <4> QED
        BY <1>1, <4>1, <4>2 DEF Found, c, q
    <3>2. ASSUME NEW id \in acked'
          PROVE  id \in Ids(EntriesOf(s.files) \cup LogsFrom(s.log)')
      <4>1. CASE id \in Exposed
        <5>1. id \in OnDisk'
          BY <1>1, <3>2, <4>1 DEF Broken
        <5>2. \A k_1 \in Found(manifests[current])' :
                id \in Ids(ReadBack(manifests[current].recs[k_1]))'
          BY <5>1 DEF OnDisk
        <5>3. id \in Ids(ReadBack(s)')
          <6>1. manifests'[current'].recs[k] = s
            BY <1>1, <2>8, <3>1 DEF q
          <6>2. id \in Ids(ReadBack(manifests[current].recs[k]))'
            BY <3>1, <5>2
          <6> QED
            BY <6>1, <6>2 DEF Ids, ReadBack, HeldBy, EntriesOf
        <5>4. ReadBack(s)' \subseteq EntriesOf(s.files) \cup LogsFrom(s.log)'
          <6>1. \A n \in DOMAIN logs' : Certain(logs'[n]) \subseteq RecsOf(logs'[n])
            BY DEF Certain, RecsOf, Range
          <6> QED
            BY <1>1, <6>1 DEF ReadBack, HeldBy, EntriesOf, LogsFrom
        <5> QED
          BY <5>3, <5>4 DEF Ids
      <4>2. CASE id \notin Exposed /\ promised = acked /\ files = logs
                 /\ left[current] = manifests[current]
        <5>1. Holds(s) /\ id \in acked
          <6>1. c \in {Len(r)} \cup manifests[current].torn
            BY <2>2, <4>2 DEF r
          <6>2. Holds(r[Len(r)])
            BY <2>1 DEF St, LastRecord, r
          <6> QED
            BY <1>1, <2>1, <2>2, <2>8, <3>2, <4>2, <6>1, <6>2
        <5>2. CASE id \in Ids(EntriesOf(s.files))
          BY <5>2 DEF Ids
        <5>3. CASE id \notin Ids(EntriesOf(s.files))
          <6>1. PICK n \in DOMAIN logs : n >= s.log /\ \E e \in RecsOf(logs[n]) : e.id = id
            BY <5>1, <5>3 DEF Holds, Ids, LogsFrom
          <6>2. PICK e \in RecsOf(logs[n]) : e.id = id
            BY <6>1
          <6>3. e \in Certain(logs[n])
            BY <2>1, <2>2, <2>4, <2>8, <3>1, <4>2, <5>3, <6>2, NotExposed DEF r
          <6>4. e \in RecsOf(logs'[n])
            BY <1>1, <1>2, <4>2, <6>3, CertainStays
          <6>5. e \in LogsFrom(s.log)'
            BY <1>3, <6>1, <6>4 DEF LogsFrom, RecsOf
          <6> QED
            BY <6>2, <6>5 DEF Ids
        <5> QED
          BY <5>2, <5>3
      <4>3. CASE id \notin Exposed /\ promised = durable /\ MayCrash
        <5>1. id \in Ids(EntriesOf(s.files) \cup SyncedFrom(s.log)')
          BY <1>1, <2>2, <2>6, <2>8, <3>1, <3>2, <4>3
        <5>2. SyncedFrom(s.log)' \subseteq LogsFrom(s.log)'
          <6>1. \A n \in DOMAIN logs' : SyncedRecs(logs'[n]) \subseteq RecsOf(logs'[n])
            <7> SUFFICES ASSUME NEW n \in DOMAIN logs'
                         PROVE  SyncedRecs(logs'[n]) \subseteq RecsOf(logs'[n])
              OBVIOUS
            <7>1. /\ logs'[n] \in [recs : Seq(SUBSET Entries), synced : Nat, torn : SUBSET Nat]
                  /\ logs'[n].synced <= Len(logs'[n].recs) /\ Len(logs'[n].recs) \in Nat
              BY <1>3 DEF TypedLogs
            <7> QED
              BY <7>1, RecsAt DEF SyncedRecs
          <6> QED
            BY <6>1 DEF SyncedFrom, LogsFrom, SyncedRecs, RecsOf
        <5> QED
          BY <5>1, <5>2 DEF Ids
      <4> QED
        BY <1>7, <4>1, <4>2, <4>3
    <3> QED
      <4>1. Ids(EntriesOf(s.files) \cup LogsFrom(s.log)') =
              Ids(EntriesOf(s.files) \cup LogsFrom(s.log))'
        BY <2>5 DEF Ids
      <4> QED
        BY <3>2, <4>1 DEF Holds
  <2>9. DiskIsSound'
    <3>1. current' # NoFile /\ current' \in DOMAIN manifests'
          /\ Len(manifests'[current'].recs) > 0 /\ (MayCrash => manifests'[current'].synced > 0)
      BY <1>1, <1>7, <2>2 DEF q, c
    <3>2. \A s \in Survivors(current)' : Sound(s)'
      <4>1. Survivors(current)' = {r[k] : k \in Cut(manifests'[current])}
        BY <1>1, <2>2, <2>3 DEF Survivors, q
      <4>2. ASSUME NEW s \in Survivors(current)'
            PROVE  Sound(s)'
        <5>1. PICK k \in Cut(manifests'[current]) : s = r[k]
          BY <4>1
        <5> QED
          BY <2>7, <5>1
      <4> QED
        BY <4>2
    <3>3. NextGrows(manifests[current])'
      BY <1>1, <2>1, <2>2, <2>3 DEF NextGrows, q, r
    <3>4. ASSUME NEW k \in {c} \cup manifests'[current].torn
          PROVE  Holds(manifests[current].recs[k])'
      <4>1. PICK s : s = r[k]
        OBVIOUS
      <4>2. Holds(s)' /\ manifests'[current'].recs[k] = s
        BY <1>1, <2>2, <2>8, <4>1 DEF q
      <4> QED
        BY <4>2 DEF Holds, EntriesOf, LogsFrom, Ids
    <3>5. Holds(St)' /\ \A k \in manifests[current]'.torn : Holds(manifests[current].recs[k])'
      <4>1. St' = manifests'[current'].recs[c]
        BY <1>1 DEF St, LastRecord, c, q
      <4> QED
        BY <1>1, <3>4, <4>1 DEF Holds
    <3> QED
      BY <1>1, <3>1, <3>2, <3>3, <3>5 DEF DiskIsSound, MayCrash
  <2> QED
    BY <1>1, <1>3, <1>4, <1>5, <2>9, MemoryLost
<1> QED
  BY <1>6, <1>7

\* A close or a kill leaves the directory as it is.
\* How a process ends: with all it wrote, or, if the machine goes down, with what
\* was on disk.
ManifestsLeft(left) ==
  /\ DOMAIN left \subseteq DOMAIN manifests
  /\ \A n \in DOMAIN left :
       /\ left[n] \in Records(States) /\ left[n].synced <= Len(left[n].recs)
       /\ left[n].torn \subseteq manifests[n].torn
       /\ left[n].torn \subseteq 1..Len(left[n].recs)
  /\ current # NoFile =>
       current \in DOMAIN left /\ PartOf(left[current], manifests[current])

Ends ==
  \E files, left, promised :
    /\ Leave(files, left, promised)
    /\ LogsLeft(files) /\ ManifestsLeft(left)
    /\ \/ promised = acked /\ files = logs
          /\ (current # NoFile => left[current] = manifests[current])
       \/ promised = durable /\ MayCrash
    /\ TypedBudget'

LEMMA EndKeeps ==
  ASSUME DBInv, Ends
  PROVE  DBInv'
<1>1. PICK files, left, promised :
        /\ Leave(files, left, promised)
        /\ LogsLeft(files) /\ ManifestsLeft(left)
        /\ \/ promised = acked /\ files = logs
              /\ (current # NoFile => left[current] = manifests[current])
           \/ promised = durable /\ MayCrash
        /\ TypedBudget'
  BY DEF Ends
<1> QED
  BY <1>1, LeaveKeeps DEF ManifestsLeft

LEMMA CloseEnds ==
  ASSUME DBInv, FinishClose \/ Kill
  PROVE  Ends
<1>1. Leave(logs, manifests, acked) /\ (UNCHANGED budget \/ Spend("kill"))
  BY DEF FinishClose, Kill
<1>2. LogsLeft(logs)
  BY DEF DBInv, Typed, TypedLogs, LogsLeft, WholeLog
<1>3. current # NoFile => PartOf(manifests[current], manifests[current])
  BY DEF DBInv, Typed, TypedManifests, DiskIsSound, Records, PartOf
<1>4. TypedBudget'
  BY <1>1, KeepTyped, SpendTyped DEF BudgetKinds, DBInv, Typed
<1>5. current # NoFile => current \in DOMAIN manifests
  BY DEF DBInv, DiskIsSound
<1>6. \A n \in DOMAIN manifests :
        /\ manifests[n] \in Records(States) /\ manifests[n].synced <= Len(manifests[n].recs)
        /\ manifests[n].torn \subseteq 1..Len(manifests[n].recs)
  BY DEF DBInv, Typed, TypedManifests
<1> QED
  BY <1>1, <1>2, <1>3, <1>4, <1>5, <1>6 DEF Ends, ManifestsLeft

\* Where an append could stop part-way, Open writes a new MANIFEST.
LEMMA NoTornDescriptor ==
  ASSUME DBInv
  PROVE  ~TearDescriptor
<1> SUFFICES ASSUME TearDescriptor
             PROVE  FALSE
  OBVIOUS
<1>1. phase = "descriptor" /\ versions.manifest = current /\ budget["tear"] > 0
  BY DEF TearDescriptor, Opening, Spend
<1>2. ~ReuseLogs
  BY <1>1 DEF DBInv, Typed, TypedBudget, Survivable, BudgetKinds
<1> QED
  BY <1>1, <1>2 DEF DBInv, Recovering, Replaying

\* DB::Open deletes the new MANIFEST that it could not sync or install.
LEMMA OpenFailsEnds ==
  ASSUME DBInv, OpenFails
  PROVE  Ends
<1> DEFINE left == IF versions.manifest = current THEN manifests
                   ELSE Without(manifests, versions.manifest)
<1>1. Leave(logs, left, acked) /\ Spend("fault")
  BY DEF OpenFails, DBInv, Typed, TypedMemory, Phases
<1>2. LogsLeft(logs)
  BY DEF DBInv, Typed, TypedLogs, LogsLeft, WholeLog
<1>3. /\ DOMAIN left \subseteq DOMAIN manifests
      /\ \A n \in DOMAIN left : left[n] = manifests[n]
      /\ current \in DOMAIN manifests => current \in DOMAIN left
  BY DEF Without, Restrict
<1> HIDE DEF left
<1>4. current # NoFile =>
        /\ current \in DOMAIN left /\ left[current] = manifests[current]
        /\ PartOf(left[current], manifests[current])
  BY <1>3 DEF DBInv, Typed, TypedManifests, DiskIsSound, Records, PartOf
<1>5. TypedBudget'
  BY <1>1, SpendTyped DEF BudgetKinds, DBInv, Typed
<1>6. \A n \in DOMAIN left :
        /\ left[n] \in Records(States) /\ left[n].synced <= Len(left[n].recs)
        /\ left[n].torn \subseteq manifests[n].torn
        /\ left[n].torn \subseteq 1..Len(left[n].recs)
  BY <1>3 DEF DBInv, Typed, TypedManifests
<1> QED
  BY <1>1, <1>2, <1>3, <1>4, <1>5, <1>6 DEF Ends, ManifestsLeft

\* A crash of the machine: each file may lose what was not synced.
LEMMA RebootEnds ==
  ASSUME DBInv, Reboot
  PROVE  Ends
<1> USE DEF Typed
<1>1. PICK cut \in Cuts(logs), end \in Cuts(manifests) :
        Leave(Truncate(logs, cut), Truncate(manifests, end), durable)
  BY DEF Reboot
<1>2. TypedLogs /\ TypedManifests /\ TypedBudget /\ DiskIsSound
  BY DEF DBInv
<1>3. TypedBudget' /\ MayCrash
  <2>1. Spend("reboot") /\ budget["reboot"] > 0
    BY DEF Reboot, Spend
  <2>2. budget["reboot"] <= Budget["reboot"] /\ budget["reboot"] \in Nat
    BY <1>2 DEF TypedBudget, BudgetKinds
  <2> QED
    BY <1>2, <2>1, <2>2, SpendTyped DEF MayCrash, BudgetKinds
<1> DEFINE files == Truncate(logs, cut)
           left == Truncate(manifests, end)
<1>4. LogsLeft(files)
  <2>1. DOMAIN files = DOMAIN logs
    BY DEF Truncate
  <2>2. ASSUME NEW n \in DOMAIN logs
        PROVE  /\ WholeLog(files[n])
               /\ logs[n].synced <= files[n].synced
               /\ Len(files[n].recs) <= Len(logs[n].recs)
               /\ \A i \in 1..Len(files[n].recs) : files[n].recs[i] = logs[n].recs[i]
               /\ files[n].torn \subseteq logs[n].torn
    <3> DEFINE S == SUBSET Entries
               r == logs[n].recs
               y == logs[n].synced
               d == cut[n]
               z == {j \in logs[n].torn : j <= d}
    <3>1. r \in Seq(S) /\ y \in Nat /\ d \in y..Len(r) /\ z \in SUBSET Nat
      BY <1>2 DEF TypedLogs, Cuts
    <3>2. files[n] = [recs |-> SubSeq(r, 1, d), synced |-> d, torn |-> z]
      BY DEF Truncate, CutAt
    <3>3. z \subseteq logs[n].torn
      OBVIOUS
    <3> HIDE DEF S, r, y, d, z, files
    <3>4. /\ d \in Nat /\ SubSeq(r, 1, d) \in Seq(S) /\ Len(SubSeq(r, 1, d)) = d
          /\ \A i \in 1..d : SubSeq(r, 1, d)[i] = r[i]
          /\ Len(r) \in Nat /\ d <= Len(r) /\ y <= d
      BY <3>1, CutFile
    <3>5. /\ files[n] \in [recs : Seq(S), synced : Nat, torn : SUBSET Nat]
          /\ files[n].recs = SubSeq(r, 1, d) /\ files[n].synced = d /\ files[n].torn = z
      BY <3>1, <3>2, <3>4
    <3> QED
      BY <3>3, <3>4, <3>5 DEF WholeLog, S, r, y
  <2> QED
    BY <2>1, <2>2 DEF LogsLeft
<1>5. /\ DOMAIN left = DOMAIN manifests
      /\ \A n \in DOMAIN manifests :
           /\ left[n] = CutAt(manifests[n], end[n], end[n])
           /\ end[n] \in manifests[n].synced..Len(manifests[n].recs)
  BY DEF Truncate, Cuts
<1>6. ASSUME NEW n \in DOMAIN manifests
      PROVE  /\ left[n] \in Records(States) /\ left[n].synced <= Len(left[n].recs)
             /\ left[n].torn \subseteq manifests[n].torn
             /\ left[n].torn \subseteq 1..Len(left[n].recs)
  <2> DEFINE r == manifests[n].recs
             y == manifests[n].synced
             d == end[n]
             z == {j \in manifests[n].torn : j <= d}
  <2>1. r \in Seq(States) /\ y \in Nat /\ d \in y..Len(r) /\ z \subseteq 1..d
        /\ z \subseteq manifests[n].torn
    BY <1>2, <1>5 DEF TypedManifests, Records
  <2>2. left[n] = [recs |-> SubSeq(r, 1, d), synced |-> d, torn |-> z]
    BY <1>5 DEF CutAt
  <2> HIDE DEF r, y, d, z, left
  <2>3. d \in Nat /\ SubSeq(r, 1, d) \in Seq(States) /\ Len(SubSeq(r, 1, d)) = d
    BY <2>1, CutFile
  <2> QED
    BY <2>1, <2>2, <2>3 DEF Records
<1>7. current # NoFile => current \in DOMAIN left /\ PartOf(left[current], manifests[current])
  <2> SUFFICES ASSUME current # NoFile
               PROVE  current \in DOMAIN left /\ PartOf(left[current], manifests[current])
    OBVIOUS
  <2> DEFINE file == manifests[current]
             k == end[current]
  <2>1. current \in DOMAIN manifests /\ PartOf(file, file) /\ file.synced > 0
        /\ file.synced \in Nat
    BY <1>2, <1>3 DEF TypedManifests, DiskIsSound, Records, PartOf
  <2>2. k \in Nat /\ k > 0 /\ k \in Cut(file)
    BY <1>3, <1>5, <2>1 DEF Cut
  <2>3. left[current] = CutAt(file, k, k) /\ current \in DOMAIN left
    BY <1>5, <2>1
  <2> HIDE DEF file, k, left
  <2>4. PartOf(CutAt(file, k, k), file)
    BY <2>1, <2>2, CutIsPart
  <2> QED
    BY <2>3, <2>4 DEF file
<1> HIDE DEF files, left
<1>8. Leave(files, left, durable)
  BY <1>1 DEF files, left
<1> QED
  BY <1>3, <1>4, <1>5, <1>6, <1>7, <1>8 DEF Ends, ManifestsLeft

LEMMA EndStep ==
  ASSUME DBInv, FinishClose \/ Kill \/ OpenFails \/ Reboot
  PROVE  Ends /\ DBInv'
BY CloseEnds, OpenFailsEnds, RebootEnds, EndKeeps
-----------------------------------------------------------------------------
LEMMA InitIsSound ==
  Survivable /\ Init => DBInv
<1> SUFFICES ASSUME Survivable, Init
             PROVE  DBInv
  OBVIOUS
<1> USE DEF Typed
<1> DEFINE first == [files |-> {}, log |-> 3, next |-> 4, seq |-> 0]
<1>1. /\ IF Existing THEN CreatedDisk ELSE EmptyDisk
      /\ phase = "closed" /\ toReplay = {} /\ ClosedMemory
      /\ queue = <<>> /\ wpc = [t \in Threads |-> "idle"] /\ group = NoGroup
      /\ bgpc = "idle" /\ job = NoJob /\ merge = NoMerge
      /\ nextId = 1 /\ acked = {} /\ durable = {} /\ budget = Budget
  BY DEF Init
<1>2. /\ versions = ClosedVersions /\ mem = {} /\ imm = NoTable /\ logfileNumber = 0
      /\ bgError = FALSE /\ pendingOutputs = {} /\ readers = [t \in Threads |-> {}]
      /\ deleting = {} /\ edit = EmptyEdit
  BY <1>1 DEF ClosedMemory
<1>3. Quiet
  BY <1>1, <1>2 DEF Quiet
<1>4. Deleting
  BY <1>2 DEF Deleting, FilesExist
<1>5. Writing
  <2>1. 1..Len(queue) = {}
    BY <1>1
  <2> QED
    BY <1>1, <2>1 DEF Writing, Leading
<1>6. VersionIsFound /\ MemoryIsLogged /\ Working
  BY <1>1 DEF VersionIsFound, MemoryIsLogged, Working, Up
<1>7. Recovering
  BY <1>1, <1>3 DEF Recovering, Shut, Created, Replaying, NewManifest
<1>8. TypedMemory
  <2>1. current \in Nat \cup {NoFile}
    BY <1>1 DEF CreatedDisk, EmptyDisk
  <2>2. versions \in [files : Files, log : Nat, next : Nat, seq : Nat, manifest : Nat]
    BY <1>2 DEF ClosedVersions, Files
  <2>3. edit \in [log : Int, next : Int, seq : Int, add : Files, del : Files]
    BY <1>2 DEF EmptyEdit, NoNumber, Files
  <2>4. readers \in [Threads -> Files]
    BY <1>2 DEF Files
  <2> QED
    BY <1>1, <1>2, <2>1, <2>2, <2>3, <2>4 DEF TypedMemory, Phases, NoTable
<1>9. TypedWriters
  <2>1. queue \in Seq([t : Threads, kind : {"write", "flush"}, sync : BOOLEAN])
    BY <1>1
  <2>2. wpc \in [Threads -> ThreadStates]
    BY <1>1 DEF ThreadStates
  <2>3. group \in [entries : SUBSET Entries, n : Nat, sync : BOOLEAN, promised : SUBSET Nat]
    BY <1>1 DEF NoGroup
  <2>4. IsFiniteSet(group.entries)
    BY <1>1, FS_EmptySet DEF NoGroup
  <2> QED
    BY <2>1, <2>2, <2>3, <2>4 DEF TypedWriters
<1>10. TypedBackground /\ TypedHistory
  BY <1>1 DEF TypedBackground, TypedHistory, NoJob, NoMerge, Files, NoFile
<1>11. TypedBudget
  <2>1. Budget \in [BudgetKinds -> Nat] /\ Budget["reboot"] \in Nat /\ Budget["tear"] \in Nat
    BY DatabaseAssumption DEF DBAssumption, BudgetKinds
  <2> QED
    BY <1>1, <2>1 DEF TypedBudget
<1>12. CASE Existing
  <2>1. /\ logs = [n \in {3} |-> EmptyLog] /\ tables = <<>> /\ current = 2
        /\ manifests = [n \in {2} |-> [recs |-> <<NothingReplayed, first>>,
                                       synced |-> 2, torn |-> {}]]
    BY <1>1, <1>12 DEF CreatedDisk
  <2>2. first \in States /\ NothingReplayed \in States
    BY DEF States, Files, NothingReplayed, NoNumber
  <2>3. /\ first.files = {} /\ first.log = 3 /\ first.next = 4 /\ first.seq = 0
    OBVIOUS
  <2> HIDE DEF first
  <2> DEFINE r == <<NothingReplayed, first>>
  <2>4. r \in Seq(States) /\ Len(r) = 2 /\ r[2] = first
    BY <2>2
  <2>5. /\ DOMAIN manifests = {2} /\ manifests[2].recs = r /\ manifests[2].synced = 2 /\ manifests[2].torn = {}
        /\ manifests[2] = [recs |-> r, synced |-> 2, torn |-> {}]
    BY <2>1
  <2> HIDE DEF r
  <2>6. TypedManifests
    <3>1. manifests[2] \in [recs : Seq(States), synced : Nat, torn : SUBSET Nat] /\ 2 <= Len(r)
      BY <2>4, <2>5
    <3>2. \A n \in DOMAIN manifests : n = 2
      BY <2>5
    <3>3. DOMAIN manifests \subseteq Nat
      BY <2>5
    <3> QED
      BY <2>5, <3>1, <3>2, <3>3 DEF TypedManifests, Records
  <2>7. TypedLogs
    BY <2>1, EmptyLogFacts DEF TypedLogs
  <2>8. TypedTables
    BY <2>1 DEF TypedTables
  <2>9. St = first /\ Survivors(current) = {first} /\ Cut(manifests[current]) = {2}
    <3>1. manifests[current].recs = r /\ current = 2 /\ manifests[current].torn = {}
          /\ manifests[current].synced = 2
      BY <2>1, <2>5
    <3>2. Cut(manifests[current]) = {2}
      <4>1. 2..2 = {2}
        OBVIOUS
      <4> QED
        BY <2>4, <3>1, <4>1 DEF Cut
    <3> QED
      BY <2>4, <3>1, <3>2 DEF St, LastRecord, Survivors
  <2>10. Sound(first)
    BY <1>1, <2>1, <2>3, <2>9 DEF Sound
  <2>11. DiskIsSound
    <3>1. /\ current \in DOMAIN manifests /\ current # NoFile
          /\ Len(manifests[current].recs) > 0 /\ manifests[current].synced > 0
          /\ manifests[current].recs[2] = first
      BY <2>1, <2>4, <2>5 DEF NoFile
    <3>2. \A k \in manifests[current].torn : FALSE
      BY <2>1, <2>5
    <3>3. first.next <= first.next
      BY <2>3
    <3>4. NextGrows(manifests[current])
      BY <2>9, <3>1, <3>3 DEF NextGrows
    <3>5. Holds(St)
      BY <1>1 DEF Holds
    <3> QED
      BY <2>9, <2>10, <3>1, <3>2, <3>4, <3>5 DEF DiskIsSound
  <2> QED
    BY <1>4, <1>5, <1>6, <1>7, <1>8, <1>9, <1>10, <1>11, <2>6, <2>7, <2>8, <2>11 DEF DBInv
<1>13. CASE ~Existing
  <2>1. logs = <<>> /\ tables = <<>> /\ manifests = <<>> /\ current = NoFile /\ ~MayCrash
    BY <1>1, <1>13 DEF EmptyDisk, MayCrash, Survivable
  <2>2. TypedLogs /\ TypedTables /\ TypedManifests
    BY <2>1 DEF TypedLogs, TypedTables, TypedManifests
  <2>3. DiskIsSound
    BY <1>1, <2>1 DEF DiskIsSound
  <2> QED
    BY <1>4, <1>5, <1>6, <1>7, <1>8, <1>9, <1>10, <1>11, <2>2, <2>3 DEF DBInv
<1> QED
  BY <1>12, <1>13
-----------------------------------------------------------------------------
\* Nothing moves.
LEMMA StutterStep ==
  ASSUME DBInv, UNCHANGED vars
  PROVE  DBInv'
<1>1. /\ UNCHANGED <<disk, opening, memory, writers, background, nextId, acked, durable, budget>>
      /\ UNCHANGED <<logs, tables, manifests, current, phase, toReplay, versions, mem, imm,
                     logfileNumber, bgError, pendingOutputs, readers, deleting, edit,
                     queue, wpc, group, bgpc, job, merge>>
  BY DEF vars, disk, opening, memory, writers, background, history
<1>2. Typed'
  BY <1>1, KeepTyped DEF DBInv, Typed
<1>3. DiskIsSound' /\ VersionIsFound' /\ MemoryIsLogged' /\ Working' /\ Deleting' /\ Writing'
  BY <1>1, KeepDisk, KeepVersion, KeepMemory, KeepWorking, KeepDeleting, KeepWriting DEF DBInv
<1>4. Recovering'
  <2>1. Quiet' = Quiet
    BY <1>1 DEF Quiet
  <2>2. Shut' = Shut
    BY <1>1 DEF Shut, ClosedMemory, memory
  <2>3. Created' = Created
    BY <1>1 DEF Created
  <2>4. Replaying' = Replaying
    BY <1>1 DEF Replaying, St, LastRecord, LogsAreOld, AddsAreTables, LogsFrom, EntriesOf, RecsOf,
                MayCrash
  <2>5. NewManifest' = NewManifest
    BY <1>1 DEF NewManifest, LastRecord, LogsAreOld, AddsAreTables, EntriesOf, RecsOf, Ids, MayCrash
  <2> QED
    BY <1>1, <2>1, <2>2, <2>3, <2>4, <2>5 DEF DBInv, Recovering
<1> QED
  BY <1>2, <1>3, <1>4 DEF DBInv

LEMMA StepKeepsInv ==
  DBInv /\ [Next]_vars => DBInv'
<1> SUFFICES ASSUME DBInv, [Next]_vars
             PROVE  DBInv'
  OBVIOUS
<1>1. ASSUME NEW t \in Threads, Calls(t) \/ Writer(t)
      PROVE  DBInv'
  BY <1>1, WriterStep, SwitchStep, AppendLogStep, WriteFailsStep, SyncLogStep, FinishWriteStep,
     ReadStep
     DEF Calls, Writer
<1>2. CASE Background
  BY <1>2, IdleStep, PickStep, StartFlushStep, OpenOutputStep, BuildTableStep, FailStep,
     AppendManifestStep, InstallStep, DeleteFileStep, EndStep
     DEF Background
<1>3. CASE Recovery
  BY <1>3, OpenExistingStep, NewDBStep, NewCurrentStep, RecoverManifestStep,
     ManifestDamagedStep,
     RecoverLogFileStep, NewLogStep, WriteDescriptorStep, SyncDescriptorStep,
     SetCurrentFileStep, OpenReturnsStep
     DEF Recovery
<1>4. CASE Faults
  BY <1>4, WriterStep, TearLogStep, WriteFailsStep, FailStep, TearManifestStep, NoTornDescriptor,
     EndStep
     DEF Faults
<1>5. CASE StartClose
  BY <1>5, StartCloseStep
<1>6. CASE UNCHANGED vars
  BY <1>6, StutterStep
<1> QED
  BY <1>1, <1>2, <1>3, <1>4, <1>5, <1>6 DEF Next

LEMMA DatabaseIsSound ==
  ASSUME Survivable
  PROVE  Spec => []DBInv
<1>1. Init => DBInv
  BY InitIsSound
<1> QED
  BY <1>1, StepKeepsInv, PTL DEF Spec

\* At any moment a kill leaves a directory that holds every acknowledged write, for any
\* threads, buffer sizes and faults, but the writes that a torn log exposes.
THEOREM NoWriteIsLost ==
  ASSUME Survivable
  PROVE  Spec => []KillLosesNothing
<1>1. DBInv => KillLosesNothing
  <2> SUFFICES ASSUME DBInv, current # NoFile, NEW id \in acked \ Exposed
               PROVE  id \in OnDisk
    BY DEF KillLosesNothing
  <2> DEFINE file == manifests[current]
             r == file.recs
  <2>1. /\ TypedManifests /\ TypedMemory /\ DiskIsSound
    BY DEF DBInv, Typed
  <2>2. /\ current \in DOMAIN manifests /\ r \in Seq(States) /\ Len(r) \in Nat /\ Len(r) > 0
        /\ file.synced \in Nat /\ file.synced <= Len(r) /\ file.torn \subseteq 1..Len(r)
        /\ \A k \in Cut(file) : Sound(r[k])
        /\ Holds(r[Len(r)]) /\ \A k \in file.torn : Holds(r[k])
    BY <2>1, LastSurvives DEF DiskIsSound, TypedManifests, Survivors, St, LastRecord
  <2> HIDE DEF file, r
  <2>3. ASSUME NEW k \in {Len(r)} \cup file.torn
        PROVE  id \in Ids(ReadBack(r[k]))
    <3>1. k \in Cut(file) /\ k \in Kept(file) /\ Holds(r[k]) /\ Sound(r[k])
      <4>1. DOMAIN r = 1..Len(r)
        BY <2>2
      <4> QED
        BY <2>2, <4>1 DEF Cut, Kept, r
    <3>2. HeldBy(r[k]) = EntriesOf(r[k].files)
      BY <3>1 DEF HeldBy, Sound, EntriesOf
    <3>3. CASE id \in Ids(EntriesOf(r[k].files))
      BY <3>2, <3>3 DEF ReadBack, Ids
    <3>4. CASE id \notin Ids(EntriesOf(r[k].files))
      <4>1. PICK n \in DOMAIN logs : n >= r[k].log /\ \E e \in RecsOf(logs[n]) : e.id = id
        BY <3>1, <3>4 DEF Holds, Ids, LogsFrom
      <4>2. PICK e \in RecsOf(logs[n]) : e.id = id
        BY <4>1
      <4>3. e \in Certain(logs[n])
        BY <2>2, <3>1, <3>4, <4>2, NotExposed DEF r, file
      <4>4. e \in ReadBack(r[k])
        BY <4>1, <4>3 DEF ReadBack
      <4> QED
        BY <4>2, <4>4 DEF Ids
    <3> QED
      BY <3>3, <3>4
  <2>4. Replayed(r) = r[Len(r)]
    BY <2>2 DEF Replayed
  <2> QED
    BY <2>3, <2>4 DEF OnDisk, Found, file, r
<1> QED
  BY <1>1, DatabaseIsSound, PTL

\* What a write was acknowledged for, a read finds, across closes, kills and recoveries.
THEOREM ReadsFindWrites ==
  ASSUME Survivable
  PROVE  Spec => []AckedAreRead
<1>1. DBInv => AckedAreRead
  BY DEF DBInv, AckedAreRead, MemoryIsLogged, Up
<1> QED
  BY <1>1, DatabaseIsSound, PTL

\* Recovery never finds the directory corrupt, wherever the last run was stopped.
THEOREM RecoveryFindsAll ==
  ASSUME Survivable
  PROVE  Spec => []NeverCorrupt
<1>1. DBInv => NeverCorrupt
  BY DEF DBInv, Typed, TypedMemory, Phases, NeverCorrupt
<1> QED
  BY <1>1, DatabaseIsSound, PTL

\* DeleteObsoleteFiles never takes a table that somebody still needs.
THEOREM TablesInUseExist ==
  ASSUME Survivable
  PROVE  Spec => []PinnedTablesExist
<1>1. DBInv => PinnedTablesExist
  <2> SUFFICES ASSUME DBInv, phase = "open"
               PROVE  /\ \A files \in {versions.files, merge.version} \cup Pinned :
                           Numbers(files) \subseteq DOMAIN tables
                      /\ merge.out # NoFile => merge.out \in DOMAIN tables
                      /\ bgpc \in {"append", "sync"} => Numbers(edit.add) \subseteq DOMAIN tables
    BY DEF PinnedTablesExist
  <2>1. /\ FilesExist(versions.files) /\ merge.version \subseteq versions.files
        /\ merge.out # NoFile => merge.out \in DOMAIN tables
        /\ bgpc \in {"append", "sync"} => FilesExist(edit.add)
        /\ \A t \in Threads : FilesExist(readers[t])
        /\ readers \in [Threads -> Files]
    BY DEF DBInv, Typed, TypedMemory, VersionIsFound, Working, Deleting, Up, FilesExist
  <2>2. \A files \in Pinned : FilesExist(files)
    BY <2>1 DEF Pinned, Range
  <2>3. \A files : FilesExist(files) => Numbers(files) \subseteq DOMAIN tables
    BY DEF FilesExist, Numbers
  <2>4. FilesExist(merge.version)
    BY <2>1 DEF FilesExist
  <2> QED
    BY <2>1, <2>2, <2>3, <2>4
<1> QED
  BY <1>1, DatabaseIsSound, PTL
-----------------------------------------------------------------------------
(***************************************************************************)
(* Sequence numbers.  A group takes numbers above the last sequence, and   *)
(* its entries are in the log before the last sequence has passed them:    *)
(* recovery may meet entries that no thread ever read.  SeqInv follows     *)
(* them: entries in the tables of any state of the MANIFEST and in the     *)
(* logs it names have numbers of their own, none above what the state      *)
(* records if they are in a table, and the same holds of what is in        *)
(* memory, of what recovery has in hand, and of what the background        *)
(* thread writes.                                                          *)
(***************************************************************************)
UpTo(entries, n) == \A e \in entries : e.seq <= n
Apart(entries) == \A e, f \in entries : e.seq = f.seq => e = f

\* What recovery will find, from each state of the MANIFEST.
SeqOnDisk ==
  /\ current = NoFile => LogsFrom(0) = {}
  /\ current # NoFile => \A s \in Survivors(current) :
       /\ UpTo(EntriesOf(s.files), s.seq)
       /\ Apart(EntriesOf(s.files) \cup LogsFrom(s.log))

LastLog == logfileNumber # 0 => \A n \in DOMAIN logs : n <= logfileNumber

\* What recovery has in hand.
SeqReplayed ==
  phase \in {"replay", "descriptor"} =>
    /\ St.seq <= versions.seq
    /\ UpTo(Visible \cup EntriesOf(edit.add), versions.seq)
    /\ EntriesOf(edit.add) \cup mem \subseteq LogsFrom(St.log)
    /\ phase = "descriptor" => edit.seq = versions.seq
    /\ \A n \in toReplay, k \in DOMAIN logs \ toReplay : k < n
SeqNew ==
  phase \in {"sync", "current"} =>
    /\ LastRecord(manifests[versions.manifest]).seq = versions.seq
    /\ UpTo(Visible \cup EntriesOf(edit.add), versions.seq)
    /\ Apart(Visible \cup EntriesOf(edit.add))

\* The logs of the version, and of the states that a reopening may find.
LogsInUse ==
  LogsFrom(versions.log) \cup UNION {LogsFrom(s.log) : s \in Survivors(current)}

\* What a read can find, and what a crash would make of it.
SeqMemory ==
  Up =>
    /\ St.seq <= versions.seq
    /\ Apart(Visible \cup LogsInUse)
    /\ UpTo(Visible, versions.seq)
    /\ \A s \in Survivors(current) :
         EntriesOf(s.files) \subseteq Visible /\ UpTo(EntriesOf(s.files), s.seq)

\* Only the group being written has numbers above the last sequence.
SeqWriters ==
  Up =>
    /\ \A e \in LogsInUse :
         \/ e.seq <= versions.seq
         \/ e \in group.entries /\ \E t \in Threads : wpc[t] \in {"sync", "insert"}
    /\ \A t \in Threads : wpc[t] \in {"log", "torn", "sync", "insert"} =>
         /\ Apart(group.entries)
         /\ \A e \in group.entries :
              versions.seq < e.seq /\ e.seq <= versions.seq + Cardinality(group.entries)

\* What the background thread writes to the MANIFEST.
SeqWorking ==
  Up =>
    /\ bgpc \in {"append", "sync"} => EntriesOf(edit.add) \subseteq Visible
    /\ bgpc = "append" =>
         /\ St.seq <= edit.seq /\ edit.seq <= versions.seq
         /\ UpTo(EntriesOf(edit.add), edit.seq)

SeqInv ==
  /\ SeqOnDisk /\ LastLog /\ SeqReplayed /\ SeqNew
  /\ SeqMemory /\ SeqWriters /\ SeqWorking
-----------------------------------------------------------------------------
LEMMA NumbersOfFewer ==
  ASSUME NEW A, NEW B, A \subseteq B
  PROVE  /\ \A n : UpTo(B, n) => UpTo(A, n)
         /\ Apart(B) => Apart(A)
BY DEF UpTo, Apart

LEMMA HigherBound ==
  ASSUME NEW A \in SUBSET Entries, NEW m \in Int, NEW n \in Int, m <= n, UpTo(A, m)
  PROVE  UpTo(A, n)
<1> SUFFICES ASSUME NEW e \in A
             PROVE  e.seq <= n
  BY DEF UpTo
<1>1. e.seq \in Int /\ e.seq <= m
  BY DEF UpTo, Entries
<1> QED
  BY <1>1

\* The numbers of an open database.
LEMMA UpNumbers ==
  ASSUME DBInv, Up
  PROVE  /\ versions.next \in Nat /\ versions.seq \in Nat /\ versions.log \in Nat
         /\ DOMAIN logs \subseteq Nat /\ \A n \in DOMAIN logs : n < versions.next
         /\ versions.next \notin DOMAIN logs
         /\ current # NoFile /\ versions.manifest = current
         /\ St \in Survivors(current) /\ St.seq \in Nat /\ St.log \in Nat
         /\ \A s \in Survivors(current) : Sound(s) /\ FilesExist(s.files)
<1>1. /\ versions.next \in Nat /\ versions.seq \in Nat /\ versions.log \in Nat
      /\ DOMAIN logs \subseteq Nat
  BY DEF DBInv, Typed, TypedLogs, TypedMemory
<1>2. \A n \in DOMAIN logs : n < versions.next
  BY DEF DBInv, MemoryIsLogged, LogsAreOld
<1>3. /\ current # NoFile /\ versions.manifest = current
      /\ St \in Survivors(current) /\ Sound(St)
      /\ \A s \in Survivors(current) : Sound(s)
  BY LastSurvives DEF DBInv, Typed, VersionIsFound, DiskIsSound
<1>4. versions.next \notin DOMAIN logs
  BY <1>1, <1>2
<1> QED
  BY <1>1, <1>2, <1>3, <1>4 DEF Sound, FilesExist

\* Where memory is, the disk holds nothing else.
LEMMA DiskOfMemory ==
  DBInv /\ SeqMemory /\ Up => SeqOnDisk
<1> SUFFICES ASSUME DBInv, SeqMemory, Up
             PROVE  SeqOnDisk
  OBVIOUS
<1>1. current # NoFile /\ current \in Nat
  BY DEF DBInv, VersionIsFound, Typed, TypedMemory, NoFile
<1>2. SUFFICES ASSUME NEW s \in Survivors(current)
               PROVE  /\ UpTo(EntriesOf(s.files), s.seq)
                      /\ Apart(EntriesOf(s.files) \cup LogsFrom(s.log))
  BY <1>1 DEF SeqOnDisk
<1>3. /\ EntriesOf(s.files) \subseteq Visible
      /\ UpTo(EntriesOf(s.files), s.seq) /\ Apart(Visible \cup LogsInUse)
  BY DEF SeqMemory
<1>4. EntriesOf(s.files) \cup LogsFrom(s.log) \subseteq Visible \cup LogsInUse
  BY <1>3 DEF LogsInUse
<1> QED
  BY <1>3, <1>4, NumbersOfFewer

LEMMA DiskOfMemoryThen ==
  DBInv' /\ SeqMemory' /\ Up' => SeqOnDisk'
BY DiskOfMemory, PTL

\* Steps after which memory holds what it held before.
LEMMA MemoryStays ==
  ASSUME DBInv, DBInv', SeqMemory, Up, Up', Visible' = Visible,
         LogsInUse' \subseteq LogsInUse,
         versions.seq <= versions'.seq, St' = St,
         \A s \in Survivors(current)' :
           s \in Survivors(current) /\ EntriesOf(s.files)' = EntriesOf(s.files)
  PROVE  SeqMemory' /\ SeqOnDisk'
<1>1. Visible \in SUBSET Entries /\ versions.seq \in Int /\ versions'.seq \in Int /\ St.seq \in Int
  <2>1. current # NoFile /\ Sound(St)
    BY LastSurvives DEF DBInv, Typed, VersionIsFound
  <2>2. FilesExist(versions.files)
    BY DEF DBInv, VersionIsFound
  <2>3. \A f \in versions.files : tables[f[2]] \subseteq Entries
    BY <2>2 DEF DBInv, Typed, TypedTables, FilesExist
  <2>4. EntriesOf(versions.files) \subseteq Entries
    BY <2>3 DEF EntriesOf
  <2>5. /\ mem \subseteq Entries /\ UNION imm \subseteq Entries
        /\ versions.seq \in Int /\ versions'.seq \in Int
    BY DEF DBInv, Typed, TypedMemory
  <2> QED
    BY <2>1, <2>4, <2>5 DEF Visible, Sound
<1>2. /\ St.seq <= versions.seq /\ Apart(Visible \cup LogsInUse)
      /\ UpTo(Visible, versions.seq)
      /\ \A s \in Survivors(current) : EntriesOf(s.files) \subseteq Visible
                                         /\ UpTo(EntriesOf(s.files), s.seq)
  BY DEF SeqMemory
<1>3. UpTo(Visible, versions'.seq) /\ St.seq <= versions'.seq
  BY <1>1, <1>2, HigherBound
<1>4. Apart(Visible' \cup LogsInUse')
  <2>1. Visible' \cup LogsInUse' \subseteq Visible \cup LogsInUse
    OBVIOUS
  <2> QED
    BY <1>2, <2>1, NumbersOfFewer
<1>5. SeqMemory'
  BY <1>2, <1>3, <1>4 DEF SeqMemory, UpTo, Apart
<1> QED
  BY <1>5, DiskOfMemoryThen
-----------------------------------------------------------------------------
Taking == {"log", "torn", "sync", "insert"}

\* Steps of the database that leave its files and its memory alone.
LEMMA SeqFrame ==
  ASSUME DBInv, DBInv', SeqInv, phase = "open", phase' = "open",
         UNCHANGED <<disk, mem, imm, logfileNumber>>,
         versions'.files = versions.files, versions'.log = versions.log,
         versions'.seq = versions.seq
  PROVE  /\ SeqOnDisk' /\ LastLog' /\ SeqReplayed' /\ SeqNew' /\ SeqMemory'
         /\ Up /\ Up' /\ St' = St
         /\ LogsInUse' = LogsInUse /\ Visible' = Visible
         /\ UNCHANGED <<edit, bgpc>> => SeqWorking'
<1>1. UNCHANGED <<logs, tables, manifests, current>>
  BY DEF disk
<1>2. Up /\ Up' /\ SeqReplayed' /\ SeqNew'
  BY DEF Up, SeqReplayed, SeqNew
<1>3. LastLog'
  BY <1>1 DEF SeqInv, LastLog
<1>4. /\ St' = St /\ Survivors(current)' = Survivors(current) /\ Visible' = Visible
      /\ LogsInUse' = LogsInUse
      /\ \A F : EntriesOf(F)' = EntriesOf(F)
  BY <1>1 DEF LogsInUse, St, LastRecord, Survivors, Cut, MayCrash, Visible, EntriesOf, LogsFrom, RecsOf
<1>5. SeqMemory' /\ SeqOnDisk'
  <2>1. versions.seq <= versions'.seq
    BY DEF DBInv, Typed, TypedMemory
  <2> QED
    BY <1>2, <1>4, <2>1, MemoryStays DEF SeqInv
<1>6. UNCHANGED <<edit, bgpc>> => SeqWorking'
  BY <1>2, <1>4 DEF SeqInv, SeqWorking, UpTo
<1> QED
  BY <1>2, <1>3, <1>4, <1>5, <1>6

\* The same writers are in the middle of the same group.
LEMMA WritersStay ==
  ASSUME SeqWriters, Up, UNCHANGED group, versions'.seq = versions.seq,
         LogsInUse' \subseteq LogsInUse,
         \A t \in Threads : wpc[t] \in Taking \/ wpc'[t] \in Taking => wpc'[t] = wpc[t]
  PROVE  SeqWriters'
<1>1. \A t \in Threads : wpc[t] \in {"sync", "insert"} => wpc'[t] \in {"sync", "insert"}
  BY DEF Taking
<1> QED
  BY <1>1 DEF SeqWriters, Taking, Apart

\* Nobody writes: all numbers in the logs are old.
LEMMA LogsAreCounted ==
  ASSUME SeqWriters, Up, \A t \in Threads : wpc[t] \notin {"sync", "insert"}
  PROVE  UpTo(LogsInUse, versions.seq)
BY DEF SeqWriters, UpTo

LEMMA NobodyWrites ==
  ASSUME UpTo(LogsInUse', versions'.seq),
         \A t \in Threads : wpc'[t] \notin Taking
  PROVE  SeqWriters'
BY DEF SeqWriters, UpTo, Taking

\* Who leads is the only one that writes.
LEMMA OneWrites ==
  ASSUME DBInv, NEW t \in Threads, wpc[t] \in Leading
  PROVE  \A s \in Threads : s # t => wpc[s] \notin Leading /\ wpc[s] \notin Taking
BY FrontIsFirst DEF DBInv, Typed, Leading, Taking

LEMMA PoppedStates ==
  ASSUME TypedWriters, NEW n, NEW ok, NEW s \in Threads
  PROVE  /\ Popped(n, ok)[s] \in {"flushed", "idle", "front", wpc[s]}
         /\ (\E i \in 1..Len(queue) : i \in 1..n /\ queue[i].t = s)
              => Popped(n, ok)[s] \in {"flushed", "idle"}
BY DEF Popped
-----------------------------------------------------------------------------
LEMMA WritesGrow ==
  ASSUME NEW j \in Nat, NEW i \in 1..j
  PROVE  /\ Writes(i) \in Nat /\ Writes(j) \in Nat /\ Writes(i) <= Writes(j)
         /\ i # j /\ queue[j].kind = "write" => Writes(i) < Writes(j)
         /\ queue[i].kind = "write" => 1 <= Writes(i)
<1> DEFINE A == {k \in 1..i : queue[k].kind = "write"}
           B == {k \in 1..j : queue[k].kind = "write"}
<1>1. i \in Nat /\ 1..i \subseteq 1..j /\ i \in 1..i /\ j \in 1..j
  OBVIOUS
<1>2. A \subseteq B /\ IsFiniteSet(A) /\ IsFiniteSet(B)
  <2>1. IsFiniteSet(1..i) /\ IsFiniteSet(1..j)
    BY <1>1, FS_Interval
  <2> QED
    BY <1>1, <2>1, FS_Subset
<1>3. Writes(i) = Cardinality(A) /\ Writes(j) = Cardinality(B)
  BY DEF Writes
<1>4. i # j /\ queue[j].kind = "write" => j \in B /\ j \notin A
  BY <1>1
<1>5. queue[i].kind = "write" => i \in A
  BY <1>1
<1> HIDE DEF A, B
<1>6. Cardinality(A) \in Nat /\ Cardinality(B) \in Nat /\ Cardinality(A) <= Cardinality(B)
  BY <1>2, FS_CardinalityType, FS_Subset
<1>7. A # B => Cardinality(A) < Cardinality(B)
  BY <1>2, <1>6, FS_Subset
<1>8. A # {} => 1 <= Cardinality(A)
  BY <1>2, <1>6, FS_EmptySet
<1> QED
  BY <1>3, <1>4, <1>5, <1>6, <1>7, <1>8

\* A group takes the numbers after the last sequence, one for each write.
LEMMA GroupNumbers ==
  ASSUME TypedMemory, NEW n \in Nat \ {0}, BuildBatchGroup(n)
  PROVE  /\ Apart(group'.entries)
         /\ \A e \in group'.entries :
              versions.seq < e.seq /\ e.seq <= versions.seq + Cardinality(group'.entries)
<1> DEFINE E(i) == [id |-> nextId + Writes(i) - 1, seq |-> versions.seq + Writes(i)]
           all == {i \in 1..n : queue[i].kind = "write"}
           T == {E(i) : i \in all}
           f == [i \in all |-> E(i)]
<1>1. group'.entries = T
  BY DEF BuildBatchGroup
<1>2. \A i \in all : /\ Writes(i) \in Nat /\ 1 <= Writes(i) /\ Writes(i) <= Writes(n)
                     /\ i \in Nat
  <2> SUFFICES ASSUME NEW i \in all
               PROVE  Writes(i) \in Nat /\ 1 <= Writes(i) /\ Writes(i) <= Writes(n) /\ i \in Nat
    OBVIOUS
  <2>1. n \in Nat /\ i \in 1..n /\ queue[i].kind = "write"
    OBVIOUS
  <2> QED
    BY <2>1, WritesGrow
<1>3. \A i, j \in all : Writes(i) = Writes(j) => i = j
  <2>1. \A i, j \in all : i < j => Writes(i) < Writes(j)
    <3> SUFFICES ASSUME NEW i \in all, NEW j \in all, i < j
                 PROVE  Writes(i) < Writes(j)
      OBVIOUS
    <3>1. j \in Nat /\ i \in 1..j /\ i # j /\ queue[j].kind = "write"
      OBVIOUS
    <3> QED
      BY <3>1, WritesGrow
  <2>2. \A i, j \in all : i < j \/ j < i \/ i = j
    OBVIOUS
  <2> HIDE DEF all
  <2> QED
    BY <1>2, <2>1, <2>2
<1>4. versions.seq \in Nat
  BY DEF TypedMemory
<1>5. \A i, j \in all : E(i).seq = E(j).seq => i = j
  <2> HIDE DEF all
  <2> QED
    BY <1>2, <1>3, <1>4
<1>6. IsFiniteSet(all) /\ Cardinality(all) = Writes(n)
  <2>1. IsFiniteSet(1..n)
    BY FS_Interval
  <2> QED
    BY <2>1, FS_Subset DEF Writes
<1>7. Cardinality(T) = Cardinality(all)
  <2>1. f \in Bijection(all, T)
    BY <1>5 DEF Bijection, Injection, Surjection, IsInjective
  <2> HIDE DEF f, all, T
  <2> QED
    BY <1>6, <2>1, FS_Bijection DEF ExistsBijection
<1>8. Apart(T)
  BY <1>5 DEF Apart
<1>9. \A e \in T : versions.seq < e.seq /\ e.seq <= versions.seq + Writes(n)
  <2>1. Writes(n) \in Nat
    BY WritesAreCounted
  <2> SUFFICES ASSUME NEW i \in all
               PROVE  versions.seq < E(i).seq /\ E(i).seq <= versions.seq + Writes(n)
    OBVIOUS
  <2> HIDE DEF all
  <2> QED
    BY <1>2, <1>4, <2>1
<1> HIDE DEF T, all
<1> QED
  BY <1>1, <1>6, <1>7, <1>8, <1>9
-----------------------------------------------------------------------------
\* A writer builds its group.
LEMMA SeqLead ==
  ASSUME DBInv, SeqWriters, Up, NEW t \in Threads, wpc[t] = "front", Lead(t),
         versions'.seq = versions.seq, LogsInUse' = LogsInUse
  PROVE  SeqWriters'
<1>1. /\ \A s \in Threads : wpc[s] \notin Taking
      /\ \A s \in Threads : wpc'[s] \in Taking => s = t
      /\ wpc'[t] = "log"
  <2>1. wpc \in [Threads -> ThreadStates] /\ wpc' = [wpc EXCEPT ![t] = "log"]
    BY DEF DBInv, Typed, TypedWriters, Lead
  <2>2. \A s \in Threads : s # t => wpc[s] \notin Taking
    BY OneWrites DEF Leading
  <2> QED
    BY <2>1, <2>2 DEF Taking
<1>2. UpTo(LogsInUse, versions.seq)
  BY <1>1, LogsAreCounted DEF Taking
<1>3. PICK n \in 1..Len(queue) : BuildBatchGroup(n)
  BY DEF Lead
<1>4. n \in Nat \ {0}
  <2>1. Len(queue) \in Nat
    BY LengthOfSeq DEF DBInv, Typed, TypedWriters
  <2> QED
    BY <2>1
<1>5. /\ Apart(group'.entries)
      /\ \A e \in group'.entries :
           versions.seq < e.seq /\ e.seq <= versions.seq + Cardinality(group'.entries)
  BY <1>3, <1>4, GroupNumbers DEF DBInv, Typed
<1> QED
  BY <1>2, <1>5 DEF SeqWriters, UpTo, Apart

LEMMA SeqPop ==
  ASSUME DBInv, SeqWriters, Up, NEW t \in Threads, wpc[t] = "front", NEW ok,
         wpc' = Popped(1, ok), versions'.seq = versions.seq,
         LogsInUse' = LogsInUse
  PROVE  SeqWriters'
<1>1. \A s \in Threads : wpc[s] \notin Taking
  BY OneWrites DEF Leading, Taking
<1>2. UpTo(LogsInUse, versions.seq)
  BY <1>1, LogsAreCounted DEF Taking
<1>3. \A s \in Threads : wpc'[s] \notin Taking
  BY <1>1, PoppedStates DEF DBInv, Typed, Taking
<1> QED
  BY <1>2, <1>3, NobodyWrites

\* Steps of the writers that touch neither files nor memory.
LEMMA SeqWriterStep ==
  ASSUME DBInv, DBInv', SeqInv, NEW t \in Threads,
         \/ EnterWrite(t) \/ EnterFlush(t) \/ RefuseWrite(t) \/ StartWrite(t)
         \/ WaitForRoom(t) \/ SwitchFails(t) \/ AwaitFlush(t)
  PROVE  SeqInv'
<1>1. phase = "open" /\ UNCHANGED <<disk, opening, memory, background>>
  BY DEF EnterWrite, EnterFlush, Enter, RefuseWrite, StartWrite, Lead, WaitForRoom, SwitchFails,
         AwaitFlush, IsFront, Unlocked
<1>2. UNCHANGED <<disk, phase, versions, mem, imm, logfileNumber, edit, bgpc>>
  BY <1>1 DEF opening, memory, background
<1>3. /\ SeqOnDisk' /\ LastLog' /\ SeqReplayed' /\ SeqNew' /\ SeqMemory' /\ SeqWorking'
      /\ Up /\ LogsInUse' = LogsInUse
  BY <1>1, <1>2, SeqFrame
<1>4. SeqWriters /\ wpc \in [Threads -> ThreadStates] /\ versions'.seq = versions.seq
  BY <1>2 DEF SeqInv, DBInv, Typed, TypedWriters
<1>5. CASE EnterWrite(t) \/ EnterFlush(t) \/ WaitForRoom(t) \/ AwaitFlush(t)
  <2>1. UNCHANGED group
    BY <1>5 DEF EnterWrite, EnterFlush, Enter, WaitForRoom, AwaitFlush
  <2>2. /\ wpc[t] \notin Taking
        /\ \E pc : pc \notin Taking /\ wpc' = [wpc EXCEPT ![t] = pc]
    BY <1>5 DEF EnterWrite, EnterFlush, Enter, WaitForRoom, AwaitFlush, IsFront, Taking
  <2>3. \A s \in Threads : wpc[s] \in Taking \/ wpc'[s] \in Taking => wpc'[s] = wpc[s]
    BY <1>4, <2>2
  <2>4. SeqWriters'
    BY <1>3, <1>4, <2>1, <2>3, WritersStay
  <2> QED
    BY <1>3, <2>4 DEF SeqInv
<1>6. CASE RefuseWrite(t) \/ SwitchFails(t)
  <2>1. wpc[t] = "front" /\ wpc' = Popped(1, FALSE)
    BY <1>6 DEF RefuseWrite, SwitchFails, IsFront, PopFront
  <2>2. SeqWriters'
    BY <1>3, <1>4, <2>1, SeqPop
  <2> QED
    BY <1>3, <2>2 DEF SeqInv
<1>7. CASE StartWrite(t)
  <2>1. wpc[t] = "front" /\ Lead(t)
    BY <1>7 DEF StartWrite, IsFront
  <2>2. SeqWriters'
    BY <1>3, <1>4, <2>1, SeqLead
  <2> QED
    BY <1>3, <2>2 DEF SeqInv
<1> QED
  BY <1>5, <1>6, <1>7
-----------------------------------------------------------------------------
\* A full memtable becomes imm_, and a new log is opened: nothing goes away.
LEMMA SeqSwitchStep ==
  ASSUME DBInv, DBInv', SeqInv, NEW t \in Threads, SwitchMemTable(t)
  PROVE  SeqInv'
<1>1. /\ phase = "open" /\ phase' = "open" /\ wpc[t] = "front"
      /\ versions' = [versions EXCEPT !.next = @ + 1]
      /\ logs' = Put(logs, versions.next, EmptyLog)
      /\ logfileNumber' = versions.next
      /\ imm = NoTable /\ imm' = {mem} /\ mem' = {}
      /\ UNCHANGED <<tables, manifests, current, edit>>
      /\ bgpc' \in {bgpc, "scheduled"}
      /\ (wpc' = Popped(1, TRUE) \/ Lead(t))
  BY DEF SwitchMemTable, IsFront, Unlocked, MustWait, opening, PopFront, MaybeSchedule
<1>2. Up /\ Up' /\ SeqReplayed' /\ SeqNew'
  BY <1>1 DEF Up, SeqReplayed, SeqNew
<1>3. /\ versions.next \notin DOMAIN logs /\ versions.next \in Nat /\ DOMAIN logs \subseteq Nat
      /\ \A n \in DOMAIN logs : n < versions.next
  BY <1>2, UpNumbers
<1>4. /\ versions'.files = versions.files /\ versions'.log = versions.log
      /\ versions'.seq = versions.seq
  BY <1>1, <1>2 DEF DBInv, Typed, TypedMemory
<1>5. /\ DOMAIN logs' = DOMAIN logs \cup {versions.next}
      /\ logs'[versions.next] = EmptyLog
      /\ \A n \in DOMAIN logs : logs'[n] = logs[n]
  BY <1>1, <1>3 DEF Put
<1>6. LogsInUse' = LogsInUse
  <2>1. RecsOf(logs'[versions.next]) = {}
    BY <1>5, EmptyLogFacts
  <2>2. \A n : LogsFrom(n)' = LogsFrom(n)
    BY <1>5, <2>1 DEF LogsFrom
  <2>3. Survivors(current)' = Survivors(current)
    BY <1>1 DEF Survivors, Cut, MayCrash
  <2> QED
    BY <1>4, <2>2, <2>3 DEF LogsInUse
<1>7. LastLog'
  BY <1>1, <1>3, <1>5 DEF LastLog
<1>8. /\ Visible' = Visible /\ St' = St /\ Survivors(current)' = Survivors(current)
      /\ \A F : EntriesOf(F)' = EntriesOf(F)
  BY <1>1, <1>4 DEF Visible, EntriesOf, St, LastRecord, Survivors, Cut, MayCrash, NoTable
<1>9. SeqMemory' /\ SeqOnDisk'
  <2>1. versions.seq <= versions'.seq
    BY <1>4 DEF DBInv, Typed, TypedMemory
  <2> QED
    BY <1>2, <1>4, <1>6, <1>8, <2>1, MemoryStays DEF SeqInv
<1>10. SeqWriters'
  <2>1. CASE Lead(t)
    BY <1>1, <1>2, <1>4, <1>6, <2>1, SeqLead DEF SeqInv
  <2>2. CASE wpc' = Popped(1, TRUE)
    BY <1>1, <1>2, <1>4, <1>6, <2>2, SeqPop DEF SeqInv
  <2> QED
    BY <1>1, <2>1, <2>2
<1>11. SeqWorking'
  BY <1>1, <1>2, <1>4, <1>8 DEF SeqInv, SeqWorking, UpTo
<1> QED
  BY <1>2, <1>7, <1>9, <1>10, <1>11 DEF SeqInv
-----------------------------------------------------------------------------
LEMMA LogsAreEntries ==
  ASSUME TypedLogs
  PROVE  /\ \A n \in DOMAIN logs : RecsOf(logs[n]) \subseteq Entries
         /\ \A n : LogsFrom(n) \subseteq Entries
         /\ LogsInUse \subseteq Entries
<1>1. ASSUME NEW n \in DOMAIN logs
      PROVE  RecsOf(logs[n]) \subseteq Entries
  <2>1. logs[n] \in [recs : Seq(SUBSET Entries), synced : Nat, torn : SUBSET Nat]
    BY DEF TypedLogs
  <2>2. RecsOf(logs[n]) = UNION {logs[n].recs[i] : i \in 1..Len(logs[n].recs)}
    BY <2>1, RecsAt
  <2>3. \A i \in 1..Len(logs[n].recs) : logs[n].recs[i] \in SUBSET Entries
    BY <2>1
  <2> QED
    BY <2>2, <2>3
<1> QED
  BY <1>1 DEF LogsFrom, LogsInUse

LEMMA VisibleEntries ==
  ASSUME DBInv, Up
  PROVE  Visible \subseteq Entries
<1>1. FilesExist(versions.files)
  BY DEF DBInv, VersionIsFound
<1>2. \A f \in versions.files : tables[f[2]] \subseteq Entries
  BY <1>1 DEF DBInv, Typed, TypedTables, FilesExist
<1>3. EntriesOf(versions.files) \subseteq Entries
  BY <1>2 DEF EntriesOf
<1>4. mem \subseteq Entries /\ UNION imm \subseteq Entries
  BY DEF DBInv, Typed, TypedMemory
<1> QED
  BY <1>3, <1>4 DEF Visible

\* The leader appends its group to the log, whose numbers are all older.
LEMMA SeqAppendLogStep ==
  ASSUME DBInv, DBInv', SeqInv, NEW t \in Threads, AppendLog(t)
  PROVE  SeqInv'
<1> DEFINE n == logfileNumber
           G == group.entries
           Old == Visible \cup LogsInUse
<1>1. /\ phase = "open" /\ phase' = "open" /\ wpc[t] = "log"
      /\ logs' = [logs EXCEPT ![n].recs = Append(@, G)]
      /\ wpc' = [wpc EXCEPT ![t] = IF group.sync THEN "sync" ELSE "insert"]
      /\ UNCHANGED <<tables, manifests, current, versions, mem, imm, logfileNumber, edit,
                     group, bgpc>>
  BY DEF AppendLog, opening, memory, background
<1>2. Up /\ Up' /\ SeqReplayed' /\ SeqNew'
  BY <1>1 DEF Up, SeqReplayed, SeqNew
<1>3. /\ n \in DOMAIN logs /\ logs[n] \in [recs : Seq(SUBSET Entries), synced : Nat, torn : SUBSET Nat]
      /\ G \in SUBSET Entries
  BY <1>2 DEF DBInv, MemoryIsLogged, Typed, TypedLogs, TypedWriters
<1>4. /\ DOMAIN logs' = DOMAIN logs /\ \A k \in DOMAIN logs : k # n => logs'[k] = logs[k]
      /\ logs'[n].recs = Append(logs[n].recs, G)
      /\ logs'[n] \in [recs : Seq(SUBSET Entries), synced : Nat, torn : SUBSET Nat]
  BY <1>1, <1>3 DEF DBInv, Typed, TypedLogs
<1>5. RecsOf(logs'[n]) \subseteq RecsOf(logs[n]) \cup G
  <2>1. /\ RecsOf(logs[n]) = UNION {logs[n].recs[i] : i \in 1..Len(logs[n].recs)}
        /\ RecsOf(logs'[n]) = UNION {logs'[n].recs[i] : i \in 1..Len(logs'[n].recs)}
    BY <1>3, <1>4, RecsAt
  <2>2. logs[n].recs \in Seq(SUBSET Entries) /\ Len(logs[n].recs) \in Nat
    BY <1>3
  <2>3. /\ Len(logs'[n].recs) = Len(logs[n].recs) + 1
        /\ \A i \in 1..Len(logs[n].recs) : logs'[n].recs[i] = logs[n].recs[i]
        /\ logs'[n].recs[Len(logs[n].recs) + 1] = G
    <3> HIDE DEF n, G
    <3> QED BY <1>3, <1>4, <2>2, AppendFacts
  <2>4. \A i \in 1..Len(logs'[n].recs) : i \in 1..Len(logs[n].recs) \/ i = Len(logs[n].recs) + 1
    BY <2>2, <2>3
  <2>5. ASSUME NEW i \in 1..Len(logs'[n].recs)
        PROVE  logs'[n].recs[i] \subseteq RecsOf(logs[n]) \cup G
    <3>1. i \in 1..Len(logs[n].recs) => logs[n].recs[i] \subseteq RecsOf(logs[n])
      BY <2>1
    <3> HIDE DEF n, G
    <3> QED
      BY <2>3, <2>4, <3>1
  <2> HIDE DEF n, G
  <2> QED
    BY <2>1, <2>5
<1>6. LogsInUse' \subseteq LogsInUse \cup G
  <2>1. \A k \in DOMAIN logs : RecsOf(logs'[k]) \subseteq RecsOf(logs[k]) \cup G
    <3> HIDE DEF n, G
    <3> QED BY <1>4, <1>5
  <2>2. \A m : LogsFrom(m)' \subseteq LogsFrom(m) \cup G
    <3> SUFFICES ASSUME NEW m
                 PROVE  LogsFrom(m)' \subseteq LogsFrom(m) \cup G
      OBVIOUS
    <3>1. LogsFrom(m)' = UNION {RecsOf(logs'[k]) : k \in {k \in DOMAIN logs : k >= m}}
      BY <1>4 DEF LogsFrom
    <3> HIDE DEF n, G
    <3> QED BY <2>1, <3>1 DEF LogsFrom
  <2>3. versions' = versions /\ Survivors(current)' = Survivors(current)
    BY <1>1 DEF Survivors, Cut, MayCrash
  <2> HIDE DEF n, G
  <2> QED BY <2>2, <2>3 DEF LogsInUse
<1>7. \A s \in Threads : wpc[s] \notin {"sync", "insert"}
  BY <1>1, OneWrites DEF Leading, Taking
<1>8. /\ St.seq <= versions.seq /\ Apart(Old) /\ UpTo(Visible, versions.seq)
      /\ \A s \in Survivors(current) :
           /\ EntriesOf(s.files) \subseteq Visible
           /\ UpTo(EntriesOf(s.files), s.seq)
      /\ Apart(G) /\ \A e \in G : versions.seq < e.seq
      /\ \A e \in G : e.seq <= versions.seq + Cardinality(G)
      /\ UpTo(LogsInUse, versions.seq)
  <2>1. UpTo(LogsInUse, versions.seq)
    BY <1>2, <1>7, LogsAreCounted DEF SeqInv
  <2> QED
    BY <1>1, <1>2, <2>1 DEF SeqInv, SeqMemory, SeqWriters
<1>9. Apart(Old \cup G)
  <2>1. Old \subseteq Entries /\ versions.seq \in Nat
    BY <1>2, VisibleEntries, LogsAreEntries, UpNumbers DEF DBInv, Typed
  <2>2. \A e \in Old : e.seq \in Nat /\ e.seq <= versions.seq
    BY <1>8, <2>1 DEF UpTo, Entries
  <2>3. \A f \in G : f.seq \in Nat /\ versions.seq < f.seq
    BY <1>3, <1>8 DEF Entries
  <2>4. \A e \in Old, f \in G : e.seq # f.seq
    BY <2>1, <2>2, <2>3
  <2> HIDE DEF Old, G
  <2> QED
    BY <1>8, <2>4 DEF Apart
<1>10. /\ Visible' = Visible /\ St' = St /\ Survivors(current)' = Survivors(current)
       /\ \A F : EntriesOf(F)' = EntriesOf(F)
  BY <1>1 DEF Visible, EntriesOf, St, LastRecord, Survivors, Cut, MayCrash
<1>11. SeqMemory'
  <2>1. Visible' \cup LogsInUse' \subseteq Old \cup G
    BY <1>6, <1>10
  <2>2. Apart(Visible' \cup LogsInUse')
    <3> HIDE DEF Old, G
    <3> QED BY <1>9, <2>1, NumbersOfFewer
  <2> QED
    BY <1>1, <1>8, <1>10, <2>2 DEF SeqMemory, UpTo, Apart
<1>12. SeqOnDisk'
  BY <1>2, <1>11, DiskOfMemoryThen
<1>13. SeqWriters'
  <2>1. wpc'[t] \in {"sync", "insert"} /\ \A s \in Threads : s # t => wpc'[s] = wpc[s]
    BY <1>1 DEF DBInv, Typed, TypedWriters
  <2>2. \A e \in LogsInUse' : e.seq <= versions.seq \/ e \in G
    BY <1>6, <1>8 DEF UpTo
  <2> QED
    BY <1>1, <1>8, <2>1, <2>2 DEF SeqWriters, Apart
<1>14. LastLog' /\ SeqWorking'
  BY <1>1, <1>4, <1>10 DEF SeqInv, LastLog, SeqWorking, UpTo, Up
<1> QED
  BY <1>2, <1>11, <1>12, <1>13, <1>14 DEF SeqInv

LEMMA SeqSyncLogStep ==
  ASSUME DBInv, DBInv', SeqInv, NEW t \in Threads, SyncLog(t)
  PROVE  SeqInv'
<1> DEFINE n == logfileNumber
<1>1. /\ phase = "open" /\ phase' = "open" /\ wpc[t] = "sync"
      /\ logs' = [logs EXCEPT ![n].synced = Len(logs[n].recs)]
      /\ wpc' = [wpc EXCEPT ![t] = "insert"]
      /\ UNCHANGED <<tables, manifests, current, versions, mem, imm, logfileNumber, edit,
                     group, bgpc>>
  BY DEF SyncLog, opening, memory, background
<1>2. Up /\ Up' /\ SeqReplayed' /\ SeqNew'
  BY <1>1 DEF Up, SeqReplayed, SeqNew
<1>3. n \in DOMAIN logs /\ logs[n] \in [recs : Seq(SUBSET Entries), synced : Nat, torn : SUBSET Nat]
  BY <1>2 DEF DBInv, MemoryIsLogged, Typed, TypedLogs
<1>4. DOMAIN logs' = DOMAIN logs /\ \A k \in DOMAIN logs : logs'[k].recs = logs[k].recs
  BY <1>1, <1>3
<1>5. /\ Visible' = Visible /\ St' = St /\ Survivors(current)' = Survivors(current)
      /\ \A F : EntriesOf(F)' = EntriesOf(F)
      /\ LogsInUse' = LogsInUse
  BY <1>1, <1>4 DEF Visible, EntriesOf, St, LastRecord, Survivors, Cut, MayCrash, LogsInUse,
                    LogsFrom, RecsOf
<1>6. SeqMemory' /\ SeqOnDisk'
  <2>1. versions'.seq = versions.seq /\ versions.seq <= versions'.seq
    BY <1>1, <1>2, UpNumbers
  <2> QED
    BY <1>2, <1>5, <2>1, MemoryStays DEF SeqInv
<1>7. SeqWriters'
  <2>1. wpc'[t] = "insert" /\ \A s \in Threads : s # t => wpc'[s] = wpc[s]
    BY <1>1 DEF DBInv, Typed, TypedWriters
  <2> QED
    BY <1>1, <1>2, <1>5, <2>1 DEF SeqInv, SeqWriters, Apart
<1>8. LastLog' /\ SeqWorking'
  BY <1>1, <1>4, <1>5 DEF SeqInv, LastLog, SeqWorking, UpTo, Up
<1> QED
  BY <1>2, <1>6, <1>7, <1>8 DEF SeqInv

\* A torn record is not read as a whole one.
LEMMA SeqTearLogStep ==
  ASSUME DBInv, DBInv', SeqInv, NEW t \in Threads, TearLog(t)
  PROVE  SeqInv'
<1>1. /\ phase = "open" /\ phase' = "open" /\ wpc[t] = "log"
      /\ logs' = Tear(logs, logfileNumber)
      /\ wpc' = [wpc EXCEPT ![t] = "torn"]
      /\ UNCHANGED <<tables, manifests, current, versions, mem, imm, logfileNumber, edit,
                     group, bgpc>>
  BY DEF TearLog, opening, memory, background
<1>2. Up /\ Up' /\ SeqReplayed' /\ SeqNew'
  BY <1>1 DEF Up, SeqReplayed, SeqNew
<1>3. /\ logfileNumber \in DOMAIN logs
      /\ logs[logfileNumber] \in [recs : Seq(SUBSET Entries), synced : Nat, torn : SUBSET Nat]
  BY <1>2 DEF DBInv, MemoryIsLogged, Typed, TypedLogs
<1>4. DOMAIN logs' = DOMAIN logs /\ \A k \in DOMAIN logs : logs'[k].recs = logs[k].recs
  BY <1>1, <1>3 DEF Tear
<1>5. /\ Visible' = Visible /\ St' = St /\ Survivors(current)' = Survivors(current)
      /\ \A F : EntriesOf(F)' = EntriesOf(F)
      /\ LogsInUse' = LogsInUse
  BY <1>1, <1>4 DEF Visible, EntriesOf, St, LastRecord, Survivors, Cut, MayCrash, LogsInUse,
                    LogsFrom, RecsOf
<1>6. SeqMemory' /\ SeqOnDisk'
  <2>1. versions'.seq = versions.seq /\ versions.seq <= versions'.seq
    BY <1>1, <1>2, UpNumbers
  <2> QED
    BY <1>2, <1>5, <2>1, MemoryStays DEF SeqInv
<1>7. SeqWriters'
  <2>1. wpc'[t] = "torn" /\ \A s \in Threads : s # t => wpc'[s] = wpc[s]
    BY <1>1 DEF DBInv, Typed, TypedWriters
  <2> QED
    BY <1>1, <1>2, <1>5, <2>1 DEF SeqInv, SeqWriters, Apart
<1>8. LastLog' /\ SeqWorking'
  BY <1>1, <1>4, <1>5 DEF SeqInv, LastLog, SeqWorking, UpTo, Up
<1> QED
  BY <1>2, <1>6, <1>7, <1>8 DEF SeqInv
-----------------------------------------------------------------------------
\* The group is in the memtable, or its record or its sync has failed: its
\* numbers are taken.
LEMMA SeqTakenStep ==
  ASSUME DBInv, DBInv', SeqInv, NEW t \in Threads,
         FinishWrite(t) \/ SyncFails(t) \/ AppendLogFails(t)
  PROVE  SeqInv'
<1> DEFINE G == group.entries
           Old == Visible \cup LogsInUse
<1>1. /\ phase = "open" /\ phase' = "open" /\ wpc[t] \in {"torn", "sync", "insert"}
      /\ versions' = TakenSequences
      /\ UNCHANGED <<logs, tables, manifests, current, imm, logfileNumber, edit, bgpc>>
      /\ (mem' = mem \cup G /\ wpc[t] = "insert") \/ mem' = mem
      /\ \/ \E ok : wpc' = Popped(group.n, ok)
         \/ wpc' = SignalAll(Popped(group.n, FALSE))
  BY DEF FinishWrite, SyncFails, AppendLogFails, Unlocked, disk, opening, background, PopFront
<1>2. Up /\ Up' /\ SeqReplayed' /\ SeqNew'
  BY <1>1 DEF Up, SeqReplayed, SeqNew
<1>3. Cardinality(G) \in Nat /\ G \subseteq Entries
  BY FS_CardinalityType DEF DBInv, Typed, TypedWriters
<1>4. /\ versions'.files = versions.files /\ versions'.log = versions.log
      /\ versions'.seq = versions.seq + Cardinality(G)
      /\ versions.seq \in Nat /\ versions'.seq \in Nat /\ versions.seq <= versions'.seq
  BY <1>1, <1>2, <1>3 DEF DBInv, Typed, TypedMemory, TakenSequences
<1>5. /\ St.seq <= versions.seq /\ Apart(Old) /\ UpTo(Visible, versions.seq)
      /\ \A s \in Survivors(current) :
           /\ EntriesOf(s.files) \subseteq Visible
           /\ UpTo(EntriesOf(s.files), s.seq)
      /\ \A e \in G : e.seq <= versions.seq + Cardinality(G)
      /\ \A e \in LogsInUse : e.seq <= versions.seq \/ e \in G
  BY <1>1, <1>2 DEF SeqInv, SeqMemory, SeqWriters
<1>6. wpc[t] = "insert" => G \subseteq LogsInUse
  <2> SUFFICES ASSUME wpc[t] = "insert"
               PROVE  G \subseteq LogsInUse
    OBVIOUS
  <2>1. G \subseteq RecsOf(logs[logfileNumber])
    BY <1>1 DEF DBInv, Writing
  <2>2. logfileNumber \in DOMAIN logs /\ versions.log <= logfileNumber
    BY <1>2 DEF DBInv, MemoryIsLogged
  <2>3. logfileNumber >= versions.log
    BY <1>2, <2>2, UpNumbers
  <2> HIDE DEF G
  <2> QED
    BY <2>1, <2>2, <2>3 DEF LogsInUse, LogsFrom
<1>7. /\ St' = St /\ Survivors(current)' = Survivors(current)
      /\ \A F : EntriesOf(F)' = EntriesOf(F)
      /\ LogsInUse' = LogsInUse
      /\ Visible \subseteq Visible' /\ Visible' \subseteq Visible \cup G
      /\ wpc[t] # "insert" => Visible' = Visible
  BY <1>1, <1>4 DEF Visible, EntriesOf, St, LastRecord, Survivors, Cut, MayCrash, LogsInUse,
                    LogsFrom, RecsOf
<1>8. UpTo(Visible \cup LogsInUse, versions'.seq)
  <2>1. \A e \in Visible \cup LogsInUse : e.seq \in Nat
    <3>1. Visible \cup LogsInUse \subseteq Entries
      BY <1>2, VisibleEntries, LogsAreEntries DEF DBInv, Typed
    <3> QED
      BY <3>1 DEF Entries
  <2>2. \A e \in Visible \cup LogsInUse :
          e.seq <= versions.seq \/ e.seq <= versions.seq + Cardinality(G)
    BY <1>5 DEF UpTo
  <2> HIDE DEF G
  <2> QED
    BY <1>3, <1>4, <2>1, <2>2 DEF UpTo
<1>9. SeqMemory'
  <2>1. Visible' \cup LogsInUse' \subseteq Old
    BY <1>6, <1>7
  <2>2. Apart(Visible' \cup LogsInUse') /\ UpTo(Visible', versions'.seq)
    <3>1. Visible' \subseteq Visible \cup LogsInUse
      BY <2>1
    <3> HIDE DEF Old
    <3> QED
      BY <1>5, <1>8, <2>1, <3>1, NumbersOfFewer
  <2>3. St'.seq <= versions'.seq
    BY <1>2, <1>4, <1>5, <1>7, UpNumbers
  <2>4. \A s \in Survivors(current)' :
          /\ EntriesOf(s.files)' \subseteq Visible'
          /\ UpTo(EntriesOf(s.files)', s.seq)
    BY <1>4, <1>5, <1>7
  <2> QED
    BY <2>2, <2>3, <2>4 DEF SeqMemory, UpTo, Apart
<1>10. SeqOnDisk'
  BY <1>2, <1>9, DiskOfMemoryThen
<1>11. SeqWriters'
  <2>1. UpTo(LogsInUse', versions'.seq)
    BY <1>7, <1>8, NumbersOfFewer
  <2>2. \A s \in Threads : wpc'[s] \notin Taking
    <3>1. /\ TypedWriters /\ 1 \in 1..Len(queue) /\ queue[1].t = t /\ 1 \in 1..group.n
      <4>1. /\ 1 \in 1..Len(queue) /\ queue[1].t = t
        BY <1>1, FrontIsFirst DEF DBInv, Typed, Leading
      <4>2. 1 <= group.n /\ group.n \in Nat
        BY <1>1 DEF DBInv, Writing, Typed, TypedWriters
      <4> QED
        BY <4>1, <4>2 DEF DBInv, Typed
    <3>2. \A s \in Threads : s # t => wpc[s] \notin Taking
      BY <1>1, OneWrites DEF Leading
    <3>3. \A ok : \A s \in Threads : Popped(group.n, ok)[s] \notin Taking
      BY <3>1, <3>2, PoppedStates DEF Taking
    <3>4. \A ok : \A s \in Threads : SignalAll(Popped(group.n, ok))[s] \notin Taking
      BY <3>3 DEF SignalAll, Taking
    <3> QED
      BY <1>1, <3>3, <3>4
  <2> QED
    BY <2>1, <2>2, NobodyWrites
<1>12. LastLog'
  BY <1>1 DEF SeqInv, LastLog
<1>13. SeqWorking'
  <2>1. bgpc = "append" => /\ St.seq <= edit.seq /\ edit.seq <= versions.seq
                           /\ UpTo(EntriesOf(edit.add), edit.seq)
    BY <1>2 DEF SeqInv, SeqWorking
  <2>2. bgpc = "append" => edit.seq <= versions'.seq
    <3>1. edit.seq \in Int
      BY DEF DBInv, Typed, TypedMemory
    <3> QED
      BY <1>4, <2>1, <3>1
  <2>3. bgpc \in {"append", "sync"} => EntriesOf(edit.add) \subseteq Visible'
    BY <1>2, <1>7 DEF SeqInv, SeqWorking
  <2> QED
    BY <1>1, <1>7, <2>1, <2>2, <2>3 DEF SeqWorking, UpTo
<1> QED
  BY <1>2, <1>9, <1>10, <1>11, <1>12, <1>13 DEF SeqInv
-----------------------------------------------------------------------------
\* Steps of readers and of the background thread that touch neither files nor
\* memory.
LEMMA SeqQuietStep ==
  ASSUME DBInv, DBInv', SeqInv, phase = "open", phase' = "open",
         UNCHANGED <<disk, mem, imm, logfileNumber, group>>,
         versions'.files = versions.files, versions'.log = versions.log,
         versions'.seq = versions.seq, wpc' = wpc \/ wpc' = SignalAll(wpc),
         \/ bgpc' \notin {"append", "sync"}
         \/ UNCHANGED <<edit, bgpc>>
         \/ /\ bgpc' = "append" /\ edit'.seq = versions.seq
            /\ EntriesOf(edit'.add) \subseteq EntriesOf(versions.files)
  PROVE  SeqInv'
<1>1. /\ SeqOnDisk' /\ LastLog' /\ SeqReplayed' /\ SeqNew' /\ SeqMemory'
      /\ Up /\ Up' /\ St' = St
      /\ LogsInUse' = LogsInUse /\ Visible' = Visible
      /\ UNCHANGED <<edit, bgpc>> => SeqWorking'
  BY SeqFrame
<1>2. \A t \in Threads : wpc[t] \in Taking \/ wpc'[t] \in Taking => wpc'[t] = wpc[t]
  BY DEF SignalAll, Taking
<1>3. SeqWriters'
  BY <1>1, <1>2, WritersStay DEF SeqInv
<1>4. SeqWorking'
  <2>1. CASE bgpc' \notin {"append", "sync"}
    BY <2>1 DEF SeqWorking
  <2>2. CASE /\ bgpc' = "append" /\ edit'.seq = versions.seq
             /\ EntriesOf(edit'.add) \subseteq EntriesOf(versions.files)
    <3>1. EntriesOf(edit.add)' = EntriesOf(edit'.add)
      BY DEF EntriesOf, disk
    <3>2. EntriesOf(edit'.add) \subseteq Visible
      BY <2>2 DEF Visible
    <3>3. UpTo(Visible, versions.seq) /\ St.seq <= versions.seq
      BY <1>1 DEF SeqInv, SeqMemory
    <3>4. UpTo(EntriesOf(edit'.add), versions.seq)
      BY <3>2, <3>3, NumbersOfFewer
    <3>5. versions.seq <= versions.seq
      BY <1>1, UpNumbers
    <3> QED
      BY <1>1, <2>2, <3>1, <3>2, <3>3, <3>4, <3>5 DEF SeqWorking, UpTo
  <2> QED
    BY <1>1, <2>1, <2>2
<1> QED
  BY <1>1, <1>3, <1>4 DEF SeqInv

LEMMA SeqBackgroundStep ==
  ASSUME DBInv, DBInv', SeqInv,
         \/ \E t \in Threads : StartRead(t) \/ EndRead(t)
         \/ StartClose \/ RunNothing \/ EndBackgroundCall \/ PickMerge \/ StartFlush
         \/ MoveTable \/ FinishMerge \/ SyncManifestFails \/ AppendManifestFails \/ MergeFails
  PROVE  SeqInv'
<1>0. versions \in [files : Files, log : Nat, next : Nat, seq : Nat, manifest : Nat]
  BY DEF DBInv, Typed, TypedMemory
<1>1. CASE \/ \E t \in Threads : StartRead(t) \/ EndRead(t)
           \/ StartClose
  <2>1. /\ phase = "open" /\ phase' = "open"
        /\ UNCHANGED <<disk, mem, imm, logfileNumber, group, versions, wpc, edit, bgpc>>
    BY <1>1 DEF StartRead, EndRead, StartClose, Unlocked, opening, writers, background
  <2> QED
    BY <2>1, SeqQuietStep
<1>2. CASE RunNothing \/ EndBackgroundCall \/ PickMerge \/ StartFlush
  <2>1. /\ phase = "open" /\ phase' = "open"
        /\ UNCHANGED <<disk, mem, imm, logfileNumber, group>>
        /\ wpc' = wpc \/ wpc' = SignalAll(wpc)
        /\ bgpc' \notin {"append", "sync"}
    BY <1>2 DEF RunNothing, EndBackgroundCall, PickMerge, StartFlush, Runs, Unlocked, opening,
                memory, writers, MaybeSchedule
  <2>2. versions' = versions \/ versions' = [versions EXCEPT !.next = @ + 1]
    BY <1>2 DEF RunNothing, EndBackgroundCall, PickMerge, StartFlush, memory
  <2>3. /\ versions'.files = versions.files /\ versions'.log = versions.log
        /\ versions'.seq = versions.seq
    BY <1>0, <2>2
  <2> QED
    BY <2>1, <2>3, SeqQuietStep
<1>3. CASE SyncManifestFails \/ AppendManifestFails \/ MergeFails
  <2>1. /\ phase = "open" /\ phase' = "open"
        /\ UNCHANGED <<disk, mem, imm, logfileNumber, group, versions>>
        /\ wpc' = SignalAll(wpc)
        /\ bgpc' \notin {"append", "sync"}
    BY <1>3 DEF SyncManifestFails, AppendManifestFails, MergeFails, FailJob, AfterFlush, Unlocked, opening
  <2> QED
    BY <2>1, SeqQuietStep
<1>4. CASE MoveTable
  <2>1. /\ phase = "open" /\ phase' = "open"
        /\ UNCHANGED <<disk, mem, imm, logfileNumber, group, versions, wpc>>
        /\ bgpc' = "append"
    BY <1>4 DEF MoveTable, Runs, Unlocked, opening, writers
  <2>2. PICK f \in versions.files :
          edit' = [log |-> KeptLog, next |-> versions.next,
                   seq |-> versions.seq, add |-> {<<1, f[2]>>}, del |-> {f}]
    BY <1>4 DEF MoveTable
  <2>3. edit'.seq = versions.seq /\ EntriesOf(edit'.add) \subseteq EntriesOf(versions.files)
    BY <2>2 DEF EntriesOf
  <2> QED
    BY <2>1, <2>3, SeqQuietStep
<1>5. CASE FinishMerge
  <2>1. /\ phase = "open" /\ phase' = "open" /\ merge.out # NoFile
        /\ UNCHANGED <<disk, mem, imm, logfileNumber, group, versions, wpc>>
        /\ bgpc' = "append"
        /\ edit'.seq = versions.seq /\ edit'.add = {<<1, merge.out>>}
    BY <1>5 DEF FinishMerge, Unlocked, opening, writers
  <2>2. tables[merge.out] = EntriesOf(merge.in) /\ merge.in \subseteq versions.files
    BY <2>1 DEF DBInv, Working, Up
  <2>3. EntriesOf(edit'.add) \subseteq EntriesOf(versions.files)
    BY <2>1, <2>2 DEF EntriesOf
  <2> QED
    BY <2>1, <2>3, SeqQuietStep
<1> QED
  BY <1>1, <1>2, <1>3, <1>4, <1>5
-----------------------------------------------------------------------------
\* Steps of the background thread that only add or remove files nobody needs.
LEMMA SeqTablesStep ==
  ASSUME DBInv, DBInv', SeqInv, phase = "open", phase' = "open",
         UNCHANGED <<current, mem, imm, logfileNumber, group>>,
         versions'.files = versions.files, versions'.log = versions.log,
         versions'.seq = versions.seq, wpc' = wpc \/ wpc' = SignalAll(wpc),
         manifests'[current] = manifests[current],
         DOMAIN logs' \subseteq DOMAIN logs, \A n \in DOMAIN logs' : logs'[n] = logs[n],
         \A f \in versions.files : tables'[f[2]] = tables[f[2]],
         \A s \in Survivors(current) : \A f \in s.files : tables'[f[2]] = tables[f[2]],
         \/ bgpc' \notin {"append", "sync"}
         \/ /\ UNCHANGED <<edit, bgpc>>
            /\ \A f \in edit.add : tables'[f[2]] = tables[f[2]]
         \/ /\ bgpc' = "append" /\ edit'.seq = versions.seq
            /\ EntriesOf(edit.add)' \subseteq Visible
  PROVE  SeqInv'
<1>1. Up /\ Up' /\ SeqReplayed' /\ SeqNew'
  BY DEF Up, SeqReplayed, SeqNew
<1>2. LastLog'
  BY DEF SeqInv, LastLog
<1>3. St' = St /\ Survivors(current)' = Survivors(current)
  BY DEF St, LastRecord, Survivors, Cut, MayCrash
<1>4. Visible' = Visible
  <2>1. EntriesOf(versions.files)' = EntriesOf(versions.files)
    BY DEF EntriesOf
  <2> QED
    BY <2>1 DEF Visible
<1>5. LogsInUse' \subseteq LogsInUse
  <2>1. \A n : LogsFrom(n)' \subseteq LogsFrom(n)
    BY DEF LogsFrom, RecsOf
  <2> QED
    BY <1>3, <2>1 DEF LogsInUse
<1>6. \A s \in Survivors(current) : EntriesOf(s.files)' = EntriesOf(s.files)
  BY DEF EntriesOf
<1>7. SeqMemory' /\ SeqOnDisk'
  <2>1. versions.seq <= versions'.seq
    BY <1>1, UpNumbers
  <2> QED
    BY <1>1, <1>3, <1>4, <1>5, <1>6, <2>1, MemoryStays DEF SeqInv
<1>8. SeqWriters'
  <2>1. \A t \in Threads : wpc[t] \in Taking \/ wpc'[t] \in Taking => wpc'[t] = wpc[t]
    BY DEF SignalAll, Taking
  <2> QED
    BY <1>1, <1>5, <2>1, WritersStay DEF SeqInv
<1>9. SeqWorking'
  <2>1. CASE bgpc' \notin {"append", "sync"}
    BY <2>1 DEF SeqWorking
  <2>2. CASE /\ UNCHANGED <<edit, bgpc>>
             /\ \A f \in edit.add : tables'[f[2]] = tables[f[2]]
    <3>1. EntriesOf(edit.add)' = EntriesOf(edit.add)
      BY <2>2 DEF EntriesOf
    <3> QED
      BY <1>1, <1>3, <1>4, <2>2, <3>1 DEF SeqInv, SeqWorking, UpTo
  <2>3. CASE /\ bgpc' = "append" /\ edit'.seq = versions.seq
             /\ EntriesOf(edit.add)' \subseteq Visible
    <3>1. UpTo(Visible, versions.seq) /\ St.seq <= versions.seq
      BY <1>1 DEF SeqInv, SeqMemory
    <3>2. UpTo(EntriesOf(edit.add)', versions.seq)
      BY <2>3, <3>1, NumbersOfFewer
    <3>3. versions.seq <= versions.seq
      BY <1>1, UpNumbers
    <3> QED
      BY <1>3, <1>4, <2>3, <3>1, <3>2, <3>3 DEF SeqWorking, UpTo
  <2> QED
    BY <2>1, <2>2, <2>3
<1> QED
  BY <1>1, <1>2, <1>7, <1>8, <1>9 DEF SeqInv

LEMMA SeqBuildStep ==
  ASSUME DBInv, DBInv', SeqInv, BuildTable \/ BuildTableFails
  PROVE  SeqInv'
<1>1. /\ phase = "open" /\ phase' = "open" /\ bgpc = "build"
      /\ UNCHANGED <<logs, manifests, current, opening, versions, mem, imm, logfileNumber,
                     group, acked, durable, nextId>>
      /\ wpc' = wpc \/ wpc' = SignalAll(wpc)
      /\ tables' \in {tables, IF Output = {} THEN tables ELSE Put(tables, job.out, Output)}
  BY DEF BuildTable, BuildTableFails, FailJob, Unlocked, opening, writers, history
<1>2. /\ Up /\ job.out \in Nat /\ \A s \in Survivors(current) : job.out \notin Numbers(s.files)
      /\ job.out \notin Numbers(versions.files)
  BY <1>1, BuildFacts DEF Up
<1>3. \A k \in DOMAIN tables : k # job.out => tables'[k] = tables[k]
  BY <1>1 DEF Put
<1>4. /\ FilesExist(versions.files) /\ \A s \in Survivors(current) : FilesExist(s.files)
  BY <1>2, UpNumbers DEF DBInv, VersionIsFound
<1>5. /\ \A f \in versions.files : tables'[f[2]] = tables[f[2]]
      /\ \A s \in Survivors(current) : \A f \in s.files : tables'[f[2]] = tables[f[2]]
  BY <1>2, <1>3, <1>4 DEF FilesExist, Numbers
<1>6. CASE BuildTableFails
  <2>1. bgpc' \notin {"append", "sync"}
    BY <1>6 DEF BuildTableFails, FailJob, AfterFlush
  <2> QED
    BY <1>1, <1>5, <2>1, SeqTablesStep
<1>7. CASE BuildTable
  <2>1. bgpc' = "append" /\ tables' = IF Output = {} THEN tables ELSE Put(tables, job.out, Output)
    BY <1>7 DEF BuildTable
  <2>2. PICK level \in Levels :
          edit' = [EmptyEdit EXCEPT
                     !.log = logfileNumber, !.next = versions.next, !.seq = versions.seq,
                     !.add = IF Output = {} THEN {} ELSE {<<level, job.out>>}]
    BY <1>7 DEF BuildTable
  <2>3. /\ edit'.seq = versions.seq
        /\ edit'.add = IF Output = {} THEN {} ELSE {<<level, job.out>>}
    BY <2>2 DEF EmptyEdit
  <2>4. Output # {} => tables'[job.out] = Output
    BY <2>1 DEF Put
  <2>5. \A f \in edit'.add : tables'[f[2]] \subseteq Output
    BY <2>3, <2>4
  <2>6. EntriesOf(edit.add)' \subseteq Visible
    BY <2>5 DEF EntriesOf, Visible, Output
  <2> QED
    BY <1>1, <1>5, <2>1, <2>3, <2>6, SeqTablesStep
<1> QED
  BY <1>6, <1>7

LEMMA SeqOpenOutputStep ==
  ASSUME DBInv, DBInv', SeqInv, OpenOutput
  PROVE  SeqInv'
<1> DEFINE n == versions.next
<1>1. /\ phase = "open" /\ phase' = "open" /\ bgpc' = "merge"
      /\ tables' = Put(tables, n, EntriesOf(merge.in))
      /\ versions' = [versions EXCEPT !.next = @ + 1]
      /\ UNCHANGED <<logs, manifests, current, mem, imm, logfileNumber, group, wpc>>
  BY DEF OpenOutput, Unlocked, opening, writers
<1>2. /\ versions'.files = versions.files /\ versions'.log = versions.log
      /\ versions'.seq = versions.seq
  BY <1>1 DEF DBInv, Typed, TypedMemory
<1>3. Up
  BY <1>1 DEF Up
<1>4. \A k \in DOMAIN tables : k # n => tables'[k] = tables[k]
  BY <1>1 DEF Put
<1>5. \A f \in versions.files : f[2] \in DOMAIN tables /\ f[2] # n
  <2>1. \A f \in versions.files : f[2] \in DOMAIN tables /\ f[2] < n
    BY <1>3 DEF DBInv, VersionIsFound, FilesExist
  <2>2. \A k \in DOMAIN tables : k \in Nat
    BY DEF DBInv, Typed, TypedTables
  <2> QED
    BY <1>3, <2>1, <2>2, UpNumbers
<1>6. \A s \in Survivors(current) : \A f \in s.files : f[2] \in DOMAIN tables /\ f[2] # n
  <2> SUFFICES ASSUME NEW s \in Survivors(current), NEW f \in s.files
               PROVE  f[2] \in DOMAIN tables /\ f[2] # n
    OBVIOUS
  <2>1. /\ f[2] < s.next /\ f[2] \in DOMAIN tables /\ s.next \in Nat /\ s.next <= St.next
        /\ St.next \in Nat
    BY <1>3, UpNumbers DEF Sound
  <2>2. f[2] \in Nat /\ n \in Nat
    BY <1>3, <2>1, UpNumbers DEF DBInv, Typed, TypedTables
  <2>3. St.next <= n
    BY <1>3 DEF DBInv, VersionIsFound
  <2> QED
    BY <2>1, <2>2, <2>3
<1>7. /\ \A f \in versions.files : tables'[f[2]] = tables[f[2]]
      /\ \A s \in Survivors(current) : \A f \in s.files : tables'[f[2]] = tables[f[2]]
  BY <1>4, <1>5, <1>6
<1> QED
  BY <1>1, <1>2, <1>7, SeqTablesStep
-----------------------------------------------------------------------------
\* What is deleted is not in the version nor in any state of the MANIFEST.
LEMMA SeqDeleteStep ==
  ASSUME DBInv, DBInv', SeqInv, DeleteFile
  PROVE  SeqInv'
<1>1. PICK f \in deleting :
        /\ logs' = IF f[1] = "log" THEN Without(logs, f[2]) ELSE logs
        /\ tables' = IF f[1] = "table" THEN Without(tables, f[2]) ELSE tables
        /\ manifests' =
             IF f[1] = "manifest" THEN Without(manifests, f[2]) ELSE manifests
  BY DEF DeleteFile
<1>2. /\ phase = "open" /\ phase' = "open"
      /\ UNCHANGED <<current, versions, mem, imm, logfileNumber, edit, wpc, group, bgpc>>
  BY DEF DeleteFile, opening, writers, background
<1>3. Up /\ Up'
  BY <1>2 DEF Up
<1>4. bgpc \notin {"append", "sync"}
  BY <1>1, <1>3 DEF DBInv, Working
<1>5. /\ DOMAIN logs' \subseteq DOMAIN logs /\ \A n \in DOMAIN logs' : logs'[n] = logs[n]
      /\ \A n \in DOMAIN tables' : tables'[n] = tables[n]
      /\ \A n \in DOMAIN manifests' : manifests'[n] = manifests[n]
  BY <1>1 DEF Without, Restrict
<1>6. current \in DOMAIN manifests'
  BY <1>2, <1>3 DEF DBInv, DiskIsSound, VersionIsFound
<1>7. manifests'[current] = manifests[current]
  BY <1>5, <1>6
<1>8. Survivors(current)' = Survivors(current)
  BY <1>2, <1>7 DEF Survivors, Cut, MayCrash
<1>9. \A g \in versions.files : g[2] \in DOMAIN tables'
  BY <1>2, <1>3 DEF DBInv, VersionIsFound, FilesExist
<1>10. \A s \in Survivors(current) : \A g \in s.files : g[2] \in DOMAIN tables'
  <2>1. \A s \in Survivors(current)' : Sound(s)'
    BY <1>3 DEF DBInv, DiskIsSound, VersionIsFound
  <2> QED
    BY <1>8, <2>1 DEF Sound
<1>11. /\ \A g \in versions.files : tables'[g[2]] = tables[g[2]]
       /\ \A s \in Survivors(current) : \A g \in s.files : tables'[g[2]] = tables[g[2]]
  BY <1>5, <1>9, <1>10
<1> QED
  BY <1>2, <1>4, <1>5, <1>7, <1>11, SeqTablesStep
-----------------------------------------------------------------------------
\* A torn record is where a reading may stop: before it stands the last state.
LEMMA SeqTearManifestStep ==
  ASSUME DBInv, DBInv', SeqInv, TearManifest
  PROVE  SeqInv'
<1>1. /\ phase = "open" /\ phase' = "open" /\ bgpc' = "torn"
      /\ manifests' = Tear(manifests, versions.manifest)
      /\ UNCHANGED <<logs, tables, current, versions, mem, imm, logfileNumber, wpc, group>>
  BY DEF TearManifest, opening, memory, writers
<1>2. Up /\ Up' /\ SeqReplayed' /\ SeqNew'
  BY <1>1 DEF Up, SeqReplayed, SeqNew
<1>3. /\ current # NoFile /\ versions.manifest = current /\ current \in DOMAIN manifests
      /\ manifests[current] \in Records(States) /\ Len(manifests[current].recs) \in Cut(manifests[current])
      /\ manifests[current].synced <= Len(manifests[current].recs)
  <2>1. current # NoFile /\ versions.manifest = current /\ current \in DOMAIN manifests
    BY <1>2 DEF DBInv, VersionIsFound, DiskIsSound
  <2>2. /\ manifests[current] \in Records(States)
        /\ manifests[current].synced <= Len(manifests[current].recs)
    BY <2>1 DEF DBInv, Typed, TypedManifests
  <2> QED
    BY <2>1, <2>2, LengthOfSeq DEF Cut, Records
<1>4. /\ manifests'[current].recs = manifests[current].recs
      /\ Cut(manifests'[current]) = Cut(manifests[current])
  <2>1. manifests'[current] = [manifests[current] EXCEPT !.torn = @ \cup {Len(manifests[current].recs)}]
    BY <1>1, <1>3 DEF Tear
  <2>2. /\ manifests'[current].recs = manifests[current].recs
        /\ manifests'[current].synced = manifests[current].synced
        /\ manifests'[current].torn = manifests[current].torn \cup {Len(manifests[current].recs)}
    BY <1>3, <2>1 DEF Records
  <2> QED
    BY <1>3, <2>2 DEF Cut
<1>5. St' = St /\ Survivors(current)' = Survivors(current)
  <2>1. (Cut(manifests[current]))' = Cut(manifests'[current])
    BY <1>1 DEF Cut, MayCrash
  <2> QED
    BY <1>1, <1>4, <2>1 DEF St, LastRecord, Survivors
<1>6. /\ Visible' = Visible /\ LogsInUse' = LogsInUse
      /\ \A F : EntriesOf(F)' = EntriesOf(F)
  BY <1>1, <1>5 DEF Visible, EntriesOf, LogsInUse, LogsFrom, RecsOf
<1>7. SeqMemory' /\ SeqOnDisk'
  <2>1. versions'.seq = versions.seq /\ versions.seq <= versions'.seq
    BY <1>1, <1>2, UpNumbers
  <2> QED
    BY <1>2, <1>5, <1>6, <2>1, MemoryStays DEF SeqInv
<1>8. SeqWriters'
  BY <1>1, <1>2, <1>6, WritersStay DEF SeqInv
<1>9. LastLog' /\ SeqWorking'
  BY <1>1 DEF SeqInv, LastLog, SeqWorking
<1> QED
  BY <1>2, <1>7, <1>8, <1>9 DEF SeqInv

\* The edit's record: its tables hold what a read can find, below its sequence.
LEMMA SeqAppendManifestStep ==
  ASSUME DBInv, DBInv', SeqInv, AppendManifest
  PROVE  SeqInv'
<1> DEFINE N == [files |-> (St.files \ edit.del) \cup edit.add, log |-> edit.log,
                 next |-> edit.next, seq |-> edit.seq]
           r == manifests[current].recs
<1>1. /\ phase = "open" /\ phase' = "open" /\ bgpc = "append" /\ bgpc' = "sync"
      /\ manifests' = [manifests EXCEPT ![versions.manifest].recs = AddRecord(@, edit)]
      /\ UNCHANGED <<logs, tables, current, versions, mem, imm, logfileNumber, edit,
                     wpc, group, acked, durable>>
  BY DEF AppendManifest, opening, memory, writers, history
<1>2. Up /\ Up' /\ SeqReplayed' /\ SeqNew'
  BY <1>1 DEF Up, SeqReplayed, SeqNew
<1>3. /\ TypedManifests /\ TypedMemory /\ TypedLogs /\ DiskIsSound
      /\ current # NoFile /\ versions.manifest = current /\ current \in DOMAIN manifests
  BY <1>2 DEF DBInv, Typed, VersionIsFound, DiskIsSound
<1>4. /\ St \in Survivors(current) /\ Sound(St) /\ Len(r) > 0 /\ r \in Seq(States)
      /\ manifests[current].synced \in Nat /\ manifests[current].synced <= Len(r)
  BY <1>3, LastSurvives DEF DiskIsSound
<1>5. /\ edit.log \in Nat /\ edit.next \in Nat /\ edit.seq \in Nat
      /\ (edit.log = logfileNumber \/ edit.log = versions.log)
      /\ versions.log <= logfileNumber /\ versions.log \in Nat
  BY <1>1, <1>2, <1>3 DEF DBInv, Working, MemoryIsLogged, TypedMemory
<1>6. AddRecord(r, edit) = Append(r, N)
  <2>1. r # <<>>
    <3> HIDE DEF r
    <3> QED BY <1>4
  <2>2. Replayed(r) = St
    BY <2>1 DEF Replayed, St, LastRecord
  <2> QED
    BY <1>5, <2>2, ReplayIs DEF AddRecord
<1>7. N \in States
  <2>1. St \in States
    <3>1. r[Len(r)] \in States
      <4> HIDE DEF r
      <4> QED BY <1>4
    <3> QED
      BY <3>1 DEF St, LastRecord
  <2> QED
    BY <1>3, <1>5, <2>1 DEF States, TypedMemory, Files
<1>8. /\ manifests'[current].recs = Append(r, N)
      /\ manifests'[current].synced = manifests[current].synced
      /\ manifests'[current].torn = manifests[current].torn
  <2>1. manifests[current] \in [recs : Seq(States), synced : Nat, torn : SUBSET Nat]
    BY <1>3 DEF TypedManifests, Records
  <2>2. manifests' = [manifests EXCEPT ![current].recs = AddRecord(@, edit)]
    BY <1>1, <1>3
  <2> HIDE DEF N
  <2> QED
    BY <1>3, <1>6, <2>1, <2>2
<1>9. /\ N.files = (St.files \ edit.del) \cup edit.add /\ N.log = edit.log /\ N.seq = edit.seq
  OBVIOUS
<1> HIDE DEF N
<1>10. /\ Len(Append(r, N)) = Len(r) + 1 /\ Len(r) \in Nat
       /\ \A i \in 1..Len(r) : Append(r, N)[i] = r[i]
       /\ Append(r, N)[Len(r) + 1] = N
  <2> HIDE DEF r
  <2> QED BY <1>4, <1>7, AppendFacts, LengthOfSeq
<1>11. St' = N
  BY <1>1, <1>8, <1>10 DEF St, LastRecord
<1>12. Survivors(current)' \subseteq Survivors(current) \cup {N}
  <2> SUFFICES ASSUME NEW k \in Cut(manifests'[current])
               PROVE  Append(r, N)[k] \in Survivors(current) \cup {N}
    BY <1>1, <1>8 DEF Survivors, Cut, MayCrash
  <2>1. CASE k = Len(r) + 1
    BY <1>10, <2>1
  <2>2. CASE k # Len(r) + 1
    <3>1. k \in Cut(manifests[current])
      BY <1>4, <1>8, <1>10, <2>2 DEF Cut
    <3>2. k \in 1..Len(r)
      <4>1. k \in manifests[current].torn => k \in 1..Len(r)
        BY <1>3 DEF TypedManifests
      <4>2. MayCrash => manifests[current].synced > 0
        BY <1>3 DEF DiskIsSound
      <4>3. CASE k \in manifests[current].torn
        BY <4>1, <4>3
      <4>4. CASE k \notin manifests[current].torn
        BY <1>4, <1>10, <3>1, <4>2, <4>4 DEF Cut
      <4> QED
        BY <4>3, <4>4
    <3> QED
      BY <1>10, <3>1, <3>2 DEF Survivors
  <2> QED
    BY <2>1, <2>2
<1>13. /\ St.seq <= edit.seq /\ edit.seq <= versions.seq
       /\ UpTo(EntriesOf(edit.add), edit.seq) /\ EntriesOf(edit.add) \subseteq Visible
  BY <1>1, <1>2 DEF SeqInv, SeqWorking
<1>14. /\ Apart(Visible \cup LogsInUse) /\ UpTo(Visible, versions.seq)
       /\ \A s \in Survivors(current) :
            EntriesOf(s.files) \subseteq Visible /\ UpTo(EntriesOf(s.files), s.seq)
  BY <1>2 DEF SeqInv, SeqMemory
<1>15. EntriesOf(N.files) \subseteq EntriesOf(St.files) \cup EntriesOf(edit.add)
  BY <1>9 DEF EntriesOf
<1>16. UpTo(EntriesOf(N.files), N.seq)
  <2>1. EntriesOf(St.files) \subseteq Entries /\ St.seq \in Int /\ edit.seq \in Int
    <3>1. Visible \subseteq Entries
      BY <1>2, VisibleEntries
    <3> QED
      BY <1>4, <1>5, <1>14, <3>1 DEF Sound
  <2>2. UpTo(EntriesOf(St.files), St.seq)
    BY <1>4, <1>14
  <2>3. UpTo(EntriesOf(St.files), edit.seq)
    BY <1>13, <2>1, <2>2, HigherBound
  <2> QED
    BY <1>9, <1>13, <1>15, <2>3 DEF UpTo
<1>17. EntriesOf(N.files) \subseteq Visible /\ versions.log <= N.log
  <2>1. versions.log <= N.log
    BY <1>5, <1>9
  <2>2. EntriesOf(St.files) \subseteq Visible
    BY <1>4, <1>14
  <2> QED
    BY <1>13, <1>15, <2>1, <2>2
<1>18. /\ Visible' = Visible /\ LogsInUse' \subseteq LogsInUse
       /\ \A F : EntriesOf(F)' = EntriesOf(F)
  <2>1. /\ Visible' = Visible /\ \A n : LogsFrom(n)' = LogsFrom(n)
        /\ \A F : EntriesOf(F)' = EntriesOf(F)
    BY <1>1 DEF Visible, EntriesOf, LogsFrom, RecsOf
  <2>2. LogsFrom(N.log) \subseteq LogsFrom(versions.log)
    <3>1. \A k \in DOMAIN logs : k >= N.log => k >= versions.log
      BY <1>3, <1>5, <1>9, <1>17 DEF TypedLogs
    <3> QED
      BY <3>1 DEF LogsFrom
  <2> QED
    BY <1>1, <1>12, <2>1, <2>2 DEF LogsInUse
<1>19. SeqMemory'
  <2>1. \A s \in Survivors(current)' :
          EntriesOf(s.files)' \subseteq Visible' /\ UpTo(EntriesOf(s.files)', s.seq)
    BY <1>1, <1>12, <1>14, <1>16, <1>17, <1>18
  <2>2. St'.seq <= versions'.seq
    BY <1>1, <1>9, <1>11, <1>13
  <2>3. Apart(Visible' \cup LogsInUse')
    <3>1. Visible' \cup LogsInUse' \subseteq Visible \cup LogsInUse
      BY <1>18
    <3> QED
      BY <1>14, <3>1, NumbersOfFewer
  <2> QED
    BY <1>1, <1>14, <1>18, <2>1, <2>2, <2>3 DEF SeqMemory, UpTo, Apart
<1>20. SeqOnDisk'
  BY <1>2, <1>19, DiskOfMemoryThen
<1>21. SeqWriters'
  BY <1>1, <1>2, <1>18, WritersStay DEF SeqInv
<1>22. LastLog'
  BY <1>1 DEF SeqInv, LastLog
<1>23. SeqWorking'
  BY <1>1, <1>13, <1>18 DEF SeqWorking
<1> QED
  BY <1>2, <1>19, <1>20, <1>21, <1>22, <1>23 DEF SeqInv
-----------------------------------------------------------------------------
\* The new version holds what the old one and the memtable held.
LEMMA SeqInstallStep ==
  ASSUME DBInv, DBInv', SeqInv, InstallFlush \/ InstallCompaction
  PROVE  SeqInv'
<1>1. /\ phase = "open" /\ phase' = "open" /\ bgpc = "sync" /\ bgpc' \in {"end", "merge"}
      /\ manifests' = SyncedManifest(versions.manifest)
      /\ versions' = Installed(versions)
      /\ UNCHANGED <<logs, tables, current, mem, logfileNumber, group, acked, durable>>
      /\ (job.kind = "flush" /\ imm' = NoTable) \/ imm' = imm
      /\ wpc' = wpc \/ wpc' = SignalAll(wpc)
  BY DEF InstallFlush, InstallCompaction, AfterFlush, Unlocked, opening, writers, history
<1>2. Up /\ Up' /\ SeqReplayed' /\ SeqNew'
  BY <1>1 DEF Up, SeqReplayed, SeqNew
<1>3. /\ TypedManifests /\ TypedMemory /\ TypedLogs /\ DiskIsSound
      /\ current # NoFile /\ versions.manifest = current
      /\ versions.log <= St.log
  BY <1>2 DEF DBInv, Typed, VersionIsFound
<1>4. /\ St' = St /\ Survivors(current)' \subseteq Survivors(current)
      /\ St \in Survivors(current)
  BY <1>1, <1>3, ManifestSynced, LastSurvives
<1>5. /\ EntriesOf(edit.del) \subseteq EntriesOf(edit.add)
      /\ job.kind = "flush" => UNION imm \subseteq EntriesOf(edit.add)
      /\ St.log = edit.log /\ edit.log \in Nat
  BY <1>1, <1>2 DEF DBInv, Working
<1>6. EntriesOf(edit.add) \subseteq Visible
  BY <1>1, <1>2 DEF SeqInv, SeqWorking
<1>7. /\ versions'.files = (versions.files \ edit.del) \cup edit.add
      /\ versions'.log = edit.log /\ versions'.seq = versions.seq
  BY <1>1, <1>3 DEF Installed, TypedMemory
<1>8. \A F : EntriesOf(F)' = EntriesOf(F)
  BY <1>1 DEF EntriesOf
<1>9. Visible' = Visible
  <2>1. EntriesOf(versions.files) \subseteq EntriesOf(versions'.files)
    BY <1>5, <1>7 DEF EntriesOf
  <2>2. EntriesOf(versions'.files) \subseteq EntriesOf(versions.files) \cup EntriesOf(edit.add)
    BY <1>7 DEF EntriesOf
  <2>3. EntriesOf(edit.add) \subseteq EntriesOf(versions'.files)
    BY <1>7 DEF EntriesOf
  <2>4. Visible' = mem \cup (UNION imm') \cup EntriesOf(versions'.files)
    BY <1>1, <1>8 DEF Visible
  <2>5. CASE imm' = imm
    BY <1>6, <2>1, <2>2, <2>4, <2>5 DEF Visible
  <2>6. CASE job.kind = "flush" /\ imm' = NoTable
    <3>1. UNION imm' = {} /\ UNION imm \subseteq EntriesOf(versions'.files)
      BY <1>5, <2>3, <2>6 DEF NoTable
    <3> QED
      BY <1>6, <2>1, <2>2, <2>4, <3>1 DEF Visible
  <2> QED
    BY <1>1, <2>5, <2>6
<1>10. LogsInUse' \subseteq LogsInUse
  <2>1. \A n : LogsFrom(n)' = LogsFrom(n)
    BY <1>1 DEF LogsFrom, RecsOf
  <2>2. LogsFrom(versions'.log) \subseteq LogsInUse
    BY <1>4, <1>5, <1>7 DEF LogsInUse
  <2> QED
    BY <1>1, <1>4, <2>1, <2>2 DEF LogsInUse
<1>11. SeqMemory' /\ SeqOnDisk'
  <2>1. versions.seq <= versions'.seq
    BY <1>2, <1>7, UpNumbers
  <2>2. \A s \in Survivors(current)' :
          s \in Survivors(current) /\ EntriesOf(s.files)' = EntriesOf(s.files)
    BY <1>4, <1>5, <1>7, <1>8
  <2> QED
    BY <1>2, <1>4, <1>9, <1>10, <2>1, <2>2, MemoryStays DEF SeqInv
<1>12. SeqWriters'
  <2>1. \A t \in Threads : wpc[t] \in Taking \/ wpc'[t] \in Taking => wpc'[t] = wpc[t]
    BY <1>1 DEF SignalAll, Taking
  <2> QED
    BY <1>1, <1>2, <1>7, <1>10, <2>1, WritersStay DEF SeqInv
<1>13. LastLog' /\ SeqWorking'
  BY <1>1 DEF SeqInv, LastLog, SeqWorking
<1> QED
  BY <1>2, <1>11, <1>12, <1>13 DEF SeqInv
-----------------------------------------------------------------------------
\* Recovery.  Nothing is said of an open database before there is one.
LEMMA SeqDown ==
  ASSUME phase' \notin {"ready", "open"}
  PROVE  /\ SeqMemory' /\ SeqWriters' /\ SeqWorking'
         /\ phase' \notin {"replay", "descriptor"} => SeqReplayed'
         /\ phase' \notin {"sync", "current"} => SeqNew'
         /\ logfileNumber' = 0 => LastLog'
BY DEF SeqMemory, SeqWriters, SeqWorking, SeqReplayed, SeqNew, LastLog, Up

\* A disk that loses entries, or none, of the same states.
LEMMA SeqDiskStays ==
  ASSUME SeqOnDisk, UNCHANGED current, current = NoFile => LogsFrom(0)' \subseteq LogsFrom(0),
         current # NoFile => \A s \in Survivors(current)' :
           /\ s \in Survivors(current)
           /\ EntriesOf(s.files)' = EntriesOf(s.files)
           /\ LogsFrom(s.log)' \subseteq LogsFrom(s.log)
  PROVE  SeqOnDisk'
<1>1. CASE current = NoFile
  BY <1>1 DEF SeqOnDisk
<1>2. CASE current # NoFile
  <2>1. \A s \in Survivors(current) :
          UpTo(EntriesOf(s.files), s.seq) /\ Apart(EntriesOf(s.files) \cup LogsFrom(s.log))
    BY <1>2 DEF SeqOnDisk
  <2>2. \A s \in Survivors(current)' :
          /\ UpTo(EntriesOf(s.files)', s.seq)
          /\ Apart(EntriesOf(s.files)' \cup LogsFrom(s.log)')
    <3> TAKE s \in Survivors(current)'
    <3>1. EntriesOf(s.files)' \cup LogsFrom(s.log)' \subseteq EntriesOf(s.files) \cup LogsFrom(s.log)
      BY <1>2
    <3>2. UpTo(EntriesOf(s.files), s.seq) /\ Apart(EntriesOf(s.files) \cup LogsFrom(s.log))
      BY <1>2, <2>1
    <3>3. Apart(EntriesOf(s.files)' \cup LogsFrom(s.log)')
      BY <3>1, <3>2, NumbersOfFewer
    <3>4. EntriesOf(s.files)' = EntriesOf(s.files)
      BY <1>2
    <3> QED
      BY <3>2, <3>3, <3>4
  <2> QED
    BY <1>2, <2>2 DEF SeqOnDisk, UpTo, Apart
<1> QED
  BY <1>1, <1>2

\* The database is ready: the MANIFEST has one state, and the log is in memory.
LEMMA SeqReady ==
  ASSUME DBInv', phase' = "ready", LastLog',
         EntriesOf(St.files)' \subseteq Visible', St'.seq <= versions'.seq,
         UpTo(EntriesOf(St.files)', St'.seq), UpTo(Visible', versions'.seq),
         Apart(Visible'), LogsFrom(versions.log)' \subseteq Visible'
  PROVE  SeqInv'
<1>1. Up' /\ SeqReplayed' /\ SeqNew'
  BY DEF Up, SeqReplayed, SeqNew
<1>2. bgpc' = "idle" /\ wpc' = [t \in Threads |-> "idle"]
  BY DEF DBInv, Recovering, Quiet
<1>3. Survivors(current)' = {St'} /\ versions'.log = St'.log
  <2>1. ~bgError' /\ bgpc' \notin {"sync", "torn"}
    BY <1>2 DEF DBInv, Recovering, Quiet
  <2>2. /\ Cut(manifests[current])' = {Len(manifests[current].recs)'}
        /\ versions'.log = St'.log
    BY <1>1, <2>1 DEF DBInv, VersionIsFound
  <2> QED
    BY <2>2 DEF Survivors, St, LastRecord
<1>4. SeqMemory'
  <2>1. Visible' \cup LogsInUse' = Visible'
    BY <1>3 DEF LogsInUse
  <2> QED
    BY <1>3, <2>1 DEF SeqMemory, Apart, UpTo
<1>5. UpTo(LogsInUse', versions'.seq)
  BY <1>3, NumbersOfFewer DEF LogsInUse
<1>6. SeqWriters'
  BY <1>2, <1>5, NobodyWrites DEF Taking
<1>7. SeqWorking'
  BY <1>2 DEF SeqWorking
<1>8. SeqOnDisk'
  BY <1>1, <1>4, DiskOfMemoryThen
<1> QED
  BY <1>1, <1>4, <1>6, <1>7, <1>8 DEF SeqInv

\* A new database has nothing in any file.
LEMMA SeqNewStep ==
  ASSUME DBInv, DBInv', SeqInv, OpenExisting \/ NewDB \/ NewCurrent
  PROVE  SeqInv'
<1> DEFINE first == [files |-> {}, log |-> 0, next |-> 2, seq |-> 0]
<1>1. /\ phase' \in {"recover", "created"} /\ phase \in {"closed", "created"}
      /\ UNCHANGED <<logs, tables, memory>>
  BY DEF OpenExisting, NewDB, NewCurrent, Opening, disk
<1>2. logfileNumber' = 0
  BY <1>1 DEF memory, DBInv, Recovering, Shut, ClosedMemory
<1>3. \A n : LogsFrom(n)' = LogsFrom(n)
  BY <1>1 DEF LogsFrom, RecsOf
<1>4. \A F : EntriesOf(F)' = EntriesOf(F)
  BY <1>1 DEF EntriesOf
<1>5. SeqOnDisk'
  <2>1. CASE OpenExisting
    <3>1. Survivors(current)' = Survivors(current) /\ UNCHANGED current
      BY <2>1 DEF OpenExisting, disk, Survivors, Cut, MayCrash
    <3> QED
      BY <1>3, <1>4, <3>1, SeqDiskStays DEF SeqInv
  <2>2. CASE NewDB
    <3>1. UNCHANGED current /\ current = NoFile
      BY <2>2 DEF NewDB
    <3> QED
      BY <1>3, <3>1, SeqDiskStays DEF SeqInv
  <2>3. CASE NewCurrent
    <3>1. phase = "created" /\ current' = 1 /\ UNCHANGED manifests
      BY <2>3 DEF NewCurrent, Opening
    <3>2. /\ current = NoFile /\ manifests[1].recs = <<first>> /\ ~MayCrash
          /\ manifests[1].torn = {}
      BY <3>1 DEF DBInv, Recovering, Created, DiskIsSound
    <3>3. Len(manifests'[1].recs) = 1 /\ manifests'[1].recs[1] = first
      BY <3>1, <3>2
    <3>4. Survivors(current)' = {first}
      BY <3>1, <3>2, <3>3 DEF Survivors, Cut, MayCrash
    <3>5. LogsFrom(0) = {}
      BY <3>2 DEF SeqInv, SeqOnDisk
    <3>6. EntriesOf(first.files)' \cup LogsFrom(first.log)' = {}
      BY <1>3, <3>5 DEF EntriesOf
    <3>7. current' # NoFile
      BY <3>1 DEF NoFile
    <3> HIDE DEF first
    <3> QED
      BY <3>4, <3>6, <3>7 DEF SeqOnDisk, UpTo, Apart
  <2> QED
    BY <2>1, <2>2, <2>3
<1> QED
  BY <1>1, <1>2, <1>5, SeqDown DEF SeqInv

\* A MANIFEST that cannot be read stays what it is.
LEMMA SeqManifestDamagedStep ==
  ASSUME DBInv, DBInv', SeqInv, RecoverManifest, phase' = "damaged"
  PROVE  SeqInv'
<1>1. phase = "recover" /\ UNCHANGED <<logs, tables, manifests, current, logfileNumber>>
  BY DEF RecoverManifest, Opening, disk
<1>2. logfileNumber' = 0
  BY <1>1 DEF DBInv, Recovering, Shut, ClosedMemory
<1>3. Survivors(current)' = Survivors(current)
  BY <1>1 DEF Survivors, Cut, MayCrash
<1>4. (\A F : EntriesOf(F)' = EntriesOf(F)) /\ \A n : LogsFrom(n)' = LogsFrom(n)
  BY <1>1 DEF EntriesOf, LogsFrom, RecsOf
<1>5. SeqOnDisk'
  BY <1>1, <1>3, <1>4, SeqDiskStays DEF SeqInv
<1> QED
  BY <1>2, <1>5, SeqDown DEF SeqInv

\* VersionSet::Recover takes the sequence that the last record holds.
LEMMA SeqRecoverManifestStep ==
  ASSUME DBInv, DBInv', SeqInv, RecoverManifest, phase' # "damaged"
  PROVE  SeqInv'
<1> DEFINE state == Replayed(manifests[current].recs)
<1>1. /\ phase = "recover"
      /\ UNCHANGED <<disk, mem, imm, logfileNumber, edit>>
      /\ \/ phase' = "corrupt"
         \/ /\ phase' = "replay"
            /\ versions'.files = state.files /\ versions'.log = state.log
            /\ versions'.seq = state.seq
            /\ toReplay' = {n \in DOMAIN logs : n >= state.log}
  BY DEF RecoverManifest, Opening
<1>2. UNCHANGED <<logs, tables, manifests, current>>
  BY <1>1 DEF disk
<1>3. phase' # "corrupt"
  BY DEF DBInv, Typed, TypedMemory, Phases
<1>4. /\ phase' = "replay"
      /\ mem' = {} /\ imm' = {} /\ logfileNumber' = 0 /\ edit'.add = {}
  BY <1>1, <1>3 DEF DBInv, Recovering, Shut, ClosedMemory, EmptyEdit, NoTable
<1>5. current # NoFile /\ Len(manifests[current].recs) > 0
  BY <1>1 DEF DBInv, DiskIsSound
<1>6. manifests[current].recs # <<>>
  BY <1>5
<1>7. state = St /\ St' = St /\ Survivors(current)' = Survivors(current)
  BY <1>2, <1>6 DEF Replayed, St, LastRecord, Survivors, Cut, MayCrash
<1>8. St \in Survivors(current) /\ St.seq \in Nat /\ St.log \in Nat
  BY <1>5, LastSurvives DEF DBInv, Typed, Sound
<1>9. UpTo(EntriesOf(St.files), St.seq)
  BY <1>5, <1>8 DEF SeqInv, SeqOnDisk
<1>10. (\A F : EntriesOf(F)' = EntriesOf(F)) /\ \A n : LogsFrom(n)' = LogsFrom(n)
  BY <1>2 DEF EntriesOf, LogsFrom, RecsOf
<1>11. SeqOnDisk'
  BY <1>2, <1>7, <1>10, SeqDiskStays DEF SeqInv
<1> HIDE DEF state
<1>12. /\ versions'.files = St.files /\ versions'.seq = St.seq
       /\ toReplay' = {n \in DOMAIN logs : n >= St.log}
  BY <1>1, <1>3, <1>7
<1>13. EntriesOf(edit.add)' = {} /\ Visible' = EntriesOf(St.files)
  BY <1>4, <1>10, <1>12 DEF EntriesOf, Visible
<1>14. \A n \in toReplay', k \in DOMAIN logs' \ toReplay' : k < n
  BY <1>2, <1>8, <1>12 DEF DBInv, Typed, TypedLogs
<1>15. SeqReplayed'
  <2>1. UpTo(Visible' \cup EntriesOf(edit.add)', versions'.seq)
    BY <1>9, <1>12, <1>13
  <2>2. St'.seq <= versions'.seq
    BY <1>7, <1>8, <1>12
  <2>3. EntriesOf(edit.add)' \cup mem' = {}
    BY <1>4, <1>13
  <2> QED
    BY <1>4, <1>14, <2>1, <2>2, <2>3 DEF SeqReplayed, UpTo
<1> QED
  BY <1>4, <1>11, <1>15, SeqDown DEF SeqInv
-----------------------------------------------------------------------------
\* Between the recovery of the MANIFEST and the last sequence of the logs: what is in
\* hand is below the sequence so far.
LEMMA SeqRecoverLogStep ==
  ASSUME DBInv, DBInv', SeqInv, RecoverLogFile
  PROVE  SeqInv'
<1>1. PICK n \in toReplay :
       LET entries == RecsOf(logs[n])
           reuse == ReuseLogs /\ MayReuse(n, entries)
           table == IF reuse \/ entries = {} THEN {} ELSE {versions.next}
       IN  /\ \A k \in toReplay : n <= k
           /\ toReplay' = toReplay \ {n}
           /\ tables' = [k \in DOMAIN tables \cup table |->
                           IF k \in table THEN entries ELSE tables[k]]
           /\ edit' = [edit EXCEPT !.add = @ \cup ({0} \X table)]
           /\ mem' = IF reuse THEN entries ELSE mem
           /\ logfileNumber' = IF reuse THEN n ELSE logfileNumber
           /\ \E last \in {versions.seq} \cup {e.seq : e \in entries} :
                /\ LastSequence(last, entries, versions.seq)
                /\ versions' = [versions EXCEPT
                     !.next = Used(@ + Cardinality(table), n), !.seq = last]
  BY DEF RecoverLogFile
<1> DEFINE entries == RecsOf(logs[n])
           reuse == ReuseLogs /\ MayReuse(n, entries)
           table == IF reuse \/ entries = {} THEN {} ELSE {versions.next}
           next == Used(versions.next + Cardinality(table), n)
<1>2. /\ phase = "replay" /\ phase' = phase
      /\ UNCHANGED <<logs, manifests, current, imm>>
  BY DEF RecoverLogFile, Opening
<1>3. /\ TypedLogs /\ TypedTables /\ TypedMemory /\ current # NoFile
      /\ versions.files = St.files /\ versions.log = St.log
      /\ St.next < versions.next /\ AddsAreTables
      /\ \A k \in toReplay : versions.log <= k
      /\ logfileNumber # 0 => toReplay = {}
      /\ logfileNumber = 0 => mem = {}
      /\ imm = NoTable
  BY <1>2 DEF DBInv, Typed, Recovering, Quiet, Replaying
<1>4. logfileNumber = 0 /\ mem = {} /\ n \in DOMAIN logs /\ n \in Nat
  BY <1>3 DEF TypedMemory, TypedLogs
<1>5. entries \subseteq Entries /\ \A k : LogsFrom(k) \subseteq Entries
  BY <1>3, <1>4, LogsAreEntries
<1>6. entries \subseteq LogsFrom(St.log)
  <2>1. n >= St.log
    BY <1>3, <1>4 DEF TypedMemory
  <2> QED
    BY <1>4, <2>1 DEF LogsFrom
<1>7. PICK last \in {versions.seq} \cup {e.seq : e \in entries} :
         /\ LastSequence(last, entries, versions.seq)
         /\ versions' = [versions EXCEPT !.next = next, !.seq = last]
  BY <1>1
<1>8. versions.next \in Nat /\ versions.seq \in Nat /\ last \in Nat
  <2>1. versions.seq \in Nat /\ versions.next \in Nat
    BY <1>3 DEF TypedMemory
  <2>2. \A e \in entries : e.seq \in Nat
    BY <1>5 DEF Entries
  <2> HIDE DEF entries
  <2> QED
    BY <2>1, <2>2
<1>9. versions.seq <= last /\ \A e \in entries : e.seq <= last
  BY <1>7 DEF LastSequence
<1>10. /\ table \subseteq {versions.next}
       /\ reuse => toReplay = {n} /\ table = {}
       /\ toReplay' = toReplay \ {n} /\ \A k \in toReplay : n <= k
       /\ edit' = [edit EXCEPT !.add = @ \cup ({0} \X table)]
       /\ mem' = IF reuse THEN entries ELSE mem
       /\ logfileNumber' = IF reuse THEN n ELSE logfileNumber
  BY <1>1 DEF MayReuse
<1>11. /\ DOMAIN tables' = DOMAIN tables \cup table
       /\ \A k \in table : tables'[k] = entries
       /\ \A k \in DOMAIN tables : k \notin table => tables'[k] = tables[k]
  <2> HIDE DEF table, entries
  <2>1. tables' = [k \in DOMAIN tables \cup table |-> IF k \in table THEN entries ELSE tables[k]]
    BY <1>1 DEF table, entries
  <2> QED
    BY <2>1
<1>12. versions.files = versions'.files /\ versions'.log = versions.log /\ versions'.seq = last
  <2> HIDE DEF next
  <2> QED
    BY <1>3, <1>7 DEF TypedMemory
<1> HIDE DEF table, entries, next, reuse
<1>13. edit'.add = edit.add \cup ({0} \X table)
  BY <1>3, <1>10 DEF TypedMemory
<1>14. \A k \in DOMAIN tables : k < versions.next => tables'[k] = tables[k]
  BY <1>3, <1>8, <1>10, <1>11 DEF TypedTables
<1>15. St' = St /\ Survivors(current)' = Survivors(current) /\ \A k : LogsFrom(k)' = LogsFrom(k)
  BY <1>2 DEF St, LastRecord, Survivors, Cut, MayCrash, LogsFrom, RecsOf
<1>16. \A s \in Survivors(current) : /\ \A f \in s.files : tables'[f[2]] = tables[f[2]]
                                     /\ EntriesOf(s.files)' = EntriesOf(s.files)
  <2> TAKE s \in Survivors(current)
  <2>1. Sound(s) /\ Sound(St)
    BY <1>3, LastSurvives DEF DBInv, Typed, DiskIsSound
  <2>2. \A f \in s.files : f[2] \in DOMAIN tables /\ f[2] < s.next /\ s.next <= St.next
    BY <2>1 DEF Sound
  <2>3. s.next \in Nat /\ St.next \in Nat
    BY <2>1 DEF Sound
  <2>4. \A f \in s.files : f[2] \in Nat
    BY <1>3, <2>2 DEF TypedTables
  <2>5. \A f \in s.files : f[2] < versions.next
    BY <1>3, <1>8, <2>2, <2>3, <2>4
  <2>6. \A f \in s.files : tables'[f[2]] = tables[f[2]]
    BY <1>14, <2>2, <2>5
  <2> QED
    BY <2>6 DEF EntriesOf
<1>17. SeqOnDisk'
  BY <1>2, <1>15, <1>16, SeqDiskStays DEF SeqInv
<1>18. St \in Survivors(current) /\ St.seq \in Nat
  BY <1>3, LastSurvives DEF DBInv, Typed, Sound
<1>19. /\ St.seq <= versions.seq
       /\ UpTo(Visible \cup EntriesOf(edit.add), versions.seq)
       /\ EntriesOf(edit.add) \cup mem \subseteq LogsFrom(St.log)
       /\ \A m \in toReplay, k \in DOMAIN logs \ toReplay : k < m
  BY <1>2 DEF SeqInv, SeqReplayed
<1>20. EntriesOf(edit.add)' \subseteq EntriesOf(edit.add) \cup entries
  <2>1. \A f \in edit.add : tables'[f[2]] = tables[f[2]]
    BY <1>3, <1>14 DEF AddsAreTables
  <2>2. \A f \in {0} \X table : tables'[f[2]] = entries
    BY <1>11
  <2> QED
    BY <1>13, <2>1, <2>2 DEF EntriesOf
<1>21. Visible' \subseteq Visible \cup entries
  <2>1. EntriesOf(versions.files)' = EntriesOf(versions.files)
    <3>1. \A f \in versions.files : tables'[f[2]] = tables[f[2]]
      BY <1>3, <1>16, <1>18
    <3> QED
      BY <1>12, <3>1 DEF EntriesOf
  <2> QED
    BY <1>2, <1>10, <2>1 DEF Visible
<1>22. UpTo(Visible' \cup EntriesOf(edit.add)', last)
  <2>1. Visible \cup EntriesOf(edit.add) \subseteq Entries
    <3>1. EntriesOf(edit.add) \cup mem \subseteq Entries
      BY <1>5, <1>19
    <3>2. EntriesOf(St.files) \subseteq Entries
      <4>1. \A f \in St.files : f[2] \in DOMAIN tables
        BY <1>3, LastSurvives DEF DBInv, Typed, Sound
      <4> QED
        BY <1>3, <4>1 DEF EntriesOf, TypedTables
    <3> QED
      BY <1>3, <3>1, <3>2 DEF Visible, NoTable
  <2>2. UpTo(Visible \cup EntriesOf(edit.add), last)
    BY <1>8, <1>9, <1>19, <2>1, HigherBound
  <2> QED
    BY <1>9, <1>20, <1>21, <2>2 DEF UpTo
<1>23. \A m \in toReplay', k \in DOMAIN logs \ toReplay' : k < m
  <2> TAKE m \in toReplay', k \in DOMAIN logs \ toReplay'
  <2>1. m \in toReplay /\ m # n /\ n <= m /\ m \in Nat /\ (k \notin toReplay \/ k = n)
    BY <1>3, <1>10 DEF TypedMemory, TypedLogs
  <2> QED
    BY <1>4, <1>19, <2>1
<1>24. SeqReplayed'
  <2>1. EntriesOf(edit.add)' \cup mem' \subseteq LogsFrom(St.log)'
    BY <1>4, <1>6, <1>10, <1>15, <1>19, <1>20
  <2>2. St'.seq <= versions'.seq
    BY <1>8, <1>9, <1>12, <1>15, <1>18, <1>19
  <2> QED
    BY <1>2, <1>12, <1>22, <1>23, <2>1, <2>2 DEF SeqReplayed, UpTo
<1>25. LastLog'
  <2>1. CASE reuse
    <3>1. \A k \in DOMAIN logs : k <= n
      BY <1>3, <1>4, <1>10, <1>19, <2>1 DEF TypedLogs
    <3> QED
      BY <1>2, <1>10, <2>1, <3>1 DEF LastLog
  <2>2. CASE ~reuse
    BY <1>4, <1>10, <2>2 DEF LastLog
  <2> QED
    BY <2>1, <2>2
<1> QED
  BY <1>2, <1>17, <1>24, <1>25, SeqDown DEF SeqInv
-----------------------------------------------------------------------------
\* A new log is empty; one that is reused is the last.
LEMMA SeqNewLogStep ==
  ASSUME DBInv, DBInv', SeqInv, NewLog
  PROVE  SeqInv'
<1> DEFINE create == logfileNumber = 0
           number == IF create THEN versions.next ELSE logfileNumber
           next == versions.next + (IF create THEN 1 ELSE 0)
           save == versions.manifest # current \/ edit.add # {}
<1>1. /\ phase = "replay" /\ toReplay = {} /\ toReplay' = {}
      /\ logs' = IF create THEN Put(logs, number, EmptyLog) ELSE logs
      /\ logfileNumber' = number
      /\ versions' = [versions EXCEPT !.next = next]
      /\ edit' = [edit EXCEPT !.log = number, !.next = next, !.seq = versions.seq]
      /\ phase' = IF save THEN "descriptor" ELSE "ready"
      /\ UNCHANGED <<tables, manifests, current, mem, imm>>
  BY DEF NewLog, Opening
<1>2. /\ TypedLogs /\ TypedManifests /\ TypedMemory /\ DiskIsSound /\ current # NoFile
      /\ versions.files = St.files /\ versions.log = St.log
      /\ MayCrash => versions.manifest # current
      /\ LogsAreOld({}) /\ imm = NoTable
      /\ logfileNumber # 0 => logfileNumber \in DOMAIN logs
      /\ LogsFrom(versions.log) \subseteq EntriesOf(edit.add) \cup mem
  BY <1>1 DEF DBInv, Typed, Recovering, Quiet, Replaying
<1>3. /\ versions'.files = versions.files /\ versions'.log = versions.log
      /\ versions'.seq = versions.seq
      /\ edit'.seq = versions.seq /\ edit'.add = edit.add
      /\ versions.next \in Nat /\ versions.seq \in Nat
  <2> HIDE DEF number, next
  <2> QED
    BY <1>1, <1>2 DEF TypedMemory
<1>4. /\ \A k \in DOMAIN logs' : k \in DOMAIN logs \/ (create /\ k = number)
      /\ \A k \in DOMAIN logs : logs'[k] = logs[k]
      /\ create => logs'[number] = EmptyLog
  <2>1. CASE create
    <3>1. number \notin DOMAIN logs
      BY <1>2, <1>3, <2>1 DEF LogsAreOld, TypedLogs
    <3>2. logs' = Put(logs, number, EmptyLog)
      BY <1>1, <2>1
    <3> HIDE DEF number
    <3> QED
      BY <2>1, <3>1, <3>2 DEF Put
  <2>2. CASE ~create
    BY <1>1, <2>2
  <2> QED
    BY <2>1, <2>2
<1>5. \A k \in DOMAIN logs' : RecsOf(logs'[k]) = {} \/ (k \in DOMAIN logs /\ logs'[k] = logs[k])
  BY <1>4, EmptyLogFacts
<1>6. LastLog'
  <2>1. CASE create
    BY <1>1, <1>2, <1>3, <1>4, <2>1 DEF LastLog, LogsAreOld, TypedLogs
  <2>2. CASE ~create
    BY <1>1, <2>2 DEF SeqInv, LastLog
  <2> QED
    BY <2>1, <2>2
<1> HIDE DEF number, next, create
<1>7. \A n : LogsFrom(n)' \subseteq LogsFrom(n)
  BY <1>5 DEF LogsFrom
<1>8. \A n : LogsFrom(n) \subseteq LogsFrom(n)'
  <2>1. DOMAIN logs \subseteq DOMAIN logs'
    <3>1. CASE create
      BY <1>1, <3>1 DEF Put
    <3>2. CASE ~create
      BY <1>1, <3>2
    <3> QED
      BY <3>1, <3>2
  <2> QED
    BY <1>4, <2>1 DEF LogsFrom
<1>9. /\ St' = St /\ Survivors(current)' = Survivors(current)
      /\ \A F : EntriesOf(F)' = EntriesOf(F)
      /\ St \in Survivors(current) /\ St.seq \in Nat /\ St.log \in Nat
  BY <1>1, <1>2, LastSurvives DEF St, LastRecord, Survivors, Cut, MayCrash, EntriesOf, Sound
<1>10. SeqOnDisk'
  BY <1>1, <1>7, <1>9, SeqDiskStays DEF SeqInv
<1>11. Visible' = Visible /\ Visible = mem \cup EntriesOf(St.files)
  BY <1>1, <1>2, <1>3, <1>9 DEF Visible, NoTable
<1>12. /\ St.seq <= versions.seq
       /\ UpTo(Visible \cup EntriesOf(edit.add), versions.seq)
       /\ EntriesOf(edit.add) \cup mem \subseteq LogsFrom(St.log)
  BY <1>1 DEF SeqInv, SeqReplayed
<1>13. CASE save
  <2>1. phase' = "descriptor"
    BY <1>1, <1>13
  <2>2. SeqReplayed'
    <3>1. EntriesOf(edit.add)' = EntriesOf(edit.add)
      BY <1>3, <1>9
    <3>2. EntriesOf(edit.add)' \cup mem' \subseteq LogsFrom(St.log)'
      BY <1>1, <1>8, <1>9, <1>12, <3>1
    <3> QED
      BY <1>1, <1>3, <1>9, <1>11, <1>12, <2>1, <3>1, <3>2 DEF SeqReplayed, UpTo
  <2> QED
    BY <1>6, <1>10, <2>1, <2>2, SeqDown DEF SeqInv
<1>14. CASE ~save
  <2>1. phase' = "ready" /\ edit.add = {}
    BY <1>1, <1>2, <1>14
  <2>3. LogsFrom(St.log)' \subseteq Visible'
    <3>1. EntriesOf(edit.add) = {}
      BY <2>1 DEF EntriesOf
    <3>2. LogsFrom(St.log) \subseteq mem
      BY <1>2, <3>1
    <3> QED
      BY <1>7, <1>9, <1>11, <3>2
  <2>4. LogsFrom(versions.log)' \subseteq Visible'
    BY <1>2, <1>3, <1>9, <2>3
  <2>5. Apart(Visible')
    <3>1. Apart(EntriesOf(St.files) \cup LogsFrom(St.log))
      BY <1>2, <1>9 DEF SeqInv, SeqOnDisk
    <3>2. Visible' \subseteq EntriesOf(St.files) \cup LogsFrom(St.log)
      BY <1>11, <1>12
    <3> QED
      BY <3>1, <3>2, NumbersOfFewer
  <2>6. UpTo(Visible', versions'.seq)
    BY <1>3, <1>11, <1>12 DEF UpTo
  <2>7. UpTo(EntriesOf(St.files)', St'.seq)
    <3>1. UpTo(EntriesOf(St.files), St.seq)
      BY <1>2, <1>9 DEF SeqInv, SeqOnDisk
    <3> QED
      BY <1>9, <3>1
  <2>8. EntriesOf(St.files)' \subseteq Visible'
    BY <1>9, <1>11
  <2>9. St'.seq <= versions'.seq
    BY <1>2, <1>3, <1>9, <1>12
  <2> QED
    BY <1>6, <2>1, <2>4, <2>5, <2>6, <2>7, <2>8, <2>9, SeqReady
<1> QED
  BY <1>13, <1>14
-----------------------------------------------------------------------------
\* Where the log in use is the last, a MANIFEST that names it finds mem_.
LEMMA LastLogIsMemory ==
  ASSUME TypedLogs, TypedMemory, LastLog, logfileNumber # 0,
         logfileNumber \in DOMAIN logs, mem = RecsOf(logs[logfileNumber])
  PROVE  LogsFrom(logfileNumber) = mem
<1>1. \A k \in DOMAIN logs : k >= logfileNumber => k = logfileNumber
  BY DEF LastLog, TypedLogs, TypedMemory
<1>2. logfileNumber >= logfileNumber
  BY DEF TypedMemory
<1> QED
  BY <1>1, <1>2 DEF LogsFrom

\* The record holds the last sequence, and every entry recovered is below it.
LEMMA SeqWriteDescriptorStep ==
  ASSUME DBInv, DBInv', SeqInv, WriteDescriptor
  PROVE  SeqInv'
<1> DEFINE m == versions.manifest
           N == LastRecord(manifests'[m])
<1>1. /\ phase = "descriptor" /\ phase' = "sync"
      /\ UNCHANGED <<logs, tables, current, memory>>
  BY DEF WriteDescriptor, Opening
<1>2. UNCHANGED <<versions, mem, imm, logfileNumber, edit>>
  BY <1>1 DEF memory
<1>3. /\ TypedLogs /\ TypedManifests /\ TypedMemory /\ DiskIsSound
      /\ current # NoFile /\ versions.files = St.files
      /\ MayCrash => versions.manifest # current
      /\ edit.del = {} /\ edit.seq \in Nat /\ imm = NoTable /\ logfileNumber # 0
      /\ logfileNumber \in DOMAIN logs /\ mem = RecsOf(logs[logfileNumber])
  BY <1>1 DEF DBInv, Typed, Recovering, Quiet, Replaying, TypedLogs
<1>4. /\ N.files = versions.files \cup edit.add /\ N.log = logfileNumber
      /\ Len(manifests'[m].recs) > 0 /\ m \in DOMAIN manifests'
      /\ manifests'[m].torn = {}
  BY <1>1, <1>2 DEF DBInv, Recovering, NewManifest
<1>5. /\ \A k \in DOMAIN manifests : k # m => k \in DOMAIN manifests' /\ manifests'[k] = manifests[k]
      /\ N.seq = edit.seq
      /\ m = current => manifests'[m].synced = manifests[m].synced
  <2> DEFINE snapshot == [EmptyEdit EXCEPT !.add = versions.files]
             fresh == [recs |-> AddRecord(<<>>, snapshot), synced |-> 0, torn |-> {}]
             file == IF m = current THEN manifests[current] ELSE fresh
             longer == AddRecord(file.recs, edit)
             R == Replay(Replayed(file.recs), edit)
  <2>1. manifests' = Put(manifests, m, [file EXCEPT !.recs = AddRecord(@, edit)])
    BY DEF WriteDescriptor
  <2>2. file = [recs |-> file.recs, synced |-> file.synced, torn |-> file.torn]
    <3>1. manifests[current] \in [recs : Seq(States), synced : Nat, torn : SUBSET Nat]
      BY <1>3 DEF DiskIsSound, TypedManifests, Records
    <3> HIDE DEF snapshot, m
    <3>2. CASE m = current
      BY <3>1, <3>2
    <3>3. CASE m # current
      BY <3>3
    <3> QED
      BY <3>2, <3>3
  <2>3. longer = Append(file.recs, R)
    BY DEF AddRecord
  <2>4. R.seq = edit.seq
    BY <1>3 DEF Replay, NoNumber
  <2>5. [file EXCEPT !.recs = AddRecord(@, edit)] =
          [recs |-> longer, synced |-> file.synced, torn |-> file.torn]
    <3> DEFINE r == file.recs
               y == file.synced
               z == file.torn
    <3>1. file = [recs |-> r, synced |-> y, torn |-> z]
      BY <2>2
    <3>2. longer = AddRecord(r, edit)
      OBVIOUS
    <3> HIDE DEF r, y, z, file, longer
    <3>3. [file EXCEPT !.recs = AddRecord(@, edit)] =
            [recs |-> AddRecord(r, edit), synced |-> y, torn |-> z]
      BY <3>1
    <3> QED
      BY <3>2, <3>3 DEF r, y, z
  <2>6. file.recs \in Seq(States)
    <3>1. CASE m = current
      BY <1>3, <3>1 DEF DiskIsSound, TypedManifests, Records
    <3>2. CASE m # current
      <4> DEFINE first == Replay(NothingReplayed, snapshot)
      <4>1. first \in States
        BY <1>3 DEF Replay, NothingReplayed, EmptyEdit, NoNumber, States, Files, TypedMemory
      <4>2. AddRecord(<<>>, snapshot) = Append(<<>>, first)
        BY DEF AddRecord, Replayed
      <4>3. file.recs = Append(<<>>, first)
        BY <3>2, <4>2
      <4> HIDE DEF first, file, m
      <4> QED
        BY <4>1, <4>3
    <3> QED
      BY <3>1, <3>2
  <2> DEFINE recs == file.recs
             synced == file.synced
             torn == file.torn
  <2>7. manifests' = Put(manifests, m,
                         [recs |-> Append(recs, R), synced |-> synced, torn |-> torn])
    BY <2>1, <2>3, <2>5
  <2>8. recs \in Seq(States)
    BY <2>6
  <2>9. m = current => synced = manifests[m].synced
    BY DEF m
  <2> HIDE DEF recs, synced, torn, R, m, file
  <2>10. /\ manifests'[m] = [recs |-> Append(recs, R), synced |-> synced, torn |-> torn]
         /\ \A k \in DOMAIN manifests : k # m => k \in DOMAIN manifests' /\ manifests'[k] = manifests[k]
    BY <2>7 DEF Put
  <2>11. N = R
    <3>1. Append(recs, R)[Len(Append(recs, R))] = R
      BY <2>8
    <3> QED
      BY <2>10, <3>1 DEF LastRecord
  <2> QED
    BY <2>4, <2>9, <2>10, <2>11
<1> HIDE DEF m, N
<1>6. /\ St.seq <= versions.seq
      /\ UpTo(Visible \cup EntriesOf(edit.add), versions.seq)
      /\ EntriesOf(edit.add) \cup mem \subseteq LogsFrom(St.log)
      /\ edit.seq = versions.seq
  BY <1>1 DEF SeqInv, SeqReplayed
<1>7. St \in Survivors(current)
  BY <1>3, LastSurvives
<1>8. Apart(EntriesOf(St.files) \cup LogsFrom(St.log))
  BY <1>3, <1>7 DEF SeqInv, SeqOnDisk
<1>9. Visible = mem \cup EntriesOf(St.files)
  BY <1>3 DEF Visible, NoTable
<1>10. Apart(Visible \cup EntriesOf(edit.add))
  <2>1. Visible \cup EntriesOf(edit.add) \subseteq EntriesOf(St.files) \cup LogsFrom(St.log)
    BY <1>6, <1>9
  <2> QED
    BY <1>8, <2>1, NumbersOfFewer
<1>11. (\A F : EntriesOf(F)' = EntriesOf(F)) /\ Visible' = Visible
       /\ \A n : LogsFrom(n)' = LogsFrom(n)
  BY <1>1, <1>2 DEF EntriesOf, Visible, LogsFrom, RecsOf
<1>12. SeqNew'
  <2>1. LastRecord(manifests'[versions'.manifest]).seq = versions'.seq
    BY <1>2, <1>5, <1>6 DEF m, N
  <2>2. LastRecord(manifests[versions.manifest])'.seq = versions'.seq
    BY <2>1 DEF LastRecord
  <2>3. EntriesOf(edit.add)' = EntriesOf(edit.add)
    BY <1>2, <1>11
  <2> QED
    BY <1>2, <1>6, <1>10, <1>11, <2>2, <2>3 DEF SeqNew, UpTo, Apart
<1>13. SeqOnDisk'
  <2>1. CASE m # current
    <3>1. manifests'[current] = manifests[current]
      BY <1>3, <1>5, <2>1 DEF DiskIsSound
    <3>2. Survivors(current)' = Survivors(current)
      BY <1>1, <3>1 DEF Survivors, Cut, MayCrash
    <3> QED
      BY <1>1, <1>11, <3>2, SeqDiskStays DEF SeqInv
  <2>2. CASE m = current
    <3>1. /\ St'.files = versions.files \cup edit.add /\ St'.log = logfileNumber
          /\ St'.seq = versions.seq /\ current' # NoFile
      BY <1>1, <1>3, <1>4, <1>5, <1>6, <2>2 DEF St, LastRecord, N
    <3>2. Survivors(current)' = {St'}
      <4>1. ~MayCrash
        BY <1>3, <2>2 DEF m
      <4>2. manifests'[current].torn = {}
        BY <1>4, <2>2
      <4> QED
        BY <1>1, <4>1, <4>2 DEF Survivors, Cut, MayCrash, St, LastRecord
    <3>3. EntriesOf(St.files)' \subseteq Visible \cup EntriesOf(edit.add)
      <4>1. EntriesOf(St.files)' = EntriesOf(versions.files \cup edit.add)
        BY <1>1, <3>1 DEF EntriesOf
      <4> QED
        BY <1>3, <1>9, <4>1 DEF EntriesOf
    <3>4. LogsFrom(St.log)' \subseteq Visible
      <4>1. LogsFrom(logfileNumber) = mem
        BY <1>3, LastLogIsMemory DEF SeqInv
      <4>2. LogsFrom(St.log)' = LogsFrom(logfileNumber)
        BY <1>1, <3>1 DEF LogsFrom
      <4> QED
        BY <1>9, <4>1, <4>2
    <3>5. UpTo(EntriesOf(St.files)', St'.seq)
      BY <1>6, <3>1, <3>3, NumbersOfFewer
    <3>6. Apart(EntriesOf(St.files)' \cup LogsFrom(St.log)')
      <4>1. EntriesOf(St.files)' \cup LogsFrom(St.log)' \subseteq Visible \cup EntriesOf(edit.add)
        BY <3>3, <3>4
      <4> QED
        BY <1>10, <4>1, NumbersOfFewer
    <3> QED
      BY <3>1, <3>2, <3>5, <3>6 DEF SeqOnDisk, UpTo, Apart
  <2> QED
    BY <2>1, <2>2
<1>14. LastLog'
  BY <1>1, <1>2 DEF SeqInv, LastLog
<1> QED
  BY <1>1, <1>12, <1>13, <1>14, SeqDown DEF SeqInv
-----------------------------------------------------------------------------
LEMMA SeqSyncDescriptorStep ==
  ASSUME DBInv, DBInv', SeqInv, SyncDescriptor
  PROVE  SeqInv'
<1> DEFINE m == versions.manifest
<1>1. /\ phase = "sync" /\ phase' = "current"
      /\ manifests' = SyncedManifest(m)
      /\ UNCHANGED <<logs, tables, current, memory, acked, durable>>
  BY DEF SyncDescriptor, Opening, history
<1>2. UNCHANGED <<versions, mem, imm, logfileNumber, edit>>
  BY <1>1 DEF memory
<1>3. /\ TypedManifests /\ TypedMemory /\ DiskIsSound /\ current # NoFile
      /\ m \in DOMAIN manifests
  BY <1>1 DEF DBInv, Typed, Recovering, NewManifest
<1>4. /\ manifests'[m].recs = manifests[m].recs
      /\ \A k \in DOMAIN manifests : k # m => manifests'[k] = manifests[k]
  <2>1. manifests[m] \in [recs : Seq(States), synced : Nat, torn : SUBSET Nat]
    BY <1>3 DEF TypedManifests, Records
  <2> HIDE DEF m
  <2> QED
    BY <1>1, <1>3, <2>1 DEF SyncedManifest
<1>5. (\A F : EntriesOf(F)' = EntriesOf(F)) /\ Visible' = Visible
       /\ \A n : LogsFrom(n)' = LogsFrom(n)
  BY <1>1, <1>2 DEF EntriesOf, Visible, LogsFrom, RecsOf
<1>6. Survivors(current)' \subseteq Survivors(current)
  <2>1. CASE m = current
    BY <1>1, <1>3, <2>1, ManifestSynced
  <2>2. CASE m # current
    <3>1. manifests'[current] = manifests[current]
      BY <1>3, <1>4, <2>2 DEF DiskIsSound
    <3> QED
      BY <1>1, <3>1 DEF Survivors, Cut, MayCrash
  <2> QED
    BY <2>1, <2>2
<1>7. SeqOnDisk'
  BY <1>1, <1>5, <1>6, SeqDiskStays DEF SeqInv
<1>8. SeqNew'
  <2>1. LastRecord(manifests[versions.manifest])' = LastRecord(manifests[versions.manifest])
    BY <1>2, <1>4 DEF LastRecord
  <2>2. EntriesOf(edit.add)' = EntriesOf(edit.add)
    BY <1>2, <1>5
  <2> QED
    BY <1>1, <1>2, <1>5, <2>1, <2>2 DEF SeqInv, SeqNew, UpTo, Apart
<1>9. LastLog'
  BY <1>1, <1>2 DEF SeqInv, LastLog
<1> QED
  BY <1>1, <1>7, <1>8, <1>9, SeqDown DEF SeqInv

\* The database is ready with what recovery had in hand.
LEMMA SeqSetCurrentStep ==
  ASSUME DBInv, DBInv', SeqInv, SetCurrentFile
  PROVE  SeqInv'
<1> DEFINE m == versions.manifest
           N == LastRecord(manifests[m])
           files == versions.files \cup edit.add
<1>1. /\ phase = "current" /\ phase' = "ready" /\ current' = m
      /\ versions' = Installed(versions)
      /\ UNCHANGED <<logs, tables, manifests, mem, imm, logfileNumber>>
  BY DEF SetCurrentFile, Opening
<1>2. /\ TypedLogs /\ TypedManifests /\ TypedMemory /\ imm = NoTable
      /\ edit.del = {}
      /\ MayCrash => manifests[m].synced = Len(manifests[m].recs)
      /\ logfileNumber \in DOMAIN logs /\ mem = RecsOf(logs[logfileNumber])
      /\ m \in DOMAIN manifests /\ Len(manifests[m].recs) > 0
      /\ N.files = files /\ N.log = logfileNumber /\ edit.log = logfileNumber
  BY <1>1 DEF DBInv, Typed, Recovering, Quiet, NewManifest
<1>3. logfileNumber \in Nat /\ logfileNumber # 0 /\ Len(manifests[m].recs) \in Nat
      /\ versions.seq \in Nat
  BY <1>2 DEF TypedLogs, TypedMemory, TypedManifests, Records
<1>4. /\ versions'.files = files /\ versions'.log = logfileNumber
      /\ versions'.seq = versions.seq
  <2>1. (versions.files \ edit.del) \cup edit.add = files
    BY <1>2
  <2> HIDE DEF files
  <2> QED
    BY <1>1, <1>2, <2>1 DEF Installed, TypedMemory
<1>5. /\ N.seq = versions.seq
      /\ UpTo(Visible \cup EntriesOf(edit.add), versions.seq)
      /\ Apart(Visible \cup EntriesOf(edit.add))
  BY <1>1 DEF SeqInv, SeqNew
<1>6. St' = N
  BY <1>1 DEF St, LastRecord
<1> HIDE DEF N
<1>7. EntriesOf(files) = EntriesOf(versions.files) \cup EntriesOf(edit.add)
      /\ \A F : EntriesOf(F)' = EntriesOf(F)
  BY <1>1 DEF EntriesOf
<1>8. EntriesOf(St.files)' = EntriesOf(files) /\ EntriesOf(versions.files)' = EntriesOf(files)
  BY <1>1, <1>2, <1>4, <1>6 DEF EntriesOf
<1> HIDE DEF files
<1>9. Visible' = Visible \cup EntriesOf(edit.add)
  <2>1. Visible' = mem \cup EntriesOf(files) /\ Visible = mem \cup EntriesOf(versions.files)
    BY <1>1, <1>2, <1>8 DEF Visible, NoTable
  <2> QED
    BY <1>7, <2>1
<1>10. LogsFrom(versions.log)' \subseteq Visible'
  <2>1. LogsFrom(versions.log)' = LogsFrom(logfileNumber)
    BY <1>1, <1>4 DEF LogsFrom
  <2>2. LogsFrom(logfileNumber) = mem
    BY <1>2, <1>3, LastLogIsMemory DEF SeqInv
  <2> QED
    BY <1>1, <2>1, <2>2 DEF Visible
<1>11. LastLog'
  BY <1>1 DEF SeqInv, LastLog
<1>12. EntriesOf(St.files)' \subseteq Visible'
  BY <1>8 DEF Visible
<1>13. UpTo(Visible', versions'.seq) /\ Apart(Visible')
  BY <1>4, <1>5, <1>9
<1>14. UpTo(EntriesOf(St.files)', St'.seq)
  BY <1>4, <1>5, <1>6, <1>12, <1>13, NumbersOfFewer
<1>15. St'.seq <= versions'.seq
  BY <1>2, <1>3, <1>4, <1>5, <1>6
<1> QED
  BY <1>1, <1>10, <1>11, <1>12, <1>13, <1>14, <1>15, SeqReady

LEMMA SeqOpenReturnsStep ==
  ASSUME DBInv, DBInv', SeqInv, OpenReturns
  PROVE  SeqInv'
<1>1. /\ phase = "ready" /\ phase' = "open"
      /\ UNCHANGED <<logs, tables, manifests, current, versions, mem, imm, logfileNumber,
                     wpc, group>>
      /\ bgpc' = MaybeSchedule(bgpc, versions.files, imm, FALSE)
  BY DEF OpenReturns, disk, writers
<1>2. Up /\ Up' /\ SeqReplayed' /\ SeqNew'
  BY <1>1 DEF Up, SeqReplayed, SeqNew
<1>3. bgpc' \notin {"append", "sync"}
  BY <1>1 DEF DBInv, Recovering, Quiet, MaybeSchedule
<1>4. /\ St' = St /\ Survivors(current)' = Survivors(current) /\ Visible' = Visible
      /\ LogsInUse' = LogsInUse
      /\ \A F : EntriesOf(F)' = EntriesOf(F)
  BY <1>1 DEF St, LastRecord, Survivors, Cut, MayCrash, Visible, EntriesOf, LogsInUse,
              LogsFrom, RecsOf
<1>5. SeqMemory' /\ SeqOnDisk'
  <2>1. versions.seq <= versions'.seq
    BY <1>1, <1>2, UpNumbers
  <2> QED
    BY <1>1, <1>2, <1>4, <2>1, MemoryStays DEF SeqInv
<1>6. SeqWriters'
  BY <1>1, <1>2, <1>4, WritersStay DEF SeqInv
<1>7. LastLog' /\ SeqWorking'
  BY <1>1, <1>3 DEF SeqInv, LastLog, SeqWorking
<1> QED
  BY <1>2, <1>5, <1>6, <1>7 DEF SeqInv
-----------------------------------------------------------------------------
\* The process is gone: of the MANIFEST one of the states is left that a reopening
\* may find, and in the logs no more than was there.
LEMMA SeqEndStep ==
  ASSUME DBInv, DBInv', SeqInv, Ends
  PROVE  SeqInv'
<1>1. PICK files, left, promised :
        Leave(files, left, promised) /\ LogsLeft(files) /\ ManifestsLeft(left)
  BY DEF Ends
<1>2. /\ phase' = "closed" /\ logfileNumber' = 0 /\ UNCHANGED <<tables, current>>
      /\ LeaveLogs(files) /\ LeaveManifests(left)
  BY <1>1 DEF Leave, LoseMemory
<1>3. TypedLogs /\ TypedManifests /\ DiskIsSound
  BY DEF DBInv, Typed
<1>4. /\ TypedLogs' /\ DOMAIN logs' = DOMAIN logs
      /\ \A n \in DOMAIN logs :
           /\ Len(logs'[n].recs) <= Len(logs[n].recs)
           /\ \A i \in 1..Len(logs'[n].recs) : logs'[n].recs[i] \subseteq logs[n].recs[i]
  BY <1>1, <1>2, <1>3, RereadLogs DEF LogsLeft
<1>5. ASSUME NEW n \in DOMAIN logs
      PROVE  RecsOf(logs'[n]) \subseteq RecsOf(logs[n])
  <2>1. /\ logs[n] \in [recs : Seq(SUBSET Entries), synced : Nat, torn : SUBSET Nat]
        /\ logs'[n] \in [recs : Seq(SUBSET Entries), synced : Nat, torn : SUBSET Nat]
    BY <1>3, <1>4 DEF TypedLogs
  <2>2. /\ RecsOf(logs[n]) = UNION {logs[n].recs[i] : i \in 1..Len(logs[n].recs)}
        /\ RecsOf(logs'[n]) = UNION {logs'[n].recs[i] : i \in 1..Len(logs'[n].recs)}
    BY <2>1, RecsAt
  <2>3. Len(logs'[n].recs) \in Nat /\ Len(logs[n].recs) \in Nat
    BY <2>1
  <2>4. \A i \in 1..Len(logs'[n].recs) :
          i \in 1..Len(logs[n].recs) /\ logs'[n].recs[i] \subseteq logs[n].recs[i]
    BY <1>4, <2>3
  <2> QED
    BY <2>2, <2>4
<1>6. \A k : LogsFrom(k)' \subseteq LogsFrom(k)
  BY <1>4, <1>5 DEF LogsFrom
<1>7. \A F : EntriesOf(F)' = EntriesOf(F)
  BY <1>2 DEF EntriesOf
<1>8. current # NoFile => Survivors(current)' \subseteq Survivors(current)
  <2> SUFFICES ASSUME current # NoFile
               PROVE  Survivors(current)' \subseteq Survivors(current)
    OBVIOUS
  <2> DEFINE part == manifests'[current]
             file == manifests[current]
  <2>1. PartOf(part, file)
    BY <1>1, <1>2, <1>3, LeftManifests DEF ManifestsLeft
  <2>2. Survivors(current)' = {part.recs[k] : k \in Cut(part)}
    BY <1>2 DEF Survivors, Cut, MayCrash
  <2> HIDE DEF part, file
  <2>3. \A k \in Cut(part) : k \in Cut(file) /\ part.recs[k] = file.recs[k]
    <3>1. Len(part.recs) \in Nat /\ part.synced \in Nat
      BY <2>1 DEF PartOf, Records
    <3>2. \A k \in Cut(part) : k \in 1..Len(part.recs)
      BY <2>1, <3>1 DEF PartOf, Cut
    <3> QED
      BY <2>1, <3>2 DEF PartOf
  <2> QED
    BY <2>2, <2>3 DEF Survivors, file
<1>9. SeqOnDisk'
  BY <1>2, <1>6, <1>7, <1>8, SeqDiskStays DEF SeqInv
<1> QED
  BY <1>2, <1>9, SeqDown DEF SeqInv
-----------------------------------------------------------------------------
LEMMA SeqStutterStep ==
  ASSUME SeqInv, UNCHANGED vars
  PROVE  SeqInv'
<1>1. UNCHANGED <<logs, tables, manifests, current, phase, toReplay, versions, mem, imm,
                  logfileNumber, edit, wpc, group, bgpc>>
  BY DEF vars, disk, opening, memory, writers, background
<1>2. /\ St' = St /\ Survivors(current)' = Survivors(current) /\ Visible' = Visible
      /\ Up' = Up /\ (\A F : EntriesOf(F)' = EntriesOf(F)) /\ \A n : LogsFrom(n)' = LogsFrom(n)
  BY <1>1 DEF St, LastRecord, Survivors, Cut, MayCrash, Visible, EntriesOf, LogsFrom, RecsOf, Up
<1>3. SeqOnDisk' /\ LastLog' /\ SeqReplayed'
  BY <1>1, <1>2 DEF SeqInv, SeqOnDisk, LastLog, SeqReplayed, UpTo, Apart
<1>4. SeqNew'
  BY <1>1, <1>2 DEF SeqInv, SeqNew, LastRecord, UpTo, Apart
<1>5. SeqMemory' /\ SeqWriters' /\ SeqWorking'
  <2>1. LogsInUse' = LogsInUse
    BY <1>1, <1>2 DEF LogsInUse
  <2> QED
    BY <1>1, <1>2, <2>1 DEF SeqInv, SeqMemory, SeqWriters, SeqWorking, UpTo, Apart
<1> QED
  BY <1>3, <1>4, <1>5 DEF SeqInv

LEMMA SeqInit ==
  ASSUME Init, DBInv
  PROVE  SeqInv
<1> DEFINE first == [files |-> {}, log |-> 3, next |-> 4, seq |-> 0]
<1>1. /\ IF Existing THEN CreatedDisk ELSE EmptyDisk
      /\ phase = "closed" /\ logfileNumber = 0
  BY DEF Init, ClosedMemory
<1>2. LastLog /\ SeqReplayed /\ SeqNew /\ SeqMemory /\ SeqWriters /\ SeqWorking
  BY <1>1 DEF LastLog, SeqReplayed, SeqNew, SeqMemory, SeqWriters, SeqWorking, Up
<1>3. \A n \in DOMAIN logs : RecsOf(logs[n]) = {}
  BY <1>1, EmptyLogFacts DEF CreatedDisk, EmptyDisk
<1>4. \A n : LogsFrom(n) = {}
  BY <1>3 DEF LogsFrom
<1>5. current # NoFile => \A s \in Survivors(current) : s.files = {}
  <2> SUFFICES ASSUME current # NoFile
               PROVE  \A s \in Survivors(current) : s.files = {}
    OBVIOUS
  <2>1. current = 2 /\ manifests = [n \in {2} |-> [recs |-> <<NothingReplayed, first>>, synced |-> 2,
                                                  torn |-> {}]]
    BY <1>1 DEF CreatedDisk, EmptyDisk
  <2>2. /\ manifests[2].recs = <<NothingReplayed, first>> /\ manifests[2].synced = 2
        /\ manifests[2].torn = {}
    BY <2>1
  <2>3. first.files = {}
    OBVIOUS
  <2> HIDE DEF first
  <2>4. Len(<<NothingReplayed, first>>) = 2 /\ <<NothingReplayed, first>>[2] = first
    OBVIOUS
  <2>5. Cut(manifests[2]) = {2}
    BY <2>2, <2>4 DEF Cut
  <2> QED
    BY <2>1, <2>2, <2>3, <2>4, <2>5 DEF Survivors
<1>6. SeqOnDisk
  <2>1. \A s \in Survivors(current) : current # NoFile => EntriesOf(s.files) \cup LogsFrom(s.log) = {}
    BY <1>4, <1>5 DEF EntriesOf
  <2> QED
    BY <1>4, <2>1 DEF SeqOnDisk, UpTo, Apart
<1> QED
  BY <1>2, <1>6 DEF SeqInv

LEMMA SeqStepKeeps ==
  DBInv /\ DBInv' /\ SeqInv /\ [Next]_vars => SeqInv'
<1> SUFFICES ASSUME DBInv, DBInv', SeqInv, [Next]_vars
             PROVE  SeqInv'
  OBVIOUS
<1>1. ASSUME NEW t \in Threads, Calls(t) \/ Writer(t)
      PROVE  SeqInv'
  BY <1>1, SeqWriterStep, SeqSwitchStep, SeqAppendLogStep, SeqSyncLogStep, SeqTakenStep,
     SeqBackgroundStep
     DEF Calls, Writer
<1>2. CASE Background
  BY <1>2, SeqBackgroundStep, SeqBuildStep, SeqOpenOutputStep, SeqAppendManifestStep,
     SeqInstallStep, SeqDeleteStep, EndStep, SeqEndStep
     DEF Background
<1>3. CASE Recovery
  BY <1>3, SeqNewStep, SeqManifestDamagedStep, SeqRecoverManifestStep, SeqRecoverLogStep, SeqNewLogStep,
     SeqWriteDescriptorStep, SeqSyncDescriptorStep, SeqSetCurrentStep, SeqOpenReturnsStep
     DEF Recovery
<1>4. CASE Faults
  BY <1>4, SeqWriterStep, SeqTearLogStep, SeqTakenStep, SeqBuildStep, SeqTearManifestStep,
     SeqBackgroundStep, NoTornDescriptor, EndStep, SeqEndStep
     DEF Faults
<1>5. CASE StartClose
  BY <1>5, SeqBackgroundStep
<1>6. CASE UNCHANGED vars
  BY <1>6, SeqStutterStep
<1> QED
  BY <1>1, <1>2, <1>3, <1>4, <1>5, <1>6 DEF Next

\* Two entries that a read can find never share a sequence number, and none is newer than
\* the last sequence, for any threads and buffer sizes, across torn logs, failed syncs,
\* kills, crashes of the machine and recoveries.
THEOREM SnapshotsTellWritesApart ==
  ASSUME Survivable
  PROVE  Spec => []SequencesTellApart
<1>1. Init /\ DBInv => SeqInv
  BY SeqInit
<1>2. SeqInv => SequencesTellApart
  <2> SUFFICES ASSUME SeqInv, phase = "open"
               PROVE  /\ \A e, f \in Visible : e.seq = f.seq => e = f
                      /\ \A e \in Visible : e.seq <= versions.seq
    BY DEF SequencesTellApart
  <2>1. Apart(Visible \cup LogsInUse) /\ UpTo(Visible, versions.seq)
    BY DEF SeqInv, SeqMemory, Up
  <2> QED
    BY <2>1 DEF Apart, UpTo
<1> QED
  BY <1>1, <1>2, DatabaseIsSound, SeqStepKeeps, PTL DEF Spec
=============================================================================
