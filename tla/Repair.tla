------------------------------- MODULE Repair -------------------------------
(***************************************************************************)
(* RepairDB (db/repair.cc) over the files that a database leaves behind:   *)
(* logs become tables, every table is scanned, one with errors is copied,  *)
(* and a new MANIFEST lists them all at level 0.  The process may crash    *)
(* and repair be called again.  What the database did before is only as    *)
(* much of DBImpl as makes its files: every entry is a value, the newest   *)
(* the one with the largest sequence number.                               *)
(***************************************************************************)
EXTENDS Integers, Sequences, FiniteSetsExt, Functions

CONSTANTS
  Key,
  MaxWrites, MaxCompactions,     \* bounds: of the database's history
  MaxDamage, MaxErrors, MaxKills, MaxCrashes  \* bounds: of what goes wrong

\* What the constants must be.
RepairAssumption ==
  {MaxWrites, MaxCompactions, MaxDamage, MaxErrors, MaxKills, MaxCrashes} \subseteq Nat

VARIABLES
  dir,      \* the directory: of each name <<type, number>> the file, and
  lost,     \* lost/: [entries that can be read, damaged, synced]
  manifest, \* of each MANIFEST's number: [tables, nextFile, lastSequence, synced]
  current,  \* the number in CURRENT
  live,     \* the database's tables, from the newest to the oldest
  log,      \* its log's number
  dbNext, lastSequence, compactions,
  damage, errors, kills, crashes,
  readable, \* entries that could be read when repair was first called
  pc, logs, tableNumbers, tables, next, \* the Repairer; tables is a set of TableInfo
  scanned,  \* the TableInfo of the table that is copied
  copy      \* number of the copy

database == <<live, log, dbNext, lastSequence, compactions>>
repairer == <<pc, logs, tableNumbers, tables, next, scanned, copy>>
vars == <<dir, lost, manifest, current, database, damage, errors, kills, crashes, readable, repairer>>

Log(n) == <<"log", n>>
Table(n) == <<"table", n>>
File(e, d, s) == [entries |-> e, damaged |-> d, synced |-> s]
Put(f, name, file) == [x \in DOMAIN f \cup {name} |-> IF x = name THEN file ELSE f[x]]
Drop(f, name) == [x \in DOMAIN f \ {name} |-> f[x]]
NumberOf(name) == name[2]
Numbers(type) == {NumberOf(x) : x \in {y \in DOMAIN dir : y[1] = type}}
Sequences(entries) == {e[2] : e \in entries}
NoInfo == [number |-> 0, entries |-> {}, maxSequence |-> 0]

Init ==
  /\ dir = Put(<<>>, Log(2), File({}, FALSE, TRUE)) /\ lost = <<>>
  /\ manifest = Put(<<>>, 1, [tables |-> {}, nextFile |-> 3, lastSequence |-> 0, synced |-> TRUE])
  /\ current = 1
  /\ live = <<>> /\ log = 2 /\ dbNext = 3 /\ lastSequence = 0 /\ compactions = 0
  /\ damage = 0 /\ errors = 0 /\ kills = 0 /\ crashes = 0 /\ readable = {}
  /\ pc = "using" /\ logs = {} /\ tableNumbers = {} /\ tables = {} /\ next = 1
  /\ scanned = NoInfo /\ copy = 0
-----------------------------------------------------------------------------
\* The database before: writes, flushes, and compactions of two tables next to each other
\* in age, whose inputs a crash may leave behind.
Write(k) ==
  /\ pc = "using" /\ lastSequence < MaxWrites /\ lastSequence' = lastSequence + 1
  /\ dir' = [dir EXCEPT ![Log(log)].entries = @ \cup {<<k, lastSequence + 1>>}]
  /\ UNCHANGED <<lost, manifest, current, live, log, dbNext, compactions, damage, errors, kills, crashes,
                 readable, repairer>>

Flush ==
  /\ pc = "using" /\ dir[Log(log)].entries # {}
  /\ log' = dbNext /\ dbNext' = dbNext + 2 /\ live' = <<dbNext + 1>> \o live
  /\ dir' = Put(Put(Drop(dir, Log(log)), Log(log'), File({}, FALSE, TRUE)),
                Table(dbNext + 1), dir[Log(log)])
  /\ UNCHANGED <<lost, manifest, current, lastSequence, compactions, damage, errors, kills, crashes,
                 readable, repairer>>

NewestOf(entries) ==
  {e \in entries : \A f \in entries : f[1] = e[1] => f[2] <= e[2]}
Compact(i, leaves) ==
  /\ pc = "using" /\ compactions < MaxCompactions /\ i < Len(live)
  /\ LET a == live[i]
         b == live[i + 1]
         out == File(NewestOf(dir[Table(a)].entries \cup dir[Table(b)].entries), FALSE, TRUE)
     IN  /\ live' = [j \in 1..(Len(live) - 1) |->
                      IF j < i THEN live[j] ELSE IF j = i THEN dbNext ELSE live[j + 1]]
         /\ dir' = Put(IF leaves THEN dir ELSE Drop(Drop(dir, Table(a)), Table(b)),
                       Table(dbNext), out)
  /\ dbNext' = dbNext + 1 /\ compactions' = compactions + 1
  /\ UNCHANGED <<lost, manifest, current, log, lastSequence, damage, errors, kills, crashes,
                 readable, repairer>>

\* Damage: an entry cannot be read; or it is read as another one with a larger number, as
\* ConvertLogToTable reads a log without checksums, and ScanTable checks those of a table
\* only with paranoid_checks, which are off unless asked for.
Damaged(name, e) ==
  /\ pc = "using" /\ damage < MaxDamage /\ damage' = damage + 1
  /\ \/ dir' = [dir EXCEPT ![name].entries = @ \ {e}, ![name].damaged = TRUE]
     \/ dir' = [dir EXCEPT ![name].entries = (@ \ {e}) \cup {<<e[1], MaxWrites + 1>>}]
  /\ UNCHANGED <<lost, manifest, current, database, errors, kills, crashes, readable, repairer>>

\* RepairDB is called.
Call ==
  /\ pc = "using" /\ lastSequence > 0 /\ pc' = "find"
  /\ readable' = UNION {dir[x].entries : x \in DOMAIN dir}
  /\ UNCHANGED <<dir, lost, manifest, current, database, damage, errors, kills, crashes, logs,
                 tableNumbers, tables, next, scanned, copy>>
-----------------------------------------------------------------------------
outside == <<database, damage, kills, crashes, readable>>
\* A call of the environment that may fail.
Try(Done, Failed) == \/ Done /\ UNCHANGED errors
                     \/ errors < MaxErrors /\ errors' = errors + 1 /\ Failed

\* ArchiveFile: a rename into lost/, over the file of that name that may be there; its
\* failure is ignored.
Archive(name) ==
  Try(lost' = Put(lost, name, dir[name]) /\ dir' = Drop(dir, name), UNCHANGED <<lost, dir>>)

\* FindFiles.  Mutant: the number after the largest is not left free.
LargestTaken(numbers) == Max({1} \cup numbers)
FirstFree(numbers) == Max({1} \cup {n + 1 : n \in numbers})
FindFiles ==
  /\ pc = "find" /\ pc' = "convert"
  /\ logs' = Numbers("log") /\ tableNumbers' = Numbers("table")
  /\ next' = FirstFree(Numbers("log") \cup Numbers("table"))
  /\ tables' = {} /\ scanned' = NoInfo /\ copy' = 0
  /\ UNCHANGED <<dir, lost, manifest, current, outside, errors>>

\* ConvertLogToTable: whatever can be read of it, into a table that BuildTable syncs; the
\* number is used up even if nothing can, or the table cannot be written.
ConvertLog(n) ==
  /\ pc = "convert" /\ n \in logs /\ next' = next + 1
  /\ LET e == dir[Log(n)].entries
     IN  Try(IF e = {} THEN UNCHANGED <<dir, tableNumbers>>
             ELSE /\ dir' = Put(dir, Table(next), File(e, FALSE, TRUE))
                  /\ tableNumbers' = tableNumbers \cup {next},
             UNCHANGED <<dir, tableNumbers>>)
  /\ scanned' = [NoInfo EXCEPT !.number = n] /\ pc' = "archiveLog"
  /\ UNCHANGED <<lost, manifest, current, outside, logs, tables, copy>>
ArchiveLog ==
  /\ pc = "archiveLog" /\ pc' = "convert"
  /\ Archive(Log(scanned.number)) /\ logs' = logs \ {scanned.number}
  /\ UNCHANGED <<manifest, current, outside, tableNumbers, tables, next, scanned, copy>>

\* ScanTable: its entries, its largest number.
LargestOf(entries) == Max({0} \cup Sequences(entries))
ScanTable(n) ==
  /\ pc = "convert" /\ logs = {} /\ n \in tableNumbers
  /\ LET file == dir[Table(n)]
         t == [number |-> n, entries |-> file.entries, maxSequence |-> LargestOf(file.entries)]
     IN  IF file.damaged THEN /\ pc' = "copy" /\ scanned' = t /\ UNCHANGED <<tables, tableNumbers>>
         ELSE /\ tables' = tables \cup {t} /\ tableNumbers' = tableNumbers \ {n}
              /\ UNCHANGED <<pc, scanned>>
  /\ UNCHANGED <<dir, lost, manifest, current, outside, errors, logs, next, copy>>

\* RepairTable.  The copy is created; if it cannot be, the table stays where it is.
CreateCopy ==
  /\ pc = "copy" /\ copy' = next /\ next' = next + 1
  /\ Try(pc' = "archiveTable" /\ dir' = Put(dir, Table(next), File({}, TRUE, FALSE))
           /\ UNCHANGED tableNumbers,
         pc' = "convert" /\ tableNumbers' = tableNumbers \ {scanned.number} /\ UNCHANGED dir)
  /\ UNCHANGED <<lost, manifest, current, outside, logs, tables, scanned>>
ArchiveTable ==
  /\ pc = "archiveTable" /\ pc' = "finish" /\ Archive(Table(scanned.number))
  /\ UNCHANGED <<manifest, current, outside, logs, tableNumbers, tables, next, scanned, copy>>

\* The copy is finished and closed, never synced; an empty one is left as it is.
FinishCopy ==
  /\ pc = "finish"
  /\ IF scanned.entries = {}
     THEN /\ pc' = "convert" /\ tableNumbers' = tableNumbers \ {scanned.number}
          /\ UNCHANGED <<dir, errors>>
     ELSE Try(/\ pc' = "rename" /\ UNCHANGED tableNumbers
              /\ dir' = Put(dir, Table(copy), File(scanned.entries, FALSE, FALSE)),
              /\ pc' = "convert" /\ tableNumbers' = tableNumbers \ {scanned.number}
              /\ dir' = Drop(dir, Table(copy)))
  /\ UNCHANGED <<lost, manifest, current, outside, logs, tables, next, scanned, copy>>
\* Renamed over the original.
WithScanned == tables \cup {scanned}
RenameCopy ==
  /\ pc = "rename" /\ pc' = "convert" /\ tableNumbers' = tableNumbers \ {scanned.number}
  /\ LET without == Drop(dir, Table(copy))
     IN  Try(/\ dir' = Put(without, Table(scanned.number), dir[Table(copy)])
             /\ tables' = WithScanned,
             dir' = without /\ UNCHANGED tables)
  /\ UNCHANGED <<lost, manifest, current, outside, logs, next, scanned, copy>>
-----------------------------------------------------------------------------
\* WriteDescriptor: the record goes into a temporary file, which is closed and not
\* synced.
Descriptor ==
  [tables |-> tables, nextFile |-> next, synced |-> FALSE,
   lastSequence |-> Max({0} \cup {t.maxSequence : t \in tables})]
WriteDescriptor ==
  /\ pc = "convert" /\ logs = {} /\ tableNumbers = {}
  /\ Try(pc' = "archiveManifest", pc' = "failed")
  /\ UNCHANGED <<dir, lost, manifest, current, outside, logs, tableNumbers, tables, next, scanned,
                 copy>>
\* The only MANIFEST the directory has, if it has one.
ArchiveManifest ==
  /\ pc = "archiveManifest" /\ pc' = "install"
  /\ Try(manifest' = <<>>, UNCHANGED manifest)
  /\ UNCHANGED <<dir, lost, current, outside, logs, tableNumbers, tables, next, scanned, copy>>
InstallManifest ==
  /\ pc = "install"
  /\ Try(pc' = "current" /\ manifest' = Put(manifest, 1, Descriptor),
         pc' = "failed" /\ UNCHANGED manifest)
  /\ UNCHANGED <<dir, lost, current, outside, logs, tableNumbers, tables, next, scanned, copy>>
SetCurrent ==
  /\ pc = "current"
  /\ Try(pc' = "done" /\ current' = 1, pc' = "failed" /\ UNCHANGED current)
  /\ UNCHANGED <<dir, lost, manifest, outside, logs, tableNumbers, tables, next, scanned, copy>>

\* The process is killed; or the machine goes down, and of files not synced the contents
\* may be gone.  Repair is called again, as after a failure.
AfterCrash(f) ==
  [x \in DOMAIN f |-> IF f[x].synced THEN f[x] ELSE File({}, TRUE, FALSE)]
Again ==
  /\ pc' = "find" /\ logs' = {} /\ tableNumbers' = {} /\ tables' = {} /\ next' = 1
  /\ scanned' = NoInfo /\ copy' = 0
  /\ UNCHANGED <<current, database, damage, errors, readable>>
Kill ==
  /\ pc # "using" /\ kills < MaxKills /\ kills' = kills + 1 /\ Again
  /\ UNCHANGED <<dir, lost, manifest, crashes>>
Crash ==
  /\ pc # "using" /\ crashes < MaxCrashes /\ crashes' = crashes + 1 /\ Again
  /\ dir' = AfterCrash(dir) /\ lost' = AfterCrash(lost)
  /\ manifest' = Restrict(manifest, {n \in DOMAIN manifest : manifest[n].synced})
  /\ UNCHANGED kills
Retry == pc = "failed" /\ Again /\ UNCHANGED <<dir, lost, manifest, kills, crashes>>

Use ==
  \/ \E k \in Key : Write(k)
  \/ Flush
  \/ \E i \in 1..Len(live), leaves \in BOOLEAN : Compact(i, leaves)
  \/ \E name \in DOMAIN dir : \E e \in dir[name].entries : Damaged(name, e)
  \/ Call
Run ==
  \/ FindFiles
  \/ \E n \in logs : ConvertLog(n)
  \/ ArchiveLog
  \/ \E n \in tableNumbers : ScanTable(n)
  \/ CreateCopy
  \/ ArchiveTable
  \/ FinishCopy
  \/ RenameCopy
  \/ WriteDescriptor
  \/ ArchiveManifest
  \/ InstallManifest
  \/ SetCurrent
Next == Use \/ Run \/ Kill \/ Crash \/ Retry
Spec == Init /\ [][Next]_vars
-----------------------------------------------------------------------------
(***************************************************************************)
(* What a repair keeps, and what the database it leaves can read.          *)
(***************************************************************************)

Contents(f) == UNION {f[x].entries : x \in DOMAIN f}
Listed == UNION {dir[Table(t.number)].entries : t \in manifest[1].tables}

\* Every entry that could be read when repair was called is, at every moment, in a file of
\* the directory or of lost/.
NothingVanishes ==
  pc # "using" => readable \subseteq Contents(dir) \cup Contents(lost) \cup
    (IF pc \in {"finish", "rename"} THEN scanned.entries ELSE {})

\* If nothing goes wrong on the way, the repaired database lists every entry that could be
\* read, in tables it has.
AllListed ==
  pc = "done" /\ errors = 0 /\ kills = 0 /\ crashes = 0 =>
    /\ \A t \in manifest[1].tables : Table(t.number) \in DOMAIN dir
    /\ readable \subseteq Listed

\* A repair that has ended, however often it was begun, leaves a database that can be
\* opened: CURRENT names a MANIFEST, and the tables it lists are there, whole.
RepairedOpens ==
  pc = "done" =>
    /\ current \in DOMAIN manifest
    /\ \A t \in manifest[current].tables :
         /\ Table(t.number) \in DOMAIN dir
         /\ dir[Table(t.number)].entries = t.entries

\* New writes and new files take numbers above those that are in use.
NumbersAbove ==
  pc = "done" =>
    /\ \A e \in Listed : e[2] <= manifest[1].lastSequence
    /\ \A n \in Numbers("table") \cup Numbers("log") : n < manifest[1].nextFile

\* A number that repair takes is that of no file.
TakesFreeNumbers ==
  pc \in {"convert", "copy"} => \A n \in Numbers("table") \cup Numbers("log") : n < next

\* "corruptions cause entire commits to be skipped instead of propagating bad information
\* (like overly large sequence numbers)" (repair.cc:169): the table that a log becomes
\* holds only what was written.
OnlyWritten ==
  pc = "archiveLog" /\ Table(next - 1) \in DOMAIN dir =>
    \A e \in dir[Table(next - 1)].entries : e[2] <= lastSequence

=============================================================================
