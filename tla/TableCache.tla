----------------------------- MODULE TableCache -----------------------------
(***************************************************************************)
(* TableCache (table_cache.cc): threads that read open tables through the  *)
(* LRU cache, whose deleter closes the file.  A key is a file number.      *)
(* Lookup, opening and Insert are three steps: threads meet between them.  *)
(***************************************************************************)
EXTENDS LRUCache

CONSTANTS Readers  \* threads

\* What the constants must be: a table has charge 1.
TableAssumption == CacheAssumption /\ IsFiniteSet(Readers) /\ 1 \in Charges

VARIABLES
  tableFiles, \* table files that exist
  opened,     \* how many times each file is open
  thread      \* what each thread does, with which file, by which handle

tableVars == <<cacheVars, tableFiles, opened, thread>>

Idle == [at |-> "idle", file |-> Nil, handle |-> Nil]
Becomes(t, at, f, h) ==
  thread' = [thread EXCEPT ![t] = [at |-> at, file |-> f, handle |-> h]]

\* DeleteEntry: the files of the entries freed in a step are closed.
Closed(f) ==
  Cardinality({h \in Handles : entry[h].key = f /\ entry[h].refs > 0 /\ entry'[h].refs = 0})
CloseFreed == opened' = [f \in Keys |-> opened[f] - Closed(f)]

\* FindTable: a hit, or a miss whose file is opened next.
FindTable(t, f) ==
  /\ thread[t] = Idle /\ f \in tableFiles
  /\ Lookup(f)
  /\ IF table[f] = Nil THEN Becomes(t, "open", f, Nil)
                       ELSE Becomes(t, "use", f, table[f])
  /\ UNCHANGED <<tableFiles, opened>>

\* The file is opened and read; that may fail, and then nothing is cached.
OpenTable(t) ==
  /\ thread[t].at = "open"
  /\ Becomes(t, "insert", thread[t].file, Nil)
  /\ opened' = [opened EXCEPT ![thread[t].file] = @ + 1]
  /\ UNCHANGED <<cacheVars, tableFiles>>
\* Mutant: the file of a table that cannot be read stays open.
LeavesOpen(f) == opened
CloseFile(f) == [opened EXCEPT ![f] = @ - 1]
OpenTableFails(t) ==
  /\ thread[t].at \in {"open", "insert"}
  /\ thread' = [thread EXCEPT ![t] = Idle]
  /\ opened' = IF thread[t].at = "insert" THEN CloseFile(thread[t].file) ELSE opened
  /\ UNCHANGED <<cacheVars, tableFiles>>
InsertTable(t) ==
  LET f == thread[t].file
  IN  /\ thread[t].at = "insert"
      /\ Insert(f, 1)
      /\ Becomes(t, "use", f, Min(Unused))
      /\ CloseFreed
      /\ UNCHANGED tableFiles

\* Get ends, or an iterator is deleted: UnrefEntry.
ReleaseTable(t) ==
  /\ thread[t].at = "use"
  /\ Release(thread[t].handle)
  /\ CloseFreed
  /\ thread' = [thread EXCEPT ![t] = Idle]
  /\ UNCHANGED tableFiles

EvictTable(f) == Erase(f)
\* DeleteObsoleteFiles: a table no version refers to, so that no thread reads it,
\* is evicted and then deleted.
Evict(f) ==
  /\ f \in tableFiles /\ \A t \in Readers : thread[t].file # f
  /\ EvictTable(f) /\ CloseFreed
  /\ tableFiles' = tableFiles \ {f}
  /\ UNCHANGED thread

\* ~TableCache, when nobody reads: the cache and its entries go; the next one is
\* empty.
DeleteCache ==
  /\ \A t \in Readers : thread[t] = Idle
  /\ Prune /\ CloseFreed
  /\ UNCHANGED <<tableFiles, thread>>

TableInit ==
  /\ CacheInit /\ tableFiles = Keys
  /\ opened = [f \in Keys |-> 0] /\ thread = [t \in Readers |-> Idle]

TableNext ==
  \/ \E t \in Readers : OpenTable(t) \/ OpenTableFails(t) \/ InsertTable(t) \/ ReleaseTable(t)
  \/ \E t \in Readers, f \in Keys : FindTable(t, f)
  \/ \E f \in Keys : Evict(f)
  \/ DeleteCache

TableSpec == TableInit /\ [][TableNext]_tableVars
-----------------------------------------------------------------------------
TableTypeOK ==
  /\ tableFiles \subseteq Keys /\ opened \in [Keys -> Nat]
  /\ thread \in [Readers -> [at : {"idle", "open", "insert", "use"}, file : Keys \cup {Nil},
                            handle : Handles \cup {Nil}]]

\* A thread reads the table it asked for, which is open and will not be closed
\* under it, also when another thread has opened the same table meanwhile.
ReadsOpenTable ==
  \A t \in Readers : thread[t].at = "use" =>
    LET h == thread[t].handle
    IN  /\ entry[h].refs > 0 /\ held[h] = Cardinality({u \in Readers : thread[u].handle = h})
        /\ entry[h].key = thread[t].file /\ opened[thread[t].file] > 0

\* Files are open for entries of the cache and for threads about to make one: each
\* is closed, and once.
OpenersOf(f) == {t \in Readers : thread[t].at = "insert" /\ thread[t].file = f}
HandlesOf(f) == {h \in Handles : entry[h].refs > 0 /\ entry[h].key = f}
FilesAreClosed ==
  \A f \in Keys : opened[f] = Cardinality(HandlesOf(f)) + Cardinality(OpenersOf(f))

\* A deleted table is neither open nor cached, and is not opened again: its space
\* is given back.
DeletedIsClosed == \A f \in Keys \ tableFiles : opened[f] = 0 /\ table[f] = Nil

\* Files are open at once for what fits each shard or, if that is less, for one
\* table of each thread, and for each thread one more.
LessOpen ==
  Cardinality({h \in Handles : entry[h].refs > 0})
      + Cardinality({t \in Readers : thread[t].at = "insert"})
    <= NumShards * Max({PerShard, Cardinality(Readers)}) + Cardinality(Readers)

\* All of it, at any time.
TablesStayOpen ==
  TableTypeOK /\ ReadsOpenTable /\ FilesAreClosed /\ DeletedIsClosed /\ LessOpen
=============================================================================
