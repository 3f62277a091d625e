------------------------------ MODULE UtilProofs ------------------------------
(***************************************************************************)
(* Proofs about leveldb's util/: env_posix.cc and cache.cc.                *)
(* FileLocks, for any number of processes and threads: what makes          *)
(* LocksAreKept inductive is who is behind each entry of the table and     *)
(* each lock of the kernel.                                                *)
(* ReadableFiles, for any number of file objects and any limits: what      *)
(* LimitsAreKept says is inductive, each step counts in a limiter what it  *)
(* does to who has a place and who was refused one.  BackgroundWork, for   *)
(* any number of threads that call Schedule and any number of items.       *)
(* LRUCache, for any keys, shards, capacity, charges and clients: the      *)
(* invariant says what each list holds, and usage_ is a sum over a set, of *)
(* which every step is shown to take away or add what it should.           *)
(* TableCache, for any tables, threads and caches: each handle is held by  *)
(* a thread that uses it, each entry is for a file that exists, and each   *)
(* shard has cached what fits it or what threads held when the last came.  *)
(***************************************************************************)
EXTENDS FileLocks, ReadableFiles, BackgroundWork, TableCache, FiniteSetTheorems,
        WellFoundedInduction, TLAPS

Steps == {"idle", "opened", "refused", "entered", "holds", "denied", "unlocked",
          "removed", "unlink"}
\* Between its Insert and its Remove a thread is the one its process' entry stands for.
InTable(c) == pc[c] \in {"entered", "holds", "denied", "unlocked"}

LocksAreExact ==
  /\ \A c, d \in Callers : InTable(c) /\ InTable(d) /\ Proc(c) = Proc(d) => c = d
  /\ \A c \in Callers : InTable(c) => Proc(c) \in locked
  /\ \A p \in locked : \E c \in Callers : Proc(c) = p /\ InTable(c)
\* Of the kernel's locks each belongs to a thread that has it.
OwnersHold ==
  \A f \in FileIds : owner[f] # None =>
    \E c \in Callers : Proc(c) = owner[f] /\ pc[c] = "holds" /\ fd[c] = f
-----------------------------------------------------------------------------
\* A caller is a thread of its process.
LEMMA CallerOf == \A c \in Callers : Proc(c) \in Processes
BY DEF Callers, Proc

\* A thread that has a file open has one that exists.
LEMMA OpenFileExists ==
  ASSUME LocksTypeOK, NEW c \in Callers, fd[c] # 0
  PROVE  fd[c] \in FileIds
BY LocksAssumption DEF LocksTypeOK, FileIds

\* Closing keeps the types, and takes away nothing but locks of the process.
LEMMA CloseKeeps ==
  ASSUME LocksTypeOK, NEW c \in Callers, fd[c] # 0, Close(c)
  PROVE  /\ fd' = [fd EXCEPT ![c] = 0] /\ fd' \in [Callers -> 0..last]
         /\ owner' \in [FileIds -> Processes \cup {None}]
         /\ \A f \in FileIds : owner'[f] # None => owner'[f] = owner[f]
         /\ \A f \in FileIds : owner'[f] # None /\ owner'[f] = Proc(c) => f # fd[c]
BY OpenFileExists, LocksAssumption DEF Close, LocksTypeOK, FileIds

Typed == LocksTypeOK /\ pc \in [Callers -> Steps]

LEMMA TypedInit == LocksInit => Typed
BY LocksAssumption DEF LocksInit, Typed, LocksTypeOK, FileIds, Steps

LEMMA TypedStep == Typed /\ [LocksNext]_lockVars => Typed'
<1>. SUFFICES ASSUME Typed, [LocksNext]_lockVars PROVE Typed'
  OBVIOUS
<1>. USE CallerOf DEF Typed, LocksTypeOK, Goes, Steps
<1>1. ASSUME NEW c \in Callers, NEW destroy, Open(c, destroy) PROVE Typed'
  BY <1>1, LocksAssumption DEF Open
<1>2. ASSUME NEW c \in Callers, InsertLock(c) PROVE Typed'
  BY <1>2 DEF InsertLock
<1>3. ASSUME NEW c \in Callers, CloseRefused(c) PROVE Typed'
  <2>1. fd[c] # 0 /\ Close(c)
    BY <1>3 DEF CloseRefused, ClosesRefused
  <2>. QED
    BY <1>3, <2>1, CloseKeeps DEF CloseRefused
<1>4. ASSUME NEW c \in Callers, SetLock(c) PROVE Typed'
  <2>1. fd[c] \in FileIds
    BY <1>4, OpenFileExists DEF SetLock
  <2>. QED
    BY <1>4, <2>1 DEF SetLock
<1>5. ASSUME NEW c \in Callers, CloseDenied(c) PROVE Typed'
  BY <1>5, CloseKeeps DEF CloseDenied
<1>6. ASSUME NEW c \in Callers, RemoveDenied(c) PROVE Typed'
  BY <1>6 DEF RemoveDenied, Removed
<1>7. ASSUME NEW c \in Callers, Unlock(c) PROVE Typed'
  BY <1>7 DEF Unlock
<1>8. ASSUME NEW c \in Callers, RemoveLock(c) PROVE Typed'
  BY <1>8 DEF RemoveLock, Removed
<1>9. ASSUME NEW c \in Callers, CloseUnlocked(c) PROVE Typed'
  <2>1. fd[c] # 0 /\ Close(c)
    BY <1>9 DEF CloseUnlocked
  <2>. QED
    BY <1>9, <2>1, CloseKeeps DEF CloseUnlocked
<1>10. ASSUME NEW c \in Callers, Unlink(c) PROVE Typed'
  BY <1>10 DEF Unlink
<1>11. ASSUME NEW p \in Processes, Exit(p) PROVE Typed'
  BY <1>11 DEF Exit
<1>12. ASSUME UNCHANGED lockVars PROVE Typed'
  BY <1>12 DEF lockVars
<1>. QED
  BY <1>1, <1>2, <1>3, <1>4, <1>5, <1>6, <1>7, <1>8, <1>9, <1>10, <1>11, <1>12
     DEF LocksNext

\* Steps of a thread that neither enter nor leave the table.
LEMMA TableStays ==
  ASSUME LocksAreExact, locked' = locked,
         \A c \in Callers : InTable(c)' <=> InTable(c)
  PROVE  LocksAreExact'
BY DEF LocksAreExact

\* A step that takes the process' thread and the process' entry off the table.
LEMMA TableLeaves ==
  ASSUME LocksAreExact, NEW c \in Callers, InTable(c), locked' = locked \ {Proc(c)},
         \A d \in Callers : InTable(d)' <=> InTable(d) /\ d # c
  PROVE  LocksAreExact'
BY DEF LocksAreExact

LEMMA TableStep ==
  Typed /\ LocksAreExact /\ [LocksNext]_lockVars => LocksAreExact'
<1>. SUFFICES ASSUME Typed, LocksAreExact, [LocksNext]_lockVars PROVE LocksAreExact'
  OBVIOUS
<1>. USE DEF Typed, Goes, InTable
<1>1. ASSUME NEW c \in Callers, InsertLock(c) PROVE LocksAreExact'
  <2>1. CASE Proc(c) \in locked
    <3>1. locked' = locked /\ \A d \in Callers : InTable(d)' <=> InTable(d)
      BY <1>1, <2>1 DEF InsertLock, Inserts
    <3>. QED
      BY <3>1, TableStays
  <2>2. CASE Proc(c) \notin locked
    BY <1>1, <2>2 DEF InsertLock, Inserts, LocksAreExact
  <2>. QED
    BY <2>1, <2>2
<1>2. ASSUME NEW c \in Callers, RemoveDenied(c) \/ RemoveLock(c) PROVE LocksAreExact'
  <2>1. InTable(c) /\ locked' = locked \ {Proc(c)}
    BY <1>2 DEF RemoveDenied, RemoveLock, Removed
  <2>2. \A d \in Callers : InTable(d)' <=> InTable(d) /\ d # c
    BY <1>2 DEF RemoveDenied, RemoveLock
  <2>. QED
    BY <2>1, <2>2, TableLeaves DEF InTable
<1>3. ASSUME NEW c \in Callers, NEW destroy,
             \/ Open(c, destroy) \/ CloseRefused(c) \/ SetLock(c) \/ CloseDenied(c)
             \/ Unlock(c) \/ CloseUnlocked(c) \/ Unlink(c)
      PROVE  LocksAreExact'
  <2>1. locked' = locked
    BY <1>3 DEF Open, CloseRefused, SetLock, CloseDenied, Unlock, CloseUnlocked, Unlink
  <2>2. \A d \in Callers : InTable(d)' <=> InTable(d)
    BY <1>3 DEF Open, CloseRefused, SetLock, CloseDenied, Unlock, CloseUnlocked, Unlink
  <2>. QED
    BY <2>1, <2>2, TableStays
<1>4. ASSUME NEW p \in Processes, Exit(p) PROVE LocksAreExact'
  BY <1>4 DEF Exit, LocksAreExact
<1>5. ASSUME UNCHANGED lockVars PROVE LocksAreExact'
  BY <1>5 DEF lockVars, LocksAreExact
<1>. QED
  BY <1>1, <1>2, <1>3, <1>4, <1>5 DEF LocksNext

LEMMA OwnersStep ==
  Typed /\ LocksAreExact /\ OwnersHold /\ [LocksNext]_lockVars => OwnersHold'
<1>. SUFFICES ASSUME Typed, LocksAreExact, OwnersHold, [LocksNext]_lockVars
              PROVE  OwnersHold'
  OBVIOUS
<1>. USE CallerOf DEF Typed, Goes
<1>1. ASSUME NEW c \in Callers, NEW destroy,
             \/ Open(c, destroy) \/ InsertLock(c) \/ RemoveDenied(c) \/ RemoveLock(c) \/ Unlink(c)
      PROVE  OwnersHold'
  <2>1. owner' = owner /\ pc[c] # "holds"
    BY <1>1 DEF Open, InsertLock, RemoveDenied, RemoveLock, Unlink
  <2>2. \A d \in Callers \ {c} : pc'[d] = pc[d] /\ fd'[d] = fd[d]
    BY <1>1 DEF Open, InsertLock, RemoveDenied, RemoveLock, Unlink, LocksTypeOK
  <2>. QED
    BY <2>1, <2>2 DEF OwnersHold
<1>2. ASSUME NEW c \in Callers, CloseRefused(c) \/ CloseDenied(c) \/ CloseUnlocked(c)
      PROVE  OwnersHold'
  <2>1. Close(c) /\ fd[c] # 0 /\ pc[c] # "holds" /\ \A d \in Callers \ {c} : pc'[d] = pc[d]
    BY <1>2 DEF CloseRefused, ClosesRefused, CloseDenied, CloseUnlocked, LocksTypeOK
  <2>2. \A d \in Callers \ {c} : fd'[d] = fd[d]
    BY <2>1, CloseKeeps
  <2>. QED
    BY <2>1, <2>2, CloseKeeps DEF OwnersHold
<1>3. ASSUME NEW c \in Callers, SetLock(c) PROVE OwnersHold'
  <2>1. fd[c] \in FileIds /\ pc[c] = "entered" /\ fd' = fd
    BY <1>3, OpenFileExists DEF SetLock, LocksTypeOK
  <2>2. \A d \in Callers \ {c} : pc'[d] = pc[d]
    BY <1>3 DEF SetLock
  <2>3. CASE Grants(c)
    <3>1. owner' = [owner EXCEPT ![fd[c]] = Proc(c)] /\ pc'[c] = "holds"
      BY <1>3, <2>3 DEF SetLock
    <3>. QED
      BY <2>1, <2>2, <3>1 DEF OwnersHold, LocksTypeOK
  <2>4. CASE ~Grants(c)
    BY <1>3, <2>1, <2>2, <2>4 DEF SetLock, OwnersHold
  <2>. QED
    BY <2>3, <2>4
<1>4. ASSUME NEW c \in Callers, Unlock(c) PROVE OwnersHold'
  <2>1. pc[c] = "holds" /\ fd' = fd /\ \A d \in Callers \ {c} : pc'[d] = pc[d]
    BY <1>4 DEF Unlock
  <2>2. fd[c] \in FileIds
    BY <2>1, OpenFileExists DEF LocksTypeOK
  <2>3. \A f \in FileIds : owner'[f] # None => owner'[f] = owner[f] /\ owner[f] # Proc(c)
    <3>1. \A f \in FileIds : owner[f] = Proc(c) => f = fd[c]
      BY <2>1, LocksAssumption DEF OwnersHold, LocksAreExact, InTable
    <3>. QED
      BY <1>4, <2>2, <3>1 DEF Unlock, LocksTypeOK
  <2>. QED
    BY <2>1, <2>3 DEF OwnersHold
<1>5. ASSUME NEW p \in Processes, Exit(p) PROVE OwnersHold'
  BY <1>5, LocksAssumption DEF Exit, OwnersHold, LocksTypeOK
<1>6. ASSUME UNCHANGED lockVars PROVE OwnersHold'
  BY <1>6 DEF lockVars, OwnersHold
<1>. QED
  BY <1>1, <1>2, <1>3, <1>4, <1>5, <1>6 DEF LocksNext
-----------------------------------------------------------------------------
\* One thread of a process has the lock at a time (PosixLockTable), and when no thread of
\* it has the lock or is on the way to it, neither the table nor the kernel keeps anyone out.
THEOREM TheLocksAreKept == LocksSpec => []LocksAreKept
<1>1. LocksInit => Typed /\ LocksAreExact /\ OwnersHold
  BY TypedInit DEF LocksInit, LocksAreExact, InTable, OwnersHold
<1>2. Typed /\ LocksAreExact /\ OwnersHold => LocksAreKept
  <2>. SUFFICES ASSUME Typed, LocksAreExact, OwnersHold PROVE LocksAreKept
    OBVIOUS
  <2>1. OnePerProcess
    BY DEF OnePerProcess, Holders, LocksAreExact, InTable
  <2>2. NothingLeftLocked
    <3>. SUFFICES ASSUME NEW p \in Processes,
                         \A t \in Threads : pc[<<p, t>>] \in {"idle", "unlink", "opened"}
                  PROVE  p \notin locked /\ \A f \in FileIds : owner[f] # p
      BY DEF NothingLeftLocked
    <3>1. \A c \in Callers : Proc(c) = p => pc[c] \in {"idle", "unlink", "opened"}
      BY DEF Callers, Proc
    <3>. QED
      BY <3>1, LocksAssumption DEF LocksAreExact, InTable, OwnersHold
  <2>. QED
    BY <2>1, <2>2 DEF LocksAreKept, Typed
<1>. QED
  BY <1>1, <1>2, TypedStep, TableStep, OwnersStep, PTL DEF LocksSpec
-----------------------------------------------------------------------------
(***************************************************************************)
(* Processes exclude each other as long as LOCK stands for one file and a  *)
(* process does not close a second descriptor of it: no DestroyDB, and one *)
(* thread that calls LockFile.  Without either the runs find two holders.  *)
(***************************************************************************)
OneFile ==
  /\ named = last
  /\ \A c \in Callers : ~destroys[c] /\ pc[c] # "unlink" /\ fd[c] \in {0, named}
\* Who has the lock has the kernel's.
HoldersOwn == \A c \in Holders : owner[fd[c]] = Proc(c)

LEMMA OneFileStep ==
  ASSUME MayDestroy = FALSE
  PROVE  Typed /\ OneFile /\ [LocksNext]_lockVars => OneFile'
<1>. SUFFICES ASSUME Typed, OneFile, [LocksNext]_lockVars PROVE OneFile'
  OBVIOUS
<1>. USE DEF Typed, LocksTypeOK, OneFile, Goes
<1>1. ASSUME NEW c \in Callers, Open(c, FALSE) PROVE OneFile'
  BY <1>1 DEF Open
<1>2. ASSUME NEW c \in Callers,
             \/ InsertLock(c) \/ SetLock(c) \/ RemoveDenied(c) \/ Unlock(c) \/ RemoveLock(c) \/ Unlink(c)
      PROVE  OneFile'
  BY <1>2 DEF InsertLock, SetLock, RemoveDenied, Unlock, RemoveLock, Unlink
<1>3. ASSUME NEW c \in Callers, CloseRefused(c) \/ CloseDenied(c) \/ CloseUnlocked(c)
      PROVE  OneFile'
  BY <1>3 DEF CloseRefused, ClosesRefused, CloseDenied, CloseUnlocked, Close
<1>4. ASSUME NEW p \in Processes, Exit(p) PROVE OneFile'
  BY <1>4 DEF Exit
<1>5. ASSUME UNCHANGED lockVars PROVE OneFile'
  BY <1>5 DEF lockVars
<1>. QED
  BY <1>1, <1>2, <1>3, <1>4, <1>5 DEF LocksNext

LEMMA HoldersStep ==
  ASSUME \A s, t \in Threads : s = t
  PROVE  Typed /\ HoldersOwn /\ [LocksNext]_lockVars => HoldersOwn'
<1>. SUFFICES ASSUME Typed, HoldersOwn, [LocksNext]_lockVars PROVE HoldersOwn'
  OBVIOUS
<1>. USE DEF Typed, LocksTypeOK, HoldersOwn, Holders, Goes
<1>1. \A c, d \in Callers : Proc(c) = Proc(d) => c = d
  BY DEF Callers, Proc
<1>2. \A c \in Holders : fd[c] \in FileIds
  BY OpenFileExists
<1>3. ASSUME NEW c \in Callers, NEW destroy,
             \/ Open(c, destroy) \/ InsertLock(c) \/ RemoveDenied(c) \/ RemoveLock(c) \/ Unlink(c)
      PROVE  HoldersOwn'
  BY <1>3 DEF Open, InsertLock, RemoveDenied, RemoveLock, Unlink
<1>4. ASSUME NEW c \in Callers, CloseRefused(c) \/ CloseDenied(c) \/ CloseUnlocked(c)
      PROVE  HoldersOwn'
  <2>1. /\ Close(c) /\ pc[c] # "holds" /\ pc'[c] # "holds"
        /\ \A d \in Callers \ {c} : pc'[d] = pc[d]
    BY <1>4 DEF CloseRefused, ClosesRefused, CloseDenied, CloseUnlocked
  <2>2. \A d \in Callers \ {c} : fd'[d] = fd[d]
    BY <2>1 DEF Close
  <2>3. \A d \in Holders : d # c /\ owner'[fd[d]] = owner[fd[d]]
    BY <1>1, <1>2, <2>1 DEF Close
  <2>. QED
    BY <2>1, <2>2, <2>3
<1>5. ASSUME NEW c \in Callers, SetLock(c) PROVE HoldersOwn'
  <2>1. fd[c] \in FileIds
    BY <1>5, OpenFileExists DEF SetLock
  <2>2. \A d \in Holders : d # c /\ Proc(d) # Proc(c)
    BY <1>1, <1>5 DEF SetLock
  <2>3. \A d \in Holders : Grants(c) => fd[d] # fd[c]
    BY <2>2, CallerOf, LocksAssumption DEF Grants
  <2>. QED
    BY <1>2, <1>5, <2>1, <2>2, <2>3 DEF SetLock
<1>6. ASSUME NEW c \in Callers, Unlock(c) PROVE HoldersOwn'
  BY <1>1, <1>2, <1>6 DEF Unlock
<1>7. ASSUME NEW p \in Processes, Exit(p) PROVE HoldersOwn'
  BY <1>2, <1>7 DEF Exit
<1>8. ASSUME UNCHANGED lockVars PROVE HoldersOwn'
  BY <1>8 DEF lockVars
<1>. QED
  BY <1>3, <1>4, <1>5, <1>6, <1>7, <1>8 DEF LocksNext

\* env.h on LockFile: "Used to prevent concurrent access to the same db by multiple
\* processes".
THEOREM ProcessesExclude ==
  ASSUME MayDestroy = FALSE, \A s, t \in Threads : s = t
  PROVE  LocksSpec => []OneProcess
<1>1. LocksInit => Typed /\ OneFile /\ HoldersOwn
  BY TypedInit DEF LocksInit, OneFile, HoldersOwn, Holders
<1>2. Typed /\ OneFile /\ HoldersOwn => OneProcess
  BY DEF OneProcess, Holders, HoldersOwn, OneFile, Typed, LocksTypeOK
<1>. QED
  BY <1>1, <1>2, TypedStep, OneFileStep, HoldersStep, PTL DEF LocksSpec
-----------------------------------------------------------------------------

\* What LimiterIsExact says of one limiter.
Exact(l) ==
  /\ Cardinality(Holding(l)) <= MaxAcquires[l]
  /\ allowed[l] = MaxAcquires[l] - Cardinality(Holding(l)) - Cardinality(Refused(l))
\* Each object has the descriptor its state calls for.
Descriptors ==
  \A f \in Files :
    /\ fds[f] = IF at[f] \in {"none", "transient", "mapped", "failed", "shut"} THEN 0 ELSE 1
    /\ f \in regions => at[f] = "mapped"
-----------------------------------------------------------------------------
LEMMA Finite ==
  ASSUME NEW l \in Limiters
  PROVE  /\ IsFiniteSet(Holding(l)) /\ IsFiniteSet(Refused(l))
         /\ Cardinality(Holding(l)) \in Nat /\ Cardinality(Refused(l)) \in Nat
         /\ MaxAcquires[l] \in Nat
<1>1. Holding(l) \subseteq Files /\ Refused(l) \subseteq Files
  BY DEF Holding, Refused
<1>2. IsFiniteSet(Holding(l)) /\ IsFiniteSet(Refused(l))
  BY <1>1, FS_Subset, LimitsAssumption
<1>. QED
  BY <1>2, FS_CardinalityType, LimitsAssumption DEF MaxAcquires, Limiters

\* The five things a step can do to a limiter: nothing, a place given or refused, a place
\* that comes back, and the subtraction of a refused thread taken back.
Untouched(l) == UNCHANGED <<Holding(l), Refused(l), allowed[l]>>
Given(f, l) ==
  /\ allowed[l] > 0 /\ allowed'[l] = allowed[l] - 1
  /\ f \notin Holding(l) /\ Holding(l)' = Holding(l) \cup {f} /\ Refused(l)' = Refused(l)
Denied(f, l) ==
  /\ allowed'[l] = allowed[l] - 1
  /\ f \notin Refused(l) /\ Refused(l)' = Refused(l) \cup {f} /\ Holding(l)' = Holding(l)
Returned(f, l) ==
  /\ allowed'[l] = allowed[l] + 1
  /\ f \in Holding(l) /\ Holding(l)' = Holding(l) \ {f} /\ Refused(l)' = Refused(l)
TakenBack(f, l) ==
  /\ allowed'[l] = allowed[l] + 1
  /\ f \in Refused(l) /\ Refused(l)' = Refused(l) \ {f} /\ Holding(l)' = Holding(l)

\* The count stays exact whichever of them it is.
LEMMA Counts ==
  ASSUME FilesTypeOK, NEW f \in Files, NEW l \in Limiters, Exact(l),
         \/ Untouched(l) \/ Given(f, l) \/ Denied(f, l) \/ Returned(f, l) \/ TakenBack(f, l)
  PROVE  Exact(l)'
<1>. USE Finite DEF Exact, FilesTypeOK
<1>1. CASE Untouched(l)
  BY <1>1 DEF Untouched
<1>2. CASE Given(f, l)
  <2>1. Cardinality(Holding(l)') = Cardinality(Holding(l)) + 1
    BY <1>2, FS_AddElement DEF Given
  <2>. QED
    BY <1>2, <2>1 DEF Given
<1>3. CASE Denied(f, l)
  <2>1. Cardinality(Refused(l)') = Cardinality(Refused(l)) + 1
    BY <1>3, FS_AddElement DEF Denied
  <2>. QED
    BY <1>3, <2>1 DEF Denied
<1>4. CASE Returned(f, l)
  <2>1. Cardinality(Holding(l)') = Cardinality(Holding(l)) - 1
    BY <1>4, FS_RemoveElement DEF Returned
  <2>. QED
    BY <1>4, <2>1 DEF Returned
<1>5. CASE TakenBack(f, l)
  <2>1. Cardinality(Refused(l)') = Cardinality(Refused(l)) - 1
    BY <1>5, FS_RemoveElement DEF TakenBack
  <2>. QED
    BY <1>5, <2>1 DEF TakenBack
<1>. QED
  BY <1>1, <1>2, <1>3, <1>4, <1>5

LEMMA CountsDownAndUp ==
  ASSUME NEW S, NEW g \in [S -> Int], NEW l \in S
  PROVE  [g EXCEPT ![l] = @ - 1] \in [S -> Int] /\ [g EXCEPT ![l] = @ + 1] \in [S -> Int]
<1>1. g[l] \in Int
  OBVIOUS
<1>2. g[l] - 1 \in Int /\ g[l] + 1 \in Int
  BY <1>1
<1>3. \A n \in Int : [g EXCEPT ![l] = n] \in [S -> Int]
  OBVIOUS
<1>. QED
  BY <1>2, <1>3

LEMMA TypesKept == FilesTypeOK /\ [LimitsNext]_limitVars => FilesTypeOK'
<1>. SUFFICES ASSUME FilesTypeOK, [LimitsNext]_limitVars PROVE FilesTypeOK'
  OBVIOUS
<1>. USE DEF FilesTypeOK, Places, Maps
<1>5. \A l \in Limiters : /\ [allowed EXCEPT ![l] = @ - 1] \in [Limiters -> Int]
                          /\ [allowed EXCEPT ![l] = @ + 1] \in [Limiters -> Int]
  BY CountsDownAndUp
<1>6. "mmap" \in Limiters /\ "fd" \in Limiters
  BY DEF Limiters
<1>1. ASSUME NEW f \in Files,
             AcquireMap(f) \/ RefusedMap(f) \/ AcquireFd(f) \/ RefusedFd(f)
      PROVE  FilesTypeOK'
  <2>1. allowed' \in [Limiters -> Int]
    <3>1. \E l \in Limiters : \/ allowed' = [allowed EXCEPT ![l] = @ - 1]
                             \/ allowed' = [allowed EXCEPT ![l] = @ + 1]
      BY <1>1, <1>6 DEF AcquireMap, RefusedMap, AcquireFd, RefusedFd, FetchSub, PutBack
    <3> QED
      BY <3>1, <1>5
  <2>2. at' \in [Files -> Places] /\ fds' \in [Files -> {0, 1}] /\ regions' = regions
    BY <1>1 DEF AcquireMap, RefusedMap, AcquireFd, RefusedFd, FetchSub
  <2>. QED
    BY <2>1, <2>2
<1>2. ASSUME NEW f \in Files, FailedMap(f) \/ ReleaseMap(f) \/ ReleaseFd(f)
      PROVE  FilesTypeOK'
  <2>1. allowed' \in [Limiters -> Int]
    BY <1>2, <1>5, <1>6 DEF FailedMap, ReleaseMap, ReleaseFd, FetchAdd
  <2>2. at' \in [Files -> Places] /\ fds' = fds /\ regions' = regions
    BY <1>2 DEF FailedMap, ReleaseMap, ReleaseFd
  <2>. QED
    BY <2>1, <2>2
<1>3. ASSUME NEW f \in Files,
             \/ OpenFile(f) \/ Map(f) \/ CannotMap(f) \/ BeginRead(f) \/ EndRead(f)
             \/ Unmap(f) \/ CloseFd(f) \/ Drop(f)
      PROVE  FilesTypeOK'
  BY <1>3 DEF OpenFile, Map, CannotMap, BeginRead, EndRead, Unmap, CloseFd, Drop
<1>4. ASSUME UNCHANGED limitVars PROVE FilesTypeOK'
  BY <1>4 DEF limitVars
<1>. QED
  BY <1>1, <1>2, <1>3, <1>4 DEF LimitsNext

LEMMA DescriptorsKept ==
  FilesTypeOK /\ Descriptors /\ [LimitsNext]_limitVars => Descriptors'
<1>. SUFFICES ASSUME FilesTypeOK, Descriptors, [LimitsNext]_limitVars PROVE Descriptors'
  OBVIOUS
<1>. USE DEF FilesTypeOK, Descriptors
<1>1. ASSUME NEW f \in Files,
             \/ AcquireMap(f) \/ RefusedMap(f) \/ AcquireFd(f) \/ RefusedFd(f)
             \/ FailedMap(f) \/ ReleaseMap(f) \/ ReleaseFd(f) \/ Drop(f)
      PROVE  Descriptors'
  BY <1>1 DEF AcquireMap, RefusedMap, AcquireFd, RefusedFd, FetchSub, FailedMap,
              ReleaseMap, ReleaseFd, Drop
<1>2. ASSUME NEW f \in Files,
             \/ OpenFile(f) \/ Map(f) \/ CannotMap(f) \/ BeginRead(f) \/ EndRead(f)
             \/ Unmap(f) \/ CloseFd(f)
      PROVE  Descriptors'
  BY <1>2 DEF OpenFile, Map, CannotMap, BeginRead, EndRead, Unmap, CloseFd
<1>3. ASSUME UNCHANGED limitVars PROVE Descriptors'
  BY <1>3 DEF limitVars
<1>. QED
  BY <1>1, <1>2, <1>3 DEF LimitsNext

\* What each step does to each limiter.
LEMMA StepOfLimiter ==
  ASSUME FilesTypeOK, NEW l \in Limiters, NEW f \in Files,
         \/ OpenFile(f) \/ AcquireMap(f) \/ RefusedMap(f) \/ Map(f) \/ CannotMap(f)
         \/ FailedMap(f) \/ AcquireFd(f) \/ RefusedFd(f) \/ BeginRead(f) \/ EndRead(f)
         \/ Unmap(f) \/ ReleaseMap(f) \/ CloseFd(f) \/ ReleaseFd(f) \/ Drop(f)
  PROVE  \/ Untouched(l) \/ Given(f, l) \/ Denied(f, l) \/ Returned(f, l) \/ TakenBack(f, l)
<1>. USE DEF FilesTypeOK, Limiters, Holding, Refused, Maps
<1>1. CASE AcquireMap(f)
  <2>1. CASE l = "mmap" /\ allowed["mmap"] > 0
    BY <1>1, <2>1 DEF AcquireMap, FetchSub, Allows, Given
  <2>2. CASE l = "mmap" /\ ~(allowed["mmap"] > 0)
    BY <1>1, <2>2 DEF AcquireMap, FetchSub, Allows, Denied
  <2>3. CASE l = "fd"
    BY <1>1, <2>3 DEF AcquireMap, FetchSub, Untouched
  <2>. QED
    BY <2>1, <2>2, <2>3
<1>2. CASE AcquireFd(f)
  <2>1. CASE l = "fd" /\ allowed["fd"] > 0
    BY <1>2, <2>1 DEF AcquireFd, FetchSub, Allows, Given
  <2>2. CASE l = "fd" /\ ~(allowed["fd"] > 0)
    BY <1>2, <2>2 DEF AcquireFd, FetchSub, Allows, Denied
  <2>3. CASE l = "mmap"
    BY <1>2, <2>3 DEF AcquireFd, FetchSub, Untouched
  <2>. QED
    BY <2>1, <2>2, <2>3
<1>3. CASE RefusedMap(f)
  BY <1>3 DEF RefusedMap, PutBack, TakenBack, Untouched
<1>4. CASE RefusedFd(f)
  BY <1>4 DEF RefusedFd, PutBack, TakenBack, Untouched
<1>5. CASE FailedMap(f) \/ ReleaseMap(f)
  BY <1>5 DEF FailedMap, ReleaseMap, FetchAdd, Returned, Untouched
<1>6. CASE ReleaseFd(f)
  BY <1>6 DEF ReleaseFd, FetchAdd, Returned, Untouched
<1>7. CASE \/ OpenFile(f) \/ Map(f) \/ CannotMap(f) \/ BeginRead(f) \/ EndRead(f)
           \/ Unmap(f) \/ CloseFd(f) \/ Drop(f)
  BY <1>7 DEF OpenFile, Map, CannotMap, BeginRead, EndRead, Unmap, CloseFd, Drop, Untouched
<1>. QED
  BY <1>1, <1>2, <1>3, <1>4, <1>5, <1>6, <1>7

LEMMA ExactKept ==
  FilesTypeOK /\ LimiterIsExact /\ [LimitsNext]_limitVars => LimiterIsExact'
<1>. SUFFICES ASSUME FilesTypeOK, NEW l \in Limiters, Exact(l), [LimitsNext]_limitVars
              PROVE  Exact(l)'
  BY DEF LimiterIsExact, Exact
<1>1. CASE LimitsNext
  BY <1>1, StepOfLimiter, Counts DEF LimitsNext
<1>2. CASE UNCHANGED limitVars
  BY <1>2 DEF limitVars, Exact, Holding, Refused
<1>. QED
  BY <1>1, <1>2
-----------------------------------------------------------------------------
LEMMA LimitsBegin == LimitsInit => FilesTypeOK /\ LimiterIsExact /\ Descriptors
<1>. SUFFICES ASSUME LimitsInit PROVE FilesTypeOK /\ LimiterIsExact /\ Descriptors
  OBVIOUS
<1>1. FilesTypeOK /\ Descriptors
  BY LimitsAssumption
  DEF LimitsInit, FilesTypeOK, Descriptors, Limiters, MaxAcquires, Places
<1>2. \A l \in Limiters : Holding(l) = {} /\ Refused(l) = {}
  BY DEF LimitsInit, Holding, Refused, Maps
<1>3. LimiterIsExact
  BY <1>2, Finite, FS_EmptySet DEF LimitsInit, LimiterIsExact
<1>. QED
  BY <1>1, <1>3

LEMMA NoLeakFollows == FilesTypeOK /\ LimiterIsExact /\ Descriptors => NoLeak
<1>. SUFFICES ASSUME FilesTypeOK, LimiterIsExact, Descriptors PROVE NoLeak
  OBVIOUS
<1>1. "mmap" \in Limiters /\ MaxAcquires["mmap"] = MmapLimit
  BY DEF Limiters, MaxAcquires
<1>2. regions \subseteq Holding("mmap")
  BY DEF FilesTypeOK, Descriptors, Holding, Maps
<1>3. IsFiniteSet(Holding("mmap")) /\ Cardinality(Holding("mmap")) \in Nat
  BY <1>1, Finite
<1>4. /\ Cardinality(regions) <= Cardinality(Holding("mmap"))
      /\ Cardinality(regions) \in Nat
  BY <1>2, <1>3, FS_Subset, FS_CardinalityType
<1>5. Cardinality(Holding("mmap")) <= MmapLimit
  BY <1>1 DEF LimiterIsExact
<1>6. Cardinality(regions) <= MmapLimit
  BY <1>3, <1>4, <1>5, LimitsAssumption
<1>. QED
  BY <1>6 DEF NoLeak, Descriptors

\* Whatever the threads do at once, no limiter gives a place too many or loses one, and no
\* descriptor or mapping outlives its object (Limiter, NewRandomAccessFile).
THEOREM TheLimitsAreKept == LimitsSpec => []LimitsAreKept
<1>1. FilesTypeOK /\ LimiterIsExact /\ Descriptors => LimitsAreKept
  BY NoLeakFollows DEF LimitsAreKept
<1>. QED
  BY <1>1, LimitsBegin, TypesKept, ExactKept, DescriptorsKept, PTL DEF LimitsSpec

\* Who holds a place of a limiter changes as the owners of a Pool do: the fetch_sub and the
\* fetch_add are one step of it, and the steps between them are none.
LEMMA PoolStep ==
  ASSUME FilesTypeOK, LimiterIsExact, NEW l \in Limiters, NEW f \in Files,
         Untouched(l) \/ Given(f, l) \/ Denied(f, l) \/ Returned(f, l) \/ TakenBack(f, l)
  PROVE  \/ Holding(l)' = Holding(l)
         \/ /\ f \notin Holding(l) /\ Cardinality(Holding(l)) < MaxAcquires[l]
            /\ Holding(l)' = Holding(l) \cup {f}
         \/ f \in Holding(l) /\ Holding(l)' = Holding(l) \ {f}
<1>1. CASE Given(f, l)
  <2>1. Cardinality(Holding(l)) < MaxAcquires[l]
    BY <1>1, Finite DEF Given, LimiterIsExact
  <2>. QED
    BY <1>1, <2>1 DEF Given
<1>. QED
  BY <1>1 DEF Untouched, Denied, Returned, TakenBack

\* Each limiter is a pool of as many places as its limit.
THEOREM LimitersArePools == LimitsSpec => IsMmapPool /\ IsFdPool
<1>1. LimitsInit => MmapPool!Init /\ FdPool!Init
  BY DEF LimitsInit, MmapPool!Init, FdPool!Init, Holding, Maps
<1>2. FilesTypeOK /\ LimiterIsExact /\ [LimitsNext]_limitVars
        => [MmapPool!Next]_(Holding("mmap")) /\ [FdPool!Next]_(Holding("fd"))
  <2>. SUFFICES ASSUME FilesTypeOK, LimiterIsExact, [LimitsNext]_limitVars
                PROVE  [MmapPool!Next]_(Holding("mmap")) /\ [FdPool!Next]_(Holding("fd"))
    OBVIOUS
  <2>1. CASE UNCHANGED limitVars
    BY <2>1 DEF limitVars, Holding
  <2>2. CASE LimitsNext
    <3>1. PICK f \in Files :
            \/ OpenFile(f) \/ AcquireMap(f) \/ RefusedMap(f) \/ Map(f) \/ CannotMap(f)
            \/ FailedMap(f) \/ AcquireFd(f) \/ RefusedFd(f) \/ BeginRead(f) \/ EndRead(f)
            \/ Unmap(f) \/ ReleaseMap(f) \/ CloseFd(f) \/ ReleaseFd(f) \/ Drop(f)
      BY <2>2 DEF LimitsNext
    <3>2. /\ "mmap" \in Limiters /\ MaxAcquires["mmap"] = MmapLimit
          /\ "fd" \in Limiters /\ MaxAcquires["fd"] = FdLimit
      BY DEF Limiters, MaxAcquires
    <3>3. \/ Holding("mmap")' = Holding("mmap")
          \/ /\ f \notin Holding("mmap") /\ Cardinality(Holding("mmap")) < MmapLimit
             /\ Holding("mmap")' = Holding("mmap") \cup {f}
          \/ f \in Holding("mmap") /\ Holding("mmap")' = Holding("mmap") \ {f}
      BY <3>1, <3>2, StepOfLimiter, PoolStep
    <3>4. \/ Holding("fd")' = Holding("fd")
          \/ /\ f \notin Holding("fd") /\ Cardinality(Holding("fd")) < FdLimit
             /\ Holding("fd")' = Holding("fd") \cup {f}
          \/ f \in Holding("fd") /\ Holding("fd")' = Holding("fd") \ {f}
      BY <3>1, <3>2, StepOfLimiter, PoolStep
    <3>5. \A S : MmapPool!Cardinality(S) = Cardinality(S) /\ FdPool!Cardinality(S) = Cardinality(S)
      BY Zenon DEF MmapPool!Cardinality, FdPool!Cardinality, Cardinality
    <3>6. [MmapPool!Next]_(Holding("mmap")) /\ [FdPool!Next]_(Holding("fd"))
      BY <3>3, <3>4, <3>5
      DEF MmapPool!Next, MmapPool!Acquire, MmapPool!Release,
          FdPool!Next, FdPool!Acquire, FdPool!Release
    <3>. QED
      BY <3>6
  <2>. QED
    BY <2>1, <2>2
<1>3. LimitsSpec => [](FilesTypeOK /\ LimiterIsExact)
  BY LimitsBegin, TypesKept, ExactKept, PTL DEF LimitsSpec
<1>. QED
  BY <1>1, <1>2, <1>3, PTL DEF LimitsSpec, IsMmapPool, IsFdPool, MmapPool!Spec, FdPool!Spec
-----------------------------------------------------------------------------
(***************************************************************************)
(* What NotAsleep rests on.  The worker holds an item from Take to Return, *)
(* calls of Schedule included; it is not running before the first call.    *)
(* Between the signal and emplace the caller keeps the mutex, so that a    *)
(* worker that waits then has been signaled.                               *)
(***************************************************************************)
WorkInv ==
  /\ WorkTypeOK /\ NotAsleep
  /\ workPc["worker"] # "idle" /\ \A c \in Schedulers : workPc[c] \in {"idle"} \cup InCall
  /\ started \/ workPc["worker"] = "unborn"
  /\ IF workPc["worker"] \in {"run"} \cup InCall THEN \E i \in 1..MaxItems : current = <<i>>
     ELSE current = <<>>
  /\ \A a \in Actors : workPc[a] = "emplace" /\ workPc["worker"] = "wait" => signaled
  /\ \A a \in Actors : workPc[a] \in InCall => next <= MaxItems

\* Taking what is at the front of a queue.
LEMMA TakesOldest ==
  ASSUME NEW q \in Seq(1..MaxItems), q # <<>>
  PROVE  /\ q[1] \in 1..MaxItems /\ Head(q) = q[1] /\ Tail(q) \in Seq(1..MaxItems)
         /\ SubSeq(q, 1, 0) \o SubSeq(q, 2, Len(q)) = Tail(q)
BY WorkAssumption

LEMMA WorkInvInit == WorkInit => WorkInv
<1>. SUFFICES ASSUME WorkInit PROVE WorkInv
  OBVIOUS
<1>. USE WorkAssumption DEF WorkInit, Actors, InCall
<1>1. \A a \in Schedulers : a # "worker" /\ workPc[a] = "idle"
  OBVIOUS
<1>2. workPc["worker"] = "unborn"
  OBVIOUS
<1>3. WorkTypeOK
  <2>1. \A a \in Actors : workPc[a] \in {"unborn", "idle"}
    BY <1>1, <1>2
  <2>2. <<>> \in Seq(1..MaxItems) /\ 1 \in 1..(MaxItems + 1)
    OBVIOUS
  <2>. QED
    BY <2>1, <2>2 DEF WorkTypeOK
<1>. QED
  BY <1>1, <1>2, <1>3 DEF WorkInv, NotAsleep

LEMMA WorkInvStep == WorkInv /\ [WorkNext]_workVars => WorkInv'
<1>. SUFFICES ASSUME WorkInv, [WorkNext]_workVars PROVE WorkInv'
  OBVIOUS
<1>. USE WorkAssumption DEF WorkInv, WorkTypeOK, NotAsleep, Actors, InCall
<1>1. ASSUME NEW a \in Actors, Lock(a) PROVE WorkInv'
  <2>1. CASE a = "worker"
    <3>1. /\ workPc' = [workPc EXCEPT !["worker"] = "locked"] /\ workPc["worker"] = "run"
          /\ mutex' = "worker"
      BY <1>1, <2>1 DEF Lock, WorkGoes
    <3>2. \A b \in Schedulers : workPc'[b] = workPc[b] /\ workPc[b] = "idle"
      BY <1>1, <3>1 DEF Lock
    <3>3. workPc'["worker"] = "locked"
      BY <3>1
    <3>. QED
      BY <1>1, <2>1, <3>1, <3>2, <3>3 DEF Lock
  <2>2. CASE a \in Schedulers
    <3>1. workPc["worker"] \notin InCall \cup {"check"} /\ workPc'["worker"] = workPc["worker"]
      BY <1>1, <2>2 DEF Lock, WorkGoes
    <3>2. \A b \in Schedulers : workPc'[b] = IF b = a THEN "locked" ELSE workPc[b]
      BY <1>1, <2>2 DEF Lock, WorkGoes
    <3>3. \A b \in Schedulers : b = a \/ workPc[b] = "idle"
      BY <1>1 DEF Lock
    <3>4. workPc' \in [Actors -> {"unborn", "idle", "main", "check", "wait", "run"} \cup InCall]
      BY <1>1 DEF Lock, WorkGoes
    <3>. QED
      BY <1>1, <2>2, <3>1, <3>2, <3>3, <3>4 DEF Lock
  <2>. QED
    BY <2>1, <2>2
<1>2. ASSUME NEW a \in Schedulers, StartThread(a) PROVE WorkInv'
  BY <1>2 DEF StartThread
<1>3. ASSUME StartedByWorker PROVE WorkInv'
  BY <1>3 DEF StartedByWorker, WorkGoes
<1>4. ASSUME NEW a \in Actors, Signal(a) PROVE WorkInv'
  BY <1>4 DEF Signal, Signals, HeldBy, WorkGoes
<1>5. ASSUME NEW a \in Actors, Emplace(a) PROVE WorkInv'
  BY <1>5 DEF Emplace, WorkGoes
<1>6. ASSUME WorkerLocks PROVE WorkInv'
  BY <1>6 DEF WorkerLocks, WorkGoes
<1>7. ASSUME Wait PROVE WorkInv'
  BY <1>7 DEF Wait, WorkGoes
<1>8. ASSUME Wakes PROVE WorkInv'
  BY <1>8 DEF Wakes, WorkGoes
<1>9. ASSUME Take PROVE WorkInv'
  BY <1>9, TakesOldest DEF Take, Oldest, WorkGoes
<1>10. ASSUME Return PROVE WorkInv'
  <2>1. ran' \in Seq(1..MaxItems)
    <3>1. PICK i \in 1..MaxItems : current = <<i>>
      BY <1>10 DEF Return
    <3>. QED
      BY <1>10, <3>1 DEF Return
  <2>2. current' = <<>> /\ workPc'["worker"] = "main"
    BY <1>10 DEF Return, WorkGoes
  <2>. QED
    BY <1>10, <2>1, <2>2 DEF Return, WorkGoes
<1>11. ASSUME UNCHANGED workVars PROVE WorkInv'
  BY <1>11 DEF workVars
<1>. QED
  BY <1>1, <1>2, <1>3, <1>4, <1>5, <1>6, <1>7, <1>8, <1>9, <1>10, <1>11
  DEF WorkNext, Worker, Call, Wake, SpuriousWake

\* A queue that is not empty never waits for a worker that nobody will wake, for any
\* number of callers and items, and whether or not waits end by themselves.
THEOREM NoWakeUpIsLost == WorkSpec => [](WorkTypeOK /\ NotAsleep)
<1>1. WorkInv => WorkTypeOK /\ NotAsleep
  BY DEF WorkInv
<1>. QED
  BY <1>1, WorkInvInit, WorkInvStep, PTL DEF WorkSpec

\* The mutex, the condition variable and the one thread implement a queue whose items
\* run one at a time in the order they came: the safety part of IsWorkQueue.
THEOREM WorkIsQueued == WorkSpec => Abstract!Init /\ [][Abstract!Next]_Abstract!vars
<1>1. WorkInit => Abstract!Init
  BY DEF WorkInit, Abstract!Init
<1>2. WorkInv /\ [WorkNext]_workVars => [Abstract!Next]_Abstract!vars
  <2>. SUFFICES ASSUME WorkInv, [WorkNext]_workVars PROVE [Abstract!Next]_Abstract!vars
    OBVIOUS
  <2>. USE DEF WorkInv, WorkTypeOK, Actors, InCall, Abstract!Next, Abstract!vars
  <2>1. ASSUME NEW a \in Actors, Emplace(a) PROVE Abstract!Next
    BY <2>1, WorkAssumption DEF Emplace, Abstract!Accept
  <2>2. ASSUME Take PROVE Abstract!Next
    BY <2>2, TakesOldest DEF Take, Oldest, Abstract!Begin
  <2>3. ASSUME Return PROVE Abstract!Next
    <3>1. PICK i \in 1..MaxItems : current = <<i>>
      BY <2>3 DEF Return
    <3>2. current # <<>>
      BY <3>1
    <3>. QED
      BY <2>3, <3>2 DEF Return, Abstract!End
  <2>4. ASSUME UNCHANGED <<queue, current, ran>> PROVE UNCHANGED Abstract!vars
    BY <2>4
  <2>. QED
    BY <2>1, <2>2, <2>3, <2>4
    DEF WorkNext, Worker, Call, Wake, SpuriousWake, Lock, StartThread, StartedByWorker,
        Signal, WorkerLocks, Wait, Wakes, workVars
<1>. QED
  BY <1>1, <1>2, WorkInvInit, WorkInvStep, PTL DEF WorkSpec
-----------------------------------------------------------------------------
(***************************************************************************)
(* LRUCache.  Sums of charges.                                             *)
(***************************************************************************)
\* Of some subsets of a finite set one has none of the others in it.
LEMMA SmallestSet ==
  ASSUME NEW H, IsFiniteSet(H), NEW Bad, Bad \subseteq SUBSET H, Bad # {}
  PROVE  \E S \in Bad : \A T \in Bad : T \subseteq S => T = S
<1>. DEFINE R == StrictSubsetOrdering(H)
            F == FiniteSubsetsOf(H)
<1>1. IsWellFoundedOn(R, F)
  BY FS_StrictSubsetOrderingWellFounded
<1>2. Bad \subseteq F
  BY FS_Subset DEF FiniteSubsetsOf
<1>3. PICK S \in Bad : \A T \in Bad : <<T, S>> \notin R
  <2>. HIDE DEF R, F
  <2> QED  BY <1>1, <1>2, WFMin
<1>4. ASSUME NEW T \in Bad, T \subseteq S, T # S PROVE FALSE
  <2>1. <<T, S>> \in (SUBSET H) \X (SUBSET H)
    OBVIOUS
  <2>2. <<T, S>> \in R
    BY <2>1, <1>4 DEF StrictSubsetOrdering
  <2> QED
    BY <2>2, <1>3
<1> QED
  BY <1>4

\* A sum of charges over the sets of entries, in whatever order they are taken.
IsSum(c, H, f) ==
  /\ f \in [SUBSET H -> Nat] /\ f[{}] = 0
  /\ \A S \in SUBSET H : \A x \in S : f[S] = c[x] + f[S \ {x}]
\* There is one.
LEMMA SumExists ==
  ASSUME NEW H, IsFiniteSet(H), NEW c \in [H -> Nat]
  PROVE  \E f : IsSum(c, H, f)
<1>. DEFINE Bad == {T \in SUBSET H : ~\E f : IsSum(c, T, f)}
<1>. SUFFICES ASSUME Bad # {} PROVE FALSE
  OBVIOUS
<1>1. PICK T \in Bad : \A U \in Bad : U \subseteq T => U = T
  <2>. Bad \subseteq SUBSET H
    OBVIOUS
  <2>. HIDE DEF Bad
  <2> QED  BY SmallestSet
<1>2. CASE T = {}
  <2>. DEFINE f == [S \in SUBSET T |-> 0]
  <2>1. IsSum(c, T, f)
    BY <1>2 DEF IsSum
  <2> QED  BY <2>1, <1>1
<1>3. CASE T # {}
  <2>1. PICK x \in T : TRUE
    BY <1>3
  <2>2. PICK g : IsSum(c, T \ {x}, g)
    BY <2>1, <1>1
  <2>. DEFINE f == [S \in SUBSET T |-> IF x \in S THEN c[x] + g[S \ {x}] ELSE g[S]]
  <2>3. \A S \in SUBSET T : x \notin S => S \in SUBSET (T \ {x})
    OBVIOUS
  <2>4. \A S \in SUBSET T : S \ {x} \in SUBSET (T \ {x})
    OBVIOUS
  <2>5. f \in [SUBSET T -> Nat]
    BY <2>2, <2>3, <2>4 DEF IsSum
  <2>6. ASSUME NEW S \in SUBSET T, NEW y \in S PROVE f[S] = c[y] + f[S \ {y}]
    <3>0. S \ {y} \in SUBSET T /\ c[x] \in Nat /\ c[y] \in Nat
      BY <1>1
    <3>1. CASE y = x
      BY <3>1, <3>0, <2>4
    <3>2. CASE x \in S /\ y # x
      <4>1. (S \ {y}) \ {x} = (S \ {x}) \ {y}
        OBVIOUS
      <4>2. g[S \ {x}] = c[y] + g[(S \ {x}) \ {y}]
        BY <3>2, <2>2, <2>4 DEF IsSum
      <4>3. g[(S \ {x}) \ {y}] \in Nat
        BY <2>2, <2>4, <4>1, <3>0 DEF IsSum
      <4>4. f[S] = c[x] + g[S \ {x}] /\ f[S \ {y}] = c[x] + g[(S \ {y}) \ {x}]
        BY <3>2, <3>0
      <4>. HIDE DEF f
      <4> QED
        BY <4>1, <4>2, <4>3, <4>4, <3>0
    <3>3. CASE x \notin S
      BY <3>3, <3>0, <2>2, <2>3 DEF IsSum
    <3> QED
      BY <3>1, <3>2, <3>3
  <2>7. f[{}] = 0
    BY <2>2 DEF IsSum
  <2>8. IsSum(c, T, f)
    <3>. HIDE DEF f
    <3> QED  BY <2>5, <2>6, <2>7 DEF IsSum
  <2> QED
    BY <2>8, <1>1
<1> QED
  BY <1>2, <1>3

\* ChargeOf is that sum.
LEMMA ChargeOfIsSum ==
  ASSUME NEW S, IsFiniteSet(S), NEW e, NEW f, IsSum([h \in S |-> e[h].charge], S, f)
  PROVE  ChargeOf(e, S) = f[S]
<1>. DEFINE D(g) == g = [s \in SUBSET S |-> IF s = {} THEN 0
                          ELSE LET x == CHOOSE x \in s : TRUE IN e[x].charge + g[s \ {x}]]
            G == CHOOSE g : D(g)
<1>1. ChargeOf(e, S) = G[S]
  BY DEF ChargeOf, MapThenSumSet, MapThenFoldSet
<1>2. D(f)
  <2>1. ASSUME NEW s \in SUBSET S, s # {}
        PROVE  f[s] = LET x == CHOOSE x \in s : TRUE IN e[x].charge + f[s \ {x}]
    BY <2>1 DEF IsSum
  <2> QED  BY <2>1 DEF IsSum
<1>3. D(G)
  <2>. HIDE DEF D
  <2> QED  BY <1>2
<1>. DEFINE Bad == {s \in SUBSET S : G[s] # f[s]}
<1>4. ASSUME Bad # {} PROVE FALSE
  <2>1. PICK s \in Bad : \A t \in Bad : t \subseteq s => t = s
    <3>. Bad \subseteq SUBSET S
      OBVIOUS
    <3>. HIDE DEF Bad
    <3> QED  BY <1>4, SmallestSet
  <2>2. s # {}
    BY <1>3, <2>1 DEF IsSum
  <2>. DEFINE x == CHOOSE x \in s : TRUE
  <2>3. x \in s /\ s \ {x} \in SUBSET S /\ s \ {x} # s
    BY <2>2
  <2>4. G[s \ {x}] = f[s \ {x}]
    BY <2>1, <2>3
  <2>5. G[s] = e[x].charge + G[s \ {x}] /\ f[s] = e[x].charge + f[s \ {x}]
    <3>. HIDE DEF G
    <3> QED  BY <1>2, <1>3, <2>1, <2>2
  <2> QED
    BY <2>1, <2>4, <2>5
<1> QED
  BY <1>1, <1>4

\* So it is defined for the subsets of a finite set, all of them at once.
AreCharges(f, e, S) ==
  /\ IsSum([h \in S |-> e[h].charge], S, f)
  /\ \A T \in SUBSET S : ChargeOf(e, T) = f[T]
LEMMA ChargesAre ==
  ASSUME NEW S, IsFiniteSet(S), NEW e, \A h \in S : e[h].charge \in Nat
  PROVE  \E f : AreCharges(f, e, S)
<1>. DEFINE c == [h \in S |-> e[h].charge]
<1>1. PICK f : IsSum(c, S, f)
  BY SumExists
<1>2. ASSUME NEW T \in SUBSET S PROVE ChargeOf(e, T) = f[T]
  <2>. DEFINE g == [U \in SUBSET T |-> f[U]]
  <2>1. IsFiniteSet(T)
    BY FS_Subset
  <2>2. IsSum([h \in T |-> e[h].charge], T, g)
    BY <1>1 DEF IsSum
  <2>3. ChargeOf(e, T) = g[T]
    <3>. HIDE DEF g
    <3> QED  BY <2>1, <2>2, ChargeOfIsSum
  <2> QED
    BY <2>3
<1> QED
  BY <1>1, <1>2 DEF AreCharges

\* Charges of entries, without and with one of them.
LEMMA ChargeWithout ==
  ASSUME NEW S, IsFiniteSet(S), NEW e, \A h \in S : e[h].charge \in Nat
  PROVE  /\ ChargeOf(e, S) \in Nat /\ ChargeOf(e, {}) = 0
         /\ \A x \in S : ChargeOf(e, S) = e[x].charge + ChargeOf(e, S \ {x})
<1>1. PICK f : AreCharges(f, e, S)
  BY ChargesAre
<1>2. \A x \in S : f[S] = e[x].charge + f[S \ {x}]
  BY <1>1 DEF IsSum, AreCharges
<1> QED
  BY <1>1, <1>2 DEF IsSum, AreCharges

\* The charge of some entries depends on nothing but their charges.
LEMMA ChargeSame ==
  ASSUME NEW S, IsFiniteSet(S), NEW e, NEW d, \A h \in S : e[h].charge \in Nat,
         \A h \in S : d[h].charge = e[h].charge
  PROVE  ChargeOf(d, S) = ChargeOf(e, S)
<1>1. PICK f : AreCharges(f, e, S)
  BY ChargesAre
<1>2. [h \in S |-> e[h].charge] = [h \in S |-> d[h].charge]
  OBVIOUS
<1>3. ChargeOf(d, S) = f[S]
  BY <1>1, <1>2, ChargeOfIsSum DEF AreCharges
<1> QED
  BY <1>1, <1>3 DEF AreCharges

\* Charges of entries and of others add up.
LEMMA ChargeUnion ==
  ASSUME NEW A, NEW B, IsFiniteSet(A \cup B), A \cap B = {},
         NEW e, \A h \in A \cup B : e[h].charge \in Nat
  PROVE  ChargeOf(e, A \cup B) = ChargeOf(e, A) + ChargeOf(e, B)
<1>. DEFINE Bad == {U \in SUBSET A : ChargeOf(e, U \cup B) # ChargeOf(e, U) + ChargeOf(e, B)}
<1>0. \A U \in SUBSET A : IsFiniteSet(U) /\ IsFiniteSet(U \cup B)
  BY FS_Subset
<1>1. IsFiniteSet(A) /\ IsFiniteSet(B)
  BY FS_Subset
<1>2. ChargeOf(e, B) \in Nat
  BY <1>1, ChargeWithout
<1>. SUFFICES ASSUME Bad # {} PROVE FALSE
  OBVIOUS
<1>3. PICK U \in Bad : \A T \in Bad : T \subseteq U => T = U
  <2>. Bad \subseteq SUBSET A
    OBVIOUS
  <2>. HIDE DEF Bad
  <2> QED  BY <1>1, SmallestSet
<1>4. U # {}
  <2>. SUFFICES ASSUME U = {} PROVE FALSE
    OBVIOUS
  <2>1. U \cup B = B /\ ChargeOf(e, {}) = 0
    BY <1>1, ChargeWithout
  <2> QED
    BY <2>1, <1>2, <1>3
<1>5. PICK x \in U : TRUE
  BY <1>4
<1>6. ChargeOf(e, (U \ {x}) \cup B) = ChargeOf(e, U \ {x}) + ChargeOf(e, B)
  BY <1>3, <1>5
<1>7. (U \cup B) \ {x} = (U \ {x}) \cup B
  BY <1>5
<1>8. U \in SUBSET A /\ x \in U \cup B /\ \A h \in U \cup B : e[h].charge \in Nat
  BY <1>5
<1>9. ChargeOf(e, U) = e[x].charge + ChargeOf(e, U \ {x})
  BY <1>0, <1>5, <1>8, ChargeWithout
<1>10. ChargeOf(e, U \cup B) = e[x].charge + ChargeOf(e, (U \cup B) \ {x})
  BY <1>0, <1>8, ChargeWithout
<1>11. ChargeOf(e, U \ {x}) \in Nat /\ e[x].charge \in Nat
  BY <1>0, <1>5, <1>8, ChargeWithout
<1> QED
  BY <1>2, <1>3, <1>6, <1>7, <1>9, <1>10, <1>11

\* What is left of the charge without some of the entries.
LEMMA ChargeLeft ==
  ASSUME NEW S, IsFiniteSet(S), NEW e, \A h \in S : e[h].charge \in Nat, NEW T \in SUBSET S
  PROVE  /\ ChargeOf(e, S) \in Nat /\ ChargeOf(e, T) \in Nat /\ ChargeOf(e, S \ T) \in Nat
         /\ ChargeOf(e, S \ T) = ChargeOf(e, S) - ChargeOf(e, T)
<1>1. (S \ T) \cup T = S /\ (S \ T) \cap T = {}
  OBVIOUS
<1>2. ChargeOf(e, S) = ChargeOf(e, S \ T) + ChargeOf(e, T)
  BY <1>1, ChargeUnion
<1>3. IsFiniteSet(T) /\ IsFiniteSet(S \ T)
  BY FS_Subset
<1>4. ChargeOf(e, S) \in Nat /\ ChargeOf(e, T) \in Nat /\ ChargeOf(e, S \ T) \in Nat
  BY <1>3, ChargeWithout
<1> QED
  BY <1>2, <1>4

-----------------------------------------------------------------------------
(***************************************************************************)
(* Lists.                                                                  *)
(***************************************************************************)
\* No entry is twice in a list.
Once(list) == \A i, j \in 1..Len(list) : i # j => list[i] # list[j]

\* A finite set of numbers has a least one.
LEMMA LeastIs ==
  ASSUME NEW S, S \subseteq Nat, S # {}
  PROVE  Min(S) \in S /\ \A n \in S : Min(S) <= n
<1>1. PICK n \in S : TRUE
  OBVIOUS
<1>. DEFINE H == 0..n
            Bad == {T \in SUBSET H : \E m \in S : m <= n /\ T = 0..m}
<1>2. H \in Bad /\ IsFiniteSet(H)
  BY <1>1, FS_Interval
<1>3. PICK T \in Bad : \A U \in Bad : U \subseteq T => U = T
  <2>. Bad \subseteq SUBSET H /\ Bad # {}
    BY <1>2
  <2>. HIDE DEF Bad, H
  <2> QED  BY <1>2, SmallestSet
<1>4. PICK m \in S : m <= n /\ T = 0..m
  BY <1>3
<1>5. \A k \in S : m <= k
  <2>. SUFFICES ASSUME NEW k \in S, k < m PROVE FALSE
    BY <1>4
  <2>1. 0..k \in Bad /\ 0..k \subseteq T
    BY <1>1, <1>4
  <2>2. m \in 0..m /\ m \notin 0..k
    OBVIOUS
  <2> QED
    BY <2>1, <2>2, <1>3, <1>4
<1> QED
  BY <1>5 DEF Min

\* LRU_Remove: the entry leaves its list, and the others stay in it.
LEMMA UnlinkIs ==
  ASSUME NEW H, NEW list \in Seq(H), Once(list), NEW h
  PROVE  /\ RemoveFirst(list, h) \in Seq(H) /\ Once(RemoveFirst(list, h))
         /\ ToSet(RemoveFirst(list, h)) = ToSet(list) \ {h}
<1>1. CASE ~\E i \in 1..Len(list) : list[i] = h
  BY <1>1 DEF RemoveFirst, ToSet
<1>2. CASE \E i \in 1..Len(list) : list[i] = h
  <2>. DEFINE I == {i \in 1..Len(list) : list[i] = h}
              place == Min(I)
              r == SubSeq(list, 1, place - 1) \o SubSeq(list, place + 1, Len(list))
  <2>1. RemoveFirst(list, h) = r
    BY <1>2 DEF RemoveFirst, RemoveAt, SelectInSeq
  <2>2. place \in I
    <3>. I \subseteq Nat /\ I # {}
      BY <1>2
    <3>. HIDE DEF I
    <3> QED  BY LeastIs
  <2>3. place \in 1..Len(list) /\ list[place] = h
    BY <2>2
  <2>. HIDE DEF place
  <2>. DEFINE a == SubSeq(list, 1, place - 1)
              b == SubSeq(list, place + 1, Len(list))
  <2>a. a \in Seq(H) /\ Len(a) = place - 1 /\ \A i \in 1..place - 1 : a[i] = list[i]
    BY <2>3
  <2>b. /\ b \in Seq(H) /\ Len(b) = Len(list) - place
        /\ \A i \in 1..Len(list) - place : b[i] = list[place + i]
    BY <2>3
  <2>. HIDE DEF a, b
  <2>c. r = a \o b
    BY DEF a, b
  <2>. HIDE DEF r
  <2>4. r \in Seq(H) /\ Len(r) = Len(list) - 1
    BY <2>3, <2>a, <2>b, <2>c
  <2>5. \A i \in 1..Len(r) : r[i] = list[IF i < place THEN i ELSE i + 1]
    <3>1. ASSUME NEW i \in 1..Len(r), i < place PROVE r[i] = list[i]
      BY <3>1, <2>3, <2>a, <2>b, <2>c, <2>4
    <3>2. ASSUME NEW i \in 1..Len(r), ~(i < place) PROVE r[i] = list[i + 1]
      <4>1. r[i] = b[i - (place - 1)]
        BY <3>2, <2>3, <2>a, <2>b, <2>c, <2>4
      <4>2. i - (place - 1) \in 1..Len(list) - place /\ place + (i - (place - 1)) = i + 1
        BY <3>2, <2>3, <2>4
      <4> QED
        BY <4>1, <4>2, <2>b
    <3> QED
      BY <3>1, <3>2
  <2>6. Once(r)
    <3>1. ASSUME NEW i \in 1..Len(r), NEW j \in 1..Len(r), i # j PROVE r[i] # r[j]
      <4>. DEFINE from(x) == IF x < place THEN x ELSE x + 1
      <4>1. from(i) \in 1..Len(list) /\ from(j) \in 1..Len(list) /\ from(i) # from(j)
        BY <3>1, <2>3, <2>4
      <4>2. r[i] = list[from(i)] /\ r[j] = list[from(j)]
        BY <3>1, <2>5
      <4>. HIDE DEF from
      <4> QED
        BY <4>1, <4>2 DEF Once
    <3> QED
      BY <3>1 DEF Once
  <2>7. ASSUME NEW x \in ToSet(list), x # h PROVE x \in ToSet(r)
    <3>1. PICK i \in 1..Len(list) : list[i] = x
      BY DEF ToSet
    <3>2. i # place
      BY <3>1, <2>3, <2>7
    <3>. DEFINE j == IF i < place THEN i ELSE i - 1
    <3>3. j \in 1..Len(r) /\ r[j] = x
      BY <3>1, <3>2, <2>3, <2>4, <2>5
    <3> QED
      BY <3>3, <2>4 DEF ToSet
  <2>8. ASSUME NEW x \in ToSet(r) PROVE x \in ToSet(list) /\ x # h
    <3>1. PICK i \in 1..Len(r) : r[i] = x
      BY <2>4 DEF ToSet
    <3>. DEFINE j == IF i < place THEN i ELSE i + 1
    <3>2. j \in 1..Len(list) /\ list[j] = x /\ j # place
      BY <3>1, <2>3, <2>4, <2>5
    <3> QED
      BY <3>2, <2>3 DEF ToSet, Once
  <2> QED
    BY <2>1, <2>4, <2>6, <2>7, <2>8
<1> QED
  BY <1>1, <1>2

\* A list from the front to n, and the rest of it.
LEMMA SplitIs ==
  ASSUME NEW H, NEW list \in Seq(H), Once(list), NEW n \in 0..Len(list)
  PROVE  /\ SubSeq(list, n + 1, Len(list)) \in Seq(H)
         /\ Once(SubSeq(list, n + 1, Len(list)))
         /\ ToSet(SubSeq(list, n + 1, Len(list))) = ToSet(list) \ ToSet(SubSeq(list, 1, n))
         /\ ToSet(SubSeq(list, 1, n)) = {list[i] : i \in 1..n}
         /\ ToSet(SubSeq(list, 1, n)) \subseteq ToSet(list)
<1>. DEFINE r == SubSeq(list, n + 1, Len(list))
<1>1. r \in Seq(H) /\ Len(r) = Len(list) - n /\ \A i \in 1..Len(r) : r[i] = list[n + i]
  OBVIOUS
<1>2. ToSet(SubSeq(list, 1, n)) = {list[i] : i \in 1..n}
  <2>1. Len(SubSeq(list, 1, n)) = n /\ \A i \in 1..n : SubSeq(list, 1, n)[i] = list[i]
    OBVIOUS
  <2>2. DOMAIN SubSeq(list, 1, n) = 1..n
    BY <2>1
  <2> QED  BY <2>1, <2>2 DEF ToSet
<1>3. {list[i] : i \in 1..n} \subseteq ToSet(list)
  BY DEF ToSet
<1>. HIDE DEF r
<1>4. Once(r)
  BY <1>1 DEF Once
<1>5. ASSUME NEW x \in ToSet(list), x \notin {list[i] : i \in 1..n} PROVE x \in ToSet(r)
  <2>1. PICK i \in 1..Len(list) : list[i] = x
    BY DEF ToSet
  <2>2. i > n
    BY <2>1, <1>5
  <2>3. i - n \in 1..Len(r) /\ r[i - n] = x
    BY <2>1, <2>2, <1>1
  <2> QED
    BY <2>3, <1>1 DEF ToSet
<1>6. ASSUME NEW x \in ToSet(r) PROVE x \in ToSet(list) /\ x \notin {list[i] : i \in 1..n}
  <2>1. PICK i \in 1..Len(r) : r[i] = x
    BY <1>1 DEF ToSet
  <2>2. n + i \in 1..Len(list) /\ list[n + i] = x
    BY <2>1, <1>1
  <2> QED
    BY <2>2 DEF ToSet, Once
<1> QED
  BY <1>1, <1>2, <1>3, <1>4, <1>5, <1>6 DEF r

\* LRU_Append.
LEMMA AppendIs ==
  ASSUME NEW H, NEW list \in Seq(H), Once(list), NEW h \in H, h \notin ToSet(list)
  PROVE  /\ Append(list, h) \in Seq(H) /\ Once(Append(list, h))
         /\ ToSet(Append(list, h)) = ToSet(list) \cup {h}
<1>. DEFINE r == Append(list, h)
<1>1. /\ r \in Seq(H) /\ Len(r) = Len(list) + 1 /\ r[Len(list) + 1] = h
      /\ \A i \in 1..Len(list) : r[i] = list[i] /\ list[i] # h
  BY DEF ToSet
<1>2. DOMAIN r = 1..Len(list) + 1 /\ DOMAIN list = 1..Len(list)
  BY <1>1
<1>. HIDE DEF r
<1>3. Once(r)
  BY <1>1 DEF Once
<1>4. ToSet(r) = ToSet(list) \cup {h}
  BY <1>1, <1>2 DEF ToSet
<1> QED
  BY <1>1, <1>3, <1>4 DEF r

-----------------------------------------------------------------------------
(***************************************************************************)
(* The invariant.                                                          *)
(***************************************************************************)
\* What a shard has cached.
Cached(s) == {h \in Handles : InCache(h) /\ ShardOf[entry[h].key] = s}
\* ListsPartition, list by list.
Lists ==
  /\ inUse = {h \in Handles : InCache(h) /\ entry[h].refs >= 2}
  /\ \A s \in Shards : /\ Once(lru[s])
                       /\ ToSet(lru[s]) = {h \in Cached(s) : entry[h].refs = 1}
CacheInv ==
  CacheTypeOK /\ References /\ TableIsExact /\ Lists /\ UsageIsCharge /\ OffIsEmpty

\* The share of a shard is a number.
LEMMA PerShardIs == CacheAssumption => PerShard \in Nat
  BY DEF CacheAssumption, PerShard

\* It says of the lists what ListsPartition says.
LEMMA InvImpliesExact ==
  ASSUME CacheAssumption
  PROVE  CacheInv => CacheIsExact
<1>. SUFFICES ASSUME CacheInv PROVE ListsPartition
  BY DEF CacheInv, CacheIsExact
<1>. USE DEF CacheInv, CacheTypeOK
<1>1. \A s \in Shards : DOMAIN lru[s] = 1..Len(lru[s])
  OBVIOUS
<1>2. \A h \in Handles : InCache(h) => ShardOf[entry[h].key] \in Shards
  BY DEF CacheAssumption, Shards, InCache
<1>3. \A h \in Handles : OnLru(h) <=> \E s \in Shards : h \in ToSet(lru[s])
  BY <1>1 DEF OnLru, ToSet
<1>4. \A h \in Handles : OnLru(h) <=> InCache(h) /\ entry[h].refs = 1
  BY <1>2, <1>3 DEF Lists, Cached
<1>5. ASSUME NEW s \in Shards, NEW i \in 1..Len(lru[s]) PROVE ShardOf[entry[lru[s][i]].key] = s
  <2>1. lru[s][i] \in ToSet(lru[s])
    BY <1>1 DEF ToSet
  <2> QED
    BY <2>1 DEF Lists, Cached
<1>6. \A s \in Shards : \A i, j \in 1..Len(lru[s]) : i # j => lru[s][i] # lru[s][j]
  BY DEF Lists, Once
<1> QED
  BY <1>4, <1>5, <1>6 DEF ListsPartition, Lists

\* The empty cache.
LEMMA InitExact ==
  ASSUME CacheAssumption, CacheInit
  PROVE  CacheInv
<1>. USE DEF CacheInit
<1>1. CacheTypeOK
  BY DEF CacheTypeOK, NoEntry, Nil, CacheAssumption
<1>2. \A h \in Handles : ~InCache(h)
  BY DEF InCache, NoEntry
<1>3. References /\ OffIsEmpty
  BY <1>2 DEF References, NoEntry, OffIsEmpty
<1>4. TableIsExact
  BY <1>2 DEF TableIsExact
<1>5. Lists
  BY <1>2 DEF Lists, Cached, Once, ToSet
<1>6. UsageIsCharge
  <2>1. \A s \in Shards : {h \in Handles : InCache(h) /\ ShardOf[entry[h].key] = s} = {}
    BY <1>2
  <2>2. ChargeOf(entry, {}) = 0
    BY ChargeWithout, FS_EmptySet
  <2> QED
    BY <2>1, <2>2 DEF UsageIsCharge
<1> QED
  BY <1>1, <1>3, <1>4, <1>5, <1>6 DEF CacheInv

\* The fields of an entry.
LEMMA EntryFields ==
  ASSUME CacheAssumption, CacheTypeOK, NEW h \in Handles
  PROVE  /\ entry[h].charge \in Nat /\ entry[h].refs \in Nat /\ entry[h].inCache \in BOOLEAN
         /\ entry[h].refs > 0 => entry[h].key \in Keys
         /\ entry[h].refs = 0 => entry[h] = NoEntry
         /\ entry[h] \in [key : Keys \cup {Nil}, charge : Charges \cup {0},
                         inCache : BOOLEAN, refs : Nat]
<1>1. entry[h] \in [key : Keys \cup {Nil}, charge : Charges \cup {0},
                   inCache : BOOLEAN, refs : Nat]
  BY DEF CacheTypeOK
<1>2. entry[h].charge \in Charges \cup {0}
  BY <1>1
<1>3. Charges \cup {0} \subseteq Nat
  BY DEF CacheAssumption
<1>4. entry[h].charge \in Nat
  BY <1>2, <1>3
<1> QED
  BY <1>1, <1>4 DEF CacheTypeOK

\* Entries of a cache that are the same, with the same charges.
LEMMA UsageKept ==
  ASSUME CacheAssumption, CacheInv, usage' = usage,
         \A h \in Handles : InCache(h)' = InCache(h),
         \A h \in Handles : InCache(h) =>
           entry'[h].key = entry[h].key /\ entry'[h].charge = entry[h].charge
  PROVE  UsageIsCharge'
<1>. SUFFICES ASSUME NEW s \in Shards
              PROVE  usage'[s] = ChargeOf(entry', Cached(s)')
  BY DEF UsageIsCharge, Cached, Shards
<1>1. Cached(s)' = Cached(s)
  BY DEF Cached
<1>2. IsFiniteSet(Cached(s)) /\ Cached(s) \subseteq Handles
  BY FS_Subset DEF Cached, CacheAssumption
<1>3. \A h \in Cached(s) : entry[h].charge \in Nat /\ entry'[h].charge = entry[h].charge
  BY EntryFields DEF Cached, CacheInv
<1>4. ChargeOf(entry', Cached(s)) = ChargeOf(entry, Cached(s))
  BY <1>2, <1>3, ChargeSame
<1> QED
  BY <1>1, <1>4 DEF CacheInv, UsageIsCharge, Cached

-----------------------------------------------------------------------------
(***************************************************************************)
(* What each operation keeps.                                              *)
(***************************************************************************)
\* Lookup: a client gets a handle.
LEMMA LookupKeeps ==
  ASSUME CacheAssumption, CacheInv, NEW k \in Keys, Lookup(k)
  PROVE  CacheInv'
<1>0. CacheTypeOK /\ References /\ TableIsExact /\ Lists
  BY DEF CacheInv
<1>1. CASE table[k] = Nil
  <2>1. UNCHANGED <<entry, lru, inUse, held, table, usage>>
    BY <1>1 DEF Lookup
  <2>2. /\ CacheTypeOK' /\ References' /\ TableIsExact' /\ OffIsEmpty'
        /\ \A g \in Handles : InCache(g)' = InCache(g)
    BY <2>1, <1>0 DEF CacheInv, CacheTypeOK, References, TableIsExact, OffIsEmpty, InCache, Shards, PerShard
  <2>3. Lists'
    BY <2>1, <1>0 DEF Lists, Cached, InCache, Shards
  <2>4. UsageIsCharge'
    BY <2>1, <2>2, UsageKept
  <2> QED
    BY <2>2, <2>3, <2>4 DEF CacheInv
<1>2. CASE table[k] # Nil
  <2>1. PICK h \in Handles : h = table[k] /\ InCache(h) /\ entry[h].key = k
    BY <1>0, <1>2 DEF CacheTypeOK, TableIsExact
  <2>2. /\ entry' = [entry EXCEPT ![h].refs = @ + 1]
        /\ held' = [held EXCEPT ![h] = @ + 1] /\ table' = table /\ usage' = usage
        /\ IF entry[h].refs = 1 /\ entry[h].inCache
           THEN lru' = [lru EXCEPT ![ShardOf[k]] = RemoveFirst(@, h)] /\ inUse' = inUse \cup {h}
           ELSE UNCHANGED <<lru, inUse>>
    BY <1>2, <2>1 DEF Lookup, Ref
  <2>3. /\ entry[h].refs \in Nat \ {0} /\ entry[h].inCache /\ ShardOf[k] \in Shards
    BY <2>1, <1>0, EntryFields DEF InCache, CacheAssumption, Shards
  <2>4. /\ entry'[h].refs = entry[h].refs + 1 /\ entry'[h].key = entry[h].key
        /\ entry'[h].charge = entry[h].charge /\ entry'[h].inCache = entry[h].inCache
        /\ \A g \in Handles : g # h => entry'[g] = entry[g]
        /\ entry' \in [Handles -> [key : Keys \cup {Nil}, charge : Charges \cup {0},
                                   inCache : BOOLEAN, refs : Nat]]
    <3>. DEFINE n == [entry[h] EXCEPT !.refs = entry[h].refs + 1]
    <3>1. entry' = [entry EXCEPT ![h] = n]
      BY <2>2
    <3>2. /\ n \in [key : Keys \cup {Nil}, charge : Charges \cup {0}, inCache : BOOLEAN, refs : Nat]
          /\ n.refs = entry[h].refs + 1 /\ n.key = entry[h].key
          /\ n.charge = entry[h].charge /\ n.inCache = entry[h].inCache
      BY <2>1, <1>0, EntryFields
    <3>3. entry \in [Handles -> [key : Keys \cup {Nil}, charge : Charges \cup {0},
                                 inCache : BOOLEAN, refs : Nat]]
      BY <1>0 DEF CacheTypeOK
    <3>. HIDE DEF n
    <3> QED
      BY <3>1, <3>2, <3>3, <2>1
  <2>5. \A g \in Handles : InCache(g)' = InCache(g) /\ entry'[g].key = entry[g].key
    <3>1. InCache(h)' = InCache(h) /\ entry'[h].key = entry[h].key
      BY <2>1, <2>3, <2>4 DEF InCache
    <3> QED
      BY <3>1, <2>4 DEF InCache
  <2>6. \A s \in Shards : Cached(s)' = Cached(s)
    BY <2>5 DEF Cached
  <2>7. UsageIsCharge'
    BY <2>2, <2>4, <2>5, UsageKept
  <2>8. References' /\ held' \in [Handles -> Nat]
    <3>1. ASSUME NEW g \in Handles
          PROVE  entry'[g].refs = held'[g] + (IF entry'[g].inCache THEN 1 ELSE 0)
      BY <1>0, <2>1, <2>2, <2>4 DEF References, CacheTypeOK
    <3>2. held' \in [Handles -> Nat]
      BY <1>0, <2>1, <2>2 DEF CacheTypeOK
    <3> QED
      BY <3>1, <3>2 DEF References
  <2>9. TableIsExact' /\ OffIsEmpty'
    BY <2>2, <2>5, <1>0 DEF TableIsExact, OffIsEmpty, CacheInv, CacheTypeOK, PerShard
  <2>10. CASE entry[h].refs = 1
    <3>1. /\ RemoveFirst(lru[ShardOf[k]], h) \in Seq(Handles)
          /\ Once(RemoveFirst(lru[ShardOf[k]], h))
          /\ ToSet(RemoveFirst(lru[ShardOf[k]], h)) = ToSet(lru[ShardOf[k]]) \ {h}
      BY <2>3, <1>0, UnlinkIs DEF Lists, CacheTypeOK
    <3>2. /\ lru' = [lru EXCEPT ![ShardOf[k]] = RemoveFirst(@, h)] /\ inUse' = inUse \cup {h}
      BY <2>2, <2>3, <2>10
    <3>3. lru' \in [Shards -> Seq(Handles)]
      BY <3>1, <3>2, <1>0 DEF CacheTypeOK, Shards
    <3>4. CacheTypeOK'
      BY <3>2, <3>3, <2>1, <2>2, <2>3, <2>4, <2>8, <1>0 DEF CacheTypeOK, Shards
    <3>5. inUse' = {g \in Handles : InCache(g)' /\ entry'[g].refs >= 2}
      BY <3>2, <2>1, <2>4, <2>5, <2>10, <1>0 DEF Lists
    <3>6. ASSUME NEW s \in Shards
          PROVE  Once(lru'[s]) /\ ToSet(lru'[s]) = {g \in Cached(s)' : entry'[g].refs = 1}
      <4>0. {g \in Cached(s)' : entry'[g].refs = 1} = {g \in Cached(s) : entry[g].refs = 1} \ {h}
        BY <2>4, <2>6, <2>10 DEF Cached
      <4>1. CASE s = ShardOf[k]
        <5>1. lru'[s] = RemoveFirst(lru[s], h)
          BY <4>1, <3>2, <1>0 DEF CacheTypeOK
        <5> QED
          BY <5>1, <4>0, <4>1, <3>1, <1>0 DEF Lists
      <4>2. CASE s # ShardOf[k]
        <5>1. lru'[s] = lru[s]
          BY <4>2, <3>2, <1>0 DEF CacheTypeOK
        <5>2. h \notin Cached(s)
          BY <4>2, <2>1 DEF Cached
        <5> QED
          BY <5>1, <5>2, <4>0, <1>0 DEF Lists
      <4> QED
        BY <4>1, <4>2
    <3>7. Lists'
      BY <3>5, <3>6 DEF Lists, Shards
    <3> QED
      BY <3>4, <3>7, <2>7, <2>8, <2>9 DEF CacheInv
  <2>11. CASE entry[h].refs # 1
    <3>1. lru' = lru /\ inUse' = inUse
      BY <2>2, <2>11
    <3>2. CacheTypeOK'
      BY <3>1, <2>1, <2>2, <2>3, <2>4, <2>8, <1>0 DEF CacheTypeOK, Shards
    <3>3. inUse' = {g \in Handles : InCache(g)' /\ entry'[g].refs >= 2}
      BY <3>1, <2>1, <2>3, <2>4, <2>5, <2>11, <1>0 DEF Lists
    <3>4. ASSUME NEW s \in Shards
          PROVE  Once(lru'[s]) /\ ToSet(lru'[s]) = {g \in Cached(s)' : entry'[g].refs = 1}
      BY <3>1, <2>3, <2>4, <2>6, <2>11, <1>0 DEF Lists, Cached
    <3>5. Lists'
      BY <3>3, <3>4 DEF Lists, Shards
    <3> QED
      BY <3>2, <3>5, <2>7, <2>8, <2>9 DEF CacheInv
  <2> QED
    BY <2>10, <2>11
<1> QED
  BY <1>1, <1>2

\* Release: a client gives a handle back.
LEMMA ReleaseKeeps ==
  ASSUME CacheAssumption, CacheInv, NEW h \in Handles, Release(h)
  PROVE  CacheInv'
<1>. DEFINE e == entry[h]
            s0 == ShardOf[e.key]
<1>0. CacheTypeOK /\ References /\ TableIsExact /\ Lists
  BY DEF CacheInv
<1>1. /\ held[h] \in Nat \ {0} /\ e.refs \in Nat \ {0} /\ e.inCache \in BOOLEAN
      /\ e.refs = held[h] + (IF e.inCache THEN 1 ELSE 0)
      /\ s0 \in Shards /\ e.key \in Keys
  <2>1. held[h] > 0 /\ held[h] \in Nat /\ e.refs = held[h] + (IF e.inCache THEN 1 ELSE 0)
    BY <1>0 DEF Release, CacheTypeOK, References
  <2>2. e.refs \in Nat \ {0} /\ e.inCache \in BOOLEAN
    BY <2>1, <1>0, EntryFields
  <2>3. e.key \in Keys
    BY <2>2, <1>0, EntryFields
  <2> QED
    BY <2>1, <2>2, <2>3 DEF CacheAssumption, Shards
<1>2. /\ held' = [held EXCEPT ![h] = @ - 1] /\ table' = table /\ usage' = usage
      /\ entry' = [entry EXCEPT ![h] = IF e.refs - 1 = 0 THEN NoEntry
                                       ELSE [@ EXCEPT !.refs = e.refs - 1]]
      /\ IF e.inCache /\ e.refs - 1 = 1
         THEN lru' = [lru EXCEPT ![s0] = Append(@, h)] /\ inUse' = inUse \ {h}
         ELSE UNCHANGED <<lru, inUse>>
  BY DEF Release
<1>. HIDE DEF s0
<1>3. /\ entry' \in [Handles -> [key : Keys \cup {Nil}, charge : Charges \cup {0},
                                 inCache : BOOLEAN, refs : Nat]]
      /\ entry'[h].refs = e.refs - 1
      /\ e.refs = 1 => entry'[h] = NoEntry /\ ~entry'[h].inCache /\ ~e.inCache
      /\ e.refs # 1 => /\ entry'[h].key = e.key /\ entry'[h].charge = e.charge
                       /\ entry'[h].inCache = e.inCache
      /\ \A g \in Handles : g # h => entry'[g] = entry[g]
  <2>1. e \in [key : Keys \cup {Nil}, charge : Charges \cup {0}, inCache : BOOLEAN, refs : Nat]
    BY <1>0, EntryFields
  <2>2. CASE e.refs = 1
    <3>1. entry' = [entry EXCEPT ![h] = NoEntry]
      BY <2>2, <1>2
    <3>2. NoEntry \in [key : Keys \cup {Nil}, charge : Charges \cup {0}, inCache : BOOLEAN, refs : Nat]
          /\ NoEntry.refs = 0 /\ ~NoEntry.inCache
      BY DEF NoEntry
    <3>3. ~e.inCache
      BY <1>1, <2>2
    <3> QED
      BY <3>1, <3>2, <3>3, <2>2, <1>0 DEF CacheTypeOK
  <2>3. CASE e.refs # 1
    <3>1. entry' = [entry EXCEPT ![h] = [e EXCEPT !.refs = e.refs - 1]]
      BY <2>3, <1>1, <1>2
    <3>2. e.refs - 1 \in Nat
      BY <1>1
    <3> QED
      BY <3>1, <3>2, <2>1, <2>3, <1>0 DEF CacheTypeOK
  <2> QED
    BY <2>2, <2>3
<1>4. \A g \in Handles : InCache(g)' = InCache(g)
  BY <1>1, <1>3 DEF InCache
<1>5. \A g \in Handles : InCache(g) => entry'[g].key = entry[g].key /\ entry'[g].charge = entry[g].charge
  BY <1>3 DEF InCache
<1>6. \A s \in Shards : Cached(s)' = Cached(s)
  BY <1>4, <1>5 DEF Cached
<1>7. UsageIsCharge'
  BY <1>2, <1>4, <1>5, UsageKept
<1>8. References' /\ held' \in [Handles -> Nat]
  <2>1. ASSUME NEW g \in Handles
        PROVE  entry'[g].refs = held'[g] + (IF entry'[g].inCache THEN 1 ELSE 0)
    BY <1>0, <1>1, <1>2, <1>3 DEF References, CacheTypeOK
  <2> QED
    BY <2>1, <1>0, <1>1, <1>2 DEF References, CacheTypeOK
<1>9. TableIsExact' /\ OffIsEmpty'
  BY <1>2, <1>4, <1>5, <1>0 DEF TableIsExact, OffIsEmpty, CacheInv, CacheTypeOK, PerShard
<1>10. \A g \in Handles : IF entry'[g].refs = 0 THEN entry'[g] = NoEntry ELSE entry'[g].key \in Keys
  <2>1. \A g \in Handles : IF entry[g].refs = 0 THEN entry[g] = NoEntry ELSE entry[g].key \in Keys
    BY <1>0 DEF CacheTypeOK
  <2>2. IF entry'[h].refs = 0 THEN entry'[h] = NoEntry ELSE entry'[h].key \in Keys
    BY <1>1, <1>3
  <2> QED
    BY <2>1, <2>2, <1>3
<1>11. CASE e.inCache /\ e.refs = 2
  <2>1. lru' = [lru EXCEPT ![s0] = Append(@, h)] /\ inUse' = inUse \ {h}
    BY <1>2, <1>11
  <2>2. h \notin ToSet(lru[s0])
    BY <1>0, <1>1, <1>11 DEF Lists
  <2>3. /\ Append(lru[s0], h) \in Seq(Handles) /\ Once(Append(lru[s0], h))
        /\ ToSet(Append(lru[s0], h)) = ToSet(lru[s0]) \cup {h}
    BY <2>2, <1>0, <1>1, AppendIs DEF Lists, CacheTypeOK
  <2>4. lru' \in [Shards -> Seq(Handles)]
    BY <2>1, <2>3, <1>0 DEF CacheTypeOK, Shards
  <2>5. CacheTypeOK'
    BY <2>1, <2>4, <1>2, <1>3, <1>8, <1>10, <1>0 DEF CacheTypeOK, Shards
  <2>6. inUse' = {g \in Handles : InCache(g)' /\ entry'[g].refs >= 2}
    <3>1. entry'[h].refs = 1
      BY <1>3, <1>11
    <3>2. inUse = {g \in Handles : InCache(g) /\ entry[g].refs >= 2}
      BY <1>0 DEF Lists
    <3> QED
      BY <3>1, <3>2, <2>1, <1>3, <1>4
  <2>7. ASSUME NEW s \in Shards
        PROVE  Once(lru'[s]) /\ ToSet(lru'[s]) = {g \in Cached(s)' : entry'[g].refs = 1}
    <3>0. \A g \in Cached(s) : g # h => (entry'[g].refs = 1 <=> entry[g].refs = 1)
      BY <1>3 DEF Cached
    <3>1. CASE s = s0
      <4>1. h \in Cached(s)
        BY <3>1, <1>1, <1>11 DEF Cached, InCache, s0
      <4>2. entry'[h].refs = 1
        BY <1>3, <1>11
      <4>3. lru'[s] = Append(lru[s0], h)
        BY <3>1, <2>1, <1>0 DEF CacheTypeOK
      <4> QED
        BY <3>0, <3>1, <4>1, <4>2, <4>3, <2>3, <1>6, <1>0 DEF Lists
    <3>2. CASE s # s0
      <4>1. h \notin Cached(s)
        BY <3>2 DEF Cached, s0
      <4>2. lru'[s] = lru[s]
        BY <3>2, <2>1, <1>0 DEF CacheTypeOK
      <4> QED
        BY <3>0, <4>1, <4>2, <1>6, <1>0 DEF Lists
    <3> QED
      BY <3>1, <3>2
  <2>8. Lists'
    BY <2>6, <2>7 DEF Lists, Shards
  <2> QED
    BY <2>5, <2>8, <1>7, <1>8, <1>9 DEF CacheInv
<1>12. CASE ~(e.inCache /\ e.refs = 2)
  <2>1. lru' = lru /\ inUse' = inUse
    BY <1>1, <1>2, <1>12
  <2>2. CacheTypeOK'
    BY <2>1, <1>2, <1>3, <1>8, <1>10, <1>0 DEF CacheTypeOK, Shards
  <2>3. \A g \in Handles : InCache(g) =>
          (entry'[g].refs = 1 <=> entry[g].refs = 1) /\ (entry'[g].refs >= 2 <=> entry[g].refs >= 2)
    <3>1. InCache(h) => e.refs # 1 /\ e.refs # 2
      BY <1>1, <1>12 DEF InCache
    <3> QED
      BY <3>1, <1>1, <1>3 DEF InCache
  <2>4. inUse' = {g \in Handles : InCache(g)' /\ entry'[g].refs >= 2}
    BY <2>1, <2>3, <1>4, <1>0 DEF Lists
  <2>5. ASSUME NEW s \in Shards
        PROVE  Once(lru'[s]) /\ ToSet(lru'[s]) = {g \in Cached(s)' : entry'[g].refs = 1}
    BY <2>1, <2>3, <1>6, <1>0 DEF Lists, Cached
  <2>6. Lists'
    BY <2>4, <2>5 DEF Lists, Shards
  <2> QED
    BY <2>2, <2>6, <1>7, <1>8, <1>9 DEF CacheInv
<1> QED
  BY <1>11, <1>12

\* The type of entry.
EntryType == [key : Keys \cup {Nil}, charge : Charges \cup {0}, inCache : BOOLEAN, refs : Nat]
\* FinishErase: the entries that go lose the reference of the cache, the others stay.
LEMMA FinishIs ==
  ASSUME CacheAssumption, NEW e \in [Handles -> EntryType], NEW gone \in SUBSET Handles,
         \A h \in gone : e[h].refs \in Nat \ {0}
  PROVE  /\ Finish(e, gone) \in [Handles -> EntryType]
         /\ \A h \in Handles : h \notin gone => Finish(e, gone)[h] = e[h]
         /\ \A h \in gone :
              /\ Finish(e, gone)[h].refs = e[h].refs - 1 /\ ~Finish(e, gone)[h].inCache
              /\ e[h].refs = 1 => Finish(e, gone)[h] = NoEntry
              /\ e[h].refs # 1 => /\ Finish(e, gone)[h].key = e[h].key
                                  /\ Finish(e, gone)[h].charge = e[h].charge
<1>1. \A h \in Handles : h \notin gone => Finish(e, gone)[h] = e[h]
  BY DEF Finish
<1>2. ASSUME NEW h \in gone
      PROVE  /\ Finish(e, gone)[h] \in EntryType
             /\ Finish(e, gone)[h].refs = e[h].refs - 1 /\ ~Finish(e, gone)[h].inCache
             /\ e[h].refs = 1 => Finish(e, gone)[h] = NoEntry
             /\ e[h].refs # 1 => /\ Finish(e, gone)[h].key = e[h].key
                                 /\ Finish(e, gone)[h].charge = e[h].charge
  <2>1. PICK x \in EntryType : x = e[h] /\ x.refs \in Nat \ {0}
    <3>. HIDE DEF EntryType
    <3> QED  OBVIOUS
  <2>2. Finish(e, gone)[h] = IF x.refs - 1 = 0 THEN NoEntry
                             ELSE [x EXCEPT !.inCache = FALSE, !.refs = x.refs - 1]
    <3>1. h \in Handles /\ ~(h \notin gone)
      OBVIOUS
    <3>2. Finish(e, gone)[h] =
            IF DropRef(e[h]) = 0 THEN NoEntry
            ELSE [e[h] EXCEPT !.inCache = FALSE, !.refs = DropRef(e[h])]
      BY <3>1 DEF Finish
    <3> QED
      BY <3>2, <2>1 DEF DropRef
  <2>3. CASE x.refs = 1
    BY <2>1, <2>2, <2>3 DEF NoEntry, EntryType
  <2>4. CASE x.refs # 1
    <3>1. Finish(e, gone)[h] = [x EXCEPT !.inCache = FALSE, !.refs = x.refs - 1]
      BY <2>1, <2>2, <2>4
    <3>2. x.refs - 1 \in Nat
      BY <2>1
    <3>3. /\ [x EXCEPT !.inCache = FALSE, !.refs = x.refs - 1] \in EntryType
          /\ [x EXCEPT !.inCache = FALSE, !.refs = x.refs - 1].refs = x.refs - 1
          /\ ~[x EXCEPT !.inCache = FALSE, !.refs = x.refs - 1].inCache
          /\ [x EXCEPT !.inCache = FALSE, !.refs = x.refs - 1].key = x.key
          /\ [x EXCEPT !.inCache = FALSE, !.refs = x.refs - 1].charge = x.charge
      BY <3>2 DEF EntryType
    <3> QED
      BY <3>1, <3>3, <2>1, <2>4
  <2> QED
    BY <2>1, <2>3, <2>4
<1>3. Finish(e, gone) = [h \in Handles |-> Finish(e, gone)[h]]
  BY DEF Finish
<1>4. ASSUME NEW h \in Handles PROVE Finish(e, gone)[h] \in EntryType
  <2>1. CASE h \in gone
    BY <2>1, <1>2
  <2>2. CASE h \notin gone
    BY <2>2, <1>1
  <2> QED
    BY <2>1, <2>2
<1>5. Finish(e, gone) \in [Handles -> EntryType]
  <2>. HIDE DEF EntryType
  <2> QED  BY <1>3, <1>4
<1> QED
  BY <1>1, <1>2, <1>5

\* Some of what is cached leaves the table, its shards and, where it is on one, its list.
LEMMA EraseAllKeeps ==
  ASSUME CacheAssumption, CacheInv, NEW gone, gone \subseteq {h \in Handles : InCache(h)},
         NEW left \in [Shards -> Seq(Handles)],
         \A s \in Shards : Once(left[s]) /\ ToSet(left[s]) = ToSet(lru[s]) \ gone,
         EraseAll(gone, left)
  PROVE  CacheInv'
<1>0. CacheTypeOK /\ References /\ TableIsExact /\ Lists /\ UsageIsCharge /\ OffIsEmpty
  BY DEF CacheInv
<1>1. /\ entry' = Finish(entry, gone) /\ table' = Unmapped(gone) /\ lru' = left
      /\ inUse' = inUse \ gone /\ held' = held
      /\ usage' = [s \in Shards |->
                     usage[s] - ChargeOf(entry, {h \in gone : ShardOf[entry[h].key] = s})]
  BY DEF EraseAll
<1>2. entry \in [Handles -> EntryType]
  BY <1>0 DEF CacheTypeOK, EntryType
<1>3. \A h \in gone : h \in Handles /\ entry[h].refs \in Nat \ {0} /\ entry[h].inCache
  BY <1>0, EntryFields DEF InCache
<1>4. /\ entry' \in [Handles -> EntryType]
      /\ \A h \in Handles : h \notin gone => entry'[h] = entry[h]
      /\ \A h \in gone :
           /\ entry'[h].refs = entry[h].refs - 1 /\ ~entry'[h].inCache
           /\ entry[h].refs = 1 => entry'[h] = NoEntry
           /\ entry[h].refs # 1 => /\ entry'[h].key = entry[h].key
                                   /\ entry'[h].charge = entry[h].charge
  <2>. HIDE DEF EntryType
  <2> QED  BY <1>1, <1>2, <1>3, FinishIs
<1>. HIDE DEF EntryType
<1>5. \A h \in Handles : InCache(h)' <=> InCache(h) /\ h \notin gone
  BY <1>4 DEF InCache
<1>6. ASSUME NEW s \in Shards PROVE Cached(s)' = Cached(s) \ gone
  BY <1>4, <1>5 DEF Cached
<1>7. References'
  <2>1. ASSUME NEW h \in Handles
        PROVE  entry'[h].refs = held'[h] + (IF entry'[h].inCache THEN 1 ELSE 0)
    <3>0. /\ entry[h].refs = held[h] + (IF entry[h].inCache THEN 1 ELSE 0) /\ held'[h] = held[h]
          /\ held[h] \in Nat
      BY <1>0, <1>1 DEF References, CacheTypeOK
    <3>1. CASE h \in gone
      BY <3>0, <3>1, <1>3, <1>4
    <3>2. CASE h \notin gone
      BY <3>0, <3>2, <1>4
    <3> QED
      BY <3>1, <3>2
  <2> QED
    BY <2>1 DEF References
<1>8. \A k \in Keys : /\ table[k] \in gone => table'[k] = Nil
                      /\ table[k] \notin gone => table'[k] = table[k]
  BY <1>1 DEF Unmapped
<1>9. table' \in [Keys -> Handles \cup {Nil}]
  BY <1>1, <1>0 DEF Unmapped, CacheTypeOK
<1>10. Nil \notin Handles
  BY DEF Nil, CacheAssumption
<1>11. TableIsExact'
  <2>1. ASSUME NEW h \in Handles, InCache(h)' PROVE table'[entry'[h].key] = h
    <3>1. h \notin gone /\ InCache(h) /\ entry'[h] = entry[h]
      BY <2>1, <1>4, <1>5
    <3>2. table[entry[h].key] = h /\ entry[h].key \in Keys
      BY <3>1, <1>0, EntryFields DEF TableIsExact, InCache
    <3> QED
      BY <3>1, <3>2, <1>8
  <2>2. ASSUME NEW k \in Keys, table'[k] # Nil
        PROVE  /\ entry'[table'[k]].refs > 0 /\ entry'[table'[k]].inCache
               /\ entry'[table'[k]].key = k
    <3>1. table[k] \notin gone /\ table'[k] = table[k]
      BY <2>2, <1>8
    <3>2. PICK h \in Handles : h = table[k]
      BY <3>1, <2>2, <1>0 DEF CacheTypeOK
    <3>3. h \notin gone /\ InCache(h) /\ entry[h].key = k
      BY <3>1, <3>2, <2>2, <1>0 DEF TableIsExact
    <3>4. InCache(h)' /\ entry'[h].key = k
      BY <3>3, <1>4, <1>5
    <3> QED
      BY <3>1, <3>2, <3>4 DEF InCache
  <2> QED
    BY <2>1, <2>2 DEF TableIsExact, InCache
<1>12. Lists'
  <2>1. inUse' = {h \in Handles : InCache(h)' /\ entry'[h].refs >= 2}
    BY <1>0, <1>1, <1>4, <1>5 DEF Lists
  <2>2. ASSUME NEW s \in Shards
        PROVE  Once(lru'[s]) /\ ToSet(lru'[s]) = {h \in Cached(s)' : entry'[h].refs = 1}
    <3>1. {h \in Cached(s)' : entry'[h].refs = 1} = {h \in Cached(s) : entry[h].refs = 1} \ gone
      BY <1>4, <1>6 DEF Cached
    <3> QED
      BY <3>1, <1>0, <1>1 DEF Lists
  <2> QED
    BY <2>1, <2>2 DEF Lists, Shards
<1>13. ASSUME NEW s \in Shards
       PROVE  usage'[s] \in Nat /\ usage'[s] = ChargeOf(entry', Cached(s)')
  <2>. DEFINE T == {h \in gone : ShardOf[entry[h].key] = s}
  <2>1. PICK C : C = Cached(s)
    OBVIOUS
  <2>2. IsFiniteSet(C) /\ \A h \in C : entry[h].charge \in Nat
    BY <2>1, <1>0, FS_Subset, EntryFields DEF Cached, CacheAssumption
  <2>3. T \in SUBSET C /\ Cached(s)' = C \ T
    BY <2>1, <1>6 DEF Cached
  <2>4. usage'[s] = usage[s] - ChargeOf(entry, T) /\ usage[s] = ChargeOf(entry, C)
    BY <1>0, <1>1, <2>1 DEF UsageIsCharge, Cached
  <2>. HIDE DEF T
  <2>5. ChargeOf(entry, C \ T) \in Nat /\ ChargeOf(entry, C \ T) = usage'[s]
    BY <2>2, <2>3, <2>4, ChargeLeft
  <2>6. \A h \in C \ T : entry'[h].charge = entry[h].charge /\ entry[h].charge \in Nat
    BY <2>1, <2>2, <1>4 DEF Cached, T
  <2>7. IsFiniteSet(C \ T)
    BY <2>2, FS_Subset
  <2>8. ChargeOf(entry', C \ T) = ChargeOf(entry, C \ T)
    BY <2>6, <2>7, ChargeSame
  <2> QED
    BY <2>3, <2>5, <2>8
<1>14. UsageIsCharge'
  BY <1>13 DEF UsageIsCharge, Cached, Shards
<1>15. OffIsEmpty'
  BY <1>0, <1>5 DEF OffIsEmpty, PerShard
<1>16. CacheTypeOK'
  <2>1. usage' \in [Shards -> Nat]
    BY <1>1, <1>13
  <2>2. \A h \in Handles : IF entry'[h].refs = 0 THEN entry'[h] = NoEntry ELSE entry'[h].key \in Keys
    <3>. TAKE h \in Handles
    <3>1. IF entry[h].refs = 0 THEN entry[h] = NoEntry ELSE entry[h].key \in Keys
      BY <1>0 DEF CacheTypeOK
    <3>2. CASE h \in gone
      BY <3>1, <3>2, <1>3, <1>4
    <3>3. CASE h \notin gone
      BY <3>1, <3>3, <1>4
    <3> QED
      BY <3>2, <3>3
  <2>3. lru' \in [Shards -> Seq(Handles)] /\ inUse' \subseteq Handles /\ held' \in [Handles -> Nat]
    BY <1>0, <1>1 DEF CacheTypeOK
  <2>4. Keys' = Keys /\ Shards' = Shards
    BY DEF Shards
  <2> QED
    BY <2>1, <2>2, <2>3, <1>4, <1>9 DEF CacheTypeOK, EntryType, Shards
<1> QED
  BY <1>7, <1>11, <1>12, <1>14, <1>15, <1>16 DEF CacheInv

\* Erase of a key.
LEMMA EraseKeeps ==
  ASSUME CacheAssumption, CacheInv, NEW k \in Keys, Erase(k)
  PROVE  CacheInv'
<1>0. CacheTypeOK /\ TableIsExact /\ Lists
  BY DEF CacheInv
<1>. DEFINE gone == {table[k]} \ {Nil}
            left == [lru EXCEPT ![ShardOf[k]] = RemoveFirst(@, table[k])]
<1>1. EraseAll(gone, left)
  BY DEF Erase
<1>2. gone \subseteq {h \in Handles : InCache(h)}
  BY <1>0 DEF CacheTypeOK, TableIsExact
<1>3. ShardOf[k] \in Shards
  BY DEF CacheAssumption, Shards
<1>4. /\ RemoveFirst(lru[ShardOf[k]], table[k]) \in Seq(Handles)
      /\ Once(RemoveFirst(lru[ShardOf[k]], table[k]))
      /\ ToSet(RemoveFirst(lru[ShardOf[k]], table[k])) = ToSet(lru[ShardOf[k]]) \ {table[k]}
  BY <1>0, <1>3, UnlinkIs DEF CacheTypeOK, Lists
<1>5. left \in [Shards -> Seq(Handles)]
  BY <1>0, <1>3, <1>4 DEF CacheTypeOK
<1>6. ASSUME NEW s \in Shards PROVE Once(left[s]) /\ ToSet(left[s]) = ToSet(lru[s]) \ gone
  <2>1. Nil \notin ToSet(lru[s])
    BY <1>0 DEF Lists, Cached, CacheAssumption, Nil
  <2>2. CASE s = ShardOf[k]
    <3>1. left[s] = RemoveFirst(lru[s], table[k])
      BY <2>2, <1>0 DEF CacheTypeOK
    <3> QED
      BY <3>1, <2>1, <2>2, <1>4
  <2>3. CASE s # ShardOf[k]
    <3>1. left[s] = lru[s]
      BY <2>3, <1>0 DEF CacheTypeOK
    <3>2. gone \cap ToSet(lru[s]) = {}
      BY <2>3, <1>0 DEF CacheTypeOK, TableIsExact, Lists, Cached
    <3> QED
      BY <3>1, <3>2, <1>0 DEF Lists
  <2> QED
    BY <2>2, <2>3
<1>. HIDE DEF gone, left
<1> QED
  BY <1>1, <1>2, <1>5, <1>6, EraseAllKeeps

\* Prune: all that no client holds.
LEMMA PruneKeeps ==
  ASSUME CacheAssumption, CacheInv, Prune
  PROVE  CacheInv'
<1>0. CacheTypeOK /\ Lists
  BY DEF CacheInv
<1>. DEFINE gone == UNION {ToSet(lru[s]) : s \in Shards}
            left == [s \in Shards |-> <<>>]
<1>1. EraseAll(gone, left)
  BY DEF Prune
<1>2. gone \subseteq {h \in Handles : InCache(h)}
  BY <1>0 DEF Lists, Cached
<1>3. left \in [Shards -> Seq(Handles)]
  OBVIOUS
<1>4. ASSUME NEW s \in Shards PROVE Once(left[s]) /\ ToSet(left[s]) = ToSet(lru[s]) \ gone
  <2>1. left[s] = <<>> /\ ToSet(lru[s]) \subseteq gone
    OBVIOUS
  <2> QED
    BY <2>1 DEF Once, ToSet
<1>. HIDE DEF gone, left
<1> QED
  BY <1>1, <1>2, <1>3, <1>4, EraseAllKeeps

-----------------------------------------------------------------------------
(***************************************************************************)
(* Insert, with the entry h in place of the entries old of the key and of  *)
(* the first n on list, what is left of lru_.                              *)
(***************************************************************************)
NewEntry(k, charge) ==
  [key |-> k, charge |-> charge, inCache |-> PerShard > 0, refs |-> NewRefs(PerShard > 0)]
With(h, k, charge) == [entry EXCEPT ![h] = NewEntry(k, charge)]
UsedBy(k, charge, old) ==
  (IF PerShard > 0 THEN Grown(usage[ShardOf[k]], charge) ELSE usage[ShardOf[k]])
    - ChargeOf(entry, old)
\* What is known before the step.
MayInsert(k, charge, h, old, list, n) ==
  /\ entry[h] = NoEntry /\ held[h] = 0 /\ ~InCache(h)
  /\ old = IF PerShard > 0 /\ table[k] # Nil THEN {table[k]} ELSE {}
  /\ Once(list) /\ ToSet(list) = ToSet(lru[ShardOf[k]]) \ old
  /\ \A m \in 0..Len(list) :
       LET within == UsedAfter(m, With(h, k, charge), list, UsedBy(k, charge, old)) <= PerShard
       IN  (m = n => within \/ n = Len(list)) /\ (m < n => ~within)
\* The step.
Inserted(k, charge, h, old, list, n, out) ==
  /\ out = ToSet(SubSeq(list, 1, n))
  /\ entry' = Finish(With(h, k, charge), old \cup out)
  /\ table' = IF PerShard > 0 THEN [Unmapped(out) EXCEPT ![k] = h] ELSE Unmapped(out)
  /\ lru' = [lru EXCEPT ![ShardOf[k]] = SubSeq(list, n + 1, Len(list))]
  /\ inUse' = (inUse \ old) \cup (IF PerShard > 0 THEN {h} ELSE {})
  /\ usage' = [usage EXCEPT ![ShardOf[k]] =
                 UsedBy(k, charge, old) - ChargeOf(With(h, k, charge), out)]
  /\ held' = [held EXCEPT ![h] = 1]

\* Every Insert is one of these.
LEMMA InsertIs ==
  ASSUME CacheAssumption, CacheInv, NEW k \in Keys, NEW charge \in Charges, Insert(k, charge)
  PROVE  \E h \in Handles : \E old \in SUBSET Handles : \E list \in Seq(Handles) :
         \E n \in 0..Len(list) : \E out \in SUBSET Handles :
           MayInsert(k, charge, h, old, list, n) /\ Inserted(k, charge, h, old, list, n, out)
<1>. DEFINE s == ShardOf[k]
            h == Min(Unused)
            cached == PerShard > 0
            old == IF cached /\ table[k] # Nil THEN {table[k]} ELSE {}
            list == IF cached THEN RemoveFirst(lru[s], table[k]) ELSE lru[s]
            n == Evicted(With(h, k, charge), list, UsedBy(k, charge, old))
            out == ToSet(SubSeq(list, 1, n))
<1>0. CacheTypeOK /\ References /\ TableIsExact /\ Lists
  BY DEF CacheInv
<1>1. s \in Shards /\ PerShard \in Nat
  BY PerShardIs DEF CacheAssumption, Shards
<1>2. h \in Handles /\ entry[h].refs = 0
  <2>1. Unused \subseteq Nat /\ Unused # {}
    BY DEF Insert, Unused, CacheAssumption
  <2> QED
    BY <2>1, LeastIs DEF Unused
<1>3. entry[h] = NoEntry /\ ~InCache(h) /\ held[h] = 0
  <2>. HIDE DEF h
  <2>1. entry[h] = NoEntry /\ ~InCache(h)
    BY <1>0, <1>2, EntryFields DEF InCache
  <2>2. 0 = held[h] + 0
    BY <2>1, <1>0, <1>2 DEF References, NoEntry
  <2>3. held[h] \in Nat
    BY <1>0, <1>2 DEF CacheTypeOK
  <2> QED
    BY <2>1, <2>2, <2>3
<1>4. old \in SUBSET Handles
  BY <1>0 DEF CacheTypeOK
<1>5. list \in Seq(Handles) /\ Once(list) /\ ToSet(list) = ToSet(lru[s]) \ old
  <2>1. lru[s] \in Seq(Handles) /\ Once(lru[s]) /\ Nil \notin ToSet(lru[s])
    BY <1>0, <1>1 DEF CacheTypeOK, Lists, Cached, CacheAssumption, Nil
  <2>2. CASE cached
    <3>1. list \in Seq(Handles) /\ Once(list) /\ ToSet(list) = ToSet(lru[s]) \ {table[k]}
      BY <2>1, <2>2, UnlinkIs
    <3> QED
      BY <3>1, <2>1, <2>2
  <2>3. CASE ~cached
    BY <2>1, <2>3
  <2> QED
    BY <2>2, <2>3
<1>6. /\ n \in 0..Len(list)
      /\ \A m \in 0..Len(list) :
           LET within == UsedAfter(m, With(h, k, charge), list, UsedBy(k, charge, old)) <= PerShard
           IN  (m = n => within \/ n = Len(list)) /\ (m < n => ~within)
  <2>. HIDE DEF h, old, list
  <2>. DEFINE Within(m) ==
                UsedAfter(m, With(h, k, charge), list, UsedBy(k, charge, old)) <= PerShard
              S == {m \in 0..Len(list) : Within(m) \/ m = Len(list)}
  <2>1. n = Min(S)
    BY DEF Evicted
  <2>. HIDE DEF n, Within
  <2>2. Len(list) \in Nat
    BY <1>5
  <2>3. S \subseteq Nat /\ S # {}
    BY <2>2
  <2>4. n \in S /\ \A m \in S : n <= m
    <3>. HIDE DEF S
    <3> QED  BY <2>1, <2>3, LeastIs
  <2>5. n \in 0..Len(list) /\ \A m \in 0..Len(list) :
          (m = n => Within(m) \/ n = Len(list)) /\ (m < n => ~Within(m))
    BY <2>2, <2>4
  <2> QED
    BY <2>5 DEF Within
<1>7. out \in SUBSET Handles
  <2>. HIDE DEF h, old, list, n
  <2> QED  BY <1>5, <1>6, SplitIs DEF Lists, ToSet
<1>8. Inserted(k, charge, h, old, list, n, out)
  BY DEF Insert, Inserted, With, NewEntry, UsedBy
<1>. HIDE DEF h, list, n, out
<1>9. MayInsert(k, charge, h, old, list, n)
  BY <1>3, <1>5, <1>6 DEF MayInsert
<1>. HIDE DEF old
<1> QED
  BY <1>2, <1>4, <1>5, <1>6, <1>7, <1>8, <1>9

\* What comes of it: what goes is cached in the shard of the key, the rest stays as it is.
Moved(k, charge, h, old, list, n, out) ==
  /\ out = {list[i] : i \in 1..n} /\ out \subseteq ToSet(list)
  /\ h \notin old \cup out /\ old \cap out = {}
  /\ \A g \in old \cup out : g \in Cached(ShardOf[k])
  /\ \A g \in old : entry[g].key = k /\ table[k] = g
  /\ \A g \in out : entry[g].refs = 1 /\ entry[g].key # k
  /\ PerShard > 0 \/ old \cup out = {}
  /\ entry' \in [Handles -> EntryType] /\ entry'[h] = NewEntry(k, charge)
  /\ \A g \in Handles : g \notin old \cup out /\ g # h => entry'[g] = entry[g]
  /\ \A g \in old \cup out :
       /\ entry'[g].refs = entry[g].refs - 1 /\ ~entry'[g].inCache
       /\ entry[g].refs = 1 => entry'[g] = NoEntry
       /\ entry[g].refs # 1 => /\ entry'[g].key = entry[g].key
                               /\ entry'[g].charge = entry[g].charge
  /\ \A g \in Handles :
       InCache(g)' <=> (InCache(g) /\ g \notin old \cup out) \/ (g = h /\ PerShard > 0)
\* An Insert does that.
LEMMA InsertMoves ==
  ASSUME CacheAssumption, CacheInv, NEW k \in Keys, NEW charge \in Charges,
         NEW h \in Handles, NEW old \in SUBSET Handles, NEW list \in Seq(Handles),
         NEW n \in 0..Len(list), NEW out \in SUBSET Handles,
         MayInsert(k, charge, h, old, list, n), Inserted(k, charge, h, old, list, n, out)
  PROVE  Moved(k, charge, h, old, list, n, out)
<1>. DEFINE s == ShardOf[k]
            gone == old \cup out
            new == With(h, k, charge)
<1>0. CacheTypeOK /\ References /\ TableIsExact /\ Lists /\ OffIsEmpty
  BY DEF CacheInv
<1>1. s \in Shards /\ PerShard \in Nat
  BY PerShardIs DEF CacheAssumption, Shards
<1>2. /\ entry[h] = NoEntry /\ ~InCache(h)
      /\ old = IF PerShard > 0 /\ table[k] # Nil THEN {table[k]} ELSE {}
      /\ Once(list) /\ ToSet(list) = ToSet(lru[s]) \ old
  BY DEF MayInsert
<1>3. out = {list[i] : i \in 1..n} /\ out \subseteq ToSet(list)
  BY <1>2, SplitIs DEF Inserted
<1>4. \A g \in old : g \in Handles /\ InCache(g) /\ entry[g].key = k /\ table[k] = g
  BY <1>0, <1>2 DEF CacheTypeOK, TableIsExact
<1>5. \A g \in out : g \in Cached(s) /\ g \notin old /\ entry[g].refs = 1
  BY <1>0, <1>1, <1>2, <1>3 DEF Lists
<1>6. ASSUME NEW g \in out PROVE entry[g].key # k
  <2>. SUFFICES ASSUME entry[g].key = k PROVE FALSE
    OBVIOUS
  <2>1. g \in Handles /\ InCache(g) /\ g \notin old
    BY <1>5 DEF Cached
  <2>2. table[k] = g
    BY <2>1, <1>0 DEF TableIsExact
  <2>3. g # Nil
    BY <2>1 DEF CacheAssumption, Nil
  <2>4. PerShard > 0
    BY <2>1, <1>0, <1>1 DEF OffIsEmpty
  <2> QED
    BY <2>1, <2>2, <2>3, <2>4, <1>2
<1>7. \A g \in gone : g \in Cached(s) /\ g # h
  BY <1>2, <1>4, <1>5 DEF Cached
<1>8. PerShard > 0 \/ gone = {}
  BY <1>0, <1>1, <1>7 DEF OffIsEmpty, Cached
<1>9. NewEntry(k, charge) \in EntryType
  BY DEF NewEntry, EntryType, NewRefs
<1>10. entry \in [Handles -> EntryType]
  BY <1>0 DEF CacheTypeOK, EntryType
<1>11. /\ new \in [Handles -> EntryType] /\ new[h] = NewEntry(k, charge)
       /\ \A g \in Handles : g # h => new[g] = entry[g]
  <2>. HIDE DEF EntryType
  <2> QED  BY <1>9, <1>10 DEF With
<1>12. \A g \in gone : entry[g].refs \in Nat \ {0}
  BY <1>0, <1>7, EntryFields DEF Cached, InCache
<1>13. gone \in SUBSET Handles /\ \A g \in gone : new[g] = entry[g] /\ new[g].refs \in Nat \ {0}
  BY <1>7, <1>11, <1>12
<1>14. entry' = Finish(new, gone)
  BY DEF Inserted
<1>. HIDE DEF new, gone, EntryType
<1>15. /\ entry' \in [Handles -> EntryType]
       /\ \A g \in Handles : g \notin gone => entry'[g] = new[g]
       /\ \A g \in gone :
            /\ entry'[g].refs = new[g].refs - 1 /\ ~entry'[g].inCache
            /\ new[g].refs = 1 => entry'[g] = NoEntry
            /\ new[g].refs # 1 => /\ entry'[g].key = new[g].key
                                  /\ entry'[g].charge = new[g].charge
  BY <1>11, <1>13, <1>14, FinishIs
<1>16. /\ entry'[h] = NewEntry(k, charge)
       /\ \A g \in Handles : g \notin gone /\ g # h => entry'[g] = entry[g]
       /\ \A g \in gone :
            /\ entry'[g].refs = entry[g].refs - 1 /\ ~entry'[g].inCache
            /\ entry[g].refs = 1 => entry'[g] = NoEntry
            /\ entry[g].refs # 1 => /\ entry'[g].key = entry[g].key
                                    /\ entry'[g].charge = entry[g].charge
  BY <1>7, <1>11, <1>13, <1>15
<1>17. entry'[h].refs > 0 /\ (entry'[h].inCache <=> PerShard > 0)
  <2>1. NewEntry(k, charge).refs = NewRefs(PerShard > 0)
    BY DEF NewEntry
  <2>2. NewEntry(k, charge).inCache <=> PerShard > 0
    BY DEF NewEntry
  <2>3. NewRefs(PerShard > 0) > 0
    BY DEF NewRefs
  <2> QED
    BY <2>1, <2>2, <2>3, <1>16
<1>18. \A g \in Handles : InCache(g)' <=> (InCache(g) /\ g \notin gone) \/ (g = h /\ PerShard > 0)
  BY <1>2, <1>7, <1>16, <1>17 DEF InCache
<1> QED
  BY <1>3, <1>4, <1>5, <1>6, <1>7, <1>8, <1>15, <1>16, <1>18 DEF gone, Moved

\* The usage of its shard after an Insert.
LEMMA InsertCharges ==
  ASSUME CacheAssumption, CacheInv, NEW k \in Keys, NEW charge \in Charges,
         NEW h \in Handles, NEW old \in SUBSET Handles, NEW list \in Seq(Handles),
         NEW n \in 0..Len(list), NEW out \in SUBSET Handles,
         MayInsert(k, charge, h, old, list, n), Inserted(k, charge, h, old, list, n, out)
  PROVE  \A s \in Shards : usage'[s] \in Nat /\ usage'[s] = ChargeOf(entry', Cached(s)')
<1>. DEFINE gone == old \cup out
            t == ShardOf[k]
<1>0. CacheTypeOK /\ UsageIsCharge
  BY DEF CacheInv
<1>1. t \in Shards /\ PerShard \in Nat /\ charge \in Nat
  BY PerShardIs DEF CacheAssumption, Shards
<1>2. /\ ~InCache(h) /\ h \notin gone /\ old \cap out = {}
      /\ \A g \in gone : g \in Cached(t)
      /\ PerShard > 0 \/ gone = {}
      /\ entry'[h] = NewEntry(k, charge)
      /\ \A g \in Handles : g \notin gone /\ g # h => entry'[g] = entry[g]
      /\ \A g \in Handles : InCache(g)' <=> (InCache(g) /\ g \notin gone) \/ (g = h /\ PerShard > 0)
  <2>1. Moved(k, charge, h, old, list, n, out)
    BY InsertMoves
  <2> QED
    BY <2>1 DEF MayInsert, Moved
<1>3. entry'[h].key = k /\ entry'[h].charge = charge
  BY <1>2 DEF NewEntry
<1>4. ASSUME NEW s \in Shards
      PROVE  /\ IsFiniteSet(Cached(s)) /\ Cached(s) \subseteq Handles
             /\ \A g \in Cached(s) : entry[g].charge \in Nat /\ g # h
             /\ usage[s] = ChargeOf(entry, Cached(s)) /\ usage[s] \in Nat
  BY <1>0, <1>2, FS_Subset, EntryFields DEF Cached, CacheAssumption, UsageIsCharge, CacheTypeOK
<1>5. usage' = [usage EXCEPT ![t] = UsedBy(k, charge, old) - ChargeOf(With(h, k, charge), out)]
  BY DEF Inserted
<1>6. ASSUME NEW s \in Shards, s # t
      PROVE  usage'[s] \in Nat /\ usage'[s] = ChargeOf(entry', Cached(s)')
  <2>1. usage'[s] = usage[s]
    BY <1>0, <1>5, <1>6 DEF CacheTypeOK
  <2>2. PICK C : C = Cached(s)
    OBVIOUS
  <2>3. \A g \in gone : g \notin C
    BY <2>2, <1>2, <1>6 DEF Cached
  <2>4. Cached(s)' = C
    BY <2>2, <2>3, <1>2, <1>3, <1>6 DEF Cached
  <2>5. \A g \in C : entry'[g].charge = entry[g].charge
    BY <2>2, <2>3, <1>2, <1>4 DEF Cached
  <2>6. ChargeOf(entry', C) = ChargeOf(entry, C)
    BY <2>2, <2>5, <1>4, ChargeSame
  <2> QED
    BY <2>1, <2>2, <2>4, <2>6, <1>4
<1>7. usage'[t] \in Nat /\ usage'[t] = ChargeOf(entry', Cached(t)')
  <2>1. PICK C : C = Cached(t)
    OBVIOUS
  <2>2. /\ IsFiniteSet(C) /\ C \subseteq Handles /\ \A g \in C : entry[g].charge \in Nat /\ g # h
        /\ usage[t] = ChargeOf(entry, C) /\ usage[t] \in Nat
    BY <2>1, <1>1, <1>4
  <2>3. gone \subseteq C /\ IsFiniteSet(old) /\ IsFiniteSet(out) /\ IsFiniteSet(gone)
    BY <2>1, <2>2, <1>2, FS_Subset
  <2>4. ChargeOf(With(h, k, charge), out) = ChargeOf(entry, out)
    <3>1. \A g \in out : With(h, k, charge)[g] = entry[g]
      BY <1>0, <1>2 DEF With, CacheTypeOK
    <3>2. \A g \in out : entry[g].charge \in Nat
      BY <2>2, <2>3
    <3> QED
      BY <3>1, <3>2, <2>3, ChargeSame
  <2>5. usage'[t] = UsedBy(k, charge, old) - ChargeOf(entry, out)
    BY <2>4, <1>0, <1>1, <1>5 DEF CacheTypeOK
  <2>6. /\ ChargeOf(entry, gone) = ChargeOf(entry, old) + ChargeOf(entry, out)
        /\ ChargeOf(entry, old) \in Nat /\ ChargeOf(entry, out) \in Nat
    BY <2>2, <2>3, <1>2, ChargeUnion, ChargeWithout
  <2>7. /\ ChargeOf(entry, C \ gone) = usage[t] - ChargeOf(entry, gone)
        /\ ChargeOf(entry, C \ gone) \in Nat
    BY <2>2, <2>3, ChargeLeft
  <2>8. IsFiniteSet(C \ gone)
    BY <2>2, FS_Subset
  <2>9. \A g \in C \ gone : entry'[g].charge = entry[g].charge /\ entry'[g].charge \in Nat
    BY <2>2, <1>2
  <2>10. ChargeOf(entry', C \ gone) = ChargeOf(entry, C \ gone)
    BY <2>2, <2>8, <2>9, ChargeSame
  <2>11. CASE PerShard > 0
    <3>1. Cached(t)' = (C \ gone) \cup {h}
      BY <2>1, <2>11, <1>2, <1>3 DEF Cached
    <3>2. IsFiniteSet((C \ gone) \cup {h}) /\ h \notin C \ gone
      BY <2>2, <2>8, FS_AddElement
    <3>3. ((C \ gone) \cup {h}) \ {h} = C \ gone
      BY <3>2
    <3>4. \A g \in (C \ gone) \cup {h} : entry'[g].charge \in Nat
      BY <2>9, <1>1, <1>3
    <3>5. ChargeOf(entry', (C \ gone) \cup {h}) = charge + ChargeOf(entry', C \ gone)
      BY <3>2, <3>3, <3>4, <1>3, ChargeWithout
    <3>6. UsedBy(k, charge, old) = (usage[t] + charge) - ChargeOf(entry, old)
      <4>1. UsedBy(k, charge, old) = Grown(usage[t], charge) - ChargeOf(entry, old)
        BY <2>11 DEF UsedBy
      <4>2. Grown(usage[t], charge) = usage[t] + charge
        BY DEF Grown
      <4> QED
        BY <4>1, <4>2
    <3>. HIDE DEF gone
    <3> QED
      BY <3>1, <3>5, <3>6, <2>2, <2>5, <2>6, <2>7, <2>10, <1>1
  <2>12. CASE ~(PerShard > 0)
    <3>1. Cached(t)' = C \ gone
      BY <2>1, <2>12, <1>2 DEF Cached
    <3>2. UsedBy(k, charge, old) = usage[t] - ChargeOf(entry, old)
      BY <2>12 DEF UsedBy
    <3>. HIDE DEF gone
    <3> QED
      BY <3>1, <3>2, <2>2, <2>5, <2>6, <2>7, <2>10
  <2> QED
    BY <2>11, <2>12
<1> QED
  BY <1>6, <1>7

\* Insert: an entry for the key, of which a client gets a handle.
LEMMA InsertKeeps ==
  ASSUME CacheAssumption, CacheInv, NEW k \in Keys, NEW charge \in Charges, Insert(k, charge)
  PROVE  CacheInv'
<1>a. PICK h \in Handles, old \in SUBSET Handles, list \in Seq(Handles) :
        \E n \in 0..Len(list), out \in SUBSET Handles :
          MayInsert(k, charge, h, old, list, n) /\ Inserted(k, charge, h, old, list, n, out)
  BY InsertIs
<1>1. PICK n \in 0..Len(list), out \in SUBSET Handles :
        MayInsert(k, charge, h, old, list, n) /\ Inserted(k, charge, h, old, list, n, out)
  BY <1>a
<1>. DEFINE gone == old \cup out
            t == ShardOf[k]
<1>0. CacheTypeOK /\ References /\ TableIsExact /\ Lists /\ OffIsEmpty
  BY DEF CacheInv
<1>2. t \in Shards /\ PerShard \in Nat
  BY PerShardIs DEF CacheAssumption, Shards
<1>3. /\ entry[h] = NoEntry /\ held[h] = 0 /\ ~InCache(h)
      /\ old = IF PerShard > 0 /\ table[k] # Nil THEN {table[k]} ELSE {}
      /\ Once(list) /\ ToSet(list) = ToSet(lru[t]) \ old
      /\ out = ToSet(SubSeq(list, 1, n))
      /\ table' = IF PerShard > 0 THEN [Unmapped(out) EXCEPT ![k] = h] ELSE Unmapped(out)
      /\ lru' = [lru EXCEPT ![t] = SubSeq(list, n + 1, Len(list))]
      /\ inUse' = (inUse \ old) \cup (IF PerShard > 0 THEN {h} ELSE {})
      /\ usage' = [usage EXCEPT ![t] = UsedBy(k, charge, old) - ChargeOf(With(h, k, charge), out)]
      /\ held' = [held EXCEPT ![h] = 1]
  BY <1>1 DEF MayInsert, Inserted
<1>4. /\ h \notin gone /\ old \cap out = {}
      /\ \A g \in gone : g \in Cached(t)
      /\ \A g \in old : entry[g].key = k /\ table[k] = g
      /\ \A g \in out : entry[g].refs = 1 /\ entry[g].key # k
      /\ PerShard > 0 \/ gone = {}
      /\ entry' \in [Handles -> EntryType] /\ entry'[h] = NewEntry(k, charge)
      /\ \A g \in Handles : g \notin gone /\ g # h => entry'[g] = entry[g]
      /\ \A g \in gone :
           /\ entry'[g].refs = entry[g].refs - 1 /\ ~entry'[g].inCache
           /\ entry[g].refs = 1 => entry'[g] = NoEntry
           /\ entry[g].refs # 1 => /\ entry'[g].key = entry[g].key
                                   /\ entry'[g].charge = entry[g].charge
      /\ \A g \in Handles : InCache(g)' <=> (InCache(g) /\ g \notin gone) \/ (g = h /\ PerShard > 0)
  <2>1. Moved(k, charge, h, old, list, n, out)
    BY <1>1, InsertMoves
  <2> QED
    BY <2>1 DEF Moved
<1>. HIDE DEF EntryType
<1>5. /\ entry'[h].key = k /\ entry'[h].charge = charge
      /\ PerShard > 0 => entry'[h].refs = 2 /\ entry'[h].inCache
      /\ ~(PerShard > 0) => entry'[h].refs = 1 /\ ~entry'[h].inCache
  <2>1. /\ NewEntry(k, charge).key = k /\ NewEntry(k, charge).charge = charge
        /\ NewEntry(k, charge).refs = NewRefs(PerShard > 0)
        /\ NewEntry(k, charge).inCache <=> PerShard > 0
    BY DEF NewEntry
  <2>2. (PerShard > 0 => NewRefs(PerShard > 0) = 2) /\ (~(PerShard > 0) => NewRefs(PerShard > 0) = 1)
    BY DEF NewRefs
  <2> QED
    BY <2>1, <2>2, <1>4
<1>6. UsageIsCharge' /\ usage' \in [Shards -> Nat]
  <2>1. \A s \in Shards : usage'[s] \in Nat /\ usage'[s] = ChargeOf(entry', Cached(s)')
    BY <1>1, InsertCharges
  <2>2. UsageIsCharge'
    BY <2>1 DEF UsageIsCharge, Cached, Shards
  <2>3. usage' = [s \in Shards |-> usage'[s]]
    BY <1>3, <1>0 DEF CacheTypeOK
  <2> QED
    BY <2>1, <2>2, <2>3
<1>7. References'
  <2>1. ASSUME NEW g \in Handles
        PROVE  entry'[g].refs = held'[g] + (IF entry'[g].inCache THEN 1 ELSE 0)
    <3>0. /\ entry[g].refs = held[g] + (IF entry[g].inCache THEN 1 ELSE 0) /\ held[g] \in Nat
          /\ g # h => held'[g] = held[g]
          /\ held'[h] = 1
      BY <1>0, <1>3 DEF References, CacheTypeOK
    <3>1. CASE g = h
      BY <3>0, <3>1, <1>5
    <3>2. CASE g \in gone
      <4>1. entry[g].inCache /\ g # h
        BY <3>2, <1>4 DEF Cached, InCache
      <4> QED
        BY <4>1, <3>0, <3>2, <1>4
    <3>3. CASE g # h /\ g \notin gone
      BY <3>0, <3>3, <1>4
    <3> QED
      BY <3>1, <3>2, <3>3
  <2> QED
    BY <2>1 DEF References
<1>8. Nil \notin Handles
  BY DEF CacheAssumption, Nil
<1>9. \A j \in Keys : /\ j = k /\ PerShard > 0 => table'[j] = h
                      /\ ~(j = k /\ PerShard > 0) =>
                           table'[j] = IF table[j] \in out THEN Nil ELSE table[j]
  BY <1>3 DEF Unmapped
<1>10. table' \in [Keys -> Handles \cup {Nil}]
  <2>1. Unmapped(out) \in [Keys -> Handles \cup {Nil}]
    BY <1>0 DEF CacheTypeOK, Unmapped
  <2> QED
    BY <2>1, <1>3
<1>11. TableIsExact'
  <2>1. ASSUME NEW g \in Handles, InCache(g)' PROVE table'[entry'[g].key] = g
    <3>1. CASE g = h
      BY <3>1, <2>1, <1>4, <1>5, <1>9 DEF InCache
    <3>2. CASE g # h
      <4>1. InCache(g) /\ g \notin gone /\ entry'[g] = entry[g]
        BY <3>2, <2>1, <1>4
      <4>2. table[entry[g].key] = g /\ entry[g].key \in Keys
        BY <4>1, <1>0, EntryFields DEF TableIsExact, InCache
      <4>3. PerShard > 0
        BY <4>1, <1>0, <1>2 DEF OffIsEmpty
      <4>4. entry[g].key # k
        BY <4>1, <4>2, <4>3, <1>3, <1>8
      <4> QED
        BY <4>1, <4>2, <4>4, <1>9
    <3> QED
      BY <3>1, <3>2
  <2>2. ASSUME NEW j \in Keys, table'[j] # Nil
        PROVE  /\ entry'[table'[j]].refs > 0 /\ entry'[table'[j]].inCache
               /\ entry'[table'[j]].key = j
    <3>1. CASE j = k /\ PerShard > 0
      BY <3>1, <1>5, <1>9
    <3>2. CASE ~(j = k /\ PerShard > 0)
      <4>1. table[j] \notin out /\ table'[j] = table[j]
        BY <3>2, <2>2, <1>9
      <4>2. PICK g \in Handles : g = table[j]
        BY <4>1, <2>2, <1>0 DEF CacheTypeOK
      <4>3. InCache(g) /\ entry[g].key = j
        BY <4>1, <4>2, <2>2, <1>0 DEF TableIsExact
      <4>4. PerShard > 0
        BY <4>3, <1>0, <1>2 DEF OffIsEmpty
      <4>5. g \notin gone /\ g # h
        BY <4>1, <4>2, <4>3, <4>4, <3>2, <1>3, <1>4
      <4>6. entry'[g] = entry[g]
        BY <4>5, <1>4
      <4> QED
        BY <4>1, <4>2, <4>3, <4>6 DEF InCache
    <3> QED
      BY <3>1, <3>2
  <2> QED
    BY <2>1, <2>2 DEF TableIsExact, InCache
<1>12. Lists'
  <2>1. inUse' = {g \in Handles : InCache(g)' /\ entry'[g].refs >= 2}
    <3>1. inUse = {g \in Handles : InCache(g) /\ entry[g].refs >= 2}
      BY <1>0 DEF Lists
    <3>2. ASSUME NEW g \in Handles
          PROVE  g \in inUse' <=> InCache(g)' /\ entry'[g].refs >= 2
      <4>1. CASE g = h
        <5>1. g \notin inUse
          BY <4>1, <3>1, <1>3
        <5> QED
          BY <5>1, <4>1, <1>3, <1>4, <1>5
      <4>2. CASE g # h
        <5>1. g \in out => g \notin inUse
          BY <3>1, <1>4
        <5>2. g \in inUse' <=> g \in inUse /\ g \notin old
          BY <4>2, <1>3
        <5>3. InCache(g)' <=> InCache(g) /\ g \notin gone
          BY <4>2, <1>4
        <5>4. g \notin gone => entry'[g] = entry[g]
          BY <4>2, <1>4
        <5> QED
          BY <5>1, <5>2, <5>3, <5>4, <3>1
      <4> QED
        BY <4>1, <4>2
    <3>3. inUse' \subseteq Handles
      BY <3>1, <1>3
    <3> QED
      BY <3>2, <3>3
  <2>2. SubSeq(list, n + 1, Len(list)) \in Seq(Handles)
    BY <1>3, SplitIs
  <2>3. ASSUME NEW s \in Shards
        PROVE  Once(lru'[s]) /\ ToSet(lru'[s]) = {g \in Cached(s)' : entry'[g].refs = 1}
    <3>1. CASE s = t
      <4>1. lru'[s] = SubSeq(list, n + 1, Len(list))
        BY <3>1, <1>0, <1>3 DEF CacheTypeOK
      <4>2. Once(lru'[s]) /\ ToSet(lru'[s]) = (ToSet(lru[s]) \ old) \ out
        BY <4>1, <3>1, <1>3, SplitIs
      <4>3. ToSet(lru[s]) = {g \in Cached(s) : entry[g].refs = 1}
        BY <1>0 DEF Lists
      <4>4. ASSUME NEW g \in Handles
            PROVE  g \in Cached(s)' /\ entry'[g].refs = 1 <=>
                     g \in Cached(s) /\ entry[g].refs = 1 /\ g \notin gone
        <5>1. CASE g = h
          BY <5>1, <1>3, <1>4, <1>5 DEF Cached
        <5>2. CASE g # h
          <6>1. g \notin gone => entry'[g] = entry[g]
            BY <5>2, <1>4
          <6>2. InCache(g)' <=> InCache(g) /\ g \notin gone
            BY <5>2, <1>4
          <6> QED
            BY <6>1, <6>2 DEF Cached
        <5> QED
          BY <5>1, <5>2
      <4>5. Cached(s) \subseteq Handles /\ Cached(s)' \subseteq Handles
        BY DEF Cached
      <4> QED
        BY <4>2, <4>3, <4>4, <4>5
    <3>2. CASE s # t
      <4>1. lru'[s] = lru[s]
        BY <3>2, <1>0, <1>3 DEF CacheTypeOK
      <4>2. ToSet(lru[s]) = {g \in Cached(s) : entry[g].refs = 1} /\ Once(lru[s])
        BY <1>0 DEF Lists
      <4>3. ASSUME NEW g \in Handles
            PROVE  g \in Cached(s)' /\ entry'[g].refs = 1 <=> g \in Cached(s) /\ entry[g].refs = 1
        <5>1. CASE g = h
          BY <5>1, <3>2, <1>3, <1>5 DEF Cached
        <5>2. CASE g \in gone
          BY <5>2, <3>2, <1>4 DEF Cached
        <5>3. CASE g # h /\ g \notin gone
          <6>1. entry'[g] = entry[g] /\ (InCache(g)' <=> InCache(g))
            BY <5>3, <1>4
          <6> QED
            BY <6>1 DEF Cached
        <5> QED
          BY <5>1, <5>2, <5>3
      <4>4. Cached(s) \subseteq Handles /\ Cached(s)' \subseteq Handles
        BY DEF Cached
      <4> QED
        BY <4>1, <4>2, <4>3, <4>4
    <3> QED
      BY <3>1, <3>2
  <2> QED
    BY <2>1, <2>3 DEF Lists, Shards
<1>13. OffIsEmpty'
  <2>1. PerShard' = PerShard
    BY DEF PerShard
  <2> QED
    BY <2>1, <1>0, <1>2, <1>4 DEF OffIsEmpty
<1>14. CacheTypeOK'
  <2>1. lru' \in [Shards -> Seq(Handles)]
    <3>1. SubSeq(list, n + 1, Len(list)) \in Seq(Handles)
      BY <1>3, SplitIs
    <3> QED
      BY <3>1, <1>0, <1>3 DEF CacheTypeOK
  <2>2. inUse' \subseteq Handles /\ held' \in [Handles -> Nat]
    BY <1>0, <1>3 DEF CacheTypeOK
  <2>3. \A g \in Handles : IF entry'[g].refs = 0 THEN entry'[g] = NoEntry ELSE entry'[g].key \in Keys
    <3>. TAKE g \in Handles
    <3>1. IF entry[g].refs = 0 THEN entry[g] = NoEntry ELSE entry[g].key \in Keys
      BY <1>0 DEF CacheTypeOK
    <3>2. CASE g = h
      BY <3>2, <1>5
    <3>3. CASE g \in gone
      <4>1. entry[g].refs \in Nat \ {0}
        BY <3>3, <1>0, <1>4, EntryFields DEF Cached, InCache
      <4> QED
        BY <4>1, <3>1, <3>3, <1>4
    <3>4. CASE g # h /\ g \notin gone
      BY <3>1, <3>4, <1>4
    <3> QED
      BY <3>2, <3>3, <3>4
  <2> QED
    BY <2>1, <2>2, <2>3, <1>4, <1>6, <1>10 DEF CacheTypeOK, EntryType, Shards
<1> QED
  BY <1>6, <1>7, <1>11, <1>12, <1>13, <1>14 DEF CacheInv

\* Only Insert allocates an entry.
LEMMA OthersInsertNone ==
  ASSUME CacheAssumption, CacheInv,
         \/ \E k \in Keys : Lookup(k) \/ Erase(k)
         \/ \E h \in Handles : Release(h)
         \/ Prune
  PROVE  MakesRoom
<1>0. CacheTypeOK /\ TableIsExact /\ Lists
  BY DEF CacheInv
<1>. SUFFICES ASSUME NEW h \in Handles PROVE ~InsertStep(h)
  BY DEF MakesRoom
<1>1. entry \in [Handles -> EntryType]
  BY <1>0 DEF CacheTypeOK, EntryType
<1>2. ASSUME NEW k \in Keys, Lookup(k) PROVE ~InsertStep(h)
  <2>1. CASE table[k] = Nil
    BY <2>1, <1>2 DEF Lookup, InsertStep
  <2>2. CASE table[k] # Nil
    <3>1. InCache(table[k]) /\ entry' = [entry EXCEPT ![table[k]].refs = @ + 1]
      BY <2>2, <1>0, <1>2 DEF TableIsExact, Lookup, Ref
    <3>2. CASE h = table[k]
      BY <3>1, <3>2 DEF InsertStep, InCache
    <3>3. CASE h # table[k]
      <4>1. entry'[h] = entry[h]
        BY <3>1, <3>3, <1>0 DEF CacheTypeOK
      <4> QED
        BY <4>1 DEF InsertStep
    <3> QED
      BY <3>2, <3>3
  <2> QED
    BY <2>1, <2>2
<1>3. ASSUME NEW g \in Handles, Release(g) PROVE ~InsertStep(h)
  <2>1. held[g] \in Nat \ {0} /\ entry[g].refs = held[g] + (IF entry[g].inCache THEN 1 ELSE 0)
    <3>1. held[g] \in Nat /\ held[g] > 0
      BY <1>0, <1>3 DEF Release, CacheTypeOK
    <3>2. entry[g].refs = held[g] + (IF entry[g].inCache THEN 1 ELSE 0)
      BY <1>0, <1>3 DEF CacheInv, References
    <3> QED
      BY <3>1, <3>2
  <2>2. entry[g].refs > 0
    BY <2>1
  <2>3. CASE h = g
    BY <2>2, <2>3 DEF InsertStep
  <2>4. CASE h # g
    <3>1. entry'[h] = entry[h]
      BY <2>4, <1>0, <1>3 DEF Release, CacheTypeOK
    <3> QED
      BY <3>1 DEF InsertStep
  <2> QED
    BY <2>3, <2>4
<1>4. ASSUME NEW gone, NEW left, EraseAll(gone, left), gone \subseteq {g \in Handles : InCache(g)}
      PROVE  ~InsertStep(h)
  <2>1. entry' = Finish(entry, gone)
    BY <1>4 DEF EraseAll
  <2>2. CASE h \in gone
    BY <2>2, <1>4 DEF InsertStep, InCache
  <2>3. CASE h \notin gone
    <3>1. entry'[h] = entry[h]
      BY <2>1, <2>3 DEF Finish
    <3> QED
      BY <3>1 DEF InsertStep
  <2> QED
    BY <2>2, <2>3
<1>5. ASSUME NEW k \in Keys, Erase(k) PROVE ~InsertStep(h)
  <2>1. {table[k]} \ {Nil} \subseteq {g \in Handles : InCache(g)}
    BY <1>0 DEF CacheTypeOK, TableIsExact
  <2> QED
    BY <2>1, <1>4, <1>5 DEF Erase
<1>6. ASSUME Prune PROVE ~InsertStep(h)
  <2>1. UNION {ToSet(lru[s]) : s \in Shards} \subseteq {g \in Handles : InCache(g)}
    BY <1>0 DEF Lists, Cached
  <2> QED
    BY <2>1, <1>4, <1>6 DEF Prune
<1> QED
  BY <1>2, <1>3, <1>5, <1>6

\* Insert makes room and evicts nothing without need.
LEMMA InsertRoom ==
  ASSUME CacheAssumption, CacheInv, NEW k \in Keys, NEW charge \in Charges, Insert(k, charge)
  PROVE  MakesRoom
<1>a. PICK h \in Handles, old \in SUBSET Handles, list \in Seq(Handles) :
        \E n \in 0..Len(list), out \in SUBSET Handles :
          MayInsert(k, charge, h, old, list, n) /\ Inserted(k, charge, h, old, list, n, out)
  BY InsertIs
<1>1. PICK n \in 0..Len(list), out \in SUBSET Handles :
        MayInsert(k, charge, h, old, list, n) /\ Inserted(k, charge, h, old, list, n, out)
  BY <1>a
<1>. DEFINE s == ShardOf[k]
            new == With(h, k, charge)
            used == UsedBy(k, charge, old)
<1>0. CacheTypeOK
  BY DEF CacheInv
<1>2. s \in Shards /\ PerShard \in Nat /\ charge \in Nat
  BY PerShardIs DEF CacheAssumption, Shards
<1>3. Moved(k, charge, h, old, list, n, out)
  BY <1>1, InsertMoves
<1>4. /\ Once(list) /\ out = ToSet(SubSeq(list, 1, n))
      /\ lru' = [lru EXCEPT ![s] = SubSeq(list, n + 1, Len(list))]
      /\ usage' = [usage EXCEPT ![s] = used - ChargeOf(new, out)]
  BY <1>1 DEF MayInsert, Inserted
<1>5. \A m \in 0..Len(list) :
        /\ m = n => UsedAfter(m, new, list, used) <= PerShard \/ n = Len(list)
        /\ m < n => ~(UsedAfter(m, new, list, used) <= PerShard)
  BY <1>1 DEF MayInsert
<1>6. usage'[s] = used - ChargeOf(new, out) /\ lru'[s] = SubSeq(list, n + 1, Len(list))
  BY <1>0, <1>2, <1>4 DEF CacheTypeOK
<1>7. usage'[s] \in Nat
  BY <1>1, <1>2, InsertCharges
<1>8. usage'[s] <= PerShard \/ lru'[s] = <<>>
  <2>1. UsedAfter(n, new, list, used) = usage'[s]
    BY <1>4, <1>6 DEF UsedAfter
  <2>2. n = Len(list) => SubSeq(list, n + 1, Len(list)) = <<>>
    OBVIOUS
  <2> QED
    BY <2>1, <2>2, <1>5, <1>6
<1>9. \A g \in Handles : InsertStep(g) => g = h
  <2>1. \A g \in out \cup old : entry[g].refs > 0
    BY <1>3 DEF Moved, Cached, InCache
  <2> QED
    BY <2>1, <1>3 DEF Moved, InsertStep
<1>10. entry'[h].key = k
  BY <1>3 DEF Moved, NewEntry
<1>11. \A g \in Handles : g \in out <=> InCache(g) /\ entry[g].refs = 1 /\ ~InCache(g)'
                                         /\ entry[g].key # k
  <2>1. h \notin out /\ ~InCache(h)
    BY <1>1, <1>3 DEF Moved, MayInsert
  <2> QED
    BY <2>1, <1>3 DEF Moved, Cached
<1>12. ASSUME out # {} PROVE \E g \in out : usage'[s] + entry[g].charge > PerShard
  <2>1. n \in 1..Len(list) /\ list[n] \in out /\ n - 1 \in 0..Len(list)
    BY <1>3, <1>12 DEF Moved
  <2>. DEFINE g == list[n]
              rest == ToSet(SubSeq(list, 1, n - 1))
  <2>2. rest = out \ {g}
    <3>1. rest = {list[i] : i \in 1..(n - 1)}
      <4>1. \A m \in 0..Len(list) : ToSet(SubSeq(list, 1, m)) = {list[i] : i \in 1..m}
        BY <1>4, SplitIs
      <4> QED
        BY <4>1, <2>1
    <3>2. out = {list[i] : i \in 1..n}
      BY <1>3 DEF Moved
    <3>3. \A i \in 1..(n - 1) : list[i] # g
      BY <2>1, <1>4 DEF Once
    <3> QED
      BY <3>1, <3>2, <3>3, <2>1
  <2>3. \A x \in out : new[x] = entry[x] /\ entry[x].charge \in Nat
    <3>1. \A x \in out : x # h
      BY <1>3 DEF Moved
    <3> QED
      BY <3>1, <1>0, EntryFields DEF With, CacheTypeOK
  <2>4. IsFiniteSet(out)
    BY FS_Subset DEF CacheAssumption
  <2>5. /\ ChargeOf(new, out) = entry[g].charge + ChargeOf(new, rest)
        /\ ChargeOf(new, out) \in Nat
    <3>1. \A x \in out : new[x].charge \in Nat
      BY <2>3
    <3>2. ChargeOf(new, out) \in Nat /\ ChargeOf(new, out) = new[g].charge + ChargeOf(new, out \ {g})
      <4>. HIDE DEF new, g, rest
      <4> QED  BY <3>1, <2>1, <2>4, ChargeWithout DEF g
    <3> QED
      BY <3>2, <2>1, <2>2, <2>3
  <2>6. ChargeOf(new, rest) \in Nat /\ entry[g].charge \in Nat
    <3>1. IsFiniteSet(rest)
      BY <2>2, <2>4, FS_Subset
    <3>2. \A x \in rest : new[x].charge \in Nat
      BY <2>2, <2>3
    <3> QED
      BY <3>1, <3>2, <2>1, <2>3, ChargeWithout
  <2>7. used \in Int
    <3>1. ChargeOf(entry, old) \in Nat
      <4>1. IsFiniteSet(old)
        BY FS_Subset DEF CacheAssumption
      <4>2. \A x \in old : entry[x].charge \in Nat
        BY <1>0, EntryFields
      <4> QED
        BY <4>1, <4>2, ChargeWithout
    <3>2. usage[s] \in Nat
      BY <1>0, <1>2 DEF CacheTypeOK
    <3>3. Grown(usage[s], charge) \in Nat
      BY <3>2, <1>2 DEF Grown
    <3> QED
      BY <3>1, <3>2, <3>3 DEF UsedBy
  <2>8. UsedAfter(n - 1, new, list, used) = used - ChargeOf(new, rest)
    BY DEF UsedAfter
  <2>9. ~(used - ChargeOf(new, rest) <= PerShard)
    BY <2>1, <2>8, <1>5
  <2>. HIDE DEF g, rest, used, new
  <2>10. usage'[s] + entry[g].charge > PerShard
    <3>1. used - ChargeOf(new, rest) > PerShard
      <4>1. PerShard \in Int
        BY <1>2
      <4> QED
        BY <4>1, <2>6, <2>7, <2>9
    <3>2. usage'[s] + entry[g].charge = used - ChargeOf(new, rest)
      <4>1. usage'[s] = used - ChargeOf(new, out)
        BY <1>6, <1>7
      <4> QED
        BY <4>1, <2>5, <2>6, <2>7
    <3> QED
      BY <3>1, <3>2
  <2> QED
    BY <2>10, <2>1 DEF g
<1>. HIDE DEF new, used
<1> QED
  BY <1>8, <1>9, <1>10, <1>11, <1>12 DEF MakesRoom

-----------------------------------------------------------------------------
\* Every step keeps it.
LEMMA NextKeeps ==
  ASSUME CacheAssumption, CacheInv, [CacheNext]_cacheVars
  PROVE  CacheInv' /\ [MakesRoom]_cacheVars
<1>1. CASE CacheNext
  <2>1. ASSUME NEW k \in Keys, NEW charge \in Charges, Insert(k, charge)
        PROVE  CacheInv' /\ MakesRoom
    BY <2>1, InsertKeeps, InsertRoom
  <2>2. ASSUME \/ \E k \in Keys : Lookup(k) \/ Erase(k)
               \/ \E h \in Handles : Release(h)
               \/ Prune
        PROVE  CacheInv' /\ MakesRoom
    BY <2>2, LookupKeeps, EraseKeeps, ReleaseKeeps, PruneKeeps, OthersInsertNone
  <2> QED
    BY <1>1, <2>1, <2>2 DEF CacheNext
<1>2. CASE UNCHANGED cacheVars
  <2>1. /\ CacheTypeOK' = CacheTypeOK /\ References' = References
        /\ TableIsExact' = TableIsExact /\ OffIsEmpty' = OffIsEmpty
    BY <1>2 DEF cacheVars, CacheTypeOK, References, TableIsExact, OffIsEmpty, InCache, Shards, PerShard
  <2>2. Lists'
    BY <1>2 DEF cacheVars, Lists, Cached, InCache, Shards, CacheInv
  <2>3. UsageIsCharge'
    BY <1>2, UsageKept DEF cacheVars, InCache
  <2> QED
    BY <1>2, <2>1, <2>2, <2>3 DEF CacheInv
<1> QED
  BY <1>1, <1>2

\* cache.cc: an entry is freed with the last reference, the table and the lists
\* lead to what is cached and to nothing else, and usage_ is its charge; for every
\* number of shards, capacity, key, charge and client.
THEOREM CacheStaysExact ==
  ASSUME CacheAssumption
  PROVE  CacheSpec => []CacheIsExact
<1>1. CacheInit => CacheInv
  BY InitExact
<1>2. CacheInv /\ [CacheNext]_cacheVars => CacheInv'
  BY NextKeeps
<1>3. CacheInv => CacheIsExact
  BY InvImpliesExact DEF CacheInv, CacheIsExact
<1> QED
  BY <1>1, <1>2, <1>3, PTL DEF CacheSpec

\* LRUCache::Insert leaves its shard within its capacity, unless clients hold all of
\* it, and evicts nothing without need.
THEOREM InsertsMakeRoom ==
  ASSUME CacheAssumption
  PROVE  CacheSpec => InsertMakesRoom
<1>1. CacheInit => CacheInv
  BY InitExact
<1>2. CacheInv /\ [CacheNext]_cacheVars => CacheInv' /\ [MakesRoom]_cacheVars
  BY NextKeeps
<1> QED
  BY <1>1, <1>2, PTL DEF CacheSpec, InsertMakesRoom

-----------------------------------------------------------------------------
(***************************************************************************)
(* TableCache.  Its invariant.                                             *)
(***************************************************************************)
\* The readers that hold a handle.
UsersOf(h) == {t \in Readers : thread[t].handle = h}
\* What a reader does agrees with what it holds, and its table exists.
ReadersFit ==
  \A t \in Readers :
    /\ thread[t].at = "idle" => thread[t] = Idle
    /\ thread[t].at # "idle" => thread[t].file \in tableFiles
    /\ thread[t].at # "use" => thread[t].handle = Nil
    /\ thread[t].at = "use" =>
         thread[t].handle \in Handles /\ entry[thread[t].handle].key = thread[t].file
\* What is held is held by readers, each once.
HeldByReaders == \A h \in Handles : held[h] = Cardinality(UsersOf(h))
\* An entry is for a table that exists, and each weighs the same.
EntriesFit ==
  \A h \in Handles : entry[h].refs > 0 => entry[h].key \in tableFiles /\ entry[h].charge = 1
\* What a shard has cached fits it or was held, by different readers, when the last came.
ShardsFit == \A s \in Shards : usage[s] <= Max({PerShard, Cardinality(Readers)})
TableInv ==
  /\ CacheInv /\ TableTypeOK
  /\ ReadersFit /\ HeldByReaders /\ EntriesFit /\ FilesAreClosed /\ ShardsFit

\* Of two numbers one is the greatest.
LEMMA GreaterIs ==
  ASSUME NEW a \in Nat, NEW b \in Nat
  PROVE  Max({a, b}) \in Nat /\ a <= Max({a, b}) /\ b <= Max({a, b})
<1>1. \E x \in {a, b} : \A y \in {a, b} : x >= y
  BY DEF Max
<1>2. Max({a, b}) \in {a, b} /\ \A y \in {a, b} : Max({a, b}) >= y
  BY <1>1 DEF Max
<1> QED
  BY <1>2

\* Entries of charge 1 are counted by their charge.
LEMMA ChargeCounts ==
  ASSUME NEW S, IsFiniteSet(S), NEW e, \A h \in S : e[h].charge = 1
  PROVE  ChargeOf(e, S) = Cardinality(S)
<1>. DEFINE Bad == {T \in SUBSET S : ChargeOf(e, T) # Cardinality(T)}
<1>. SUFFICES ASSUME Bad # {} PROVE FALSE
  OBVIOUS
<1>1. PICK T \in Bad : \A U \in Bad : U \subseteq T => U = T
  <2>1. Bad \subseteq SUBSET S
    OBVIOUS
  <2>. HIDE DEF Bad
  <2> QED  BY <2>1, SmallestSet
<1>2. IsFiniteSet(T) /\ \A h \in T : e[h].charge \in Nat
  BY FS_Subset
<1>3. T # {}
  BY <1>1, <1>2, ChargeWithout, FS_EmptySet
<1>4. PICK x \in T : TRUE
  BY <1>3
<1>5. ChargeOf(e, T \ {x}) = Cardinality(T \ {x})
  BY <1>1, <1>4
<1>6. ChargeOf(e, T) = 1 + ChargeOf(e, T \ {x})
  BY <1>2, <1>4, ChargeWithout
<1>7. Cardinality(T \ {x}) = Cardinality(T) - 1 /\ Cardinality(T) \in Nat
  BY <1>2, <1>4, FS_RemoveElement, FS_CardinalityType
<1>8. ChargeOf(e, T) = Cardinality(T)
  BY <1>5, <1>6, <1>7
<1> QED
  BY <1>8

\* If each of some handles is held by a reader among T there are no more than these.
LEMMA NoMoreThanReaders ==
  ASSUME TableAssumption, NEW H, NEW T \in SUBSET Readers, NEW th,
         \A h \in H : \E t \in T : th[t].handle = h
  PROVE  IsFiniteSet(H) /\ IsFiniteSet(T) /\ Cardinality(H) <= Cardinality(T)
<1>1. IsFiniteSet(T)
  BY FS_Subset DEF TableAssumption
<1>. DEFINE f == [h \in H |-> CHOOSE t \in T : th[t].handle = h]
<1>2. \A h \in H : f[h] \in T /\ th[f[h]].handle = h
  OBVIOUS
<1>. HIDE DEF f
<1>3. f \in Injection(H, T)
  <2>1. f \in [H -> T]
    BY <1>2 DEF f
  <2>2. \A x, y \in H : f[x] = f[y] => x = y
    BY <1>2
  <2> QED
    BY <2>1, <2>2 DEF Injection, IsInjective
<1> QED
  BY <1>1, <1>3, FS_Injection

\* A reader that goes on: the others stay.
LEMMA ReaderMoves ==
  ASSUME TableTypeOK, NEW t \in Readers, NEW r, thread' = [thread EXCEPT ![t] = r]
  PROVE  thread'[t] = r /\ \A u \in Readers : u # t => thread'[u] = thread[u]
  BY DEF TableTypeOK

\* So who uses a handle afterwards, and who is about to make an entry.
LEMMA UsersMove ==
  ASSUME TableAssumption, TableTypeOK, NEW t \in Readers, NEW r, NEW h,
         thread' = [thread EXCEPT ![t] = r]
  PROVE  /\ UsersOf(h)' = IF r.handle = h THEN UsersOf(h) \cup {t} ELSE UsersOf(h) \ {t}
         /\ IsFiniteSet(UsersOf(h)) /\ Cardinality(UsersOf(h)) \in Nat
<1>1. IsFiniteSet(UsersOf(h))
  BY FS_Subset DEF TableAssumption, UsersOf
<1>2. UsersOf(h)' = IF r.handle = h THEN UsersOf(h) \cup {t} ELSE UsersOf(h) \ {t}
  <2>1. thread'[t] = r /\ \A u \in Readers : u # t => thread'[u] = thread[u]
    BY ReaderMoves
  <2> QED
    BY <2>1 DEF UsersOf
<1> QED
  BY <1>1, <1>2, FS_CardinalityType
LEMMA OpenersMove ==
  ASSUME TableAssumption, TableTypeOK, NEW t \in Readers, NEW r, NEW f,
         thread' = [thread EXCEPT ![t] = r]
  PROVE  /\ OpenersOf(f)' = IF r.at = "insert" /\ r.file = f THEN OpenersOf(f) \cup {t}
                            ELSE OpenersOf(f) \ {t}
         /\ IsFiniteSet(OpenersOf(f)) /\ Cardinality(OpenersOf(f)) \in Nat
<1>1. IsFiniteSet(OpenersOf(f))
  BY FS_Subset DEF TableAssumption, OpenersOf
<1>2. OpenersOf(f)' = IF r.at = "insert" /\ r.file = f THEN OpenersOf(f) \cup {t}
                      ELSE OpenersOf(f) \ {t}
  <2>1. thread'[t] = r /\ \A u \in Readers : u # t => thread'[u] = thread[u]
    BY ReaderMoves
  <2> QED
    BY <2>1 DEF OpenersOf
<1> QED
  BY <1>1, <1>2, FS_CardinalityType

-----------------------------------------------------------------------------
\* Only entries among new are allocated by the step, and for k.
Allocates(new, k) ==
  /\ \A h \in Handles \ new : entry'[h].refs > 0 =>
       entry[h].refs > 0 /\ entry'[h].key = entry[h].key /\ entry'[h].charge = entry[h].charge
  /\ \A h \in new : entry[h].refs = 0 /\ entry'[h].refs > 0 /\ entry'[h].key = k
                    /\ entry'[h].charge = 1

\* Lookup, Release, Erase and Prune allocate none, and leave the usage at most as it was.
LEMMA LookupMoves ==
  ASSUME CacheAssumption, CacheInv, NEW k \in Keys, Lookup(k)
  PROVE  /\ usage' = usage /\ \A h \in Handles : entry'[h].key = entry[h].key
         /\ \A h \in Handles : /\ entry'[h].refs > 0 <=> entry[h].refs > 0
                               /\ entry'[h].charge = entry[h].charge
         /\ table[k] = Nil => UNCHANGED <<entry, held>>
         /\ table[k] # Nil => /\ table[k] \in Handles /\ entry[table[k]].key = k
                              /\ entry[table[k]].refs > 0
                              /\ held' = [held EXCEPT ![table[k]] = @ + 1]
<1>0. CacheTypeOK /\ TableIsExact
  BY DEF CacheInv
<1>1. CASE table[k] = Nil
  BY <1>1 DEF Lookup
<1>2. CASE table[k] # Nil
  <2>1. PICK h \in Handles : h = table[k] /\ entry[h].key = k /\ entry[h].refs > 0
    BY <1>0, <1>2 DEF CacheTypeOK, TableIsExact, InCache
  <2>2. entry' = [entry EXCEPT ![h] = [entry[h] EXCEPT !.refs = entry[h].refs + 1]]
    BY <1>2, <2>1 DEF Lookup, Ref
  <2>3. entry[h].refs \in Nat
    BY <1>0, EntryFields
  <2>4. \A g \in Handles : g # h => entry'[g] = entry[g]
    BY <1>0, <2>2 DEF CacheTypeOK
  <2>5. entry'[h] = [entry[h] EXCEPT !.refs = entry[h].refs + 1]
    BY <1>0, <2>1, <2>2 DEF CacheTypeOK
  <2>6. PICK e \in EntryType : e = entry[h]
    BY <1>0, EntryFields DEF EntryType
  <2>7. entry'[h].refs = entry[h].refs + 1 /\ entry'[h].key = entry[h].key
        /\ entry'[h].charge = entry[h].charge
    BY <2>5, <2>6 DEF EntryType
  <2> QED
    BY <1>2, <2>1, <2>3, <2>4, <2>7 DEF Lookup
<1> QED
  BY <1>1, <1>2

LEMMA ReleaseMoves ==
  ASSUME CacheAssumption, CacheInv, NEW h \in Handles, Release(h)
  PROVE  /\ Allocates({}, Nil) /\ usage' = usage
         /\ held[h] \in Nat \ {0} /\ held' = [held EXCEPT ![h] = @ - 1]
<1>0. CacheTypeOK /\ References
  BY DEF CacheInv
<1>1. held[h] \in Nat \ {0} /\ entry[h].refs \in Nat \ {0}
  BY <1>0, EntryFields DEF Release, CacheTypeOK, References
<1>2. PICK e \in EntryType : e = entry[h]
  BY <1>0, EntryFields DEF EntryType
<1>3. /\ entry'[h] = IF e.refs - 1 = 0 THEN NoEntry ELSE [e EXCEPT !.refs = e.refs - 1]
      /\ \A g \in Handles : g # h => entry'[g] = entry[g]
  BY <1>0, <1>2 DEF Release, CacheTypeOK
<1>4. entry'[h].refs > 0 => entry'[h].key = entry[h].key /\ entry'[h].charge = entry[h].charge
  BY <1>1, <1>2, <1>3 DEF EntryType, NoEntry
<1> QED
  BY <1>1, <1>3, <1>4 DEF Release, Allocates

LEMMA EraseAllMoves ==
  ASSUME CacheAssumption, CacheInv, NEW gone, gone \subseteq {h \in Handles : InCache(h)},
         NEW left, EraseAll(gone, left)
  PROVE  /\ Allocates({}, Nil) /\ held' = held
         /\ \A s \in Shards : usage'[s] <= usage[s]
         /\ \A h \in gone : ~entry'[h].inCache
<1>0. CacheTypeOK
  BY DEF CacheInv
<1>1. entry' = Finish(entry, gone) /\ held' = held
      /\ usage' = [s \in Shards |->
                     usage[s] - ChargeOf(entry, {h \in gone : ShardOf[entry[h].key] = s})]
  BY DEF EraseAll
<1>2. entry \in [Handles -> EntryType] /\ \A h \in gone : entry[h].refs \in Nat \ {0}
  BY <1>0, EntryFields DEF CacheTypeOK, EntryType, InCache
<1>3. /\ \A h \in Handles : h \notin gone => entry'[h] = entry[h]
      /\ \A h \in gone :
           /\ entry'[h].refs = entry[h].refs - 1 /\ ~entry'[h].inCache
           /\ entry[h].refs # 1 => entry'[h].key = entry[h].key /\ entry'[h].charge = entry[h].charge
  <2>. HIDE DEF EntryType
  <2> QED  BY <1>1, <1>2, FinishIs
<1>4. Allocates({}, Nil)
  <2>1. ASSUME NEW h \in gone, entry'[h].refs > 0
        PROVE  entry[h].refs > 0 /\ entry'[h].key = entry[h].key /\ entry'[h].charge = entry[h].charge
    BY <2>1, <1>2, <1>3
  <2> QED
    BY <2>1, <1>3 DEF Allocates
<1>5. ASSUME NEW s \in Shards PROVE usage'[s] <= usage[s]
  <2>. DEFINE G == {h \in gone : ShardOf[entry[h].key] = s}
  <2>1. IsFiniteSet(G) /\ \A h \in G : entry[h].charge \in Nat
    BY <1>0, FS_Subset, EntryFields DEF CacheAssumption
  <2>2. ChargeOf(entry, G) \in Nat /\ usage[s] \in Nat
    BY <2>1, <1>0, ChargeWithout DEF CacheTypeOK
  <2>3. usage'[s] = usage[s] - ChargeOf(entry, G)
    BY <1>1
  <2>. HIDE DEF G
  <2> QED  BY <2>2, <2>3
<1> QED
  BY <1>1, <1>3, <1>4, <1>5

LEMMA EraseMoves ==
  ASSUME CacheAssumption, CacheInv, NEW k \in Keys, Erase(k)
  PROVE  /\ Allocates({}, Nil) /\ held' = held
         /\ \A s \in Shards : usage'[s] <= usage[s]
         /\ \A h \in Handles : entry'[h].refs > 0 /\ entry'[h].key = k => ~entry'[h].inCache
<1>0. CacheTypeOK /\ TableIsExact
  BY DEF CacheInv
<1>. DEFINE gone == {table[k]} \ {Nil}
            left == [lru EXCEPT ![ShardOf[k]] = RemoveFirst(@, table[k])]
<1>1. gone \subseteq {h \in Handles : InCache(h)}
  BY <1>0 DEF CacheTypeOK, TableIsExact
<1>2. EraseAll(gone, left)
  BY DEF Erase
<1>. HIDE DEF left
<1>3. /\ Allocates({}, Nil) /\ held' = held
      /\ \A s \in Shards : usage'[s] <= usage[s]
      /\ \A h \in gone : ~entry'[h].inCache
  <2>. HIDE DEF gone
  <2> QED  BY <1>1, <1>2, EraseAllMoves
<1>4. ASSUME NEW h \in Handles, entry'[h].refs > 0, entry'[h].key = k PROVE ~entry'[h].inCache
  <2>1. entry[h].refs > 0 /\ entry[h].key = k
    BY <1>3, <1>4 DEF Allocates
  <2>2. CASE h \in gone
    BY <2>2, <1>3
  <2>3. CASE h \notin gone
    <3>1. ~InCache(h)
      BY <2>1, <2>3, <1>0 DEF TableIsExact, CacheAssumption, Nil
    <3>2. entry'[h] = entry[h]
      BY <2>3, <1>2 DEF EraseAll, Finish
    <3> QED
      BY <3>1, <3>2, <2>1 DEF InCache
  <2> QED
    BY <2>2, <2>3
<1> QED
  BY <1>3, <1>4

LEMMA PruneMoves ==
  ASSUME CacheAssumption, CacheInv, Prune
  PROVE  Allocates({}, Nil) /\ held' = held /\ \A s \in Shards : usage'[s] <= usage[s]
<1>1. UNION {ToSet(lru[s]) : s \in Shards} \subseteq {h \in Handles : InCache(h)}
  BY DEF CacheInv, Lists, Cached
<1> QED
  BY <1>1, EraseAllMoves DEF Prune

\* Insert allocates one; its shard then has what fits it, or only what clients hold.
LEMMA InsertAllocates ==
  ASSUME CacheAssumption, CacheInv, NEW k \in Keys, 1 \in Charges, Insert(k, 1)
  PROVE  /\ Min(Unused) \in Handles /\ Allocates({Min(Unused)}, k)
         /\ held[Min(Unused)] = 0 /\ held' = [held EXCEPT ![Min(Unused)] = 1]
         /\ \A s \in Shards : s # ShardOf[k] => usage'[s] = usage[s]
         /\ usage'[ShardOf[k]] <= PerShard \/ lru'[ShardOf[k]] = <<>>
<1>0. CacheTypeOK /\ References
  BY DEF CacheInv
<1>1. PICK h \in Handles, old \in SUBSET Handles, list \in Seq(Handles) :
        \E n \in 0..Len(list), out \in SUBSET Handles :
          MayInsert(k, 1, h, old, list, n) /\ Inserted(k, 1, h, old, list, n, out)
  BY InsertIs
<1>2. PICK n \in 0..Len(list), out \in SUBSET Handles :
        MayInsert(k, 1, h, old, list, n) /\ Inserted(k, 1, h, old, list, n, out)
  BY <1>1
<1>3. Moved(k, 1, h, old, list, n, out)
  BY <1>2, InsertMoves
<1>4. entry[h] = NoEntry /\ held[h] = 0 /\ held' = [held EXCEPT ![h] = 1]
      /\ \A s \in Shards : s # ShardOf[k] => usage'[s] = usage[s]
  BY <1>2, <1>0 DEF MayInsert, Inserted, CacheTypeOK
<1>5. h = Min(Unused)
  <2>1. Min(Unused) \in Unused
    BY LeastIs DEF Insert, Unused, CacheAssumption
  <2>2. PICK m \in Handles : m = Min(Unused) /\ entry[m].refs = 0
    BY <2>1 DEF Unused
  <2>3. held[m] = 0
    <3>1. entry[m].inCache = FALSE /\ held[m] \in Nat
      BY <1>0, <2>2, EntryFields DEF NoEntry, CacheTypeOK
    <3> QED
      BY <3>1, <1>0, <2>2 DEF References
  <2>4. held'[m] = 1
    BY <1>0, <2>2 DEF Insert, CacheTypeOK
  <2> QED
    BY <1>0, <1>4, <2>2, <2>3, <2>4 DEF CacheTypeOK
<1>6. /\ entry[h].refs = 0 /\ entry'[h].refs > 0 /\ entry'[h].key = k /\ entry'[h].charge = 1
  BY <1>3, <1>4 DEF Moved, NewEntry, NoEntry, NewRefs
<1>7. ASSUME NEW g \in Handles \ {h}, entry'[g].refs > 0
      PROVE  entry[g].refs > 0 /\ entry'[g].key = entry[g].key /\ entry'[g].charge = entry[g].charge
  <2>1. CASE g \in old \cup out
    <3>1. entry[g].refs \in Nat \ {0} /\ entry'[g].refs = entry[g].refs - 1
      BY <2>1, <1>0, <1>3, EntryFields DEF Moved, Cached, InCache
    <3> QED
      BY <3>1, <2>1, <1>3, <1>7 DEF Moved
  <2>2. CASE g \notin old \cup out
    BY <2>2, <1>3, <1>7 DEF Moved
  <2> QED
    BY <2>1, <2>2
<1>8. Allocates({h}, k)
  BY <1>6, <1>7 DEF Allocates
<1>9. usage'[ShardOf[k]] <= PerShard \/ lru'[ShardOf[k]] = <<>>
  <2>1. MakesRoom /\ InsertStep(h)
    BY <1>6, InsertRoom DEF InsertStep
  <2> QED
    BY <2>1, <1>6 DEF MakesRoom
<1> QED
  BY <1>4, <1>5, <1>8, <1>9

-----------------------------------------------------------------------------
\* A handle that a reader has is held.
LEMMA UsedIsHeld ==
  ASSUME TableAssumption, NEW th, NEW h, NEW t \in Readers, th[t].handle = h
  PROVE  Cardinality({u \in Readers : th[u].handle = h}) \in Nat \ {0}
<1>. DEFINE U == {u \in Readers : th[u].handle = h}
<1>1. IsFiniteSet(U) /\ U # {}
  BY FS_Subset DEF TableAssumption
<1>. HIDE DEF U
<1>2. Cardinality(U) \in Nat /\ Cardinality(U) # 0
  BY <1>1, FS_CardinalityType, FS_EmptySet
<1> QED
  BY <1>2 DEF U

\* And a handle that is held a reader has.
LEMMA HeldIsUsed ==
  ASSUME NEW th, NEW h, Cardinality({u \in Readers : th[u].handle = h}) # 0
  PROVE  \E t \in Readers : th[t].handle = h
<1>. SUFFICES ASSUME {u \in Readers : th[u].handle = h} = {} PROVE FALSE
  OBVIOUS
<1> QED
  BY FS_EmptySet

\* What TablesStayOpen says of reading and of deleted tables.
LEMMA InvReads ==
  ASSUME TableAssumption, TableInv
  PROVE  ReadsOpenTable /\ DeletedIsClosed
<1>0. CacheTypeOK /\ References /\ TableIsExact
  BY DEF TableInv, CacheInv
<1>1. \A f \in Keys : /\ IsFiniteSet(HandlesOf(f)) /\ Cardinality(HandlesOf(f)) \in Nat
                      /\ IsFiniteSet(OpenersOf(f)) /\ Cardinality(OpenersOf(f)) \in Nat
  BY FS_Subset, FS_CardinalityType
  DEF HandlesOf, OpenersOf, TableAssumption, CacheAssumption
<1>2. ASSUME NEW t \in Readers, thread[t].at = "use"
      PROVE  LET h == thread[t].handle
             IN  /\ entry[h].refs > 0 /\ held[h] = Cardinality({u \in Readers : thread[u].handle = h})
                 /\ entry[h].key = thread[t].file /\ opened[thread[t].file] > 0
  <2>1. PICK h \in Handles : h = thread[t].handle /\ entry[h].key = thread[t].file
    BY <1>2 DEF TableInv, ReadersFit
  <2>2. held[h] = Cardinality({u \in Readers : thread[u].handle = h}) /\ held[h] \in Nat \ {0}
    <3>1. held[h] = Cardinality({u \in Readers : thread[u].handle = h})
      BY DEF TableInv, HeldByReaders, UsersOf
    <3>2. Cardinality({u \in Readers : thread[u].handle = h}) \in Nat \ {0}
      BY <2>1, UsedIsHeld
    <3> QED
      BY <3>1, <3>2
  <2>3. entry[h].refs > 0
    BY <2>1, <2>2, <1>0 DEF References
  <2>4. entry[h].key \in Keys
    BY <2>3, <1>0 DEF CacheTypeOK
  <2>5. h \in HandlesOf(thread[t].file)
    BY <2>1, <2>3 DEF HandlesOf
  <2>6. Cardinality(HandlesOf(thread[t].file)) # 0
    BY <2>1, <2>4, <2>5, <1>1, FS_EmptySet
  <2>7. opened[thread[t].file] > 0
    BY <2>1, <2>4, <2>6, <1>1 DEF TableInv, FilesAreClosed
  <2> QED
    BY <2>1, <2>2, <2>3, <2>7
<1>3. ASSUME NEW f \in Keys \ tableFiles PROVE opened[f] = 0 /\ table[f] = Nil
  <2>1. HandlesOf(f) = {}
    BY DEF TableInv, EntriesFit, HandlesOf
  <2>2. OpenersOf(f) = {}
    BY DEF TableInv, ReadersFit, OpenersOf
  <2>3. opened[f] = 0
    BY <2>1, <2>2, FS_EmptySet DEF TableInv, FilesAreClosed
  <2>4. table[f] = Nil
    BY <2>1, <1>0 DEF TableIsExact, CacheTypeOK, InCache, HandlesOf
  <2> QED
    BY <2>3, <2>4
<1> QED
  BY <1>2, <1>3 DEF ReadsOpenTable, DeletedIsClosed

\* What shards have cached is at most what each may have.
LEMMA CachedBound ==
  ASSUME TableAssumption, TableInv
  PROVE  Cardinality({h \in Handles : InCache(h)})
           <= NumShards * Max({PerShard, Cardinality(Readers)})
<1>. DEFINE M == Max({PerShard, Cardinality(Readers)})
            In(T) == {h \in Handles : \E s \in T : h \in Cached(s)}
            Bad == {T \in SUBSET Shards : ~(Cardinality(In(T)) <= Cardinality(T) * M)}
<1>0. CacheAssumption /\ CacheTypeOK
  BY DEF TableAssumption, TableInv, CacheInv
<1>1. M \in Nat
  BY <1>0, PerShardIs, GreaterIs, FS_CardinalityType DEF TableAssumption
<1>2. IsFiniteSet(Shards) /\ Cardinality(Shards) = NumShards
  <2>1. NumShards \in Nat \ {0}
    BY <1>0 DEF CacheAssumption
  <2> QED
    BY <2>1, FS_Interval DEF Shards
<1>3. \A G \in SUBSET Handles : IsFiniteSet(G) /\ Cardinality(G) \in Nat
  BY <1>0, FS_Subset, FS_CardinalityType DEF CacheAssumption
<1>4. ASSUME NEW s \in Shards PROVE Cardinality(Cached(s)) <= M
  <2>1. \A h \in Cached(s) : entry[h].charge = 1
    BY DEF TableInv, EntriesFit, Cached, InCache
  <2>2. IsFiniteSet(Cached(s))
    BY <1>3 DEF Cached
  <2>3. usage[s] = ChargeOf(entry, Cached(s))
    BY DEF TableInv, CacheInv, UsageIsCharge, Cached
  <2>4. usage[s] <= M
    BY DEF TableInv, ShardsFit
  <2> QED
    BY <2>1, <2>2, <2>3, <2>4, ChargeCounts
<1>. HIDE DEF M
<1>5. ASSUME Bad # {} PROVE FALSE
  <2>1. PICK T \in Bad : \A U \in Bad : U \subseteq T => U = T
    <3>1. Bad \subseteq SUBSET Shards
      OBVIOUS
    <3>. HIDE DEF Bad
    <3> QED  BY <3>1, <1>2, <1>5, SmallestSet
  <2>2. IsFiniteSet(T) /\ Cardinality(T) \in Nat
    BY <1>2, FS_Subset, FS_CardinalityType
  <2>3. T # {}
    <3>. SUFFICES ASSUME T = {} PROVE FALSE
      OBVIOUS
    <3>1. In(T) = {}
      OBVIOUS
    <3>2. Cardinality(T) = 0 /\ Cardinality(In(T)) = 0
      BY <3>1, FS_EmptySet
    <3> QED
      BY <3>2, <2>1, <1>1
  <2>4. PICK x \in T : TRUE
    BY <2>3
  <2>5. PICK c : c = Cardinality(T \ {x}) /\ c \in Nat /\ Cardinality(T) = c + 1
    <3>1. IsFiniteSet(T \ {x}) /\ Cardinality(T \ {x}) = Cardinality(T) - 1
      BY <2>2, <2>4, FS_RemoveElement
    <3>2. Cardinality(T \ {x}) \in Nat
      BY <3>1, FS_CardinalityType
    <3> QED
      BY <3>1, <3>2, <2>2
  <2>6. Cardinality(In(T \ {x})) <= c * M
    <3>1. T \ {x} \in SUBSET Shards /\ T \ {x} \notin Bad
      BY <2>1, <2>4
    <3>. HIDE DEF In
    <3> QED
      BY <3>1, <2>5
  <2>7. In(T) = In(T \ {x}) \cup Cached(x)
    BY <2>4 DEF Cached
  <2>8. Cached(x) \in SUBSET Handles /\ In(T \ {x}) \in SUBSET Handles /\ In(T) \in SUBSET Handles
    BY DEF Cached
  <2>9. PICK a \in Nat : a = Cardinality(In(T \ {x}))
    BY <2>8, <1>3
  <2>10. PICK b \in Nat : b = Cardinality(Cached(x)) /\ b <= M
    BY <2>8, <2>4, <1>3, <1>4
  <2>11. Cardinality(In(T)) <= a + b
    <3>. HIDE DEF In
    <3>1. Cardinality(In(T)) = a + b - Cardinality(In(T \ {x}) \cap Cached(x))
      BY <2>7, <2>8, <2>9, <2>10, <1>3, FS_Union
    <3>2. Cardinality(In(T \ {x}) \cap Cached(x)) \in Nat
      BY <2>8, <1>3
    <3> QED
      BY <3>1, <3>2
  <2>12. (c + 1) * M = c * M + M /\ c * M \in Nat
    BY <2>5, <1>1
  <2>13. Cardinality(In(T)) <= (c + 1) * M
    <3>1. a <= c * M
      BY <2>6, <2>9
    <3>2. Cardinality(In(T)) \in Nat
      BY <2>8, <1>3
    <3>. HIDE DEF In
    <3> QED
      BY <3>1, <3>2, <2>10, <2>11, <2>12, <1>1
  <2> QED
    BY <2>1, <2>5, <2>13
<1>6. In(Shards) = {h \in Handles : InCache(h)}
  <2>1. ASSUME NEW h \in Handles, InCache(h) PROVE h \in Cached(ShardOf[entry[h].key]) /\ ShardOf[entry[h].key] \in Shards
    <3>1. entry[h].key \in Keys
      BY <2>1, <1>0 DEF CacheTypeOK, InCache
    <3> QED
      BY <3>1, <2>1, <1>0 DEF Cached, Shards, CacheAssumption
  <2> QED
    BY <2>1 DEF Cached
<1>7. Cardinality(In(Shards)) <= Cardinality(Shards) * M
  BY <1>5
<1> QED
  BY <1>2, <1>6, <1>7 DEF M

\* Entries out of the cache are in use by readers, of which no other entry is made.
LEMMA InvBounds ==
  ASSUME TableAssumption, TableInv
  PROVE  LessOpen
<1>. DEFINE Live == {h \in Handles : entry[h].refs > 0}
            C == {h \in Handles : InCache(h)}
            N == {h \in Handles : entry[h].refs > 0 /\ ~entry[h].inCache}
            Using == {t \in Readers : thread[t].at = "use"}
            Making == {t \in Readers : thread[t].at = "insert"}
            M == Max({PerShard, Cardinality(Readers)})
<1>0. CacheAssumption /\ CacheTypeOK /\ References /\ ReadersFit /\ HeldByReaders
  BY DEF TableAssumption, TableInv, CacheInv
<1>1. \A G \in SUBSET Handles : IsFiniteSet(G) /\ Cardinality(G) \in Nat
  BY <1>0, FS_Subset, FS_CardinalityType DEF CacheAssumption
<1>2. \A T \in SUBSET Readers : IsFiniteSet(T) /\ Cardinality(T) \in Nat
                                /\ Cardinality(T) <= Cardinality(Readers)
  BY FS_Subset, FS_CardinalityType DEF TableAssumption
<1>3. ASSUME NEW h \in N PROVE \E t \in Using : thread[t].handle = h
  <2>1. held[h] # 0
    BY <1>0 DEF References, CacheTypeOK
  <2>2. PICK t \in Readers : thread[t].handle = h
    <3>1. Cardinality({u \in Readers : thread[u].handle = h}) # 0
      BY <2>1, <1>0 DEF HeldByReaders, UsersOf
    <3>. HIDE DEF Live, C, N, Using, Making, M
    <3> QED
      BY <3>1, HeldIsUsed
  <2>3. h # Nil
    BY <1>0 DEF CacheAssumption, Nil
  <2> QED
    BY <2>2, <2>3, <1>0 DEF ReadersFit
<1>4. Cardinality(N) <= Cardinality(Using)
  <2>. HIDE DEF N
  <2> QED  BY <1>3, NoMoreThanReaders
<1>5. Cardinality(Using) + Cardinality(Making) <= Cardinality(Readers)
  <2>1. Using \cap Making = {}
    OBVIOUS
  <2>2. Using \cup Making \in SUBSET Readers /\ Using \in SUBSET Readers /\ Making \in SUBSET Readers
    OBVIOUS
  <2>. HIDE DEF Using, Making
  <2>3. Cardinality(Using \cup Making) = Cardinality(Using) + Cardinality(Making) - 0
    BY <2>1, <2>2, <1>2, FS_Union, FS_EmptySet
  <2> QED
    BY <2>2, <2>3, <1>2
<1>6. Cardinality(Live) = Cardinality(C) + Cardinality(N)
  <2>1. Live = C \cup N /\ C \cap N = {} /\ C \in SUBSET Handles /\ N \in SUBSET Handles
    BY DEF InCache
  <2>. HIDE DEF Live, C, N
  <2>2. Cardinality(C \cup N) = Cardinality(C) + Cardinality(N) - 0
    <3>1. IsFiniteSet(C) /\ IsFiniteSet(N) /\ C \cap N = {}
      BY <2>1, <1>1
    <3> QED
      BY <3>1, FS_Union, FS_EmptySet
  <2>3. Cardinality(Live) = Cardinality(C \cup N)
    BY <2>1
  <2>4. Cardinality(C) \in Nat /\ Cardinality(N) \in Nat
    BY <2>1, <1>1
  <2> QED
    BY <2>2, <2>3, <2>4
<1>7. Cardinality(C) <= NumShards * M
  BY CachedBound
<1>8. NumShards * M \in Nat
  <2>1. M \in Nat /\ NumShards \in Nat
    BY <1>0, <1>2, PerShardIs, GreaterIs DEF CacheAssumption
  <2>. HIDE DEF M
  <2> QED  BY <2>1
<1>9. /\ Cardinality(C) \in Nat /\ Cardinality(N) \in Nat
      /\ Cardinality(Using) \in Nat /\ Cardinality(Making) \in Nat /\ Cardinality(Readers) \in Nat
  <2>1. C \in SUBSET Handles /\ N \in SUBSET Handles
    OBVIOUS
  <2>2. Using \in SUBSET Readers /\ Making \in SUBSET Readers /\ Readers \in SUBSET Readers
    OBVIOUS
  <2>. HIDE DEF C, N, Using, Making
  <2> QED  BY <2>1, <2>2, <1>1, <1>2
<1>10. Cardinality(Live) + Cardinality(Making) <= NumShards * M + Cardinality(Readers)
  <2>. HIDE DEF Live, C, N, Using, Making, M
  <2> QED  BY <1>4, <1>5, <1>6, <1>7, <1>8, <1>9
<1> QED
  BY <1>10 DEF LessOpen

-----------------------------------------------------------------------------
(***************************************************************************)
(* What every step of TableCache has to show.                              *)
(***************************************************************************)
\* The constants are those of a cache.
LEMMA IsCache ==
  ASSUME TableAssumption, TableInv
  PROVE  /\ CacheAssumption /\ CacheInv /\ CacheTypeOK /\ References /\ TableIsExact
         /\ TableTypeOK /\ ReadersFit /\ HeldByReaders /\ EntriesFit
         /\ FilesAreClosed /\ ShardsFit
  BY DEF TableAssumption, TableInv, CacheInv

\* An entry that a reader uses stays, with its key.
LEMMA UsedStay ==
  ASSUME TableAssumption, CacheInv', HeldByReaders', NEW new, NEW k, Allocates(new, k),
         NEW u \in Readers, thread'[u].handle \in Handles \ new
  PROVE  entry'[thread'[u].handle].key = entry[thread'[u].handle].key
<1>1. PICK g \in Handles \ new : g = thread'[u].handle
  OBVIOUS
<1>2. held'[g] = Cardinality({v \in Readers : thread'[v].handle = g})
  BY DEF HeldByReaders, UsersOf
<1>3. Cardinality({v \in Readers : thread'[v].handle = g}) \in Nat \ {0}
  BY <1>1, UsedIsHeld
<1>4. entry'[g].refs > 0
  BY <1>2, <1>3 DEF CacheInv, References
<1> QED
  BY <1>1, <1>4 DEF Allocates

\* Files of entries that are freed are closed, and of others not.
LEMMA FilesFollow ==
  ASSUME TableAssumption, TableInv, CacheInv', NEW new \in SUBSET Handles, NEW k,
         Allocates(new, k), CloseFreed,
         \A f \in Keys : /\ Cardinality(OpenersOf(f)') \in Nat
                         /\ Cardinality(OpenersOf(f))
                              = Cardinality(OpenersOf(f)') + (IF f = k THEN Cardinality(new) ELSE 0)
  PROVE  FilesAreClosed' /\ opened' \in [Keys -> Nat]
<1>0. CacheAssumption /\ CacheTypeOK /\ CacheTypeOK'
  BY IsCache DEF CacheInv
<1>1. \A G \in SUBSET Handles : IsFiniteSet(G) /\ Cardinality(G) \in Nat
  BY <1>0, FS_Subset, FS_CardinalityType DEF CacheAssumption
<1>2. \A h \in Handles : entry[h].refs \in Nat /\ entry'[h].refs \in Nat
  BY <1>0 DEF CacheTypeOK
<1>3. ASSUME NEW f \in Keys
      PROVE  opened'[f] = Cardinality(HandlesOf(f)') + Cardinality(OpenersOf(f)') /\ opened'[f] \in Nat
  <2>. DEFINE H == HandlesOf(f)
              F == {h \in Handles : entry[h].key = f /\ entry[h].refs > 0 /\ entry'[h].refs = 0}
              N == IF f = k THEN new ELSE {}
              c == Cardinality(N)
  <2>1. F \subseteq H /\ H \in SUBSET Handles /\ N \in SUBSET Handles /\ N \cap H = {}
    BY DEF HandlesOf, Allocates
  <2>2. HandlesOf(f)' = (H \ F) \cup N
    BY <1>2 DEF HandlesOf, Allocates
  <2>3. opened'[f] = opened[f] - Cardinality(F)
    BY DEF CloseFreed, Closed
  <2>4. opened[f] = Cardinality(H) + Cardinality(OpenersOf(f))
    BY IsCache DEF FilesAreClosed
  <2>5. Cardinality(OpenersOf(f)) = Cardinality(OpenersOf(f)') + c /\ Cardinality(OpenersOf(f)') \in Nat
    BY FS_EmptySet
  <2>6. HandlesOf(f)' \in SUBSET Handles
    BY DEF HandlesOf
  <2>. HIDE DEF H, F, N
  <2>7. Cardinality(H \ F) = Cardinality(H) - Cardinality(F)
    <3>1. H \cap F = F /\ IsFiniteSet(H)
      BY <2>1, <1>1
    <3>2. Cardinality(H \ F) = Cardinality(H) - Cardinality(H \cap F)
      BY <3>1, FS_Difference
    <3> QED
      BY <3>1, <3>2
  <2>8. Cardinality((H \ F) \cup N) = Cardinality(H \ F) + c - 0
    <3>1. (H \ F) \cap N = {} /\ H \ F \in SUBSET Handles
      BY <2>1
    <3> QED
      BY <3>1, <2>1, <1>1, FS_Union, FS_EmptySet
  <2>9. /\ Cardinality(H) \in Nat /\ Cardinality(F) \in Nat /\ c \in Nat
        /\ Cardinality(HandlesOf(f)') \in Nat /\ Cardinality(HandlesOf(f)') = Cardinality(H \ F) + c
    <3>1. F \in SUBSET Handles
      BY <2>1
    <3>2. Cardinality(H) \in Nat /\ Cardinality(F) \in Nat /\ c \in Nat /\ Cardinality(HandlesOf(f)') \in Nat
          /\ Cardinality(H \ F) \in Nat
      BY <3>1, <2>1, <2>6, <1>1
    <3> QED
      BY <3>2, <2>2, <2>8
  <2>. HIDE DEF c
  <2> QED
    BY <2>3, <2>4, <2>5, <2>7, <2>9
<1>4. opened' = [f \in Keys |-> opened[f] - Closed(f)]
  BY DEF CloseFreed
<1>5. opened' \in [Keys -> Nat]
  BY <1>3, <1>4
<1> QED
  BY <1>3, <1>5 DEF FilesAreClosed

\* Entries that a step leaves are for tables that still exist.
LEMMA EntriesKept ==
  ASSUME TableInv, NEW new, NEW k, Allocates(new, k), new = {} \/ k \in tableFiles,
         UNCHANGED tableFiles
  PROVE  EntriesFit'
<1>. SUFFICES ASSUME NEW h \in Handles, entry'[h].refs > 0
              PROVE  entry'[h].key \in tableFiles /\ entry'[h].charge = 1
  BY DEF EntriesFit
<1>1. CASE h \in new
  BY <1>1 DEF Allocates
<1>2. CASE h \notin new
  BY <1>2 DEF Allocates, TableInv, EntriesFit
<1> QED
  BY <1>1, <1>2

\* A shard that has no more cached than before fits.
LEMMA ShardsKept ==
  ASSUME TableAssumption, TableInv, CacheInv', \A s \in Shards : usage'[s] <= usage[s]
  PROVE  ShardsFit'
<1>1. PICK M : M = Max({PerShard, Cardinality(Readers)})
  OBVIOUS
<1>2. M \in Nat
  BY <1>1, PerShardIs, GreaterIs, FS_CardinalityType DEF TableAssumption
<1>3. ASSUME NEW s \in Shards PROVE usage'[s] <= M
  <2>1. usage[s] \in Nat /\ usage'[s] \in Nat
    BY DEF TableInv, CacheInv, CacheTypeOK, Shards
  <2>2. usage[s] <= M
    BY <1>1 DEF TableInv, ShardsFit
  <2> QED
    BY <2>1, <2>2, <1>2
<1> QED
  BY <1>1, <1>3 DEF ShardsFit, Shards, PerShard

\* So does one in which clients hold all that is cached.
LEMMA ShardHeld ==
  ASSUME TableAssumption, CacheInv', HeldByReaders', EntriesFit', NEW s \in Shards, lru'[s] = <<>>
  PROVE  usage'[s] <= Cardinality(Readers)
<1>. DEFINE H == Cached(s)'
<1>1. \A h \in H : h \in Handles /\ InCache(h)'
  BY DEF Cached
<1>2. ASSUME NEW h \in H PROVE \E t \in Readers : thread'[t].handle = h
  <2>1. ToSet(lru'[s]) = {}
    BY DEF ToSet
  <2>2. entry'[h].refs # 1 /\ entry'[h].refs > 0 /\ entry'[h].inCache
    BY <2>1, <1>1 DEF CacheInv, Lists, Shards, InCache
  <2>3. held'[h] # 0
    <3>1. entry'[h].refs = held'[h] + (IF entry'[h].inCache THEN 1 ELSE 0)
      BY <1>1 DEF CacheInv, References
    <3> QED
      BY <3>1, <2>2
  <2>4. held'[h] = Cardinality({u \in Readers : thread'[u].handle = h})
    BY <1>1 DEF HeldByReaders, UsersOf
  <2> QED
    BY <2>3, <2>4, HeldIsUsed
<1>3. \A h \in H : entry'[h].charge = 1
  BY <1>1 DEF EntriesFit, InCache
<1>4. usage'[s] = ChargeOf(entry', H)
  BY DEF CacheInv, UsageIsCharge, Cached, Shards
<1>. HIDE DEF H
<1>5. IsFiniteSet(H) /\ Cardinality(H) <= Cardinality(Readers)
  BY <1>2, NoMoreThanReaders
<1> QED
  BY <1>3, <1>4, <1>5, ChargeCounts

\* A reader that changes neither the cache nor a handle.
LEMMA HandlesSame ==
  ASSUME TableAssumption, TableInv, NEW t \in Readers, NEW r,
         thread' = [thread EXCEPT ![t] = r], thread[t].handle = Nil, r.handle = Nil
  PROVE  \A h \in Handles : UsersOf(h)' = UsersOf(h)
<1>1. \A h \in Handles : h # Nil
  BY DEF TableAssumption, CacheAssumption, Nil
<1>2. thread'[t] = r /\ \A u \in Readers : u # t => thread'[u] = thread[u]
  BY ReaderMoves, IsCache
<1> QED
  BY <1>1, <1>2 DEF UsersOf

-----------------------------------------------------------------------------
(***************************************************************************)
(* What each operation of TableCache keeps.                                *)
(***************************************************************************)
\* The record of a reader.
ReaderType == [at : {"idle", "open", "insert", "use"}, file : Keys \cup {Nil},
               handle : Handles \cup {Nil}]

\* Steps of a reader alone, outside of the cache.
LEMMA OpenKeeps ==
  ASSUME TableAssumption, TableInv, NEW t \in Readers, OpenTable(t) \/ OpenTableFails(t)
  PROVE  TableInv'
<1>0. /\ CacheAssumption /\ CacheInv /\ TableTypeOK /\ ReadersFit /\ HeldByReaders
      /\ EntriesFit /\ FilesAreClosed /\ ShardsFit
  BY IsCache
<1>. DEFINE f == thread[t].file
<1>1. UNCHANGED <<cacheVars, tableFiles>>
  BY DEF OpenTable, OpenTableFails
<1>2. /\ thread[t].at \in {"open", "insert"} /\ thread[t].handle = Nil
      /\ f \in tableFiles /\ f \in Keys
  BY <1>0 DEF OpenTable, OpenTableFails, ReadersFit, TableTypeOK
<1>3. CacheInv'
  BY <1>0, <1>1, NextKeeps DEF cacheVars
<1>4. PICK r \in ReaderType :
        /\ thread' = [thread EXCEPT ![t] = r] /\ r.handle = Nil
        /\ \/ r.at = "insert" /\ r.file = f /\ thread[t].at = "open"
              /\ opened' = [opened EXCEPT ![f] = @ + 1]
           \/ r = Idle /\ opened' = IF thread[t].at = "insert" THEN CloseFile(f) ELSE opened
  <2>1. CASE OpenTable(t)
    <3>. DEFINE r == [at |-> "insert", file |-> f, handle |-> Nil]
    <3>1. r \in ReaderType
      BY <1>2 DEF ReaderType
    <3> QED
      BY <3>1, <2>1 DEF OpenTable, Becomes
  <2>2. CASE OpenTableFails(t)
    <3>1. Idle \in ReaderType /\ Idle.handle = Nil
      BY DEF ReaderType, Idle
    <3> QED
      BY <3>1, <2>2 DEF OpenTableFails
  <2> QED
    BY <2>1, <2>2
<1>5. thread'[t] = r /\ \A u \in Readers : u # t => thread'[u] = thread[u]
  BY <1>0, <1>4, ReaderMoves
<1>6. HeldByReaders'
  <2>1. \A h \in Handles : UsersOf(h)' = UsersOf(h)
    BY <1>2, <1>4, HandlesSame
  <2> QED
    BY <2>1, <1>0, <1>1 DEF HeldByReaders, cacheVars
<1>7. ReadersFit'
  <2>1. r.at = "idle" => r = Idle
    BY <1>4
  <2>2. r.at # "use" /\ (r.at # "idle" => r.file \in tableFiles)
    BY <1>2, <1>4 DEF Idle
  <2> QED
    BY <2>1, <2>2, <1>0, <1>1, <1>4, <1>5 DEF ReadersFit, cacheVars
<1>8. EntriesFit'
  BY <1>0, <1>1 DEF EntriesFit, cacheVars
<1>9. ShardsFit'
  BY <1>0, <1>1 DEF ShardsFit, cacheVars, Shards, PerShard
<1>10. ASSUME NEW g \in Keys
       PROVE  /\ opened'[g] = Cardinality(HandlesOf(g)') + Cardinality(OpenersOf(g)')
              /\ opened'[g] \in Nat
  <2>1. HandlesOf(g)' = HandlesOf(g)
    BY <1>1 DEF HandlesOf, cacheVars
  <2>2. opened[g] = Cardinality(HandlesOf(g)) + Cardinality(OpenersOf(g))
    BY <1>0 DEF FilesAreClosed
  <2>3. Cardinality(HandlesOf(g)) \in Nat
    BY <1>0, FS_Subset, FS_CardinalityType DEF HandlesOf, CacheAssumption
  <2>4. /\ OpenersOf(g)' = IF r.at = "insert" /\ r.file = g THEN OpenersOf(g) \cup {t}
                           ELSE OpenersOf(g) \ {t}
        /\ IsFiniteSet(OpenersOf(g)) /\ Cardinality(OpenersOf(g)) \in Nat
    BY <1>0, <1>4, OpenersMove
  <2>5. t \in OpenersOf(g) <=> thread[t].at = "insert" /\ f = g
    BY DEF OpenersOf
  <2>6. CASE r.at = "insert" /\ r.file = f /\ thread[t].at = "open"
             /\ opened' = [opened EXCEPT ![f] = @ + 1]
    <3>1. CASE g = f
      <4>1. Cardinality(OpenersOf(g)') = Cardinality(OpenersOf(g)) + 1
        <5>1. OpenersOf(g)' = OpenersOf(g) \cup {t}
          BY <2>4, <2>6, <3>1
        <5>2. t \notin OpenersOf(g)
          BY <2>5, <2>6, <3>1
        <5> QED
          BY <5>1, <5>2, <2>4, FS_AddElement
      <4>2. opened'[g] = opened[g] + 1
        BY <2>6, <3>1, <1>0 DEF TableTypeOK
      <4> QED
        BY <4>1, <4>2, <2>1, <2>2, <2>3, <2>4
    <3>2. CASE g # f
      <4>1. OpenersOf(g)' = OpenersOf(g)
        BY <2>4, <2>5, <2>6, <3>2
      <4>2. opened'[g] = opened[g]
        BY <2>6, <3>2, <1>0 DEF TableTypeOK
      <4> QED
        BY <4>1, <4>2, <2>1, <2>2, <2>3, <2>4
    <3> QED
      BY <3>1, <3>2
  <2>7. CASE r = Idle /\ opened' = IF thread[t].at = "insert" THEN CloseFile(f) ELSE opened
    <3>0. OpenersOf(g)' = OpenersOf(g) \ {t}
      BY <2>4, <2>7 DEF Idle
    <3>1. CASE thread[t].at = "insert" /\ g = f
      <4>1. Cardinality(OpenersOf(g)') = Cardinality(OpenersOf(g)) - 1
        BY <2>4, <2>5, <3>0, <3>1, FS_RemoveElement
      <4>2. opened'[g] = opened[g] - 1
        BY <2>7, <3>1, <1>0 DEF TableTypeOK, CloseFile
      <4>3. Cardinality(OpenersOf(g)') \in Nat
        BY <2>4, <3>0, FS_RemoveElement, FS_CardinalityType
      <4> QED
        BY <4>1, <4>2, <4>3, <2>1, <2>2, <2>3, <2>4
    <3>2. CASE ~(thread[t].at = "insert" /\ g = f)
      <4>1. OpenersOf(g)' = OpenersOf(g)
        BY <2>5, <3>0, <3>2
      <4>2. opened'[g] = opened[g]
        BY <2>7, <3>2, <1>0 DEF TableTypeOK, CloseFile
      <4> QED
        BY <4>1, <4>2, <2>1, <2>2, <2>3, <2>4
    <3> QED
      BY <3>1, <3>2
  <2> QED
    BY <2>6, <2>7, <1>4
<1>11. FilesAreClosed'
  BY <1>10 DEF FilesAreClosed
<1>12. TableTypeOK'
  <2>1. opened' \in [Keys -> Nat]
    <3>1. opened' = [g \in Keys |-> opened'[g]]
      BY <1>0, <1>4 DEF TableTypeOK, CloseFile
    <3> QED
      BY <3>1, <1>10
  <2>2. thread \in [Readers -> ReaderType] /\ tableFiles' \subseteq Keys
    BY <1>0, <1>1 DEF TableTypeOK, ReaderType
  <2>3. thread' \in [Readers -> ReaderType]
    <3>. HIDE DEF ReaderType
    <3> QED  BY <2>2, <1>4
  <2> QED
    BY <2>1, <2>2, <2>3 DEF TableTypeOK, ReaderType
<1> QED
  BY <1>3, <1>6, <1>7, <1>8, <1>9, <1>11, <1>12 DEF TableInv

\* FindTable.
LEMMA FindKeeps ==
  ASSUME TableAssumption, TableInv, NEW t \in Readers, NEW f \in Keys, FindTable(t, f)
  PROVE  TableInv'
<1>0. /\ CacheAssumption /\ CacheInv /\ TableTypeOK /\ ReadersFit /\ HeldByReaders
      /\ EntriesFit /\ FilesAreClosed /\ ShardsFit
  BY IsCache
<1>1. /\ thread[t] = Idle /\ f \in tableFiles /\ Lookup(f) /\ tableFiles' = tableFiles
      /\ opened' = opened
  BY DEF FindTable
<1>2. CacheInv'
  BY <1>0, <1>1, LookupKeeps
<1>3. /\ usage' = usage /\ \A h \in Handles : entry'[h].key = entry[h].key
      /\ \A h \in Handles : /\ entry'[h].refs > 0 <=> entry[h].refs > 0
                            /\ entry'[h].charge = entry[h].charge
      /\ table[f] = Nil => UNCHANGED <<entry, held>>
      /\ table[f] # Nil => /\ table[f] \in Handles /\ entry[table[f]].key = f
                           /\ entry[table[f]].refs > 0
                           /\ held' = [held EXCEPT ![table[f]] = @ + 1]
  BY <1>0, <1>1, LookupMoves
<1>4. PICK r \in ReaderType :
        /\ thread' = [thread EXCEPT ![t] = r] /\ r.file = f
        /\ table[f] = Nil => r.at = "open" /\ r.handle = Nil
        /\ table[f] # Nil => r.at = "use" /\ r.handle = table[f]
  <2>1. CASE table[f] = Nil
    <3>. DEFINE r == [at |-> "open", file |-> f, handle |-> Nil]
    <3>1. r \in ReaderType
      BY DEF ReaderType
    <3> QED
      BY <3>1, <2>1 DEF FindTable, Becomes
  <2>2. CASE table[f] # Nil
    <3>. DEFINE r == [at |-> "use", file |-> f, handle |-> table[f]]
    <3>1. r \in ReaderType
      BY <2>2, <1>3 DEF ReaderType
    <3> QED
      BY <3>1, <2>2 DEF FindTable, Becomes
  <2> QED
    BY <2>1, <2>2
<1>5. thread'[t] = r /\ \A u \in Readers : u # t => thread'[u] = thread[u]
  BY <1>0, <1>4, ReaderMoves
<1>6. thread[t].handle = Nil /\ \A h \in Handles : h # Nil
  BY <1>0, <1>1 DEF Idle, CacheAssumption, Nil
<1>7. ASSUME NEW h \in Handles PROVE held'[h] = Cardinality(UsersOf(h)')
  <2>1. /\ UsersOf(h)' = IF r.handle = h THEN UsersOf(h) \cup {t} ELSE UsersOf(h) \ {t}
        /\ IsFiniteSet(UsersOf(h))
    BY <1>0, <1>4, UsersMove
  <2>2. t \notin UsersOf(h) /\ held[h] = Cardinality(UsersOf(h))
    BY <1>0, <1>6 DEF UsersOf, HeldByReaders
  <2>3. CASE r.handle = h
    <3>1. table[f] # Nil /\ h = table[f]
      BY <2>3, <1>4, <1>6
    <3>2. held'[h] = held[h] + 1
      <4>1. held \in [Handles -> Nat] /\ held' = [held EXCEPT ![h] = held[h] + 1]
        BY <3>1, <1>3, <1>0 DEF CacheInv, CacheTypeOK
      <4> QED
        BY <4>1
    <3>3. Cardinality(UsersOf(h) \cup {t}) = Cardinality(UsersOf(h)) + 1
      BY <2>1, <2>2, FS_AddElement
    <3> QED
      BY <3>2, <3>3, <2>1, <2>2, <2>3
  <2>4. CASE r.handle # h
    <3>1. held'[h] = held[h]
      <4>1. held \in [Handles -> Nat] /\ (table[f] # Nil => h # table[f])
        BY <2>4, <1>4, <1>0 DEF CacheInv, CacheTypeOK
      <4> QED
        BY <4>1, <1>3
    <3>2. UsersOf(h) \ {t} = UsersOf(h)
      BY <2>2
    <3> QED
      BY <3>1, <3>2, <2>1, <2>2, <2>4
  <2> QED
    BY <2>3, <2>4
<1>8. HeldByReaders'
  BY <1>7 DEF HeldByReaders
<1>9. ReadersFit'
  BY <1>0, <1>1, <1>3, <1>4, <1>5 DEF ReadersFit
<1>10. EntriesFit'
  BY <1>0, <1>1, <1>3 DEF EntriesFit
<1>11. ShardsFit'
  BY <1>0, <1>3 DEF ShardsFit, Shards, PerShard
<1>12. FilesAreClosed'
  <2>1. ASSUME NEW g \in Keys PROVE HandlesOf(g)' = HandlesOf(g) /\ OpenersOf(g)' = OpenersOf(g)
    <3>1. HandlesOf(g)' = HandlesOf(g)
      BY <1>3 DEF HandlesOf
    <3>2. thread[t].at = "idle" /\ thread'[t].at # "insert"
      BY <1>1, <1>4, <1>5 DEF Idle
    <3>3. OpenersOf(g)' = OpenersOf(g)
      BY <3>2, <1>5 DEF OpenersOf
    <3> QED
      BY <3>1, <3>3
  <2> QED
    BY <2>1, <1>0, <1>1 DEF FilesAreClosed
<1>13. TableTypeOK'
  <2>1. thread \in [Readers -> ReaderType] /\ tableFiles' \subseteq Keys /\ opened' \in [Keys -> Nat]
    BY <1>0, <1>1 DEF TableTypeOK, ReaderType
  <2>2. thread' \in [Readers -> ReaderType]
    <3>. HIDE DEF ReaderType
    <3> QED  BY <2>1, <1>4
  <2> QED
    BY <2>1, <2>2 DEF TableTypeOK, ReaderType
<1> QED
  BY <1>2, <1>8, <1>9, <1>10, <1>11, <1>12, <1>13 DEF TableInv

\* InsertTable.
LEMMA InsertTableKeeps ==
  ASSUME TableAssumption, TableInv, NEW t \in Readers, InsertTable(t)
  PROVE  TableInv'
<1>0. /\ CacheAssumption /\ CacheInv /\ TableTypeOK /\ ReadersFit /\ HeldByReaders
      /\ EntriesFit /\ FilesAreClosed /\ ShardsFit /\ 1 \in Charges
  BY IsCache DEF TableAssumption
<1>1. PICK f \in Keys : /\ f = thread[t].file /\ f \in tableFiles
                        /\ thread[t].at = "insert" /\ thread[t].handle = Nil
  BY <1>0 DEF InsertTable, TableTypeOK, ReadersFit
<1>2. Insert(f, 1) /\ CloseFreed /\ tableFiles' = tableFiles
  BY <1>1 DEF InsertTable
<1>3. CacheInv'
  BY <1>0, <1>2, InsertKeeps
<1>4. PICK h \in Handles :
        /\ h = Min(Unused) /\ Allocates({h}, f)
        /\ held[h] = 0 /\ held' = [held EXCEPT ![h] = 1]
        /\ \A s \in Shards : s # ShardOf[f] => usage'[s] = usage[s]
        /\ usage'[ShardOf[f]] <= PerShard \/ lru'[ShardOf[f]] = <<>>
  BY <1>0, <1>2, InsertAllocates
<1>5. PICK r \in ReaderType : /\ thread' = [thread EXCEPT ![t] = r]
                              /\ r.at = "use" /\ r.file = f /\ r.handle = h
  <2>. DEFINE r == [at |-> "use", file |-> f, handle |-> h]
  <2>1. r \in ReaderType
    BY DEF ReaderType
  <2> QED
    BY <2>1, <1>1, <1>4 DEF InsertTable, Becomes
<1>6. thread'[t] = r /\ \A u \in Readers : u # t => thread'[u] = thread[u]
  BY <1>0, <1>5, ReaderMoves
<1>7. held \in [Handles -> Nat] /\ \A g \in Handles : g # Nil
  BY <1>0 DEF CacheInv, CacheTypeOK, CacheAssumption, Nil
<1>8. ASSUME NEW g \in Handles PROVE held'[g] = Cardinality(UsersOf(g)')
  <2>1. /\ UsersOf(g)' = IF r.handle = g THEN UsersOf(g) \cup {t} ELSE UsersOf(g) \ {t}
        /\ IsFiniteSet(UsersOf(g))
    BY <1>0, <1>5, UsersMove
  <2>2. t \notin UsersOf(g) /\ held[g] = Cardinality(UsersOf(g))
    BY <1>0, <1>1, <1>7 DEF UsersOf, HeldByReaders
  <2>3. CASE g = h
    <3>1. Cardinality(UsersOf(g) \cup {t}) = 1
      <4>1. t \notin UsersOf(g) /\ Cardinality(UsersOf(g)) = 0
        BY <2>2, <2>3, <1>4
      <4>2. Cardinality(UsersOf(g) \cup {t}) = Cardinality(UsersOf(g)) + 1
        BY <4>1, <2>1, FS_AddElement
      <4> QED
        BY <4>1, <4>2
    <3>2. held'[g] = 1
      BY <2>3, <1>4, <1>7
    <3>3. UsersOf(g)' = UsersOf(g) \cup {t}
      BY <2>1, <2>3, <1>5
    <3> QED
      BY <3>1, <3>2, <3>3
  <2>4. CASE g # h
    <3>1. UsersOf(g) \ {t} = UsersOf(g) /\ held'[g] = held[g]
      BY <2>2, <2>4, <1>4, <1>7
    <3> QED
      BY <3>1, <2>1, <2>2, <2>4, <1>5
  <2> QED
    BY <2>3, <2>4
<1>9. HeldByReaders'
  BY <1>8 DEF HeldByReaders
<1>10. ASSUME NEW u \in Readers, u # t PROVE thread[u].handle # h
  <2>. SUFFICES ASSUME thread[u].handle = h PROVE FALSE
    OBVIOUS
  <2>1. Cardinality({v \in Readers : thread[v].handle = h}) \in Nat \ {0}
    BY UsedIsHeld
  <2> QED
    BY <2>1, <1>0, <1>4 DEF HeldByReaders, UsersOf
<1>11. ReadersFit'
  <2>1. entry'[h].key = f
    BY <1>4 DEF Allocates
  <2>2. ASSUME NEW u \in Readers, u # t, thread'[u].at = "use"
        PROVE  thread'[u].handle \in Handles /\ entry'[thread'[u].handle].key = thread'[u].file
    <3>1. thread'[u] = thread[u] /\ thread'[u].handle \in Handles \ {h}
      BY <2>2, <1>0, <1>6, <1>10 DEF ReadersFit
    <3>2. entry'[thread'[u].handle].key = entry[thread'[u].handle].key
      BY <3>1, <1>3, <1>4, <1>9, UsedStay
    <3> QED
      BY <3>1, <3>2, <2>2, <1>0 DEF ReadersFit
  <2>3. ASSUME NEW u \in Readers, u # t
        PROVE  /\ thread'[u].at = "idle" => thread'[u] = Idle
               /\ thread'[u].at # "idle" => thread'[u].file \in tableFiles'
               /\ thread'[u].at # "use" => thread'[u].handle = Nil
    BY <2>3, <1>0, <1>2, <1>6 DEF ReadersFit
  <2>4. /\ thread'[t].at # "idle" /\ thread'[t].file \in tableFiles' /\ thread'[t].at = "use"
        /\ thread'[t].handle \in Handles /\ entry'[thread'[t].handle].key = thread'[t].file
    BY <2>1, <1>1, <1>2, <1>5, <1>6
  <2> QED
    BY <2>2, <2>3, <2>4 DEF ReadersFit
<1>12. EntriesFit'
  BY <1>0, <1>1, <1>2, <1>4, EntriesKept
<1>13. ShardsFit'
  <2>1. ShardOf[f] \in Shards /\ PerShard \in Nat /\ Cardinality(Readers) \in Nat
    BY <1>0, PerShardIs, FS_CardinalityType DEF TableAssumption, CacheAssumption, Shards
  <2>2. PICK M : M = Max({PerShard, Cardinality(Readers)})
    OBVIOUS
  <2>3. M \in Nat /\ PerShard <= M /\ Cardinality(Readers) <= M
    BY <2>1, <2>2, GreaterIs
  <2>4. usage'[ShardOf[f]] <= PerShard \/ usage'[ShardOf[f]] <= Cardinality(Readers)
    BY <2>1, <1>3, <1>4, <1>9, <1>12, ShardHeld
  <2>5. usage'[ShardOf[f]] \in Nat
    BY <2>1, <1>3 DEF CacheInv, CacheTypeOK, Shards
  <2>6. usage'[ShardOf[f]] <= M
    BY <2>1, <2>3, <2>4, <2>5
  <2>7. \A s \in Shards : usage'[s] <= M
    BY <2>2, <2>6, <1>0, <1>4 DEF ShardsFit
  <2> QED
    BY <2>2, <2>7 DEF ShardsFit, Shards, PerShard
<1>14. FilesAreClosed' /\ opened' \in [Keys -> Nat]
  <2>1. Cardinality({h}) = 1
    BY FS_Singleton
  <2>2. ASSUME NEW g \in Keys
        PROVE  /\ Cardinality(OpenersOf(g)') \in Nat
               /\ Cardinality(OpenersOf(g))
                    = Cardinality(OpenersOf(g)') + (IF g = f THEN Cardinality({h}) ELSE 0)
    <3>1. /\ OpenersOf(g)' = IF r.at = "insert" /\ r.file = g THEN OpenersOf(g) \cup {t}
                             ELSE OpenersOf(g) \ {t}
          /\ IsFiniteSet(OpenersOf(g)) /\ Cardinality(OpenersOf(g)) \in Nat
      BY <1>0, <1>5, OpenersMove
    <3>2. OpenersOf(g)' = OpenersOf(g) \ {t}
      BY <3>1, <1>5
    <3>3. t \in OpenersOf(g) <=> g = f
      BY <1>1 DEF OpenersOf
    <3>4. /\ Cardinality(OpenersOf(g)') = IF g = f THEN Cardinality(OpenersOf(g)) - 1
                                          ELSE Cardinality(OpenersOf(g))
          /\ Cardinality(OpenersOf(g)') \in Nat
      BY <3>1, <3>2, <3>3, FS_RemoveElement, FS_CardinalityType
    <3> QED
      BY <3>1, <3>4, <2>1
  <2>3. {h} \in SUBSET Handles
    OBVIOUS
  <2> QED
    BY <2>2, <2>3, <1>2, <1>3, <1>4, FilesFollow
<1>15. TableTypeOK'
  <2>1. thread \in [Readers -> ReaderType] /\ tableFiles' \subseteq Keys
    BY <1>0, <1>2 DEF TableTypeOK, ReaderType
  <2>2. thread' \in [Readers -> ReaderType]
    <3>. HIDE DEF ReaderType
    <3> QED  BY <2>1, <1>5
  <2> QED
    BY <2>1, <2>2, <1>14 DEF TableTypeOK, ReaderType
<1> QED
  BY <1>3, <1>9, <1>11, <1>12, <1>13, <1>14, <1>15 DEF TableInv

\* ReleaseTable.
LEMMA ReleaseTableKeeps ==
  ASSUME TableAssumption, TableInv, NEW t \in Readers, ReleaseTable(t)
  PROVE  TableInv'
<1>0. /\ CacheAssumption /\ CacheInv /\ TableTypeOK /\ ReadersFit /\ HeldByReaders
      /\ EntriesFit /\ FilesAreClosed /\ ShardsFit
  BY IsCache
<1>1. PICK h \in Handles : h = thread[t].handle /\ thread[t].at = "use"
  BY <1>0 DEF ReleaseTable, ReadersFit
<1>2. /\ Release(h) /\ CloseFreed /\ tableFiles' = tableFiles
      /\ thread' = [thread EXCEPT ![t] = Idle]
  BY <1>1 DEF ReleaseTable
<1>3. CacheInv'
  BY <1>0, <1>2, ReleaseKeeps
<1>4. /\ Allocates({}, Nil) /\ usage' = usage
      /\ held[h] \in Nat \ {0} /\ held' = [held EXCEPT ![h] = @ - 1]
  BY <1>0, <1>2, ReleaseMoves
<1>5. Idle \in ReaderType /\ Idle.at = "idle" /\ Idle.handle = Nil
  BY DEF Idle, ReaderType
<1>6. thread'[t] = Idle /\ \A u \in Readers : u # t => thread'[u] = thread[u]
  BY <1>0, <1>2, ReaderMoves
<1>7. held \in [Handles -> Nat] /\ \A g \in Handles : g # Nil
  BY <1>0 DEF CacheInv, CacheTypeOK, CacheAssumption, Nil
<1>8. ASSUME NEW g \in Handles PROVE held'[g] = Cardinality(UsersOf(g)')
  <2>1. UsersOf(g)' = UsersOf(g) \ {t} /\ IsFiniteSet(UsersOf(g))
    <3>1. /\ UsersOf(g)' = IF Idle.handle = g THEN UsersOf(g) \cup {t} ELSE UsersOf(g) \ {t}
          /\ IsFiniteSet(UsersOf(g))
      BY <1>0, <1>2, UsersMove
    <3> QED
      BY <3>1, <1>5, <1>7
  <2>2. held[g] = Cardinality(UsersOf(g)) /\ (t \in UsersOf(g) <=> g = h)
    BY <1>0, <1>1 DEF UsersOf, HeldByReaders
  <2>3. CASE g = h
    <3>1. Cardinality(UsersOf(g) \ {t}) = Cardinality(UsersOf(g)) - 1
      BY <2>1, <2>2, <2>3, FS_RemoveElement
    <3>2. held'[g] = held[g] - 1
      BY <2>3, <1>4, <1>7
    <3> QED
      BY <3>1, <3>2, <2>1, <2>2
  <2>4. CASE g # h
    <3>1. UsersOf(g) \ {t} = UsersOf(g) /\ held'[g] = held[g]
      BY <2>2, <2>4, <1>4, <1>7
    <3> QED
      BY <3>1, <2>1, <2>2
  <2> QED
    BY <2>3, <2>4
<1>9. HeldByReaders'
  BY <1>8 DEF HeldByReaders
<1>10. ReadersFit'
  <2>1. ASSUME NEW u \in Readers, u # t, thread'[u].at = "use"
        PROVE  thread'[u].handle \in Handles /\ entry'[thread'[u].handle].key = thread'[u].file
    <3>1. thread'[u] = thread[u] /\ thread'[u].handle \in Handles \ {}
      BY <2>1, <1>0, <1>6 DEF ReadersFit
    <3>2. entry'[thread'[u].handle].key = entry[thread'[u].handle].key
      BY <3>1, <1>3, <1>4, <1>9, UsedStay
    <3> QED
      BY <3>1, <3>2, <2>1, <1>0 DEF ReadersFit
  <2>2. ASSUME NEW u \in Readers, u # t
        PROVE  /\ thread'[u].at = "idle" => thread'[u] = Idle
               /\ thread'[u].at # "idle" => thread'[u].file \in tableFiles'
               /\ thread'[u].at # "use" => thread'[u].handle = Nil
    BY <2>2, <1>0, <1>2, <1>6 DEF ReadersFit
  <2> QED
    BY <2>1, <2>2, <1>5, <1>6 DEF ReadersFit
<1>11. EntriesFit'
  BY <1>0, <1>2, <1>4, EntriesKept
<1>12. ShardsFit'
  BY <1>0, <1>4 DEF ShardsFit, Shards, PerShard
<1>13. FilesAreClosed' /\ opened' \in [Keys -> Nat]
  <2>1. ASSUME NEW g \in Keys
        PROVE  /\ Cardinality(OpenersOf(g)') \in Nat
               /\ Cardinality(OpenersOf(g))
                    = Cardinality(OpenersOf(g)') + (IF g = Nil THEN Cardinality({}) ELSE 0)
    <3>1. OpenersOf(g)' = OpenersOf(g)
      BY <1>1, <1>5, <1>6 DEF OpenersOf
    <3>2. Cardinality(OpenersOf(g)) \in Nat
      BY <1>0, <1>2, OpenersMove
    <3> QED
      BY <3>1, <3>2, FS_EmptySet
  <2>2. {} \in SUBSET Handles
    OBVIOUS
  <2> QED
    BY <2>1, <2>2, <1>2, <1>3, <1>4, FilesFollow
<1>14. TableTypeOK'
  <2>1. thread \in [Readers -> ReaderType] /\ tableFiles' \subseteq Keys
    BY <1>0, <1>2 DEF TableTypeOK, ReaderType
  <2>2. thread' \in [Readers -> ReaderType]
    <3>. HIDE DEF ReaderType
    <3> QED  BY <2>1, <1>2, <1>5
  <2> QED
    BY <2>1, <2>2, <1>13 DEF TableTypeOK, ReaderType
<1> QED
  BY <1>3, <1>9, <1>10, <1>11, <1>12, <1>13, <1>14 DEF TableInv

\* Steps in which entries go and no reader does anything, Evict and DeleteCache; if a
\* file goes no reader and no entry has it.
LEMMA GoneKeeps ==
  ASSUME TableAssumption, TableInv, CacheInv', Allocates({}, Nil), held' = held,
         \A s \in Shards : usage'[s] <= usage[s], CloseFreed, thread' = thread,
         tableFiles' \subseteq tableFiles,
         \A t \in Readers : thread[t].at # "idle" => thread[t].file \in tableFiles',
         \A h \in Handles : entry'[h].refs > 0 => entry'[h].key \in tableFiles'
  PROVE  TableInv'
<1>0. /\ CacheAssumption /\ CacheInv /\ TableTypeOK /\ ReadersFit /\ HeldByReaders
      /\ EntriesFit /\ FilesAreClosed /\ ShardsFit
  BY IsCache
<1>1. HeldByReaders'
  BY <1>0 DEF HeldByReaders, UsersOf
<1>2. ReadersFit'
  <2>1. ASSUME NEW u \in Readers, thread'[u].at = "use"
        PROVE  thread'[u].handle \in Handles /\ entry'[thread'[u].handle].key = thread'[u].file
    <3>1. thread'[u] = thread[u] /\ thread'[u].handle \in Handles \ {}
      BY <2>1, <1>0 DEF ReadersFit
    <3>2. entry'[thread'[u].handle].key = entry[thread'[u].handle].key
      BY <3>1, <1>1, UsedStay
    <3> QED
      BY <3>1, <3>2, <2>1, <1>0 DEF ReadersFit
  <2> QED
    BY <2>1, <1>0 DEF ReadersFit
<1>3. EntriesFit'
  BY <1>0 DEF EntriesFit, Allocates
<1>4. ShardsFit'
  BY ShardsKept
<1>5. FilesAreClosed' /\ opened' \in [Keys -> Nat]
  <2>1. ASSUME NEW g \in Keys
        PROVE  /\ Cardinality(OpenersOf(g)') \in Nat
               /\ Cardinality(OpenersOf(g))
                    = Cardinality(OpenersOf(g)') + (IF g = Nil THEN Cardinality({}) ELSE 0)
    <3>1. OpenersOf(g)' = OpenersOf(g)
      BY DEF OpenersOf
    <3>2. Cardinality(OpenersOf(g)) \in Nat
      BY FS_Subset, FS_CardinalityType DEF OpenersOf, TableAssumption
    <3> QED
      BY <3>1, <3>2, FS_EmptySet
  <2>2. {} \in SUBSET Handles
    OBVIOUS
  <2> QED
    BY <2>1, <2>2, FilesFollow
<1>6. TableTypeOK'
  BY <1>0, <1>5 DEF TableTypeOK
<1> QED
  BY <1>1, <1>2, <1>3, <1>4, <1>5, <1>6 DEF TableInv

\* Evict: an entry of the file that stays would be held, by a reader of the file.
LEMMA EvictKeeps ==
  ASSUME TableAssumption, TableInv, NEW f \in Keys, Evict(f)
  PROVE  TableInv'
<1>0. CacheAssumption /\ CacheInv /\ ReadersFit /\ HeldByReaders /\ EntriesFit
  BY IsCache
<1>1. /\ \A t \in Readers : thread[t].file # f
      /\ Erase(f) /\ CloseFreed /\ tableFiles' = tableFiles \ {f} /\ thread' = thread
  BY DEF Evict, EvictTable
<1>2. CacheInv'
  BY <1>0, <1>1, EraseKeeps
<1>3. /\ Allocates({}, Nil) /\ held' = held
      /\ \A s \in Shards : usage'[s] <= usage[s]
      /\ \A h \in Handles : entry'[h].refs > 0 /\ entry'[h].key = f => ~entry'[h].inCache
  BY <1>0, <1>1, EraseMoves
<1>4. ASSUME NEW h \in Handles, entry'[h].refs > 0 PROVE entry'[h].key \in tableFiles'
  <2>1. entry'[h].key = entry[h].key /\ entry[h].key \in tableFiles
    BY <1>0, <1>3, <1>4 DEF Allocates, EntriesFit
  <2>2. ASSUME entry'[h].key = f PROVE FALSE
    <3>1. held'[h] # 0
      BY <2>2, <1>2, <1>3, <1>4 DEF CacheInv, References, CacheTypeOK
    <3>2. Cardinality({u \in Readers : thread[u].handle = h}) # 0
      BY <3>1, <1>0, <1>3 DEF HeldByReaders, UsersOf
    <3>3. PICK t \in Readers : thread[t].handle = h
      BY <3>2, HeldIsUsed
    <3>4. h # Nil
      BY <1>0 DEF CacheAssumption, Nil
    <3>5. entry[h].key = thread[t].file
      BY <3>3, <3>4, <1>0 DEF ReadersFit
    <3> QED
      BY <3>5, <2>1, <2>2, <1>1
  <2> QED
    BY <2>1, <2>2, <1>1
<1>5. \A t \in Readers : thread[t].at # "idle" => thread[t].file \in tableFiles'
  BY <1>0, <1>1 DEF ReadersFit
<1> QED
  BY <1>1, <1>2, <1>3, <1>4, <1>5, GoneKeeps

\* ~TableCache.
LEMMA DeleteKeeps ==
  ASSUME TableAssumption, TableInv, DeleteCache
  PROVE  TableInv'
<1>0. CacheAssumption /\ CacheInv /\ ReadersFit /\ EntriesFit
  BY IsCache
<1>1. Prune /\ CloseFreed /\ tableFiles' = tableFiles /\ thread' = thread
  BY DEF DeleteCache
<1>2. CacheInv' /\ Allocates({}, Nil) /\ held' = held /\ \A s \in Shards : usage'[s] <= usage[s]
  BY <1>0, <1>1, PruneKeeps, PruneMoves
<1>3. \A h \in Handles : entry'[h].refs > 0 => entry'[h].key \in tableFiles'
  BY <1>0, <1>1, <1>2 DEF Allocates, EntriesFit
<1>4. \A t \in Readers : thread[t].at # "idle" => thread[t].file \in tableFiles'
  BY <1>0, <1>1 DEF ReadersFit
<1> QED
  BY <1>1, <1>2, <1>3, <1>4, GoneKeeps

\* The beginning.
LEMMA TableBegins ==
  ASSUME TableAssumption, TableInit
  PROVE  TableInv
<1>0. CacheAssumption /\ CacheInit /\ tableFiles = Keys /\ opened = [f \in Keys |-> 0]
      /\ thread = [t \in Readers |-> Idle]
  BY DEF TableAssumption, TableInit
<1>1. CacheInv
  BY <1>0, InitExact
<1>2. TableTypeOK /\ ReadersFit
  BY <1>0 DEF TableTypeOK, ReadersFit, Idle
<1>3. \A h \in Handles : entry[h].refs = 0 /\ held[h] = 0 /\ h # Nil
  BY <1>0 DEF CacheInit, NoEntry, CacheAssumption, Nil
<1>4. HeldByReaders
  <2>1. \A h \in Handles : UsersOf(h) = {}
    BY <1>0, <1>3 DEF UsersOf, Idle
  <2> QED
    BY <2>1, <1>3, FS_EmptySet DEF HeldByReaders
<1>5. EntriesFit
  BY <1>3 DEF EntriesFit
<1>6. FilesAreClosed
  <2>1. \A f \in Keys : HandlesOf(f) = {} /\ OpenersOf(f) = {}
    BY <1>0, <1>3 DEF HandlesOf, OpenersOf, Idle
  <2> QED
    BY <2>1, <1>0, FS_EmptySet DEF FilesAreClosed
<1>7. ShardsFit
  <2>1. \A s \in Shards : usage[s] = 0
    BY <1>0 DEF CacheInit
  <2>2. Max({PerShard, Cardinality(Readers)}) \in Nat
    BY <1>0, PerShardIs, GreaterIs, FS_CardinalityType DEF TableAssumption
  <2> QED
    BY <2>1, <2>2 DEF ShardsFit
<1> QED
  BY <1>1, <1>2, <1>4, <1>5, <1>6, <1>7 DEF TableInv

\* A step that changes nothing.
LEMMA TableStutters ==
  ASSUME TableAssumption, TableInv, UNCHANGED tableVars
  PROVE  TableInv'
<1>0. CacheAssumption
  BY DEF TableAssumption
<1>1. UNCHANGED <<entry, table, lru, inUse, usage, held, tableFiles, opened, thread>>
  BY DEF tableVars, cacheVars
<1>2. CacheInv'
  BY <1>0, <1>1, NextKeeps DEF TableInv, cacheVars
<1>3. /\ TableTypeOK' /\ ReadersFit' /\ HeldByReaders' /\ EntriesFit' /\ FilesAreClosed'
      /\ ShardsFit'
  <2>1. TableTypeOK' /\ ReadersFit'
    BY <1>1 DEF TableInv, TableTypeOK, ReadersFit
  <2>2. HeldByReaders'
    BY <1>1 DEF TableInv, HeldByReaders, UsersOf
  <2>3. EntriesFit'
    BY <1>1 DEF TableInv, EntriesFit
  <2>4. FilesAreClosed'
    BY <1>1 DEF TableInv, FilesAreClosed, HandlesOf, OpenersOf
  <2>5. ShardsFit'
    BY <1>1 DEF TableInv, ShardsFit, Shards, PerShard
  <2> QED
    BY <2>1, <2>2, <2>3, <2>4, <2>5
<1> QED
  BY <1>2, <1>3 DEF TableInv

\* table_cache.cc: a table that a thread reads is open and stays open, each file is
\* closed once when nobody has it any more, a deleted table is neither cached nor
\* opened again, and the number of open files is bounded; for any tables, threads,
\* shards and capacity.
THEOREM TablesAreKept ==
  ASSUME TableAssumption
  PROVE  TableSpec => []TablesStayOpen
<1>1. TableInit => TableInv
  BY TableBegins
<1>2. TableInv /\ [TableNext]_tableVars => TableInv'
  <2>. SUFFICES ASSUME TableInv, [TableNext]_tableVars PROVE TableInv'
    OBVIOUS
  <2>1. ASSUME NEW t \in Readers,
               OpenTable(t) \/ OpenTableFails(t) \/ InsertTable(t) \/ ReleaseTable(t)
        PROVE  TableInv'
    BY <2>1, OpenKeeps, InsertTableKeeps, ReleaseTableKeeps
  <2>2. ASSUME NEW t \in Readers, NEW f \in Keys, FindTable(t, f) PROVE TableInv'
    BY <2>2, FindKeeps
  <2>3. ASSUME NEW f \in Keys, Evict(f) PROVE TableInv'
    BY <2>3, EvictKeeps
  <2>4. CASE DeleteCache
    BY <2>4, DeleteKeeps
  <2>5. CASE UNCHANGED tableVars
    BY <2>5, TableStutters
  <2> QED
    BY <2>1, <2>2, <2>3, <2>4, <2>5 DEF TableNext
<1>3. TableInv => TablesStayOpen
  BY InvReads, InvBounds DEF TablesStayOpen, TableInv
<1> QED
  BY <1>1, <1>2, <1>3, PTL DEF TableSpec
=============================================================================
