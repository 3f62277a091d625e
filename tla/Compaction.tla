----------------------------- MODULE Compaction -----------------------------
(***************************************************************************)
(* The levels of a leveldb Version: where flushed memtables go, which      *)
(* tables a compaction takes and what it writes, and what a read finds.    *)
(*                                                                         *)
(* A user key is a number, a value is the sequence number of its write.    *)
(* The size of a table is the number of its entries.  The memtable switch  *)
(* and the files on disk are the subject of module DBImpl: here a memtable *)
(* becomes a table in one step, at any time, also while a compaction runs. *)
(***************************************************************************)
EXTENDS Integers, FiniteSets

CONSTANTS
  MaxKey,          \* user keys are 1..MaxKey
  Handles,         \* snapshots a client holds at a time
  NumLevels,       \* config::kNumLevels
  MaxMemLevel,     \* config::kMaxMemCompactLevel
  L0_Trigger,      \* config::kL0_CompactionTrigger
  LevelLimit,      \* MaxBytesForLevel of level 1; each next level has twice it
  MaxOutput,       \* MaxFileSizeForLevel
  MaxGrandparents, \* MaxGrandParentOverlapBytes
  MaxExpanded,     \* ExpandedCompactionByteSizeLimit
  ManualLevels,    \* levels a client compacts with CompactRange
  Seeks,           \* whether reads charge tables with seeks
  Deletes,         \* whether clients delete
  MaxSeq           \* bound: writes

Keys == 1..MaxKey
Levels == 0..NumLevels - 1

\* What the constants must be.
SizesAssumption ==
  /\ {MaxKey, NumLevels, L0_Trigger, LevelLimit, MaxOutput} \subseteq Nat \ {0}
  /\ {MaxMemLevel, MaxGrandparents, MaxExpanded, MaxSeq} \subseteq Nat
  /\ MaxMemLevel < NumLevels - 1
  /\ ManualLevels \subseteq 0..NumLevels - 2
  /\ {Seeks, Deletes} \subseteq BOOLEAN

VARIABLES
  mem,            \* entries of the memtables
  files,          \* level -> tables of the current version
  lastSeq,        \* last_sequence_
  snapshots,      \* handle -> its sequence number, or NoSnapshot
  compactPointer, \* level -> compact_pointer_, or NoPointer
  compaction,     \* {} or the singleton of the compaction in progress
  manual          \* {} or the singleton of the ManualCompaction of a client that waits;
                  \* posted: manual_compaction_ points to it

vars == <<mem, files, lastSeq, snapshots, compactPointer, compaction, manual>>
-----------------------------------------------------------------------------
(***************************************************************************)
(* Entries and tables.                                                     *)
(***************************************************************************)
NoSnapshot == -1
NoPointer == [key |-> 0, seq |-> 0, del |-> FALSE]

\* InternalKeyComparator: by user key, the newest first.
Less(a, b) == a.key < b.key \/ (a.key = b.key /\ a.seq > b.seq)
Smallest(entries) == CHOOSE e \in entries : \A f \in entries : ~Less(f, e)
Largest(entries) == CHOOSE e \in entries : \A f \in entries : ~Less(e, f)

\* A table (FileMetaData).  Its number tells the age of a table of level 0; no
\* other number matters, and the age is that of its last write.
Table(num, entries) ==
  [num |-> num, entries |-> entries,
   smallest |-> Smallest(entries), largest |-> Largest(entries)]
Low(f) == f.smallest
High(f) == f.largest
All(tables) == UNION {f.entries : f \in tables}
TotalFileSize(tables) == Cardinality(All(tables))

\* BySmallestKey: the order of a level.
Before(f, g) == Less(Low(f), Low(g)) \/ (Low(f) = Low(g) /\ f.num < g.num)
FirstOf(tables) == {f \in tables : \A g \in tables \ {f} : Before(f, g)}
LastOf(tables) == {f \in tables : \A g \in tables \ {f} : Before(g, f)}
KeysInOrder(entries) ==
  [i \in 1..Cardinality(entries) |->
     CHOOSE e \in entries : Cardinality({f \in entries : Less(f, e)}) = i - 1]
-----------------------------------------------------------------------------
(***************************************************************************)
(* Version: what a read finds.                                             *)
(***************************************************************************)
NotFound == 0
Value(e) == IF e.del THEN NotFound ELSE e.seq

\* The first entry for key k that is not newer than seq.
Matching(entries, k, seq) == {e \in entries : e.key = k /\ e.seq <= seq}
Newest(entries) == CHOOSE e \in entries : \A f \in entries : f.seq <= e.seq

InRange(k, f) == Low(f).key <= k /\ k <= High(f).key

\* FindFile: the first table of a level whose largest key is not below k.
FindFile(tables, k, seq) ==
  LET above == {f \in tables : ~Less(High(f), [key |-> k, seq |-> seq])}
  IN  {f \in above : \A g \in above : ~Less(High(g), High(f))}

\* ForEachOverlapping: the tables a read of k may look at, level by level, in
\* level 0 the newest first.
Candidates(l, k, seq) ==
  IF l = 0 THEN {f \in files[0] : InRange(k, f)}
           ELSE {f \in FindFile(files[l], k, seq) : Low(f).key <= k}
\* NewestFirst.
Newer(tables) == {f \in tables : \A g \in tables : g.num <= f.num}

\* Version::Get: the first of them that has an entry for the key.
Hits(l, k, seq) ==
  {f \in Candidates(l, k, seq) : Matching(f.entries, k, seq) # {}}
FirstHits(k, seq) ==
  LET hits == [l \in Levels |-> Hits(l, k, seq)]
      first == {l \in Levels : hits[l] # {} /\ \A m \in 0..l - 1 : hits[m] = {}}
  IN  UNION {Newer(hits[l]) : l \in first}
Get(k, seq) ==
  LET found == IF Matching(mem, k, seq) # {} THEN Matching(mem, k, seq)
               ELSE Matching(All(FirstHits(k, seq)), k, seq)
  IN  IF found = {} THEN NotFound ELSE Value(Newest(found))

\* Whether a read of several tables may charge a table with a seek: the first that
\* a Get reads in vain, and the first that an iterator meets for an entry
\* (RecordReadSample).
Held == {snapshots[h] : h \in Handles} \ {NoSnapshot}
IsCharged(l, f) ==
  LET IsFirst(k, seq) ==
        /\ f \in Newer(Candidates(l, k, seq))
        /\ \A m \in 0..l - 1 : Candidates(m, k, seq) = {}
      Several(k, seq) ==
        Cardinality(UNION {Candidates(m, k, seq) : m \in Levels}) > 1
      InVain(k, seq) == Matching(mem, k, seq) = {} /\ f \notin Hits(l, k, seq)
  IN  \/ \E e \in mem \cup All(UNION {files[m] : m \in Levels}) :
           IsFirst(e.key, e.seq) /\ Several(e.key, e.seq)
      \/ \E k \in Keys, seq \in {lastSeq} \cup Held :
           IsFirst(k, seq) /\ Several(k, seq) /\ InVain(k, seq)
-----------------------------------------------------------------------------
(***************************************************************************)
(* Which tables overlap.                                                   *)
(***************************************************************************)
Overlaps(f, lo, hi) == High(f).key >= lo /\ Low(f).key <= hi
OverlapInLevel(level, lo, hi) == \E f \in files[level] : Overlaps(f, lo, hi)

RangeOf(tables) == [lo |-> Smallest({Low(f) : f \in tables}),
                    hi |-> Largest({High(f) : f \in tables})]

\* GetOverlappingInputs: in level 0 the range grows with every table found, so the
\* tables are the least set with all that overlap the range or one of them.
HasOverlapping(tables, lo, hi) ==
  \A f \in files[0] :
    \/ Overlaps(f, lo, hi)
    \/ \E g \in tables : Overlaps(f, Low(g).key, High(g).key)
    => f \in tables
OverlappingInputs(level, lo, hi) ==
  IF level = 0
  THEN {f \in files[0] : \A tables \in SUBSET files[0] :
          HasOverlapping(tables, lo, hi) => f \in tables}
  ELSE {f \in files[level] : Overlaps(f, lo, hi)}

\* AddBoundaryInputs: the tables that follow the inputs in the level, as long as each
\* goes on with the user key the one before it ends with.  In level 0 the inputs
\* already hold every table that could.
AddBoundaryInputs(level, inputs) ==
  LET last == RangeOf(inputs).hi
      next == {f \in files[level] : Less(last, Low(f))}
      GoesOn(f) == \E g \in files[level] :
                     /\ High(g).key = Low(f).key
                     /\ Less(High(g), Low(f)) /\ ~Less(High(g), last)
  IN  IF level = 0 \/ inputs = {} THEN inputs
      ELSE inputs \cup {f \in next : \A g \in next : ~Less(Low(f), Low(g)) => GoesOn(g)}

\* PickLevelForMemTableOutput: the set of the one level.
PickLevelForMemTableOutput(lo, hi) ==
  LET Passes(level) ==
        /\ ~OverlapInLevel(level + 1, lo, hi)
        /\ level + 2 < NumLevels =>
             TotalFileSize(OverlappingInputs(level + 2, lo, hi))
               <= MaxGrandparents
  IN  IF OverlapInLevel(0, lo, hi) THEN {0}
      ELSE {level \in 0..MaxMemLevel :
              /\ \A l \in 0..level - 1 : Passes(l)
              /\ level = MaxMemLevel \/ ~Passes(level)}
-----------------------------------------------------------------------------
(***************************************************************************)
(* VersionSet: what to compact.                                            *)
(***************************************************************************)
MaxBytesForLevel(level) == LevelLimit * 2^(level - 1)

\* Finalize: the score of a level is Amount / Limit; the best level comes
\* first among equals.
Amount(level) == IF level = 0 THEN Cardinality(files[0])
                              ELSE TotalFileSize(files[level])
Limit(level) == IF level = 0 THEN L0_Trigger ELSE MaxBytesForLevel(level)
IsBestLevel(l) ==
  \A m \in 0..NumLevels - 2 :
    /\ Amount(l) * Limit(m) >= Amount(m) * Limit(l)
    /\ m < l => Amount(l) * Limit(m) > Amount(m) * Limit(l)
IsFull(l) == Amount(l) >= Limit(l)
NeedsSizeCompaction == \E l \in 0..NumLevels - 2 : IsFull(l)

\* SetupOtherInputs: the tables a set of inputs overlaps in the next level, ...
NextInputs(level, inputs) ==
  LET range == RangeOf(inputs)
  IN  OverlappingInputs(level + 1, range.lo.key, range.hi.key)

\* ... the compaction of two sets of inputs with its grandparents, ...
Chosen(level, first, second) ==
  LET range == RangeOf(first \cup second)
  IN  [level |-> level, in0 |-> first, in1 |-> second,
       grandparents |-> IF level + 2 < NumLevels
                        THEN OverlappingInputs(level + 2, range.lo.key,
                                               range.hi.key)
                        ELSE {}]

\* ... and the inputs taken besides, if that adds nothing in the next level.
Expanded(level, in0, in1, expanded) ==
  IF /\ in1 # {}
     /\ Cardinality(expanded) > Cardinality(in0)
     /\ TotalFileSize(in1) + TotalFileSize(expanded) < MaxExpanded
     /\ Cardinality(NextInputs(level, expanded)) = Cardinality(in1)
  THEN Chosen(level, expanded, NextInputs(level, expanded))
  ELSE Chosen(level, in0, in1)
Overlapped(level, in0, in1) ==
  LET all == RangeOf(in0 \cup in1)
  IN  Expanded(level, in0, in1,
        AddBoundaryInputs(level, OverlappingInputs(level, all.lo.key, all.hi.key)))
SetupOtherInputs(level, picked) ==
  LET in0 == AddBoundaryInputs(level, picked)
  IN  Overlapped(level, in0, NextInputs(level, in0))

\* The first table after the compaction pointer, as a set, with all it overlaps in
\* level 0.
FirstAfterPointer(level) ==
  LET after == {f \in files[level] : \/ compactPointer[level] = NoPointer
                                    \/ Less(compactPointer[level], High(f))}
  IN  FirstOf(IF after = {} THEN files[level] ELSE after)
\* Mutant: the table alone.
PickedAlone(level, f) == {f}
Picked(level, f) ==
  IF level = 0 THEN OverlappingInputs(0, Low(f).key, High(f).key) ELSE {f}

\* CompactRange: not too much in one shot, except in level 0.
InOneShot(level, inputs) ==
  LET UpTo(f) == {g \in inputs : ~Before(f, g)}
      enough == {f \in inputs : TotalFileSize(UpTo(f)) >= MaxOutput}
  IN  IF level = 0 THEN inputs
      ELSE {f \in inputs : \A g \in enough : ~Before(g, f)}

High0(c) == RangeOf(c.in0).hi   \* the new compaction pointer of the level

IsTrivialMove(c) ==
  /\ \E f \in c.in0 : c.in0 = {f}
  /\ c.in1 = {}
  /\ TotalFileSize(c.grandparents) <= MaxGrandparents
-----------------------------------------------------------------------------
(***************************************************************************)
(* DoCompactionWork: what a compaction writes.                             *)
(***************************************************************************)
\* IsBaseLevelForKey: no table of the input version further down has the key.
TablesBelow(level) == UNION {files[l] : l \in level + 2..NumLevels - 1}
IsBaseLevelForKey(c, k) == \A f \in c.below : ~InRange(k, f)

\* Mutant: entries some snapshot still sees are dropped.
KeptForNobody(c) ==
  {e \in All(c.in0 \cup c.in1) :
     ~\E f \in All(c.in0 \cup c.in1) : f.key = e.key /\ f.seq > e.seq}

\* Neither hidden by a newer entry every snapshot sees, nor a deletion with
\* nothing below it.
Kept(c) ==
  LET input == All(c.in0 \cup c.in1)
      Hidden(e) == \E f \in input :
                     f.key = e.key /\ f.seq > e.seq /\ f.seq <= c.snapshot
      Obsolete(e) == e.del /\ e.seq <= c.snapshot /\ IsBaseLevelForKey(c, e.key)
  IN  {e \in input : ~Hidden(e) /\ ~Obsolete(e)}

\* The output files: a file ends when it is big enough or, ShouldStopBefore,
\* when it overlaps too much of the grandparents.  One pass of the loop, for entry e.
NoOutput == [done |-> {}, open |-> {}, passed |-> {}, overlapped |-> 0]
Write1(c, s, e, isFirst) ==
  LET passed == {f \in c.grandparents : Less(High(f), e)}
      more == IF isFirst THEN 0 ELSE s.overlapped + TotalFileSize(passed \ s.passed)
      stop == more > MaxGrandparents
      cut == stop /\ s.open # {}
      kept == IF e \in Kept(c) THEN {e} ELSE {}
      open == (IF cut THEN {} ELSE s.open) \cup kept
      full == kept # {} /\ Cardinality(open) >= MaxOutput
  IN  [done |-> s.done \cup (IF cut THEN {s.open} ELSE {}) \cup (IF full THEN {open} ELSE {}),
       open |-> IF full THEN {} ELSE open,
       passed |-> passed,
       overlapped |-> IF stop THEN 0 ELSE more]
Progress(c, order) ==
  LET at[i \in 0..Cardinality(DOMAIN order)] ==
        IF i = 0 THEN NoOutput ELSE Write1(c, at[i - 1], order[i], i = 1)
  IN  at
Outputs(c) ==
  LET input == All(c.in0 \cup c.in1)
      end == Progress(c, KeysInOrder(input))[Cardinality(input)]
  IN  {Table(0, entries) : entries \in (end.done \cup {end.open}) \ {{}}}
-----------------------------------------------------------------------------
Init ==
  /\ mem = {}
  /\ files = [l \in Levels |-> {}]
  /\ lastSeq = 0
  /\ snapshots = [h \in Handles |-> NoSnapshot]
  /\ compactPointer = [l \in Levels |-> NoPointer]
  /\ compaction = {}
  /\ manual = {}

\* DB::Put and DB::Delete.
Write(k, del) ==
  /\ lastSeq < MaxSeq
  /\ lastSeq' = lastSeq + 1
  /\ mem' = mem \cup {[key |-> k, seq |-> lastSeq + 1, del |-> del]}
  /\ UNCHANGED <<files, snapshots, compactPointer, compaction, manual>>

GetSnapshot(h) ==
  /\ snapshots[h] = NoSnapshot
  /\ snapshots' = [snapshots EXCEPT ![h] = lastSeq]
  /\ UNCHANGED <<mem, files, lastSeq, compactPointer, compaction, manual>>

ReleaseSnapshot(h) ==
  /\ snapshots[h] # NoSnapshot
  /\ snapshots' = [snapshots EXCEPT ![h] = NoSnapshot]
  /\ UNCHANGED <<mem, files, lastSeq, compactPointer, compaction, manual>>

\* CompactMemTable: a memtable becomes a table, by itself or while a compaction runs.
FlushTo(level) ==
  files' = [files EXCEPT ![level] = @ \cup {Table(IF level = 0 THEN lastSeq ELSE 0, mem)}]
CompactMemTable ==
  /\ mem # {}
  /\ \E level \in PickLevelForMemTableOutput(Smallest(mem).key, Largest(mem).key) :
       FlushTo(level)
  /\ mem' = {}
  /\ UNCHANGED <<lastSeq, snapshots, compactPointer, compaction, manual>>

\* The oldest snapshot when the compaction starts.
SmallestSnapshot ==
  IF Held = {} THEN lastSeq ELSE CHOOSE s \in Held : \A t \in Held : s <= t

\* InstallCompactionResults, and the edit of a trivial move.  Mutant: the inputs
\* stay in their level.
InstalledBeside(c, outputs) ==
  [files EXCEPT ![c.level + 1] = (@ \ c.in1) \cup outputs]
Installed(c, outputs) ==
  [files EXCEPT ![c.level] = @ \ c.in0, ![c.level + 1] = (@ \ c.in1) \cup outputs]

\* BackgroundCompaction with its inputs chosen: a trivial move is done at once,
\* anything else runs without the mutex.  A manual compaction never moves.
Starts(c, isManual) ==
  LET trivial == ~isManual /\ IsTrivialMove(c)
  IN  /\ compactPointer' = [compactPointer EXCEPT ![c.level] = High0(c)]
      /\ files' = IF trivial THEN Installed(c, {Table(0, f.entries) : f \in c.in0})
                   ELSE files
      /\ compaction' = IF trivial THEN {}
                       ELSE {[level |-> c.level, in0 |-> c.in0, in1 |-> c.in1,
                              grandparents |-> c.grandparents, manual |-> isManual,
                              below |-> TablesBelow(c.level),
                              snapshot |-> SmallestSnapshot]}
      /\ UNCHANGED <<mem, lastSeq, snapshots, manual>>
BeginCompaction(level, inputs, isManual) == Starts(SetupOtherInputs(level, inputs), isManual)

Idle == compaction = {}

\* A manual compaction comes first, but only while it is posted.
Posted == {m \in manual : m.posted}

\* PickCompaction.
PickSizeCompaction ==
  /\ Idle /\ Posted = {}
  /\ \E level \in 0..NumLevels - 2 :
       /\ IsBestLevel(level) /\ IsFull(level)
       /\ \E f \in FirstAfterPointer(level) : BeginCompaction(level, Picked(level, f), FALSE)

PickSeekCompaction ==
  /\ Seeks
  /\ Idle /\ Posted = {} /\ ~NeedsSizeCompaction
  /\ \E level \in 0..NumLevels - 2 : \E f \in files[level] :
       IsCharged(level, f) /\ BeginCompaction(level, Picked(level, f), FALSE)

\* TEST_CompactRange of one client at a time.  Each round of the background thread takes
\* its request away, and unless it is done the client posts it again when it wakes up.
CompactRange(level, lo, hi) ==
  /\ manual = {}
  /\ manual' = {[level |-> level, lo |-> lo, hi |-> hi, posted |-> TRUE]}
  /\ UNCHANGED <<mem, files, lastSeq, snapshots, compactPointer, compaction>>
PostAgain ==
  /\ \E m \in manual : ~m.posted /\ manual' = {[m EXCEPT !.posted = TRUE]}
  /\ UNCHANGED <<mem, files, lastSeq, snapshots, compactPointer, compaction>>

PickManualCompaction ==
  /\ Idle
  /\ \E m \in Posted :
       LET inputs == OverlappingInputs(m.level, m.lo, m.hi)
       IN  inputs # {} /\ BeginCompaction(m.level, InOneShot(m.level, inputs), TRUE)

\* manual.done: nothing of the range is left.
FinishManual ==
  /\ Idle
  /\ \E m \in Posted : OverlappingInputs(m.level, m.lo, m.hi) = {}
  /\ manual' = {}
  /\ UNCHANGED <<mem, files, lastSeq, snapshots, compactPointer, compaction>>

\* DoCompactionWork.  What is left of a manual range starts where the last
\* input ends.
RestOf(m, f) == [m EXCEPT !.lo = High(f).key, !.posted = FALSE]
DoCompactionWork ==
  \E c \in compaction :
    /\ files' = Installed(c, Outputs(c))
    /\ compaction' = {}
    /\ manual' = IF c.manual
                 THEN {RestOf(m, f) : m \in manual, f \in LastOf(c.in0)}
                 ELSE manual
    /\ UNCHANGED <<mem, lastSeq, snapshots, compactPointer>>

Client ==
  \/ \E k \in Keys, del \in {FALSE, Deletes} : Write(k, del)
  \/ \E h \in Handles : GetSnapshot(h) \/ ReleaseSnapshot(h)
  \/ \E level \in ManualLevels, lo \in Keys, hi \in Keys :
       lo <= hi /\ CompactRange(level, lo, hi)

Background ==
  \/ CompactMemTable
  \/ PickSizeCompaction \/ PickManualCompaction \/ FinishManual \/ PostAgain
  \/ DoCompactionWork

Next == Client \/ Background \/ PickSeekCompaction

Spec == Init /\ [][Next]_vars

\* Weak fairness of Background, with ENABLED <<Background>>_vars written out: TLC
\* takes long to evaluate ENABLED of these actions.
WorkLeft == mem # {} \/ compaction # {} \/ manual # {} \/ NeedsSizeCompaction
FairSpec == Spec /\ ([]<>~WorkLeft \/ []<><<Background>>_vars)
-----------------------------------------------------------------------------
(***************************************************************************)
(* What the levels promise, whatever is compacted and whenever.            *)
(***************************************************************************)

Entries == [key : Keys, seq : 1..MaxSeq, del : BOOLEAN]

\* Tables hold entries, the manual range and the compaction name levels that
\* have a level below them (version_edit.h, db_impl.h).
LevelsTypeOK ==
  /\ mem \subseteq Entries
  /\ \A l \in Levels : \A f \in files[l] :
       f.num \in Nat /\ f.entries # {} /\ f.entries \subseteq Entries
  /\ lastSeq \in 0..MaxSeq
  /\ snapshots \in [Handles -> {NoSnapshot} \cup 0..MaxSeq]
  /\ \A l \in Levels : compactPointer[l] = NoPointer \/ compactPointer[l] \in Entries
  /\ Cardinality(compaction) <= 1 /\ Cardinality(manual) <= 1
  /\ \A c \in compaction \cup manual : c.level \in 0..NumLevels - 2

\* No two tables of a level below 0 overlap: the assertion of
\* Builder::MaybeAddFile, "Must not overlap" (version_set.cc:741).
LevelsDisjoint ==
  \A l \in Levels \ {0} : \A f, g \in files[l] :
    f # g => Less(High(f), Low(g)) \/ Less(High(g), Low(f))

\* "Entries never hop across levels" (version_set.cc:336): of two entries for a
\* key the newer is in the memtable, a newer table of level 0 or a level above.
NewerAbove ==
  LET Above(e, f) == e.key = f.key => e.seq > f.seq
      below == UNION {files[l] : l \in Levels}
  IN  /\ \A e \in mem, f \in All(below) : Above(e, f)
      /\ \A l, m \in Levels : l < m =>
           \A e \in All(files[l]), f \in All(files[m]) : Above(e, f)
      /\ \A s, t \in files[0] : s.num > t.num =>
           \A e \in s.entries, f \in t.entries : Above(e, f)

\* All of it, at any time.
LevelsInOrder == LevelsTypeOK /\ LevelsDisjoint /\ NewerAbove

\* A read finds what was written last before its snapshot: compactions, moves
\* and flushes change no answer (include/leveldb/db.h, Get and GetSnapshot).
NowRead == [k \in Keys |-> Get(k, lastSeq)]
ViewsRead == [h \in Handles |->
                [k \in Keys |-> IF snapshots[h] = NoSnapshot THEN 0 ELSE Get(k, snapshots[h])]]
Promised == INSTANCE SnapshotStore WITH writes <- lastSeq, now <- NowRead, views <- ViewsRead
ReadsAreRight == Promised!Spec
=============================================================================
