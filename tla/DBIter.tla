------------------------------- MODULE DBIter -------------------------------
(***************************************************************************)
(* The iterators of leveldb: DBIter (db_iter.cc) over a MergingIterator    *)
(* (merger.cc) of a memtable and of a table read block by block            *)
(* (two_level_iterator.cc), while the memtable grows.                      *)
(*                                                                         *)
(* An action is a call of the client with its first move of the internal   *)
(* iterator, or one more pass of the loop that call is in; a write may     *)
(* come between any two.  A value is the sequence number of its write.     *)
(***************************************************************************)
EXTENDS Integers, Sequences, FiniteSets, SequencesExt

CONSTANTS
  Keys,      \* user keys, positive numbers
  Old,       \* entries with sequence numbers 1..Old are there from the start
  Snapshots, \* sequence_ of the iterator
  BadBlocks, \* sets of blocks that cannot be read
  Inserts    \* bound: writes while the iterator is used

\* What the constants must be.
IterAssumption ==
  /\ Keys \subseteq Nat \ {0} /\ {Old, Inserts} \subseteq Nat
  /\ Snapshots \subseteq 0..Old /\ BadBlocks \subseteq SUBSET (1..2)

VARIABLES
  mem,      \* entries of the memtable
  blocks,   \* blocks of the table: two sequences of entries, in order
  bad,      \* the blocks that cannot be read
  sequence, \* sequence_
  iter,     \* iter_: the MergingIterator with its children
  dir,      \* direction_ of the DBIter
  valid, savedKey, savedValue,
  loop,     \* the loop the call is in, with its local variables; or Idle
  call      \* the last call and the key it started from

vars == <<mem, blocks, bad, sequence, iter, dir, valid, savedKey, savedValue, loop, call>>
storeVars == <<mem, blocks, bad, sequence>>
-----------------------------------------------------------------------------
(***************************************************************************)
(* Entries, by user key, the newest first.                                 *)
(***************************************************************************)
NoEntry == [key |-> 0, seq |-> 0, del |-> FALSE]
Less(a, b) == a.key < b.key \/ (a.key = b.key /\ a.seq > b.seq)
LeastOf(entries) ==
  IF entries = {} THEN NoEntry
  ELSE CHOOSE e \in entries : \A f \in entries : ~Less(f, e)
GreatestOf(entries) ==
  IF entries = {} THEN NoEntry
  ELSE CHOOSE e \in entries : \A f \in entries : ~Less(e, f)
InOrder(entries) ==
  [i \in 1..Cardinality(entries) |->
     CHOOSE e \in entries : Cardinality({f \in entries : Less(f, e)}) = i - 1]
-----------------------------------------------------------------------------
(***************************************************************************)
(* Children of the merge: the memtable (child 1), whose position is one of *)
(* its entries, and the table (child 2), a TwoLevelIterator.               *)
(***************************************************************************)
MemSeek(target) == LeastOf({e \in mem : ~Less(e, target)})
MemFirst == LeastOf(mem)
MemLast == GreatestOf(mem)
MemNext(at) == LeastOf({e \in mem : Less(at, e)})
MemPrev(at) == GreatestOf({e \in mem : Less(e, at)})

\* A TwoLevelIterator: a block, an entry in it, and whether an error was met.
NotInTable(failed) == [block |-> 0, entry |-> 0, failed |-> failed]
TableEntry(t) == IF t.block = 0 THEN NoEntry ELSE blocks[t.block][t.entry]
Readable(i) == i \notin bad /\ blocks[i] # <<>>

\* SkipEmptyDataBlocksForward and -Backward, from block i on: a block that
\* cannot be read is skipped like an empty one.  Mutant: and nobody is told.
SilentError(i) == FALSE
ErrorIn(i) == i \in bad
Forward(i, failed) ==
  LET at == {j \in i..2 : Readable(j)}
      skipped == {j \in i..2 : at = {} \/ j < Min(at)}
      errors == failed \/ \E j \in skipped : ErrorIn(j)
  IN  IF at = {} THEN NotInTable(errors)
      ELSE [block |-> Min(at), entry |-> 1, failed |-> errors]
Backward(i, failed) ==
  LET at == {j \in 1..i : Readable(j)}
      skipped == {j \in 1..i : at = {} \/ j > Max(at)}
      errors == failed \/ \E j \in skipped : ErrorIn(j)
  IN  IF at = {} THEN NotInTable(errors)
      ELSE [block |-> Max(at), entry |-> Len(blocks[Max(at)]), failed |-> errors]

\* The index leads to the first block that does not end before the target.
TableSeek(t, target) ==
  LET index == {i \in 1..2 : blocks[i] # <<>> /\ ~Less(Last(blocks[i]), target)}
      i == Min(index)
      entries == {e \in 1..Len(blocks[i]) : ~Less(blocks[i][e], target)}
  IN  IF index = {} THEN NotInTable(t.failed)
      ELSE IF Readable(i)
           THEN [block |-> i, entry |-> Min(entries), failed |-> t.failed]
           ELSE Forward(i, t.failed)
TableFirst(t) == Forward(1, t.failed)
TableLast(t) == Backward(2, t.failed)
TableNext(t) ==
  IF t.entry < Len(blocks[t.block]) THEN [t EXCEPT !.entry = @ + 1]
                                    ELSE Forward(t.block + 1, t.failed)
TablePrev(t) ==
  IF t.entry > 1 THEN [t EXCEPT !.entry = @ - 1]
                 ELSE Backward(t.block - 1, t.failed)
-----------------------------------------------------------------------------
(***************************************************************************)
(* MergingIterator.                                                        *)
(***************************************************************************)
At(m, child) == IF child = 1 THEN m.mem ELSE TableEntry(m.table)
Children == {1, 2}
ValidChildren(m) == {c \in Children : At(m, c) # NoEntry}
FindSmallest(m) ==
  [m EXCEPT !.current =
     IF ValidChildren(m) = {} THEN 0
     ELSE CHOOSE c \in ValidChildren(m) :
            \A d \in ValidChildren(m) : ~Less(At(m, d), At(m, c))]
FindLargest(m) ==
  [m EXCEPT !.current =
     IF ValidChildren(m) = {} THEN 0
     ELSE CHOOSE c \in ValidChildren(m) :
            \A d \in ValidChildren(m) : ~Less(At(m, c), At(m, d))]

Valid(m) == m.current # 0
Entry(m) == At(m, m.current)

SeekToFirst(m) ==
  FindSmallest([mem |-> MemFirst, table |-> TableFirst(m.table),
                current |-> 0, forward |-> TRUE])
SeekToLast(m) ==
  FindLargest([mem |-> MemLast, table |-> TableLast(m.table),
               current |-> 0, forward |-> FALSE])
Seek(m, target) ==
  FindSmallest([mem |-> MemSeek(target), table |-> TableSeek(m.table, target),
                current |-> 0, forward |-> TRUE])

\* The children other than the current one go to the first entry behind, or the
\* last one before, the current entry when the direction changes.
TurnForward(m) ==
  LET e == Entry(m)
      table == TableSeek(m.table, e)
  IN  IF m.forward THEN m
      ELSE IF m.current = 1
           THEN [m EXCEPT !.forward = TRUE,
                          !.table = IF TableEntry(table) = e THEN TableNext(table)
                                                             ELSE table]
           ELSE [m EXCEPT !.forward = TRUE,
                          !.mem = IF MemSeek(e) = e THEN MemNext(e) ELSE MemSeek(e)]
TurnBack(m) ==
  LET e == Entry(m)
      table == TableSeek(m.table, e)
      found == MemSeek(e)
  IN  IF ~m.forward THEN m
      ELSE IF m.current = 1
           THEN [m EXCEPT !.forward = FALSE,
                          !.table = IF TableEntry(table) = NoEntry THEN TableLast(table)
                                                                ELSE TablePrev(table)]
           ELSE [m EXCEPT !.forward = FALSE,
                          !.mem = IF found = NoEntry THEN MemLast ELSE MemPrev(found)]

Step(m, MoveMem(_), MoveTable(_)) ==
  IF m.current = 1 THEN [m EXCEPT !.mem = MoveMem(@)]
                   ELSE [m EXCEPT !.table = MoveTable(@)]
NextEntry(m) == FindSmallest(Step(TurnForward(m), MemNext, TableNext))
PrevEntry(m) == FindLargest(Step(TurnBack(m), MemPrev, TablePrev))
-----------------------------------------------------------------------------
(***************************************************************************)
(* DBIter.                                                                 *)
(***************************************************************************)
NoKey == 0
NoValue == 0
Idle == [at |-> "idle", skipping |-> FALSE, found |-> FALSE]
FindNextLoop(skipping) == [at |-> "findNext", skipping |-> skipping, found |-> FALSE]
BackLoop == [at |-> "back", skipping |-> FALSE, found |-> FALSE]
FindPrevLoop(found) == [at |-> "findPrev", skipping |-> FALSE, found |-> found]

Key == IF ~valid THEN NoKey ELSE IF dir = "forward" THEN Entry(iter).key ELSE savedKey
Value == IF ~valid THEN NoValue ELSE IF dir = "forward" THEN Entry(iter).seq ELSE savedValue

\* Entries: some in the memtable, the others in the table, cut into two blocks.
Init ==
  /\ sequence \in Snapshots /\ bad \in BadBlocks
  /\ \E key \in [1..Old -> Keys], del \in [1..Old -> BOOLEAN],
        inMem \in SUBSET (1..Old), cut \in 0..Old :
       LET Of(s) == [key |-> key[s], seq |-> s, del |-> del[s]]
           table == InOrder({Of(s) : s \in 1..Old \ inMem})
       IN  /\ cut <= Len(table) /\ (cut = 0 => table = <<>>)
           /\ mem = {Of(s) : s \in inMem}
           /\ blocks = <<SubSeq(table, 1, cut), SubSeq(table, cut + 1, Len(table))>>
  /\ iter = [mem |-> NoEntry, table |-> NotInTable(FALSE), current |-> 0, forward |-> TRUE]
  /\ dir = "forward" /\ valid = FALSE /\ savedKey = NoKey /\ savedValue = NoValue
  /\ loop = Idle /\ call = [name |-> "none", target |-> NoKey, from |-> NoKey]

Newest == Old + Inserts
\* A write: it is newer than the iterator.
Insert(k, del) ==
  LET s == 1 + Max({Old} \cup {e.seq : e \in mem})
  IN  /\ s <= Newest
      /\ mem' = mem \cup {[key |-> k, seq |-> s, del |-> del]}
      /\ UNCHANGED <<blocks, bad, sequence, iter, dir, valid, savedKey, savedValue,
                     loop, call>>

Called(name, target) ==
  /\ loop = Idle
  /\ call' = [name |-> name, target |-> target, from |-> Key]
  /\ UNCHANGED storeVars

\* A call that scans forward next, or that has ended if nothing is left.
ScanForward(m, skipping) ==
  /\ iter' = m
  /\ loop' = IF Valid(m) THEN FindNextLoop(skipping) ELSE Idle
  /\ valid' = (Valid(m) /\ valid)

CallNext ==
  /\ valid /\ Called("next", NoKey)
  /\ dir' = "forward"
  /\ LET m == IF dir = "forward" THEN iter
              ELSE IF Valid(iter) THEN NextEntry(iter) ELSE SeekToFirst(iter)
     IN  /\ ScanForward(m, TRUE)
         /\ savedKey' = IF ~Valid(m) THEN NoKey
                        ELSE IF dir = "forward" THEN Entry(iter).key ELSE savedKey
  /\ UNCHANGED savedValue

CallSeek(target) ==
  /\ Called("seek", target)
  /\ dir' = "forward"
  /\ savedKey' = target /\ savedValue' = NoValue
  /\ ScanForward(Seek(iter, [key |-> target, seq |-> sequence, del |-> FALSE]), FALSE)

CallSeekToFirst ==
  /\ Called("first", NoKey)
  /\ dir' = "forward" /\ savedValue' = NoValue
  /\ ScanForward(SeekToFirst(iter), FALSE)
  /\ UNCHANGED savedKey

\* ParseKey and the comparison of the sequence number: what was written after the
\* snapshot is passed by.  Mutant: nothing is.
AnyVisible(e) == TRUE
Visible(e) == e.seq <= sequence

\* A pass of FindNextUserEntry.
Hidden(e) == loop.skipping /\ e.key <= savedKey
FindNextUserEntry ==
  LET e == Entry(iter)
      visible == Visible(e)
      accept == visible /\ ~e.del /\ ~Hidden(e)
      m == NextEntry(iter)
  IN  /\ loop.at = "findNext"
      /\ IF accept
         THEN loop' = Idle /\ valid' = TRUE /\ savedKey' = NoKey /\ UNCHANGED iter
         ELSE /\ iter' = m
              /\ loop' = IF ~Valid(m) THEN Idle
                         ELSE FindNextLoop(loop.skipping \/ (visible /\ e.del))
              /\ valid' = (Valid(m) /\ valid)
              /\ savedKey' = IF ~Valid(m) THEN NoKey
                             ELSE IF visible /\ e.del THEN e.key ELSE savedKey
      /\ UNCHANGED <<storeVars, dir, savedValue, call>>

CallPrev ==
  /\ valid /\ Called("prev", NoKey)
  /\ IF dir = "forward"
     THEN loop' = BackLoop /\ savedKey' = Entry(iter).key
     ELSE loop' = FindPrevLoop(FALSE) /\ UNCHANGED savedKey
  /\ UNCHANGED <<iter, dir, valid, savedValue>>

\* A pass of the loop of Prev that leaves the entries of the current key.
StepBack ==
  LET m == PrevEntry(iter)
  IN  /\ loop.at = "back"
      /\ iter' = m
      /\ IF ~Valid(m)
         THEN /\ loop' = Idle /\ valid' = FALSE
              /\ savedKey' = NoKey /\ savedValue' = NoValue
              /\ UNCHANGED dir
         ELSE IF Entry(m).key < savedKey
         THEN loop' = FindPrevLoop(FALSE) /\ dir' = "reverse"
              /\ UNCHANGED <<valid, savedKey, savedValue>>
         ELSE UNCHANGED <<loop, dir, valid, savedKey, savedValue>>
      /\ UNCHANGED <<storeVars, call>>

CallSeekToLast ==
  /\ Called("last", NoKey)
  /\ dir' = "reverse" /\ savedValue' = NoValue
  /\ iter' = SeekToLast(iter)
  /\ loop' = FindPrevLoop(FALSE)
  /\ UNCHANGED <<valid, savedKey>>

\* A pass of FindPrevUserEntry; found is value_type # kTypeDeletion.
KeyChanged(e) == e.key < savedKey
FindPrevUserEntry ==
  /\ loop.at = "findPrev"
  /\ LET e == Entry(iter)
         visible == Valid(iter) /\ Visible(e)
         found == IF visible THEN ~e.del ELSE loop.found
     IN  IF ~Valid(iter) \/ (visible /\ loop.found /\ KeyChanged(e))
         THEN /\ loop' = Idle /\ valid' = loop.found
              /\ dir' = IF loop.found THEN "reverse" ELSE "forward"
              /\ savedKey' = IF loop.found THEN savedKey ELSE NoKey
              /\ savedValue' = IF loop.found THEN savedValue ELSE NoValue
              /\ UNCHANGED iter
         ELSE /\ loop' = FindPrevLoop(found)
              /\ savedKey' = IF ~visible THEN savedKey
                             ELSE IF found THEN e.key ELSE NoKey
              /\ savedValue' = IF ~visible THEN savedValue
                               ELSE IF found THEN e.seq ELSE NoValue
              /\ iter' = PrevEntry(iter)
              /\ UNCHANGED <<dir, valid>>
  /\ UNCHANGED <<storeVars, call>>

Calls == CallNext \/ CallPrev \/ CallSeekToFirst \/ CallSeekToLast
           \/ \E target \in Keys : CallSeek(target)
Scan == FindNextUserEntry \/ StepBack \/ FindPrevUserEntry
Next == Calls \/ Scan \/ \E k \in Keys, del \in BOOLEAN : Insert(k, del)

Spec == Init /\ [][Next]_vars
FairSpec == Spec /\ WF_vars(Scan)
-----------------------------------------------------------------------------
(***************************************************************************)
(* What a client of an iterator relies on.                                 *)
(***************************************************************************)

\* Positions are entries of the children; the client sees a key only of an entry
\* (the assertions on Valid() in db_iter.cc and merger.cc).
IterTypeOK ==
  /\ iter.mem \in mem \cup {NoEntry}
  /\ iter.table.block # 0 => iter.table.entry \in 1..Len(blocks[iter.table.block])
  /\ iter.current # 0 => Entry(iter) # NoEntry
  /\ loop = Idle /\ valid => Key \in Keys
  /\ loop.at \in {"findNext"} => Valid(iter)

\* What the snapshot of the iterator holds.
Seen(k) == {e \in mem \cup ToSet(blocks[1]) \cup ToSet(blocks[2]) :
              e.key = k /\ e.seq <= sequence}
View == [k \in Keys |-> LET e == LeastOf(Seen(k)) IN IF e.del THEN NoValue ELSE e.seq]
Present == {k \in Keys : View[k] # NoValue}

\* The iterator walks the snapshot in order, both ways, whatever is written
\* meanwhile (include/leveldb/db.h, NewIterator).
Walk == INSTANCE Cursor WITH view <- View,
                             at <- IF loop = Idle THEN Key ELSE call.from
WalksSnapshot == Walk!Spec

\* An iterator that could not read a block says so: as long as its status is OK,
\* every call has led to the right key and value (iterator.h, status()).
Reached(c) ==
  LET LeastIn(keys) == IF keys = {} THEN NoKey ELSE Min(keys)
      GreatestIn(keys) == IF keys = {} THEN NoKey ELSE Max(keys)
  IN  CASE c.name = "next" -> LeastIn({k \in Present : k > c.from})
        [] c.name = "prev" -> GreatestIn({k \in Present : k < c.from})
        [] c.name = "seek" -> LeastIn({k \in Present : k >= c.target})
        [] c.name = "first" -> LeastIn(Present)
        [] c.name = "last" -> GreatestIn(Present)
        [] OTHER -> NoKey
StatusTellsErrors ==
  loop = Idle /\ ~iter.table.failed =>
    /\ Key = Reached(call)
    /\ Value = (IF Key = NoKey THEN NoValue ELSE View[Key])

=============================================================================
