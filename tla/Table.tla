-------------------------------- MODULE Table --------------------------------
(***************************************************************************)
(* A table file: TableBuilder (table_builder.cc) cuts keys into blocks,    *)
(* with an index of short keys that separate them and a filter; Table      *)
(* (table.cc) finds a key through them.  Keys are internal keys, compared  *)
(* and shortened as InternalKeyComparator (dbformat.cc) does.  Sizes are   *)
(* counted in entries; the trailer of a block counts as one.               *)
(***************************************************************************)
EXTENDS Strings, FiniteSets, SequencesExt

-----------------------------------------------------------------------------
(***************************************************************************)
(* The filters of a table: FilterBlockBuilder and FilterBlockReader        *)
(* (filter_block.cc) over BloomFilterPolicy (bloom.cc).  There is a filter *)
(* for every kFilterBase bytes of file, of the keys of the blocks that     *)
(* begin there.                                                            *)
(***************************************************************************)

CONSTANTS
  UserKeys, Hash,   \* BloomHash
  Word, Turn,       \* 2^32, and 2^17: h is rotated right by 17 bits
  BitsPerKey, MinBits, ByteBits, \* bits_per_key_, 64, 8
  Probes,           \* k_
  FilterBase        \* kFilterBase

\* What the constants must be.
FilterAssumption ==
  /\ Word \in Nat \ {0} /\ Turn \in Nat \ {0} /\ Word % Turn = 0 /\ Hash \in [UserKeys -> 0..(Word - 1)]
  /\ {BitsPerKey, MinBits, ByteBits, Probes, FilterBase} \subseteq Nat \ {0}

VARIABLES
  pendingKeys, \* keys_ of the filter being made
  results,     \* result_: the filters made
  offsets      \* filter_offsets_: how many were made before each

filterVars == <<pendingKeys, results, offsets>>
-----------------------------------------------------------------------------
\* BloomFilterPolicy: the bits of a filter, and the double hashing.
Bits(n) ==
  LET bits == IF n * BitsPerKey < MinBits THEN MinBits ELSE n * BitsPerKey
  IN  ((bits + ByteBits - 1) \div ByteBits) * ByteBits
Delta(h) == h \div Turn + (h % Turn) * (Word \div Turn)
Probe(h, j, bits) == ((h + j * Delta(h)) % Word) % bits
ProbesOf(k, bits) == {Probe(Hash[k], j, bits) : j \in 0..(Probes - 1)}
ReadBits(bits) == bits
CreateFilter(keys) ==
  LET bits == Bits(Cardinality(keys))
  IN  [bits |-> bits, array |-> UNION {ProbesOf(k, bits) : k \in keys}]
Matches(k, filter) == ProbesOf(k, ReadBits(filter.bits)) \subseteq filter.array

\* GenerateFilter: a range of the file without keys gets an empty filter.
GenerateFilter(f) ==
  [pendingKeys |-> {},
   results |-> IF f.pendingKeys = {} THEN f.results
               ELSE Append(f.results, CreateFilter(f.pendingKeys)),
   offsets |-> Append(f.offsets, Len(f.results))]
Now == [pendingKeys |-> pendingKeys, results |-> results, offsets |-> offsets]
Becomes(f) ==
  pendingKeys' = f.pendingKeys /\ results' = f.results /\ offsets' = f.offsets

\* StartBlock: filters are generated up to that of the block.
FilterIndex(blockOffset) == blockOffset \div FilterBase
StartBlock(f, blockOffset) ==
  LET generated[n \in Nat] == IF n = 0 THEN f ELSE GenerateFilter(generated[n - 1])
      missing == FilterIndex(blockOffset) - Len(f.offsets)
  IN  generated[IF missing > 0 THEN missing ELSE 0]
AddKey(f, k) == [f EXCEPT !.pendingKeys = @ \cup {k}]
FinishFilter(f) == IF f.pendingKeys = {} THEN f ELSE GenerateFilter(f)

IndexAt(blockOffset) == blockOffset \div FilterBase
\* FilterBlockReader::KeyMayMatch, on a finished block.  What the bytes between
\* damaged offsets answer is anything.
Start(offs, i) == offs[i + 1]
Limit(offs, i) == IF i + 1 < Len(offs) THEN offs[i + 2] ELSE Len(results)
KeyMayMatch(offs, blockOffset, k) ==
  LET i == IndexAt(blockOffset)
  IN  IF i >= Len(offs) THEN {TRUE}
      ELSE IF Start(offs, i) <= Limit(offs, i) /\ Limit(offs, i) <= Len(results)
      THEN CASE Start(offs, i) = Limit(offs, i) -> {FALSE}
             [] Limit(offs, i) = Start(offs, i) + 1 -> {Matches(k, results[Limit(offs, i)])}
             [] OTHER -> BOOLEAN
      ELSE {Start(offs, i) # Limit(offs, i)}

FilterInit == pendingKeys = {} /\ results = <<>> /\ offsets = <<>>
-----------------------------------------------------------------------------

CONSTANTS
  MaxSequence, \* kMaxSequenceNumber
  Sequence,    \* sequence numbers of keys, less than that
  BlockSize,   \* block_size
  MaxKeys      \* bound: keys added

\* What the constants must be.
TableAssumption ==
  /\ UserKeys \subseteq Seq(0..MaxByte) /\ Sequence \subseteq 0..(MaxSequence - 1)
  /\ BlockSize \in Nat \ {0} /\ MaxKeys \in Nat

VARIABLES
  file,      \* the data blocks written: [offset, keys]
  offset, status, closed, \* the same in Rep; closed says how
  dataBlock, index, \* what has been added to data_block and index_block
  lastKey, pending, \* last_key, and pending_handle while pending_index_entry, else 0
  added,     \* the keys added, in order
  unreadable \* offsets of data blocks ReadBlock has an error for

vars == <<filterVars, file, offset, status, closed, dataBlock, index, lastKey, pending, added, unreadable>>
-----------------------------------------------------------------------------
\* Internal keys: the newest of a user key first.
Key(user, seq) == [user |-> user, seq |-> seq]
Less(a, b) == IF a.user = b.user THEN a.seq > b.seq ELSE Before(a.user, b.user)

\* FindShortestSeparator and FindShortSuccessor: a user key that became shorter gets
\* the number that comes first.
Shortened(key, user) ==
  IF Len(user) < Len(key.user) /\ Before(key.user, user) THEN Key(user, MaxSequence) ELSE key
Successor(key) == Shortened(key, ShortSuccessor(key.user))
Separator(start, limit) == Shortened(start, ShortestSeparator(start.user, limit.user))

NoHandle == -1
IndexWith(key) ==
  IF pending = NoHandle THEN index ELSE Append(index, [key |-> key, handle |-> pending])

\* Full: the block is written after this key.
Full(block) == Len(block) >= BlockSize

\* Flush: the block is written, its index entry is left for the next key.  WriteRawBlock
\* may fail, or the Flush of the file after it; an error stays.
Written(block) ==
  /\ file' = Append(file, [offset |-> offset, keys |-> block])
  /\ offset' = offset + Len(block) + 1
  /\ pending' = offset
  /\ status' \in BOOLEAN
NotWritten ==
  /\ status' = FALSE /\ pending' = NoHandle
  /\ UNCHANGED <<file, offset>>
\* Mutant: the filters are started at the block's own offset.
BlockBegin(next) == offset
NextBlock(next) == next
Flush(block, f) ==
  /\ dataBlock' = <<>>
  /\ Written(block) \/ NotWritten
  /\ Becomes(StartBlock(f, NextBlock(offset')))

\* Add, which does nothing after an error.
Ok == status
Add(key) ==
  /\ closed = "no" /\ Ok /\ Len(added) < MaxKeys
  /\ added # <<>> => Less(lastKey, key)
  /\ index' = IndexWith(Separator(lastKey, key))
  /\ lastKey' = key /\ added' = Append(added, key)
  /\ LET block == Append(dataBlock, key)
         f == AddKey(Now, key.user)
     IN  IF Full(block) THEN Flush(block, f)
         ELSE /\ dataBlock' = block /\ Becomes(f)
              /\ pending' = NoHandle /\ UNCHANGED <<file, offset, status>>
  /\ UNCHANGED <<closed, unreadable>>

\* The client may call Flush too.
FlushNow ==
  /\ closed = "no" /\ Ok /\ dataBlock # <<>>
  /\ Flush(dataBlock, Now)
  /\ UNCHANGED <<closed, index, lastKey, added, unreadable>>

\* Finish, after its Flush: filter, metaindex and index block, and the footer; each is
\* written only if all before were.
Finish ==
  /\ closed = "no" /\ (status => dataBlock = <<>>)
  /\ closed' = "finished"
  /\ Becomes(IF status THEN FinishFilter(Now) ELSE Now)
  /\ \/ status /\ index' = IndexWith(Successor(lastKey)) /\ pending' = NoHandle /\ status' \in BOOLEAN
     \/ status' = FALSE /\ UNCHANGED <<index, pending>>
  /\ UNCHANGED <<file, offset, dataBlock, lastKey, added, unreadable>>

Abandon ==
  /\ closed = "no" /\ closed' = "abandoned"
  /\ UNCHANGED <<filterVars, file, offset, status, dataBlock, index, lastKey, pending, added, unreadable>>

\* A block of the finished table can no longer be read.
Spoil ==
  /\ closed = "finished" /\ status /\ unreadable = {}
  /\ \E i \in DOMAIN file : unreadable' = {file[i].offset}
  /\ UNCHANGED <<filterVars, file, offset, status, closed, dataBlock, index, lastKey, pending, added>>

Init ==
  /\ FilterInit /\ file = <<>> /\ offset = 0 /\ status = TRUE /\ closed = "no" /\ dataBlock = <<>>
  /\ index = <<>> /\ lastKey = Key(<<>>, 0) /\ pending = NoHandle /\ added = <<>>
  /\ unreadable = {}

Next ==
  \/ \E u \in UserKeys, s \in Sequence : Add(Key(u, s))
  \/ FlushNow \/ Finish \/ Abandon \/ Spoil
Spec == Init /\ [][Next]_vars
-----------------------------------------------------------------------------
\* Seek in a block, of the index or of data: the first that is not before target, 0 if
\* none.
First(keys, target) == SelectInSeq(keys, LAMBDA key : ~Less(key, target))
IndexSeek(target) == First([i \in DOMAIN index |-> index[i].key], target)
BlockAt(handle) == CHOOSE b \in ToSet(file) : b.offset = handle

\* InternalGet: the entry handed to handle_result, Nothing or Error.
Nothing == [found |-> "nothing"]
Error == [found |-> "error"]
Get(target) ==
  LET i == IndexSeek(target)
      handle == index[i].handle
      keys == BlockAt(handle).keys
      at == First(keys, target)
  IN  CASE i = 0 -> Nothing
        [] i # 0 /\ KeyMayMatch(offsets, handle, target.user) = {FALSE} -> Nothing
        [] i # 0 /\ KeyMayMatch(offsets, handle, target.user) # {FALSE} ->
             IF handle \in unreadable THEN Error
             ELSE IF at = 0 THEN Nothing ELSE [found |-> "key", key |-> keys[at]]

\* ApproximateOffsetOf; past the last key it is that of the metaindex block.
ApproximateOffsetOf(target) ==
  IF IndexSeek(target) = 0 THEN offset ELSE index[IndexSeek(target)].handle
-----------------------------------------------------------------------------
Good == closed = "finished" /\ status
Targets == {Key(u, s) : u \in UserKeys, s \in Sequence \cup {MaxSequence}}

\* Type invariant: the pending entry is that of the last block, and only while no
\* further key has been added.
TableTypeOK ==
  /\ status \in BOOLEAN /\ closed \in {"no", "finished", "abandoned"}
  /\ pending # NoHandle => dataBlock = <<>> /\ Last(file).offset = pending
  /\ closed = "no" /\ status => Len(file) = Len(index) + (IF pending = NoHandle THEN 0 ELSE 1)
  /\ Len(dataBlock) < BlockSize

\* Each index key is no less than its block and less than the next one, shortened or
\* not, so that every key is in one block that Seek can tell.
IndexSeparates ==
  status => \A i \in DOMAIN index :
    LET block == BlockAt(index[i].handle)
    IN  /\ block = file[i] /\ ~Less(index[i].key, Last(block.keys))
        /\ i < Len(file) => Less(index[i].key, file[i + 1].keys[1])

\* Get finds what was added last of a user key at the target's sequence number, whatever
\* block it is in, and says that it cannot when it cannot.
GetFinds ==
  Good => \A target \in Targets :
    LET at == First(added, target)
        block == {b \in ToSet(file) : at # 0 /\ Contains(b.keys, added[at])}
    IN  (at # 0 /\ added[at].user = target.user) =>
          Get(target) = IF \E b \in block : b.offset \in unreadable THEN Error
                        ELSE [found |-> "key", key |-> added[at]]

\* Get never hands over a key that was not added or is before the target.
GetInvents ==
  Good => \A target \in Targets :
    Get(target).found = "key" =>
      Contains(added, Get(target).key) /\ ~Less(Get(target).key, target)

\* The blocks by the index are all that was added, in order.
NothingMissing ==
  Good => FlattenSeq([i \in DOMAIN index |-> BlockAt(index[i].handle).keys]) = added

\* Greater keys are not at lesser offsets (DB::GetApproximateSizes subtracts them).
OffsetsGrow ==
  Good => \A a, b \in Targets :
    Less(a, b) => ApproximateOffsetOf(a) <= ApproximateOffsetOf(b)

=============================================================================
