------------------------------- MODULE MCFiles -------------------------------
(***************************************************************************)
(* Instances of the modules of files, formats and messages. They share no  *)
(* variable, so each behaviour is of one of them: part names the scenario, *)
(* and the variables of the others stay as they are.                       *)
(***************************************************************************)
EXTENDS FileLocks, ReadableFiles, LRUCache, TLC

Pb == INSTANCE PbFormat WITH Fields <- <<>>
Field(tag, rule, kind, store, max, sub) == Pb!Field(tag, rule, kind, store, max, sub)
Key(tag, wire) == Pb!Key(tag, wire)
PB_WT_VARINT == Pb!PB_WT_VARINT
PB_WT_32BIT == Pb!PB_WT_32BIT
PB_WT_STRING == Pb!PB_WT_STRING
-----------------------------------------------------------------------------
(***************************************************************************)
(* Message types for nanopb.                                               *)
(***************************************************************************)

\* gdt_cct_LogResponse, whose override holds tiers.
Response ==
  "Response" :> <<Field(1, "optional", "varint", "static", 0, ""),
                  Field(3, "optional", "message", "static", 0, "Override")>> @@
  "Override" :> <<Field(1, "repeated", "message", "pointer", 0, "Tier"),
                  Field(2, "optional", "varint", "static", 0, "")>> @@
  "Tier" :> <<Field(2, "optional", "varint", "static", 0, "")>>
ResponseKeys == {Key(1, PB_WT_VARINT), Key(1, PB_WT_STRING), Key(3, PB_WT_STRING), Key(2, PB_WT_VARINT), Key(4, PB_WT_32BIT)}

\* Arrays of numbers: in the struct, in a block, and with a fixed count.
Arrays ==
  "Arrays" :> <<Field(1, "required", "varint", "static", 0, ""),
                Field(2, "repeated", "varint", "static", 2, ""),
                [Field(3, "repeated", "varint", "pointer", 0, "") EXCEPT !.size = 2],
                [Field(4, "repeated", "varint", "static", 2, "") EXCEPT !.counted = FALSE],
                Field(5, "required", "varint", "static", 0, "")>>
ArraysKeys == {Key(t, PB_WT_VARINT) : t \in 1..5} \cup {Key(t, PB_WT_STRING) : t \in 2..4}

\* Submessages that own bytes: allocated, in an array of the struct, in a union of pointers.
Owners ==
  "Owners" :> <<Field(1, "optional", "message", "pointer", 0, "Owner"),
                Field(2, "repeated", "message", "static", 2, "Owner"),
                [Field(3, "oneof", "message", "pointer", 0, "Owner") EXCEPT !.slot = 3],
                [Field(4, "oneof", "bytes", "pointer", 0, "") EXCEPT !.slot = 3],
                Field(5, "optional", "varint", "callback", 0, "")>> @@
  "Owner" :> <<Field(1, "optional", "bytes", "pointer", 0, ""), Field(2, "required", "bytes", "static", 1, "")>>
OwnersKeys == {Key(t, PB_WT_STRING) : t \in 1..4} \cup {Key(5, PB_WT_VARINT)}

\* gdt_cct_BatchedLogRequest, its requests and their events.
Batch ==
  "Batch" :> <<Field(1, "optional", "varint", "static", 0, ""),
               Field(2, "repeated", "varint", "static", 2, ""),
               Field(3, "optional", "message", "static", 0, "Event"),
               Field(4, "repeated", "message", "pointer", 0, "Request")>> @@
  "Request" :> <<Field(1, "required", "bytes", "pointer", 0, ""),
                 Field(2, "optional", "message", "static", 0, "Event")>> @@
  "Event" :> <<Field(1, "repeated", "bytes", "static", 1, ""),
               Field(2, "optional", "varint", "callback", 0, "")>>
Events == {<<<<>>, <<>>>>, <<<< <<7>> >>, <<>>>>, <<<< <<>>, <<7>> >>, <<>>>>}
Requests == {<< <<>>, <<>> >>} \cup {<< <<b>>, e >> : b \in {<<>>, <<7, 7>>}, e \in {<<>>} \cup {<<x>> : x \in Events}}
Batches == {<<a, b, c, d>> :
  a \in {<<>>, <<5>>}, b \in {<<>>, <<5>>, <<5, 0>>, <<0, 5, 5>>}, c \in {<<>>} \cup {<<e>> : e \in Events},
  d \in {<<>>} \cup {<<r>> : r \in Requests} \cup {<<r, << <<<<>>>>, <<>> >> >> : r \in Requests}}
-----------------------------------------------------------------------------
(***************************************************************************)
(* Keys, and hashes of them for the filters.                               *)
(***************************************************************************)
Words == {<<1>>, <<1, 1>>, <<1, 1, 2>>, <<1, 2>>, <<2>>, <<2, 1>>}
Hashes == <<0, 1>> :> 14 @@ <<1>> :> 7 @@ <<2, 1>> :> 3 @@ <<2, 2>> :> 10

VARIABLES
  part,  \* the part whose behaviours these are
  buffer, restarts, counter, lastKey, added, finished, bad, current, restartIndex,
  key, ok,  \* of Block
  pendingKeys, results, offsets, file, offset, status, closed, dataBlock, index,
  tableLastKey, pending, tableAdded, unreadable,  \* of Table
  rep, ops, record, whole, input, found, batchStatus, sequence, mem, cut, changed,
  maxSequence,  \* of WriteBatch
  edit, editRecord, parsed, phase, editCut, editChanged,  \* of VersionEdit
  allocPtr, bytesRemaining, blocks, memoryUsage, pieces, memTable, memLast,  \* of MemTable
  decoder, result, bitpos, varintStatus, exact, n, ended,  \* of PbVarint
  read, total, frames, m, pbStatus, refusals,  \* of PbDecode
  struct, script, size, stream, done,  \* of PbEncode
  processLocked, processPc, processFd, processDestroys, processNamed, processLast,
  processOwner,  \* of FileLocks
  buf, writeFile, disk, todo, rest, writePc, appended, faults, ends, writeNamed  \* of WritableFile

blockVars == <<buffer, restarts, counter, lastKey, added, finished, bad, current,
               restartIndex, key, ok>>
tableVars == <<pendingKeys, results, offsets, file, offset, status, closed,
               dataBlock, index, tableLastKey, pending, tableAdded, unreadable>>
batchVars == <<rep, ops, record, whole, input, found, batchStatus, sequence, mem,
               cut, changed, maxSequence>>
editVars == <<edit, editRecord, parsed, phase, editCut, editChanged>>
memVars == <<allocPtr, bytesRemaining, blocks, memoryUsage, pieces, memTable, memLast>>
varintVars == <<decoder, result, bitpos, varintStatus, exact, n, ended>>
pbVars == <<read, total, frames, m, pbStatus, refusals>>
encodeVars == <<struct, script, size, stream, done>>
processVars == <<processLocked, processPc, processFd, processDestroys, processNamed,
                 processLast, processOwner>>
writeVars == <<buf, writeFile, disk, todo, rest, writePc, appended, faults, ends,
               writeNamed>>
TwoShards == [k \in Keys |-> IF k = 1 THEN 0 ELSE 1]
mcVars == <<part, lockVars, limitVars, cacheVars, blockVars, tableVars, batchVars, editVars,
            memVars, varintVars, pbVars, encodeVars, processVars, writeVars>>
-----------------------------------------------------------------------------
Blocks == INSTANCE Block WITH
  MaxByte <- 2, KeySet <- Words, Interval <- 2, MaxDamage <- 1

Tables == INSTANCE Table WITH
  MaxByte <- 2, UserKeys <- DOMAIN Hashes, Hash <- Hashes, Word <- 16, Turn <- 8,
  BitsPerKey <- 3, MinBits <- 4, ByteBits <- 2, Probes <- 2, FilterBase <- 2,
  MaxSequence <- 3, Sequence <- {1, 2}, BlockSize <- 2, MaxKeys <- 4,
  lastKey <- tableLastKey, added <- tableAdded

WriteBatches == INSTANCE WriteBatch WITH
  Radix <- 4, Word <- 32, Batches <- {"b1", "b2"}, Keys <- {<<>>, <<1>>},
  Values <- {<<0, 2>>}, Sequences <- {3}, MaxOps <- 3, status <- batchStatus

Edits == INSTANCE VersionEdit WITH
  Radix <- 10, Word <- 64, kNumLevels <- 2, Names <- {<<1>>}, Numbers <- {20},
  InternalKeys <- {<<17, 1>>}, MaxFields <- 2, record <- editRecord,
  cut <- editCut, changed <- editChanged

MemTables == INSTANCE MemTable WITH
  Radix <- 10, Word <- 64, kBlockSize <- 60, Align <- 8,
  UserKeys <- {<<>>, <<1>>, <<1, 0, 1>>}, Values <- {<<>>, <<2, 2, 2>>},
  kMaxSequenceNumber <- 4, Node <- 10, TypeBits <- 4, table <- memTable,
  last <- memLast

Varints == INSTANCE PbVarint WITH
  K <- 3, W32 <- 8, W64 <- 13, Counter <- 16, Widths <- {2, 8, 13}, MaxBytes <- 7,
  status <- varintStatus

Responses == INSTANCE PbDecode WITH
  Fields <- Response, Root <- "Response", Keys <- ResponseKeys, Values <- {0, 1},
  Lengths <- {0, 1, 5, 8}, Payload <- 1, SizeMax <- 3, MaxRequired <- 64,
  Refusals <- 1, status <- pbStatus
PackedArrays == INSTANCE PbDecode WITH
  Fields <- Arrays, Root <- "Arrays", Keys <- ArraysKeys, Values <- {0, 1},
  Lengths <- {3, 8}, Payload <- 1, SizeMax <- 3, MaxRequired <- 64, Refusals <- 1,
  status <- pbStatus
OwnerTrees == INSTANCE PbDecode WITH
  Fields <- Owners, Root <- "Owners", Keys <- OwnersKeys, Values <- {1},
  Lengths <- {4, 7, 10}, Payload <- 1, SizeMax <- 3, MaxRequired <- 64,
  Refusals <- 1, status <- pbStatus

Encode == INSTANCE PbEncode WITH
  Fields <- Batch, Root <- "Batch", Structs <- Batches,
  Scripts <- {<<0>>, <<1>>, <<0, 1>>, <<1, 0>>, <<1, 1, 0>>, <<1, 1, 2, 0>>},
  Sizes <- {0, 3, 7, 8, 14, 15, 30}

LockProcesses == INSTANCE FileLocks WITH
  Processes <- {"p1", "p2", "p3"}, Threads <- {"t1"}, MayDestroy <- FALSE,
  None <- "none", MaxFiles <- 1, locked <- processLocked, pc <- processPc,
  fd <- processFd, destroys <- processDestroys, named <- processNamed,
  last <- processLast, owner <- processOwner

Writes == INSTANCE WritableFile WITH
  BufferSize <- 2, Sizes <- {1, 2, 5}, Manifest <- FALSE, MaxBytes <- 8,
  MaxFaults <- 1, file <- writeFile, pc <- writePc, named <- writeNamed
Manifest == INSTANCE WritableFile WITH
  BufferSize <- 2, Sizes <- {1, 3}, Manifest <- TRUE, MaxBytes <- 6, MaxFaults <- 1,
  file <- writeFile, pc <- writePc, named <- writeNamed

ASSUME
  /\ Blocks!BlockAssumption
  /\ Tables!FilterAssumption /\ Tables!TableAssumption
  /\ WriteBatches!CodingAssumption /\ WriteBatches!BatchAssumption
  /\ Edits!CodingAssumption /\ Edits!EditAssumption
  /\ MemTables!CodingAssumption /\ MemTables!ArenaAssumption /\ MemTables!MemTableAssumption
  /\ Varints!VarintAssumption
  /\ Writes!FileAssumption
  /\ Manifest!FileAssumption
  /\ CacheAssumption
-----------------------------------------------------------------------------
\* The variables of the other parts stay as they are.
MCInit ==
  /\ part \in {"lockThreads", "limits", "cache", "block", "table", "batch", "edit",
               "memtable", "varint", "response", "arrays", "owners", "encode",
               "lockProcesses", "writes", "manifest"}
  /\ LocksInit
  /\ LimitsInit
  /\ CacheInit
  /\ CASE part = "block" -> Blocks!Init
       [] OTHER -> buffer = 0 /\ restarts = 0 /\ counter = 0 /\ lastKey = 0 /\ added = 0
                   /\ finished = 0 /\ bad = 0 /\ current = 0 /\ restartIndex = 0
                   /\ key = 0 /\ ok = 0
  /\ CASE part = "table" -> Tables!Init
       [] OTHER -> pendingKeys = 0 /\ results = 0 /\ offsets = 0 /\ file = 0 /\ offset = 0
                   /\ status = 0 /\ closed = 0 /\ dataBlock = 0 /\ index = 0
                   /\ tableLastKey = 0 /\ pending = 0 /\ tableAdded = 0 /\ unreadable = 0
  /\ CASE part = "batch" -> WriteBatches!Init
       [] OTHER -> rep = 0 /\ ops = 0 /\ record = 0 /\ whole = 0 /\ input = 0 /\ found = 0
                   /\ batchStatus = 0 /\ sequence = 0 /\ mem = 0 /\ cut = 0 /\ changed = 0
                   /\ maxSequence = 0
  /\ CASE part = "edit" -> Edits!Init
       [] OTHER -> edit = 0 /\ editRecord = 0 /\ parsed = 0 /\ phase = 0 /\ editCut = 0
                   /\ editChanged = 0
  /\ CASE part = "memtable" -> MemTables!Init
       [] OTHER -> allocPtr = 0 /\ bytesRemaining = 0 /\ blocks = 0 /\ memoryUsage = 0
                   /\ pieces = 0 /\ memTable = 0 /\ memLast = 0
  /\ CASE part = "varint" -> Varints!Init
       [] OTHER -> decoder = 0 /\ result = 0 /\ bitpos = 0 /\ varintStatus = 0
                   /\ exact = 0 /\ n = 0 /\ ended = 0
  /\ CASE part = "response" -> Responses!Init
       [] part = "arrays" -> PackedArrays!Init
       [] part = "owners" -> OwnerTrees!Init
       [] OTHER -> read = 0 /\ total = 0 /\ frames = 0 /\ m = 0 /\ pbStatus = 0
                   /\ refusals = 0
  /\ CASE part = "encode" -> Encode!Init
       [] OTHER -> struct = 0 /\ script = 0 /\ size = 0 /\ stream = 0 /\ done = 0
  /\ CASE part = "lockProcesses" -> LockProcesses!LocksInit
       [] OTHER -> processLocked = 0 /\ processPc = 0 /\ processFd = 0
                   /\ processDestroys = 0 /\ processNamed = 0 /\ processLast = 0
                   /\ processOwner = 0
  /\ CASE part = "writes" -> Writes!Init
       [] part = "manifest" -> Manifest!Init
       [] OTHER -> buf = 0 /\ writeFile = 0 /\ disk = 0 /\ todo = 0 /\ rest = 0
                   /\ writePc = 0 /\ appended = 0 /\ faults = 0 /\ ends = 0
                   /\ writeNamed = 0

\* Two threads of one process, and another process with one: the last caller rests.
LockStep ==
  /\ \/ part = "lockThreads" /\ LocksNext /\ pc'[<<"p2", "t2">>] = "idle"
  /\ UNCHANGED <<part, limitVars, cacheVars, blockVars, tableVars, batchVars, editVars, memVars,
                 varintVars, pbVars, encodeVars, processVars, writeVars>>
LimitStep ==
  /\ \/ part = "limits" /\ LimitsNext
  /\ UNCHANGED <<part, lockVars, cacheVars, blockVars, tableVars, batchVars, editVars,
                 memVars, varintVars, pbVars, encodeVars, processVars, writeVars>>
CacheStep ==
  /\ \/ part = "cache" /\ CacheNext
  /\ UNCHANGED <<part, lockVars, limitVars, blockVars, tableVars, batchVars, editVars,
                 memVars, varintVars, pbVars, encodeVars, processVars, writeVars>>
BlockStep ==
  /\ \/ part = "block" /\ Blocks!Next
  /\ UNCHANGED <<part, lockVars, limitVars, cacheVars, tableVars, batchVars, editVars, memVars,
                 varintVars, pbVars, encodeVars, processVars, writeVars>>
TableStep ==
  /\ \/ part = "table" /\ Tables!Next
  /\ UNCHANGED <<part, lockVars, limitVars, cacheVars, blockVars, batchVars, editVars, memVars,
                 varintVars, pbVars, encodeVars, processVars, writeVars>>
BatchStep ==
  /\ \/ part = "batch" /\ WriteBatches!Next
  /\ UNCHANGED <<part, lockVars, limitVars, cacheVars, blockVars, tableVars, editVars, memVars,
                 varintVars, pbVars, encodeVars, processVars, writeVars>>
EditStep ==
  /\ \/ part = "edit" /\ Edits!Next
  /\ UNCHANGED <<part, lockVars, limitVars, cacheVars, blockVars, tableVars, batchVars, memVars,
                 varintVars, pbVars, encodeVars, processVars, writeVars>>
MemStep ==
  /\ \/ part = "memtable" /\ MemTables!Next
  /\ UNCHANGED <<part, lockVars, limitVars, cacheVars, blockVars, tableVars, batchVars,
                 editVars, varintVars, pbVars, encodeVars, processVars, writeVars>>
VarintStep ==
  /\ \/ part = "varint" /\ Varints!Next
  /\ UNCHANGED <<part, lockVars, limitVars, cacheVars, blockVars, tableVars, batchVars,
                 editVars, memVars, pbVars, encodeVars, processVars, writeVars>>
PbStep ==
  /\ \/ part = "response" /\ Responses!Next
     \/ part = "arrays" /\ PackedArrays!Next
     \/ part = "owners" /\ OwnerTrees!Next
  /\ UNCHANGED <<part, lockVars, limitVars, cacheVars, blockVars, tableVars, batchVars,
                 editVars, memVars, varintVars, encodeVars, processVars, writeVars>>
EncodeStep ==
  /\ \/ part = "encode" /\ Encode!Next
  /\ UNCHANGED <<part, lockVars, limitVars, cacheVars, blockVars, tableVars, batchVars,
                 editVars, memVars, varintVars, pbVars, processVars, writeVars>>
ProcessStep ==
  /\ \/ part = "lockProcesses" /\ LockProcesses!LocksNext
  /\ UNCHANGED <<part, lockVars, limitVars, cacheVars, blockVars, tableVars, batchVars,
                 editVars, memVars, varintVars, pbVars, encodeVars, writeVars>>
WriteStep ==
  /\ \/ part = "writes" /\ Writes!Next
     \/ part = "manifest" /\ Manifest!Next
  /\ UNCHANGED <<part, lockVars, limitVars, cacheVars, blockVars, tableVars, batchVars,
                 editVars, memVars, varintVars, pbVars, encodeVars, processVars>>

MCNext == LockStep \/ LimitStep \/ CacheStep \/ BlockStep \/ TableStep \/ BatchStep \/ EditStep \/ MemStep \/ VarintStep \/ PbStep \/ EncodeStep \/ ProcessStep \/ WriteStep
MCSpec == MCInit /\ [][MCNext]_mcVars
-----------------------------------------------------------------------------
\* What was written is read back. Of a block's iterator: the keys that were
\* added, both ways until it meets a bad entry, and Seek leads to the first at
\* or after its target. Of a table: Get
\* and a walk find each key that was added, the filter and separators
\* included, and no other. Of a batch: its operations, all if OK, in the
\* numbers that follow its own. Of an edit: its fields, and levels in range.
\* Of a memtable: what a sequence number may see. Of varints: every number
\* that fits. And what was cut or damaged is not taken for whole.
ReadBack ==
  /\ [](/\ part = "block" =>
             /\ Blocks!BlockTypeOK
             /\ Blocks!KeysReadBack
             /\ Blocks!SeekFinds
             /\ Blocks!PositionsAgree
        /\ part = "table" =>
             /\ Tables!TableTypeOK
             /\ Tables!IndexSeparates
             /\ Tables!GetFinds
             /\ Tables!GetInvents
             /\ Tables!NothingMissing
             /\ Tables!OffsetsGrow
        /\ part = "batch" =>
             /\ WriteBatches!BatchIsItsOperations
             /\ WriteBatches!CutIsReported
             /\ WriteBatches!OkMeansAllOfThem
             /\ WriteBatches!NumbersNotReused
             /\ WriteBatches!NumbersFollow
        /\ part = "edit" =>
             /\ Edits!EditReadBack
             /\ Edits!NeverRefusedWhole
             /\ Edits!CutInventsNothing
             /\ Edits!LevelsInRange
        /\ part = "memtable" =>
             /\ MemTables!GetSeesSnapshot
             /\ MemTables!EntryFitsRoom
             /\ MemTables!PiecesApart
             /\ MemTables!UsageCovers
        /\ part = "varint" =>
             /\ Varints!VarintTypeOK
             /\ Varints!WideIsTaken
             /\ Varints!NarrowIsTaken
             /\ Varints!ShortIsExact
             /\ Varints!LowBitsKept
             /\ Varints!FieldRoundTrip)
  /\ [][part = "block" => Blocks!WalkStep]_blockVars

\* What nanopb decodes is what the message means, what it encodes means the
\* struct, and no substream, array or buffer is left at its end.
MessagesKeepMeaning ==
  /\ part = "response" => Responses!DecodesMeaning /\ Responses!StreamsNest
  /\ part = "arrays" => PackedArrays!DecodesMeaning /\ PackedArrays!EntriesFit
  /\ part = "encode" => Encode!EncodedMeans /\ Encode!NoOverrun /\ Encode!SizeIsExact

\* Every block that nanopb allocates has one owner and is freed once, also
\* after a failure.
MemoryIsOwned ==
  /\ part = "response" => Responses!NothingLeft
  /\ part = "owners" =>
       /\ OwnerTrees!NothingLeft
       /\ OwnerTrees!OwnedOnce
       /\ OwnerTrees!NothingFreedTwice

\* Processes that neither destroy the database nor lock it twice exclude each
\* other.
OneHolder == part = "lockProcesses" => LockProcesses!OneProcess

\* What Append was given is in the buffer or with the kernel, in its order
\* and no byte twice; after Sync returned OK it is on disk, and for a
\* MANIFEST so is its directory.
WritesAreKept ==
  /\ [](part = "writes" => Writes!WriterTypeOK /\ Writes!NothingLost /\ Writes!NothingTwice)
  /\ [][/\ part = "writes" => Writes!SyncStep
        /\ part = "manifest" => Manifest!SyncStep]_writeVars
=============================================================================
