------------------------------ MODULE MemTable ------------------------------
(***************************************************************************)
(* A memtable (db/memtable.cc): entries in its arena, each with its skip   *)
(* list node, in the order of internal keys (db/dbformat.cc).  The skip    *)
(* list's own steps are in SkipList; here it is the set of its entries.    *)
(***************************************************************************)
EXTENDS Coding

-----------------------------------------------------------------------------
(***************************************************************************)
(* The memory of a memtable (util/arena.cc): pieces cut from blocks, the   *)
(* rest of a block wasted when a piece does not fit.  Block n begins at    *)
(* the address n * Stride, aligned as new char[] aligns.                   *)
(***************************************************************************)
CONSTANTS
  kBlockSize, \* 4096
  Align       \* sizeof(void*), at least 8

\* What the constants must be.
ArenaAssumption == kBlockSize \in Nat \ {0} /\ Align \in Nat \ {0}

VARIABLES
  allocPtr, bytesRemaining, \* alloc_ptr_ (0 is nullptr), alloc_bytes_remaining_
  blocks,                   \* sizes of blocks_
  memoryUsage,              \* in bytes, the pointers to blocks left out
  pieces                    \* what was handed out: [from, bytes, aligned]

arenaVars == <<allocPtr, bytesRemaining, blocks, memoryUsage, pieces>>

Stride == 1000 * Align
BlockAt(n) == n * Stride
ArenaInit ==
  allocPtr = 0 /\ bytesRemaining = 0 /\ blocks = <<>> /\ memoryUsage = 0 /\ pieces = {}

\* The arena as a record, so that one action may allocate more than once.
Arena ==
  [ptr |-> allocPtr, left |-> bytesRemaining, blocks |-> blocks, usage |-> memoryUsage,
   pieces |-> pieces]
Becomes(a) ==
  /\ allocPtr' = a.ptr /\ bytesRemaining' = a.left /\ blocks' = a.blocks
  /\ memoryUsage' = a.usage /\ pieces' = a.pieces

AllocateNewBlock(a, bytes) ==
  [a EXCEPT !.blocks = Append(@, bytes), !.usage = @ + bytes]
Piece(from, bytes, aligned) == [from |-> from, bytes |-> bytes, aligned |-> aligned]
\* bytes are cut from the current block, after slop.
Cut(a, slop, bytes, aligned) ==
  [a EXCEPT !.pieces = @ \cup {Piece(a.ptr + slop, bytes, aligned)},
            !.ptr = @ + slop + bytes, !.left = @ - (slop + bytes)]

\* AllocateFallback: a block of its own for more than a quarter, which leaves the current
\* block in use; or a new current block.
AllocateFallback(a, bytes, aligned) ==
  LET start == BlockAt(Len(a.blocks) + 1)
      own == AllocateNewBlock(a, bytes)
      fresh == [AllocateNewBlock(a, kBlockSize) EXCEPT !.ptr = start, !.left = kBlockSize]
  IN  IF bytes > kBlockSize \div 4
      THEN [own EXCEPT !.pieces = @ \cup {Piece(start, bytes, aligned)}]
      ELSE Cut(fresh, 0, bytes, aligned)

Allocate(a, bytes) ==
  IF bytes <= a.left THEN Cut(a, 0, bytes, FALSE) ELSE AllocateFallback(a, bytes, FALSE)

Slop(a) == (Align - (a.ptr % Align)) % Align
AllocateAligned(a, bytes) ==
  IF bytes + Slop(a) <= a.left THEN Cut(a, Slop(a), bytes, TRUE)
  ELSE AllocateFallback(a, bytes, TRUE)
-----------------------------------------------------------------------------
\* No two pieces share a byte, each is inside a block, and aligned if it was asked to be.
PiecesApart ==
  /\ \A p, q \in pieces : p = q \/ p.from + p.bytes <= q.from \/ q.from + q.bytes <= p.from
  /\ \A p \in pieces :
       /\ \E n \in DOMAIN blocks :
            BlockAt(n) <= p.from /\ p.from + p.bytes <= BlockAt(n) + blocks[n]
       /\ p.aligned => p.from % Align = 0

\* What MemTable::ApproximateMemoryUsage reports, and DBImpl compares with
\* write_buffer_size, is at least what is in use.
UsageCovers ==
  /\ memoryUsage = MapThenSumSet(LAMBDA n : blocks[n], DOMAIN blocks)
  /\ MapThenSumSet(LAMBDA p : p.bytes, pieces) + bytesRemaining <= memoryUsage
-----------------------------------------------------------------------------
(* The memtable. *)

CONSTANTS
  UserKeys, Values,   \* strings
  kMaxSequenceNumber, \* 2^56 - 1
  Node,               \* bytes of a skip list node
  TypeBits            \* 2^8: of a tag, the type

\* What the constants must be.
MemTableAssumption ==
  /\ UserKeys \subseteq Seq(Byte) /\ Values \subseteq Seq(Byte)
  /\ kMaxSequenceNumber \in Nat /\ TypeBits > 1 /\ Node \in Nat \ {0}

VARIABLES
  table, \* entries [key, tag, value]
  last   \* the largest sequence number used

vars == <<arenaVars, table, last>>

kTypeDeletion == 0
kTypeValue == 1
kValueTypeForSeek == kTypeValue
PackSequenceAndType(seq, t) == seq * TypeBits + t

StringLess(a, b) ==
  \E i \in 1..(Len(a) + 1) :
    /\ i <= Len(b) /\ \A j \in 1..(i - 1) : a[j] = b[j]
    /\ i > Len(a) \/ a[i] < b[i]
\* InternalKeyComparator::Compare: the larger tag first.
AtOrAfter(e, key, tag) == StringLess(key, e.key) \/ (e.key = key /\ e.tag <= tag)

Fixed64 == 8
\* The bytes that Add asks for, and those it writes.
EncodedLen(k, v) ==
  VarintLength(Len(k) + Fixed64) + Len(k) + Fixed64 + VarintLength(Len(v)) + Len(v)
Written(k, v) == Len(PutVarint(Len(k) + Fixed64)) + Len(k) + Fixed64 + Len(PutLengthPrefixedSlice(v))

Init == ArenaInit /\ table = {} /\ last = 0

\* MemTable::Add; the entry's node is allocated aligned by the skip list.
Add(k, s, t, v) ==
  /\ table' = table \cup {[key |-> k, tag |-> PackSequenceAndType(s, t), value |-> v,
                           room |-> EncodedLen(k, v), bytes |-> Written(k, v)]}
  /\ Becomes(AllocateAligned(Allocate(Arena, EncodedLen(k, v)), Node))

\* MemTable::Get at a snapshot, with LookupKey: the first entry not before <<k, s>>;
\* {} when it is of another key, <<>> for a deletion.
Get(k, s) ==
  LET tag == PackSequenceAndType(s, kValueTypeForSeek)
      from == {e \in table : AtOrAfter(e, k, tag)}
      first == CHOOSE e \in from : \A f \in from : AtOrAfter(f, e.key, e.tag)
  IN  IF from = {} THEN {}
      ELSE IF first.key # k THEN {}
      ELSE IF first.tag % TypeBits = kTypeValue THEN {[value |-> first.value]}
      ELSE {[deleted |-> TRUE]}

Next ==
  /\ last < kMaxSequenceNumber /\ last' = last + 1
  /\ \E k \in UserKeys : \/ \E v \in Values : Add(k, last + 1, kTypeValue, v)
                         \/ Add(k, last + 1, kTypeDeletion, <<>>)
Spec == Init /\ [][Next]_vars
-----------------------------------------------------------------------------
\* A lookup at any snapshot finds the newest entry of that key up to it, also the entry
\* with the snapshot's own number, and no other key's.
NewestUpTo(k, s) ==
  {e \in table : /\ e.key = k /\ e.tag \div TypeBits <= s
                 /\ \A f \in table : f.key = k /\ f.tag \div TypeBits <= s => f.tag <= e.tag}
Answer(e) ==
  IF e.tag % TypeBits = kTypeValue THEN [value |-> e.value] ELSE [deleted |-> TRUE]
GetSeesSnapshot ==
  \A k \in UserKeys, s \in 0..kMaxSequenceNumber :
    Get(k, s) = {Answer(e) : e \in NewestUpTo(k, s)}

\* An entry fills exactly the room that was allocated for it.
EntryFitsRoom == \A e \in table : e.bytes = e.room
=============================================================================
