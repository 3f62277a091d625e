------------------------------- MODULE PbDecode -------------------------------
(***************************************************************************)
(* pb_decode of nanopb with PB_ENABLE_MALLOC: a message is decoded field by *)
(* field into a struct and blocks it points to, with a substream for each  *)
(* submessage and packed array; any input, cut anywhere, any failing       *)
(* allocation.  The caller then releases the message (pb_release).         *)
(***************************************************************************)
EXTENDS PbFormat

CONSTANTS
  Root,        \* the message type decoded
  Keys, Values,\* keys and varints the input is made of
  Lengths,     \* bound: lengths of the input
  Payload,     \* the unit that payloads and skipped data are made of
  SizeMax,     \* PB_SIZE_MAX: 2^32 - 1 with PB_FIELD_32BIT
  MaxRequired, \* PB_MAX_REQUIRED_FIELDS: 64
  Refusals     \* bound: allocations that fail

VARIABLES
  read, total, \* units read, and all there are
  frames,      \* the streams open: messages and packed arrays within each other
  m,           \* memory: structs by address, blocks, and whether a free was wrong
  status,      \* "decoding", "ok", "failed", "released"
  refusals     \* allocations that failed

vars == <<read, total, frames, m, status, refusals>>

\* The struct of the caller; a member's struct is at its struct's address and <<member,
\* item>>, an item of a block at <<block, item>>.
Dest == <<0, 1>>
Top == frames[Len(frames)]
Left == Top.end - Len(read)
-----------------------------------------------------------------------------
\* Memory.  A member is [n, v]: has_, count or which_, and a sequence of values; a pointer
\* is <<block>> or, NULL, <<>>.
Put(f, key, x) == [k \in DOMAIN f \cup {key} |-> IF k = key THEN x ELSE f[k]]
Member(mem, a, type, i) == mem.structs[a][Slot(type, i)]
With(mem, a, type, i, n, v) ==
  [mem EXCEPT !.structs = Put(@, a, Put(@[a], Slot(type, i), [n |-> n, v |-> v]))]
Entered(s, k, x) == IF k > Len(s) THEN Append(s, x) ELSE [s EXCEPT ![k] = x]

\* pb_message_set_to_defaults.
Defaults(type) ==
  [i \in 1..Len(Fields[type]) |->
    LET f == Fields[type][i]
    IN  [n |-> 0, v |-> IF f.store = "static" /\ f.rule \in {"required", "optional"} /\ f.kind = "varint"
                        THEN <<0>> ELSE <<>>]]
RECURSIVE SetToDefaults(_, _, _)
SetToDefaults(mem, type, a) ==
  FoldLeft(LAMBDA acc, i :
      LET f == Fields[type][i]
      IN  IF f.kind = "message" /\ f.store = "static" /\ f.rule \in {"required", "optional"}
          THEN SetToDefaults(acc, f.sub, a \o <<i, 1>>) ELSE acc,
    [mem EXCEPT !.structs = Put(@, a, Defaults(type))],
    [i \in 1..Len(Fields[type]) |-> i])

\* pb_free, and pb_realloc of a member's pointer to some number of items.
Free(mem, block) ==
  IF block \notin DOMAIN mem.blocks THEN [mem EXCEPT !.wrong = TRUE]
  ELSE [mem EXCEPT !.blocks = Restrict(mem.blocks, DOMAIN mem.blocks \ {block}),
                   !.structs = Restrict(mem.structs, {a \in DOMAIN mem.structs : a[1] # block})]
Allocated(mem, a, type, i, room) ==
  LET cell == Member(mem, a, type, i)
      b == IF cell.v = <<>> THEN Min((1..(Cardinality(DOMAIN mem.blocks) + 1)) \ DOMAIN mem.blocks) ELSE cell.v[1]
      items == IF cell.v = <<>> \/ b \notin DOMAIN mem.blocks THEN <<>> ELSE mem.blocks[b].items
      kept == SubSeq(items, 1, IF Len(items) < room THEN Len(items) ELSE room)
  IN  [With(mem, a, type, i, cell.n, <<b>>) EXCEPT
        !.blocks = Put(@, b, [room |-> room, items |-> kept]),
        !.wrong = @ \/ (cell.v # <<>> /\ b \notin DOMAIN mem.blocks)]

\* pb_release and pb_release_single_field.
Clear(mem, a, type, i) == With(mem, a, type, i, Member(mem, a, type, i).n, <<>>)
Cleared(mem, a, type, i) ==
  IF Fields[type][i].rule = "repeated" THEN With(mem, a, type, i, 0, <<>>) ELSE Clear(mem, a, type, i)
Items(mem, a, type, i) ==
  LET f == Fields[type][i]
      cell == Member(mem, a, type, i)
      count == IF f.rule # "repeated" THEN 1
               ELSE IF f.store = "static" /\ (~f.counted \/ cell.n > f.max) THEN f.max ELSE cell.n
  IN  IF f.kind # "message" \/ f.store = "callback" \/ (f.store = "pointer" /\ cell.v = <<>>) THEN <<>>
      ELSE [k \in 1..count |-> IF f.store = "static" THEN a \o <<Slot(type, i), k>> ELSE <<cell.v[1], k>>]
RECURSIVE Release(_, _, _)
ReleaseField(mem, a, type, i) ==
  LET f == Fields[type][i]
      cell == Member(mem, a, type, i)
      inner == FoldLeft(LAMBDA acc, at : IF at \in DOMAIN acc.structs THEN Release(acc, f.sub, at) ELSE acc,
                        mem, Items(mem, a, type, i))
  IN  IF f.rule = "oneof" /\ cell.n # f.tag THEN mem
      ELSE IF f.store # "pointer" THEN inner
      ELSE Cleared(IF cell.v = <<>> THEN inner ELSE Free(inner, cell.v[1]), a, type, i)
Release(mem, type, a) ==
  FoldLeft(LAMBDA acc, i : ReleaseField(acc, a, type, i), mem, [i \in 1..Len(Fields[type]) |-> i])

\* pb_release_union_field: what another member of the union held.  Mutant: it is not looked for.
NoUnion(mem, a, type, i) == mem
ReleaseUnion(mem, a, type, i) ==
  LET f == Fields[type][i]
      which == Member(mem, a, type, i).n
  IN  IF f.rule # "oneof" \/ which \in {0, f.tag} THEN mem
      ELSE ReleaseField(mem, a, type, Min(IndexOf(type, which)))
-----------------------------------------------------------------------------
Message(type, a, end, repeated) ==
  [kind |-> "message", type |-> type, at |-> a, end |-> end, repeated |-> repeated,
   i |-> 0, room |-> 0, fixed |-> 0, got |-> 0, seen |-> {}]
Packed(type, a, end, i, room) ==
  [kind |-> "packed", type |-> type, at |-> a, end |-> end, repeated |-> FALSE,
   i |-> i, room |-> room, fixed |-> 0, got |-> 0, seen |-> {}]

Init ==
  /\ read = <<>> /\ total \in Lengths /\ status = "decoding" /\ refusals = 0
  /\ m = SetToDefaults([structs |-> <<>>, blocks |-> <<>>, wrong |-> FALSE], Root, Dest)
  /\ frames = <<Message(Root, Dest, total, FALSE)>>

\* A failure ends every stream: pb_decode releases an item of an array, then the message.
ReleasedAll(mem) ==
  FoldRight(LAMBDA f, acc : Release(acc, f.type, f.at),
            <<Message(Root, Dest, total, FALSE)>> \o
              SelectSeq(frames, LAMBDA f : f.kind = "message" /\ f.repeated), mem)
Fail(mem) ==
  /\ status' = "failed" /\ frames' = <<>> /\ m' = ReleasedAll(mem)
  /\ UNCHANGED <<read, total, refusals>>
Refuse(mem) ==
  /\ refusals < Refusals /\ refusals' = refusals + 1
  /\ status' = "failed" /\ frames' = <<>> /\ m' = ReleasedAll(mem)
  /\ UNCHANGED <<read, total>>

Advance(units, fs, mem) ==
  /\ read' = read \o units /\ frames' = fs /\ m' = mem
  /\ UNCHANGED <<total, status, refusals>>
\* The frames with the top one changed, and with another opened on it.
Retop(f) == [frames EXCEPT ![Len(frames)] = f]
Open(top, f) == Append(Retop(top), f)

\* A value of one unit after the key, or a length that the stream has room for after it.
TakeVarint(top, key, before, After(_)) ==
  IF Left < 2 THEN Fail(before)
  ELSE \E x \in Values : Advance(<<key, x>>, Retop(top), After(x))
\* pb_make_string_substream: a length that is missing or beyond the stream fails.
Within == 0..(Left - 2)
Prefixed(before, Then(_)) == Fail(before) \/ \E length \in Within : Then(length)

\* pb_skip_field.
Skip(top, key) ==
  CASE WireOf(key) = PB_WT_VARINT -> TakeVarint(top, key, m, LAMBDA x : m)
    [] WireOf(key) = PB_WT_32BIT ->
         IF Left < 3 THEN Fail(m) ELSE Advance(<<key, Payload, Payload>>, Retop(top), m)
    [] WireOf(key) = PB_WT_STRING ->
         Prefixed(m, LAMBDA length :
           Advance(<<key, length>> \o [k \in 1..length |-> Payload], Retop(top), m))
    [] OTHER -> Fail(m)

\* pb_dec_varint or pb_dec_bytes into item k of a member; pb_dec_submessage opens a stream.
StoreStatic(mem, a, type, i, k, x) ==
  LET cell == Member(mem, a, type, i) IN With(mem, a, type, i, cell.n, Entered(cell.v, k, x))
StoreBlock(mem, a, type, i, k, x) ==
  LET b == Member(mem, a, type, i).v[1]
  IN  [mem EXCEPT !.blocks = Put(@, b, [@[b] EXCEPT !.items = Entered(@, k, x)])]
Store(mem, a, type, i, k, x) ==
  IF Fields[type][i].store = "static" THEN StoreStatic(mem, a, type, i, k, x)
  ELSE StoreBlock(mem, a, type, i, k, x)

DecodeItem(top, key, i, k, mem) ==
  LET type == top.type
      f == Fields[type][i]
      a == top.at
      at == IF f.store = "static" THEN a \o <<Slot(type, i), k>> ELSE <<Member(mem, a, type, i).v[1], k>>
  IN  CASE f.kind = "varint" ->
             TakeVarint(top, key, mem, LAMBDA x : Store(mem, a, type, i, k, x))
        [] f.kind = "bytes" ->
             Prefixed(mem, LAMBDA length :
               IF f.store = "static" /\ length > f.max THEN Fail(mem)
               ELSE LET body == [u \in 1..length |-> Payload]
                        bytes == IF f.store = "static" THEN mem ELSE Allocated(mem, a, type, i, 1)
                    IN  \/ Advance(<<key, length>> \o body, Retop(top), Store(bytes, a, type, i, k, body))
                        \/ f.store = "pointer" /\ Refuse(mem))
        [] f.kind = "message" ->
             Prefixed(mem, LAMBDA length :
               Advance(<<key, length>>,
                 Open(top, Message(f.sub, at, Len(read) + 2 + length, f.rule = "repeated")),
                 IF f.rule = "repeated" THEN SetToDefaults(mem, f.sub, at) ELSE mem))

\* The count of a repeated field is in its struct or, of a fixed count field, in the loop.
Count(top, i, mem) == IF Fields[top.type][i].counted THEN Member(mem, top.at, top.type, i).n ELSE top.got
Counting(top, i) == IF Fields[top.type][i].counted THEN top ELSE [top EXCEPT !.got = @ + 1]
Counted(mem, top, i) ==
  LET cell == Member(mem, top.at, top.type, i)
  IN  IF Fields[top.type][i].counted THEN With(mem, top.at, top.type, i, cell.n + 1, cell.v) ELSE mem

\* decode_static_field.
HasRoom(count, max) == count < max
DecodeStatic(top, key, i, mem) ==
  LET type == top.type
      f == Fields[type][i]
      a == top.at
      has == With(mem, a, type, i, IF f.rule = "oneof" THEN f.tag ELSE 1, Member(mem, a, type, i).v)
      into == CASE f.rule = "required" -> mem
                [] f.rule = "oneof" /\ f.kind = "message" ->
                     SetToDefaults(has, f.sub, a \o <<Slot(type, i), 1>>)
                [] OTHER -> has
      count == Count(top, i, mem)
  IN  IF f.rule # "repeated" THEN DecodeItem(top, key, i, 1, into)
      ELSE IF WireOf(key) = PB_WT_STRING /\ f.kind = "varint"
      THEN Prefixed(mem, LAMBDA length :
             Advance(<<key, length>>, Open(top, Packed(type, a, Len(read) + 2 + length, i, 0)), mem))
      ELSE IF ~HasRoom(count, f.max) THEN Fail(Counted(mem, top, i))
      ELSE DecodeItem(Counting(top, i), key, i, count + 1, Counted(mem, top, i))

\* initialize_pointer_field, of a submessage.
Initialized(mem, type, i, at) ==
  IF Fields[type][i].kind = "message" THEN SetToDefaults(mem, Fields[type][i].sub, at) ELSE mem

\* decode_pointer_field.
ReleaseOld(mem, a, type, i) ==
  IF Fields[type][i].kind = "message" /\ Member(mem, a, type, i).v # <<>>
  THEN ReleaseField(mem, a, type, i) ELSE mem
\* The tag of a union is written before the allocation.
Tagged(mem, a, type, i) ==
  LET f == Fields[type][i]
  IN  IF f.rule = "oneof" THEN With(mem, a, type, i, f.tag, Member(mem, a, type, i).v) ELSE mem
Grows(mem, top, i, k) ==
  LET room == Allocated(mem, top.at, top.type, i, k)
  IN  IF Fields[top.type][i].rule = "repeated" THEN Counted(room, top, i) ELSE room
InBlock(mem, top, i, k) ==
  Initialized(mem, top.type, i, <<Member(mem, top.at, top.type, i).v[1], k>>)
\* pb_dec_bytes allocates for itself.
DecodeAllocated(top, key, i, k, mem) ==
  IF Fields[top.type][i].kind = "bytes" THEN DecodeItem(top, key, i, k, mem)
  ELSE Refuse(mem) \/ DecodeItem(top, key, i, k, InBlock(Grows(mem, top, i, k), top, i, k))
DecodePointer(top, key, i, mem) ==
  LET type == top.type
      f == Fields[type][i]
      a == top.at
      count == Member(mem, a, type, i).n
  IN  IF f.rule # "repeated"
      THEN DecodeAllocated(top, key, i, 1, Tagged(ReleaseOld(mem, a, type, i), a, type, i))
      ELSE IF WireOf(key) = PB_WT_STRING /\ f.kind = "varint"
      THEN Prefixed(mem, LAMBDA length :
             Advance(<<key, length>>, Open(top, Packed(type, a, Len(read) + 2 + length, i, count)), mem))
      ELSE IF count = SizeMax THEN Fail(mem)
      ELSE DecodeAllocated(top, key, i, count + 1, mem)

\* decode_field.
DecodeField(top, key, i) ==
  LET f == Fields[top.type][i]
      mem == ReleaseUnion(m, top.at, top.type, i)
  IN  CASE f.store = "static" -> DecodeStatic(top, key, i, mem)
        [] f.store = "pointer" -> DecodePointer(top, key, i, mem)
        [] f.store = "callback" -> Skip(top, key)
-----------------------------------------------------------------------------
\* What pb_decode_noinit notes of a field before it decodes it: the one fixed count field
\* it follows, and the required fields seen.
IsFixed(f) == f.rule = "repeated" /\ f.store = "static" /\ ~f.counted
ShortFixed(top) == top.fixed # 0 /\ top.got # Fields[top.type][top.fixed].max
Noted(top, i) ==
  LET f == Fields[top.type][i]
      required == Cardinality({j \in 1..(i - 1) : Fields[top.type][j].rule = "required"})
  IN  [top EXCEPT !.fixed = IF IsFixed(f) THEN i ELSE @,
                  !.got = IF IsFixed(f) /\ top.fixed # i THEN 0 ELSE @,
                  !.seen = IF f.rule = "required" /\ required < MaxRequired THEN @ \cup {required} ELSE @]

\* One round of pb_decode_noinit's loop: a key that is zero ends the message.
DecodeKey(key) ==
  /\ status = "decoding" /\ Top.kind = "message" /\ Left > 0 /\ key # 0
  /\ LET found == IndexOf(Top.type, TagOf(key))
         i == Min(found)
     IN  IF found = {} THEN Skip(Top, key)
         ELSE IF IsFixed(Fields[Top.type][i]) /\ Top.fixed # i /\ ShortFixed(Top) THEN Fail(m)
         ELSE DecodeField(Noted(Top, i), key, i)

\* The checks at the end of a message.
RequiredFields(type) ==
  {r \in 0..(MaxRequired - 1) : r < Cardinality({i \in 1..Len(Fields[type]) : Fields[type][i].rule = "required"})}
\* pb_close_string_substream leaves out what the message did not read.  Mutant: it stays
\* in the stream.
LeftOut(n) == <<>>
Rest(n) == [k \in 1..n |-> Payload]
EndMessage ==
  /\ status = "decoding" /\ Top.kind = "message"
  /\ \E zero \in {<<>>, <<0>>} :
       /\ zero = <<>> <=> Left = 0
       /\ IF ShortFixed(Top) \/ ~(RequiredFields(Top.type) \subseteq Top.seen) THEN Fail(m)
          ELSE IF Len(frames) = 1
          THEN /\ status' = "ok" /\ read' = read \o zero /\ frames' = <<>>
               /\ UNCHANGED <<m, total, refusals>>
          ELSE Advance(zero \o Rest(Left - Len(zero)), SubSeq(frames, 1, Len(frames) - 1), m)

\* The loop over a packed array of a static member, and of a pointer, which grows to as
\* many items as may be left.
DecodePackedStatic ==
  LET f == Fields[Top.type][Top.i]
      parent == frames[Len(frames) - 1]
      count == Count(parent, Top.i, m)
  IN  IF ~HasRoom(count, f.max) THEN Fail(m)
      ELSE \E x \in Values :
             Advance(<<x>>, [frames EXCEPT ![Len(frames) - 1] = Counting(parent, Top.i)],
               Counted(StoreStatic(m, Top.at, Top.type, Top.i, count + 1, x), parent, Top.i))
Guess(top, f) == (Left - 1) \div f.size + 1
Grown(top, f) == IF Guess(top, f) < SizeMax - top.room THEN top.room + Guess(top, f) ELSE top.room + 1
DecodePackedPointer ==
  LET f == Fields[Top.type][Top.i]
      count == Member(m, Top.at, Top.type, Top.i).n
      room == IF count + 1 > Top.room THEN Grown(Top, f) ELSE Top.room
      mem == IF room = Top.room THEN m ELSE Allocated(m, Top.at, Top.type, Top.i, room)
  IN  IF count = SizeMax THEN Fail(m)
      ELSE \/ room # Top.room /\ Refuse(m)
           \/ \E x \in Values :
                Advance(<<x>>, Retop([Top EXCEPT !.room = room]),
                  Counted(StoreBlock(mem, Top.at, Top.type, Top.i, count + 1, x), Top, Top.i))
DecodePacked ==
  /\ status = "decoding" /\ Top.kind = "packed" /\ Left > 0
  /\ IF Fields[Top.type][Top.i].store = "static" THEN DecodePackedStatic ELSE DecodePackedPointer
EndPacked ==
  /\ status = "decoding" /\ Top.kind = "packed" /\ Left = 0
  /\ Advance(<<>>, SubSeq(frames, 1, Len(frames) - 1), m)

\* The caller is done with the message.
ReleaseMessage ==
  /\ status = "ok" /\ status' = "released"
  /\ m' = Release(m, Root, Dest)
  /\ UNCHANGED <<read, total, frames, refusals>>

Next ==
  \/ \E key \in Keys : DecodeKey(key)
  \/ EndMessage
  \/ DecodePacked
  \/ EndPacked
  \/ ReleaseMessage
Spec == Init /\ [][Next]_vars
-----------------------------------------------------------------------------
(***************************************************************************)
(* What a decoded message owes to its input and to the heap.               *)
(***************************************************************************)

\* A struct as the sequences of values that PbFormat's Meaning speaks of.
RECURSIVE View(_, _, _)
View(mem, type, a) ==
  [i \in 1..Len(Fields[type]) |->
    LET f == Fields[type][i]
        cell == Member(mem, a, type, i)
        absent == CASE f.store = "callback" -> TRUE
                    [] f.store = "pointer" /\ cell.v = <<>> -> TRUE
                    [] f.rule = "oneof" -> cell.n # f.tag
                    [] f.rule = "optional" /\ f.store = "static" -> cell.n = 0
                    [] OTHER -> FALSE
        count == IF f.rule # "repeated" THEN 1 ELSE IF f.counted THEN cell.n ELSE Len(cell.v)
        item(k) == CASE f.kind = "message" ->
                          View(mem, f.sub, IF f.store = "static" THEN a \o <<Slot(type, i), k>> ELSE <<cell.v[1], k>>)
                     [] f.store = "static" -> cell.v[k]
                     [] OTHER -> mem.blocks[cell.v[1]].items[k]
    IN  IF absent THEN <<>> ELSE [k \in 1..count |-> item(k)]]

\* The blocks that a struct, and what it points to, points to.
RECURSIVE Pointers(_, _, _)
Pointers(mem, type, a) ==
  FlattenSeq([i \in 1..Len(Fields[type]) |->
    LET f == Fields[type][i]
        cell == Member(mem, a, type, i)
        live == f.rule # "oneof" \/ cell.n = f.tag
        inner == [k \in 1..Len(Items(mem, a, type, i)) |->
                   LET at == Items(mem, a, type, i)[k]
                   IN  IF at \in DOMAIN mem.structs THEN Pointers(mem, f.sub, at) ELSE <<>>]
    IN  IF ~live THEN <<>>
        ELSE (IF f.store = "pointer" THEN cell.v ELSE <<>>) \o FlattenSeq(inner)])
-----------------------------------------------------------------------------
\* A message that is decoded says what its units say, in whatever order and however often
\* its fields come, with unknown fields between them.
DecodesMeaning ==
  status = "ok" /\ WellTyped(Root, Occurrences(read)) =>
    View(m, Root, Dest) = Meaning(Root, Occurrences(read))

\* Every block is pointed to from the message, once: none is lost and none is shared.
OwnedOnce ==
  status \in {"decoding", "ok"} =>
    LET p == Pointers(m, Root, Dest)
    IN  ToSet(p) = DOMAIN m.blocks /\ Len(p) = Cardinality(ToSet(p))

\* After pb_decode has failed, or the caller has released the message, no block is left.
NothingLeft == status \in {"failed", "released"} => m.blocks = <<>>

\* No block is freed or grown that is not allocated.
NothingFreedTwice == ~m.wrong

\* An array never has more entries than its struct or its block has room for.
EntriesFit ==
  status \in {"decoding", "ok"} =>
    \A k \in 1..Len(frames) \cup {0} :
      LET type == IF k = 0 THEN Root ELSE frames[k].type
          a == IF k = 0 THEN Dest ELSE frames[k].at
      IN  \A i \in 1..Len(Fields[type]) :
            LET f == Fields[type][i]
                cell == Member(m, a, type, i)
            IN  f.rule = "repeated" =>
                  IF f.store = "static" THEN cell.n <= f.max /\ Len(cell.v) <= f.max
                  ELSE cell.v = <<>> \/ cell.n <= m.blocks[cell.v[1]].room

\* A stream never reads past the streams it is in, and a decoded message is read to its end.
StreamsNest ==
  /\ \A k \in 1..Len(frames) : Len(read) <= frames[k].end /\ frames[k].end <= total
  /\ status = "ok" => Len(read) = total \/ (read # <<>> /\ read[Len(read)] = 0)
=============================================================================
