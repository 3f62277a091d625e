----------------------------- MODULE VersionEdit -----------------------------
(***************************************************************************)
(* A change to the set of tables, as the record of a MANIFEST              *)
(* (db/version_edit.cc): built by calls, encoded, read back field by       *)
(* field, perhaps from fewer bytes or with one of them changed.  Recover   *)
(* decodes each record into a fresh edit.                                  *)
(***************************************************************************)
EXTENDS Coding

CONSTANTS
  kNumLevels,
  Names,        \* comparator names, strings
  Numbers,      \* file and sequence numbers
  InternalKeys, \* strings
  MaxFields     \* bound: fields of an edit

\* What the constants must be.
EditAssumption ==
  /\ kNumLevels \in 1..(Radix - 1) /\ Radix > 9 \* tags and levels are single bytes
  /\ Names \cup InternalKeys \subseteq Seq(Byte)
  /\ Numbers \subseteq 0..(Word - 1) /\ MaxFields \in Nat

VARIABLES
  edit,   \* the edit that is written
  record, \* its bytes, and what is left of them while they are read
  parsed, \* the edit that is read
  phase,  \* "building", "reading", "ok" or "corruption"
  cut, changed \* the record lost bytes, or has a changed one

vars == <<edit, record, parsed, phase, cut, changed>>

LOCAL Seqs == INSTANCE SequencesExt

kComparator == 1
kLogNumber == 2
kNextFileNumber == 3
kLastSequence == 4
kCompactPointer == 5
kDeletedFile == 6
kNewFile == 7
kPrevLogNumber == 9

\* A field that was not set is {}, one that was is a singleton: has_ and the value.
NumberTags == {kLogNumber, kPrevLogNumber, kNextFileNumber, kLastSequence}
Fresh == [comparator |-> {}, number |-> [t \in NumberTags |-> {}],
          pointers |-> <<>>, deleted |-> {}, files |-> <<>>]
Level == 0..(kNumLevels - 1)
Fields(e) ==
  Cardinality(e.comparator) + MapThenSumSet(LAMBDA t : Cardinality(e.number[t]), NumberTags)
    + Len(e.pointers) + Cardinality(e.deleted) + Len(e.files)

Init ==
  /\ edit = Fresh /\ record = <<>> /\ parsed = Fresh /\ phase = "building"
  /\ cut = FALSE /\ changed = FALSE

\* The setters.  A table has a number, a size, its smallest and its largest key.
Set ==
  /\ phase = "building" /\ Fields(edit) < MaxFields
  /\ \/ \E n \in Names : edit' = [edit EXCEPT !.comparator = {n}]
     \/ \E t \in NumberTags, n \in Numbers : edit' = [edit EXCEPT !.number[t] = {n}]
     \/ \E l \in Level, k \in InternalKeys : edit' = [edit EXCEPT !.pointers = Append(@, <<l, k>>)]
     \/ \E l \in Level, n \in Numbers : edit' = [edit EXCEPT !.deleted = @ \cup {<<l, n>>}]
     \/ \E l \in Level, n, size \in Numbers, k \in InternalKeys, m \in InternalKeys :
          edit' = [edit EXCEPT !.files = Append(@, <<l, n, size, k, m>>)]
  /\ UNCHANGED <<record, parsed, phase, cut, changed>>
-----------------------------------------------------------------------------
Flat(seqs) == Seqs!FlattenSeq(seqs)
Each(s, Encoding(_)) == Flat([i \in 1..Len(s) |-> Encoding(s[i])])
\* Deleted files are kept in order of level and number.
InOrder(pairs) ==
  Seqs!SetToSortSeq(pairs, LAMBDA p, q : p[1] < q[1] \/ (p[1] = q[1] /\ p[2] < q[2]))
NumberField(tag) == Each(Seqs!SetToSeq(edit.number[tag]), LAMBDA n : PutVarint(tag) \o PutVarint(n))
ComparatorField ==
  Each(Seqs!SetToSeq(edit.comparator),
       LAMBDA n : PutVarint(kComparator) \o PutLengthPrefixedSlice(n))
FileField(f) ==
  PutVarint(kNewFile) \o PutVarint(f[1]) \o PutVarint(f[2]) \o PutVarint(f[3])
    \o PutLengthPrefixedSlice(f[4]) \o PutLengthPrefixedSlice(f[5])

EncodeTo ==
  ComparatorField \o NumberField(kLogNumber) \o NumberField(kPrevLogNumber)
    \o NumberField(kNextFileNumber) \o NumberField(kLastSequence)
    \o Each(edit.pointers, LAMBDA p : PutVarint(kCompactPointer) \o PutVarint(p[1]) \o PutLengthPrefixedSlice(p[2]))
    \o Each(InOrder(edit.deleted), LAMBDA p : PutVarint(kDeletedFile) \o PutVarint(p[1]) \o PutVarint(p[2]))
    \o Each(edit.files, FileField)

\* The record is read back whole, cut short, or with a changed byte.
Encode ==
  /\ phase = "building" /\ edit # Fresh /\ phase' = "reading"
  /\ LET bytes == EncodeTo
     IN  \/ record' = bytes /\ UNCHANGED <<cut, changed>>
         \/ /\ \E n \in 0..(Len(bytes) - 1) : record' = SubSeq(bytes, 1, n)
            /\ cut' = TRUE /\ UNCHANGED changed
         \/ /\ \E i \in 1..Len(bytes), b \in Byte :
               b # bytes[i] /\ record' = [bytes EXCEPT ![i] = b]
            /\ changed' = TRUE /\ UNCHANGED cut
  /\ UNCHANGED <<edit, parsed>>
-----------------------------------------------------------------------------
\* GetLevel.
LevelExists(v) == v < kNumLevels
GetLevel(input) ==
  LET v == GetVarint(input) IN IF v.ok /\ LevelExists(v.value) THEN v ELSE Refused

\* The parts of a field, one after the other: [ok, value: the parts, rest].
GetPart(kind, input) ==
  CASE kind = "level" -> GetLevel(input)
    [] kind = "number" -> GetVarint(input)
    [] kind = "slice" -> GetLengthPrefixedSlice(input)
GetParts(kinds, input) ==
  LET got[n \in 0..Len(kinds)] ==
        IF n = 0 THEN [ok |-> TRUE, value |-> <<>>, rest |-> input]
        ELSE LET before == got[n - 1]
                 part == GetPart(kinds[n], before.rest)
             IN  IF before.ok /\ part.ok
                 THEN Read(Append(before.value, part.value), part.rest) ELSE Refused
  IN  got[Len(kinds)]
PartsOf(tag) ==
  CASE tag \in NumberTags -> <<"number">>
    [] tag = kComparator -> <<"slice">>
    [] tag = kCompactPointer -> <<"level", "slice">>
    [] tag = kDeletedFile -> <<"level", "number">>
    [] tag = kNewFile -> <<"level", "number", "number", "slice", "slice">>

With(e, tag, v) ==
  CASE tag \in NumberTags -> [e EXCEPT !.number[tag] = {v[1]}]
    [] tag = kComparator -> [e EXCEPT !.comparator = {v[1]}]
    [] tag = kCompactPointer -> [e EXCEPT !.pointers = Append(@, v)]
    [] tag = kDeletedFile -> [e EXCEPT !.deleted = @ \cup {v}]
    [] tag = kNewFile -> [e EXCEPT !.files = Append(@, v)]

\* One turn of DecodeFrom's loop, and its end: left-over bytes are an invalid tag.
NothingLeft == record = <<>>
DecodeField ==
  /\ phase = "reading"
  /\ LET tag == GetVarint(record)
         parts == GetParts(PartsOf(tag.value), tag.rest)
     IN  IF ~tag.ok
         THEN /\ phase' = IF NothingLeft THEN "ok" ELSE "corruption"
              /\ UNCHANGED <<record, parsed>>
         ELSE IF tag.value \in NumberTags \cup {kComparator, kCompactPointer, kDeletedFile, kNewFile}
                 /\ parts.ok
         THEN /\ parsed' = With(parsed, tag.value, parts.value)
              /\ record' = parts.rest /\ UNCHANGED phase
         ELSE phase' = "corruption" /\ UNCHANGED <<record, parsed>>
  /\ UNCHANGED <<edit, cut, changed>>

Next == Set \/ Encode \/ DecodeField
Spec == Init /\ [][Next]_vars
-----------------------------------------------------------------------------
\* What is written is read back: every field, in its order.
EditReadBack == phase = "ok" /\ ~cut /\ ~changed => parsed = edit
NeverRefusedWhole == ~cut /\ ~changed => phase # "corruption"

\* A record cut short is refused unless the cut is between two fields; no field is read
\* that was not written.
PrefixOf(s, t) == Len(s) <= Len(t) /\ s = SubSeq(t, 1, Len(s))
CutInventsNothing ==
  ~changed =>
    /\ parsed.comparator \subseteq edit.comparator
    /\ \A t \in NumberTags : parsed.number[t] \subseteq edit.number[t]
    /\ PrefixOf(parsed.pointers, edit.pointers) /\ PrefixOf(parsed.files, edit.files)
    /\ parsed.deleted \subseteq edit.deleted
    /\ phase = "ok" /\ cut => Fields(parsed) < Fields(edit)

\* Whatever byte was changed, the levels that are read index the arrays of a version.
LevelsInRange ==
  /\ \A i \in 1..Len(parsed.pointers) : parsed.pointers[i][1] \in Level
  /\ \A p \in parsed.deleted : p[1] \in Level
  /\ \A i \in 1..Len(parsed.files) : parsed.files[i][1] \in Level
=============================================================================
