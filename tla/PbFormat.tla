------------------------------- MODULE PbFormat -------------------------------
(***************************************************************************)
(* Messages of nanopb as field descriptors (pb.h) and what an encoded      *)
(* message means.  The wire is a sequence of units: a key, a length and a  *)
(* varint take one each (PbVarint has their bytes).                        *)
(***************************************************************************)
EXTENDS Integers, SequencesExt

CONSTANT Fields \* of each message type: a sequence of descriptors, as Field makes them

\* rule "required", "optional", "repeated", "oneof"; kind "varint", "bytes", "message";
\* store "static", "pointer", "callback" (a callback that is not set).  max: entries of a
\* static array, or units of static bytes; counted: the struct has a count; size: of an
\* item; sub: the message type; slot: the first member of a oneof, where its union is.
Field(tag, rule, kind, store, max, sub) ==
  [tag |-> tag, rule |-> rule, kind |-> kind, store |-> store, max |-> max,
   counted |-> TRUE, size |-> 1, sub |-> sub, slot |-> 0]

PB_WT_VARINT == 0
PB_WT_32BIT == 1 \* 32 bits: two units
PB_WT_STRING == 2
Key(tag, wire) == 4 * tag + wire
TagOf(key) == key \div 4
WireOf(key) == key % 4

IndexOf(type, tag) == {i \in 1..Len(Fields[type]) : Fields[type][i].tag = tag}
Slot(type, i) == IF Fields[type][i].rule = "oneof" THEN Fields[type][i].slot ELSE i
-----------------------------------------------------------------------------
\* The meaning of a message, from its units alone.  Each field is the sequence of its
\* values: none, one, or those of a repeated field.
Malformed == [tag |-> 0, wire |-> -1, body |-> <<>>]
Occurrences(units) ==
  LET from[p \in 1..(Len(units) + 1)] ==
        IF p > Len(units) \/ units[p] = 0 THEN <<>>
        ELSE LET wire == WireOf(units[p])
                 length == IF wire # PB_WT_STRING THEN wire ELSE IF p < Len(units) THEN units[p + 1] ELSE 0
                 next == p + 2 + length
             IN  IF wire > PB_WT_STRING \/ next > Len(units) + 1 THEN <<Malformed>>
                 ELSE <<[tag |-> TagOf(units[p]), wire |-> wire,
                         body |-> SubSeq(units, IF wire = PB_WT_STRING THEN p + 2 ELSE p + 1, next - 1)]>>
                      \o from[next]
  IN  from[1]

Of(type, i, occs) == SelectSeq(occs, LAMBDA o : o.tag = Fields[type][i].tag)

\* Every field is written with the wire type of its kind.
RECURSIVE WellTyped(_, _)
WellTyped(type, occs) ==
  \A k \in 1..Len(occs) :
    /\ occs[k] # Malformed
    /\ \A i \in IndexOf(type, occs[k].tag) :
         LET f == Fields[type][i]
         IN  IF f.kind = "varint" THEN occs[k].wire \in IF f.rule = "repeated" THEN {PB_WT_VARINT, PB_WT_STRING} ELSE {PB_WT_VARINT}
             ELSE /\ occs[k].wire = PB_WT_STRING
                  /\ f.kind = "message" => WellTyped(f.sub, Occurrences(occs[k].body))

LastOf(s) == IF s = <<>> THEN <<>> ELSE <<s[Len(s)]>>
\* A submessage stored in the struct gathers what its occurrences say; one that is
\* allocated, or in a union, is its last occurrence.
RECURSIVE Meaning(_, _)
Meaning(type, occs) ==
  [i \in 1..Len(Fields[type]) |->
    LET f == Fields[type][i]
        own == Of(type, i, occs)
        value(o) == CASE f.kind = "varint" -> o.body[1]
                      [] f.kind = "bytes" -> o.body
                      [] OTHER -> Meaning(f.sub, Occurrences(o.body))
        lastOfUnion == LastOf(SelectSeq(occs, LAMBDA o :
          \E j \in IndexOf(type, o.tag) : Slot(type, j) = Slot(type, i)))
    IN  CASE f.store = "callback" -> <<>>
          [] f.rule = "repeated" ->
               FlattenSeq([k \in 1..Len(own) |->
                 IF f.kind = "varint" THEN own[k].body ELSE <<value(own[k])>>])
          [] f.rule = "oneof" ->
               IF lastOfUnion # <<>> /\ lastOfUnion[1].tag = f.tag THEN <<value(lastOfUnion[1])>> ELSE <<>>
          [] f.kind = "message" /\ f.store = "static" ->
               IF own = <<>> THEN <<>>
               ELSE <<Meaning(f.sub, FlattenSeq([k \in 1..Len(own) |-> Occurrences(own[k].body)]))>>
          [] OTHER -> IF own = <<>> THEN <<>> ELSE <<value(own[Len(own)])>>]
=============================================================================
