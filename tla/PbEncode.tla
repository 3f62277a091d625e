------------------------------- MODULE PbEncode -------------------------------
(***************************************************************************)
(* pb_encode of nanopb: a struct is written to a stream of limited size;   *)
(* each submessage is encoded twice, to know its length and to write it,    *)
(* and a callback may write something else the second time.                *)
(***************************************************************************)
EXTENDS PbFormat

CONSTANTS
  Root,    \* the message type encoded
  Structs, \* structs encoded: each field as the sequence of its values
  Scripts, \* what the callbacks write: for each call, a number of fields
  Sizes    \* bound: sizes of the buffer

VARIABLES
  struct, script, size,
  stream, \* after the encoding
  done

vars == <<struct, script, size, stream, done>>

\* A pb_ostream_t.  One that only sizes (PB_OSTREAM_SIZING) keeps no units.
Stream(max, calls) == [units |-> <<>>, written |-> 0, max |-> max, sizing |-> FALSE, ok |-> TRUE, calls |-> calls]
Sizing(calls) == [Stream(0, calls) EXCEPT !.sizing = TRUE]
Failed(s) == [s EXCEPT !.ok = FALSE]

\* pb_write.
Full(s, count) == s.written + count > s.max
Write(s, units) ==
  IF ~s.ok \/ units = <<>> THEN s
  ELSE IF s.sizing THEN [s EXCEPT !.written = @ + Len(units)]
  ELSE IF Full(s, Len(units)) THEN Failed(s)
  ELSE [s EXCEPT !.written = @ + Len(units), !.units = @ \o units]

\* pb_encode_tag_for_field.
WireFor(f) == IF f.kind = "varint" THEN PB_WT_VARINT ELSE PB_WT_STRING
EncodeTag(s, f) == Write(s, <<Key(f.tag, WireFor(f))>>)
EncodeString(s, units) == Write(Write(s, <<Len(units)>>), units)

\* pb_encode_submessage.
SameSize(sub, first) == sub.written = first
JustSizing(s, first) == [s EXCEPT !.written = @ + first]
RECURSIVE Encode(_, _, _)
EncodeSubmessage(s, type, v) ==
  LET sized == Encode(Sizing(s.calls), type, v)
      first == sized.written
      prefixed == [Write(s, <<first>>) EXCEPT !.calls = sized.calls]
      sub == Encode(Stream(first, sized.calls), type, v)
      merged == [prefixed EXCEPT !.written = @ + sub.written, !.units = @ \o sub.units, !.calls = sub.calls]
  IN  IF ~s.ok THEN s
      ELSE IF ~sized.ok THEN Failed([s EXCEPT !.calls = sized.calls])
      ELSE IF ~prefixed.ok THEN prefixed
      ELSE IF s.sizing THEN JustSizing(prefixed, first)
      ELSE IF Full(prefixed, first) THEN Failed(prefixed)
      ELSE IF SameSize(sub, first) /\ sub.ok THEN merged ELSE Failed(merged)

\* The function of the field's type: pb_enc_varint, pb_enc_bytes, pb_enc_submessage.
EncodeValue(s, f, x) ==
  CASE f.kind = "varint" -> Write(s, <<x>>)
    [] f.kind = "bytes" -> IF f.store = "static" /\ Len(x) > f.max THEN Failed(s) ELSE EncodeString(s, x)
    [] f.kind = "message" -> EncodeSubmessage(s, f.sub, x)

\* encode_array: numbers are packed.
EncodeArray(s, f, values) ==
  CASE values = <<>> -> s
    [] f.store = "static" /\ Len(values) > f.max -> Failed(s)
    [] f.kind = "varint" -> EncodeString(Write(s, <<Key(f.tag, PB_WT_STRING)>>), values)
    [] OTHER -> FoldLeft(LAMBDA acc, x : EncodeValue(EncodeTag(acc, f), f, x), s, values)

\* encode_callback_field: the callback writes whole fields, as its script says.
EncodeCallback(s, f) ==
  LET fields == script[(s.calls % Len(script)) + 1]
  IN  [Write(s, FlattenSeq([k \in 1..fields |-> <<Key(f.tag, PB_WT_VARINT), 1>>])) EXCEPT !.calls = @ + 1]

\* encode_basic_field.
EncodeField(s, f, values) ==
  CASE ~s.ok -> s
    [] f.store = "callback" -> EncodeCallback(s, f)
    [] f.rule = "repeated" -> EncodeArray(s, f, values)
    [] f.rule = "required" /\ values = <<>> -> Failed(s)
    [] OTHER -> FoldLeft(LAMBDA acc, x : EncodeValue(EncodeTag(acc, f), f, x), s, values)

\* pb_encode.
Encode(s, type, v) ==
  FoldLeft(LAMBDA acc, i : EncodeField(acc, Fields[type][i], v[i]), s, [i \in 1..Len(Fields[type]) |-> i])

Init ==
  /\ struct \in Structs /\ script \in Scripts /\ size \in Sizes
  /\ stream = Stream(size, 0) /\ done = FALSE
Next ==
  /\ ~done /\ done' = TRUE
  /\ stream' = Encode(stream, Root, struct)
  /\ UNCHANGED <<struct, script, size>>
Spec == Init /\ [][Next]_vars
-----------------------------------------------------------------------------
\* The stream never holds more than its buffer, whatever callbacks write.
NoOverrun == Len(stream.units) = stream.written /\ stream.written <= size

\* What is encoded means the struct, submessages with their lengths: a callback that
\* writes something else the second time makes the encoding fail.
EncodedMeans == done /\ stream.ok => Meaning(Root, Occurrences(stream.units)) = struct

\* A buffer of the size that pb_get_encoded_size gives is filled, and a smaller one
\* refused, when the callbacks write the same each time.
Steady == \A i, j \in 1..Len(script) : script[i] = script[j]
SizeIsExact ==
  done /\ Steady =>
    LET sized == Encode(Sizing(0), Root, struct)
    IN  /\ stream.ok <=> sized.ok /\ sized.written <= size
        /\ stream.ok => stream.written = sized.written
=============================================================================
