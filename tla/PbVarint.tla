------------------------------- MODULE PbVarint -------------------------------
(***************************************************************************)
(* Varints of nanopb (pb_decode.c, pb_encode.c), read a byte at a time from *)
(* a stream that may hold any bytes.  A number is the set of its bits; a    *)
(* byte is a payload of K bits and whether another byte follows.            *)
(***************************************************************************)
EXTENDS Integers, FiniteSetsExt

CONSTANTS
  K,        \* payload bits of a byte: 7
  W32, W64, \* bits of the two widths: 32 and 64
  Counter,  \* values of the uint_fast8_t that counts bits: 256
  Widths,   \* widths of the integer fields, up to W64
  MaxBytes  \* bound: bytes of one varint

\* What the constants must be.
VarintAssumption ==
  /\ {K, W32, W64, Counter, MaxBytes} \cup Widths \subseteq Nat \ {0}
  /\ K < W32 /\ W32 < W64 /\ W64 + K <= Counter

VARIABLES
  decoder, \* "varint32" (pb_decode_varint32_eof) or "varint" (pb_decode_varint)
  result, bitpos,
  status,  \* "reading", "ok", "overflow"
  exact,   \* history: the bits of what was read, whatever their number
  n,       \* history: bytes read
  ended    \* history: the last byte has no other after it

vars == <<decoder, result, bitpos, status, exact, n, ended>>

\* bitpos of the last byte that has bits of a word: 28 of 32, 63 of 64.
LastByte(width) == ((width - 1) \div K) * K
All(width) == 0..(width - 1)
Shift(bits, by) == {b + by : b \in bits}
\* Sets of bits cut to a width, and extended from it by the sign.
Cut(bits, width) == bits \cap All(width)
Extend(bits, width) == IF width - 1 \in bits THEN bits \cup (width..(W64 - 1)) ELSE bits

VarintTypeOK ==
  /\ decoder \in {"varint32", "varint"} /\ status \in {"reading", "ok", "overflow"}
  /\ result \subseteq All(W64) /\ bitpos \in 0..(Counter - 1) /\ n \in 0..MaxBytes
  /\ ended \in BOOLEAN

Init ==
  /\ decoder \in {"varint32", "varint"}
  /\ result = {} /\ bitpos = 0 /\ status = "reading" /\ exact = {} /\ n = 0 /\ ended = FALSE

\* Beyond 32 bits only trailing zeros and the sign of a negative number may follow.
IsSign(more, p) ==
  IF bitpos < LastByte(W64) THEN more /\ p = All(K)
  ELSE ~more /\ p = All(W64 - LastByte(W64))
Beyond(more, p) == bitpos >= W32 /\ p # {} /\ ~(W32 - 1 \in result /\ IsSign(more, p))
\* The last byte was at bitpos 28, so only the bits that fit may be set in it.
TooHigh(more, p) ==
  ~more /\ bitpos = LastByte(W32) /\ n > 0 /\ p \cap (All(K) \ All(W32 - LastByte(W32))) # {}

\* What both decoders do with a byte's payload; bitpos wraps as its type does.
Kept(p, width) == IF bitpos >= width THEN {} ELSE Cut(Shift(p, bitpos), width)
Advanced == (bitpos + K) % Counter
Take(more, p, width) ==
  /\ exact' = exact \cup Shift(p, n * K) /\ n' = n + 1 /\ ended' = ~more
  /\ result' = result \cup Kept(p, width)
  /\ bitpos' = Advanced
  /\ UNCHANGED decoder

Byte32(more, p) ==
  /\ decoder = "varint32" /\ status = "reading" /\ n < MaxBytes
  /\ Take(more, p, W32)
  /\ status' = IF Beyond(more, p) \/ TooHigh(more, p) THEN "overflow"
               ELSE IF more THEN "reading" ELSE "ok"

\* The 64-bit decoder reads no byte at bitpos 64 or later.
Room == bitpos < W64
Byte64(more, p) ==
  /\ decoder = "varint" /\ status = "reading" /\ n < MaxBytes
  /\ IF Room THEN Take(more, p, W64) /\ status' = IF more THEN "reading" ELSE "ok"
     ELSE status' = "overflow" /\ UNCHANGED <<decoder, result, bitpos, exact, n, ended>>

Next == \E more \in BOOLEAN, p \in SUBSET All(K) : Byte32(more, p) \/ Byte64(more, p)
Spec == Init /\ [][Next]_vars
-----------------------------------------------------------------------------
\* pb_encode_varint: bytes of a number's encoding.
EncodedLength(v) == IF v = {} THEN 1 ELSE Max(v) \div K + 1

\* Zig-zag numbers: pb_encode_svarint and pb_decode_svarint.
ZigZag(v) == IF W64 - 1 \in v THEN All(W64) \ Cut(Shift(v, 1), W64) ELSE Shift(v, 1)
UnZigZag(z) ==
  LET half == {b - 1 : b \in z \ {0}}
  IN  IF 0 \in z THEN All(W64) \ half ELSE half

\* pb_dec_varint, pb_dec_uvarint, pb_dec_svarint into a field of some width: the value,
\* or "too large".
Signed(value, width) == IF width = W64 THEN value ELSE Extend(Cut(value, W32), W32)
Held(value, width, back) == IF back = value THEN Cut(value, width) ELSE {-1}
DecVarint(value, width) ==
  LET s == Signed(value, width) IN Held(s, width, Extend(Cut(s, width), width))
DecUvarint(value, width) == Held(value, width, Cut(value, width))
DecSvarint(value, width) ==
  LET s == UnZigZag(value) IN Held(s, width, Extend(Cut(s, width), width))
-----------------------------------------------------------------------------
\* What was read so far begins a number that 32 bits hold: a small one, or a negative one
\* spread over 64 bits as pb_enc_varint writes it.
Negative ==
  /\ W32 - 1 \in exact /\ exact \subseteq All(W64) /\ (ended \/ n * K < W64)
  /\ (W32..(IF ended THEN W64 - 1 ELSE n * K - 1)) \cap All(W64) \subseteq exact
IsNarrow == exact \subseteq All(W32) \/ Negative

\* A varint that 32 bits hold is never refused: a small number with any zeros after it,
\* a negative one with its sign up to the 64th bit.
NarrowIsTaken == decoder = "varint32" /\ status = "overflow" => ~IsNarrow

\* A varint32 of the bytes a 32-bit number needs at most is taken only when the number
\* fits, and whole.
ShortIsExact ==
  decoder = "varint32" /\ status = "ok" /\ n * K <= LastByte(W32) + K => result = exact

\* Until the bit counter wraps, no trailing byte changes the bits that were kept.
LowBitsKept ==
  status # "overflow" /\ n * K <= Counter =>
    result = Cut(exact, IF decoder = "varint" THEN W64 ELSE W32)

\* The 64-bit decoder takes every encoding of a 64-bit number, and stops at the bytes it
\* needs at most.
WideIsTaken ==
  decoder = "varint" =>
    /\ status = "overflow" => n = EncodedLength(All(W64))
    /\ status = "ok" => n <= EncodedLength(All(W64))

\* A field of any width and sign is read back as it was written.
FieldRoundTrip ==
  decoder = "varint" /\ status = "ok" /\ n = EncodedLength(exact) =>
    \A w \in Widths :
      LET field == Cut(result, w)
          wide == Extend(field, w)
      IN  /\ DecVarint(wide, w) = field
          /\ DecUvarint(field, w) = field
          /\ DecSvarint(ZigZag(wide), w) = field

=============================================================================
