------------------------------- MODULE Coding -------------------------------
(***************************************************************************)
(* Numbers and strings as bytes (util/coding.cc).  A byte is 0..2*Radix-1: *)
(* a digit, plus Radix when another byte follows (7 bits and the eighth).  *)
(* A decoder answers [ok, value, rest].                                    *)
(***************************************************************************)
EXTENDS Integers, Sequences, FiniteSetsExt

CONSTANTS
  Radix, \* 2^7
  Word   \* 2^32, or 2^64

\* What the constants must be.
CodingAssumption == Radix \in Nat \ {0, 1} /\ Word \in Nat \ {0}

Byte == 0..(2 * Radix - 1)
Power[n \in Nat] == IF n = 0 THEN 1 ELSE Radix * Power[n - 1]
\* Bytes of a varint of v: the least n >= 1 that holds v.
VarintLength(v) == CHOOSE n \in 1..(v + 1) : v < Power[n] /\ (n = 1 \/ Power[n - 1] <= v)
MostBytes == VarintLength(Word - 1)

\* EncodeVarint32 and 64: digits from the lowest.
Digit(v, i) == (v \div Power[i - 1]) % Radix
PutVarint(v) ==
  LET n == VarintLength(v)
  IN  [i \in 1..n |-> Digit(v, i) + IF i < n THEN Radix ELSE 0]

Refused == [ok |-> FALSE, value |-> 0, rest |-> <<>>]
Read(v, rest) == [ok |-> TRUE, value |-> v, rest |-> rest]
RestFrom(s, i) == SubSeq(s, i, Len(s))

\* GetVarint32PtrFallback, GetVarint64Ptr: at most MostBytes bytes, and what the top
\* digit has beyond the word is shifted out.
Looked(input) == {i \in 1..Len(input) : i <= MostBytes}
\* The bytes that no other follows.
Ends(input) == {i \in Looked(input) : input[i] < Radix}
GetVarint(input) ==
  LET ends == Ends(input)
      n == Min(ends)
      sum[i \in 0..Len(input)] ==
        IF i = 0 THEN 0 ELSE sum[i - 1] + (input[i] % Radix) * Power[i - 1]
  IN  IF ends = {} THEN Refused ELSE Read(sum[n] % Word, RestFrom(input, n + 1))

PutLengthPrefixedSlice(s) == PutVarint(Len(s)) \o s
Fits(len, rest) == Len(rest) >= len
GetLengthPrefixedSlice(input) ==
  LET len == GetVarint(input)
  IN  IF len.ok /\ Fits(len.value, len.rest)
      THEN Read(SubSeq(len.rest, 1, len.value), RestFrom(len.rest, len.value + 1))
      ELSE Refused

=============================================================================
