------------------------------- MODULE Strings -------------------------------
(***************************************************************************)
(* Keys as strings of bytes, in bytewise order: Slice (slice.h) and        *)
(* BytewiseComparatorImpl (comparator.cc).                                 *)
(***************************************************************************)
EXTENDS Integers, Sequences

CONSTANT MaxByte \* 0xff

Upto(m, n) == IF m < n THEN m ELSE n
Shared(a, b) == \* length of the common prefix
  CHOOSE n \in 0..Upto(Len(a), Len(b)) :
    /\ \A i \in 1..n : a[i] = b[i]
    /\ n = Upto(Len(a), Len(b)) \/ a[n + 1] # b[n + 1]

\* Slice::compare: memcmp, and of a string and its prefix the prefix is less.
Before(a, b) ==
  LET n == Shared(a, b)
  IN  IF n = Upto(Len(a), Len(b)) THEN Len(a) < Len(b) ELSE a[n + 1] < b[n + 1]

\* A short string at least start and before limit.
ShortestSeparator(start, limit) ==
  LET n == Shared(start, limit)
  IN  IF /\ n < Upto(Len(start), Len(limit))
         /\ start[n + 1] < MaxByte /\ start[n + 1] + 1 < limit[n + 1]
      THEN Append(SubSeq(start, 1, n), start[n + 1] + 1)
      ELSE start

\* A short string not before key.
ShortSuccessor(key) ==
  IF \A i \in DOMAIN key : key[i] = MaxByte THEN key
  ELSE LET i == CHOOSE i \in DOMAIN key :
                  key[i] # MaxByte /\ \A j \in 1..(i - 1) : key[j] = MaxByte
       IN  Append(SubSeq(key, 1, i - 1), key[i] + 1)
=============================================================================
