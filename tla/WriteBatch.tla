----------------------------- MODULE WriteBatch -----------------------------
(***************************************************************************)
(* Batches of updates (db/write_batch.cc): built by calls, appended to one *)
(* another, and read entry by entry into a memtable, from memory or as the *)
(* log gave them back (DBImpl::RecoverLogFile).                            *)
(***************************************************************************)
EXTENDS Coding

CONSTANTS
  Batches, Keys, Values, \* names of batches; strings
  Sequences,             \* numbers given to a batch
  MaxOps                 \* bound: operations in all batches

\* What the constants must be.
BatchAssumption ==
  /\ Keys \subseteq Seq(Byte) /\ Values \subseteq Seq(Byte) /\ MaxOps \in Nat
  /\ Sequences \subseteq Nat \ {0}
  /\ Radix > 2 \* the tags are single bytes

VARIABLES
  rep,      \* of each batch: [seq, count, body], the header and the records
  ops,      \* of each batch: the operations it was given, in order
  record,   \* the batch that is being read back, NoBatch before
  whole,    \* the operations of the batch that was read back
  input, found, status, \* of Iterate; status is "none", "reading", "ok" or "corruption"
  sequence, \* sequence_ of the inserter
  mem,      \* what the memtable was given: [seq, op]
  cut, changed, \* the record lost bytes, or one of its bytes was changed
  maxSequence   \* *max_sequence

readVars == <<record, whole, input, found, status, sequence, mem, cut, changed, maxSequence>>
vars == <<rep, ops, readVars>>

NoBatch == "none"
kTypeDeletion == 0
kTypeValue == 1
Empty == [seq |-> 0, count |-> 0, body |-> <<>>]

Init ==
  /\ rep = [b \in Batches |-> Empty] /\ ops = [b \in Batches |-> <<>>]
  /\ record = NoBatch /\ whole = <<>> /\ input = <<>> /\ found = 0 /\ status = "none"
  /\ sequence = 0 /\ mem = <<>> /\ cut = FALSE /\ changed = FALSE /\ maxSequence = 0
-----------------------------------------------------------------------------
\* SetCount(Count + n), while the bound allows n more operations.
Counted(b, n) == (rep[b].count + n) % Word
Room(n) == MapThenSumSet(LAMBDA b : Len(ops[b]), Batches) + n <= MaxOps
CountOf(src) == rep[src].count

Put(b, k, v) ==
  /\ record = NoBatch /\ Room(1)
  /\ rep' = [rep EXCEPT ![b].count = Counted(b, 1),
       ![b].body = @ \o <<kTypeValue>> \o PutLengthPrefixedSlice(k) \o PutLengthPrefixedSlice(v)]
  /\ ops' = [ops EXCEPT ![b] = Append(@, <<kTypeValue, k, v>>)]
  /\ UNCHANGED readVars

Delete(b, k) ==
  /\ record = NoBatch /\ Room(1)
  /\ rep' = [rep EXCEPT ![b].count = Counted(b, 1),
       ![b].body = @ \o <<kTypeDeletion>> \o PutLengthPrefixedSlice(k)]
  /\ ops' = [ops EXCEPT ![b] = Append(@, <<kTypeDeletion, k, <<>>>>)]
  /\ UNCHANGED readVars

\* WriteBatch::Append; the source may be the batch itself.
AppendBatch(b, src) ==
  /\ record = NoBatch /\ Room(Len(ops[src]))
  /\ rep' = [rep EXCEPT ![b].count = Counted(b, CountOf(src)), ![b].body = @ \o rep[src].body]
  /\ ops' = [ops EXCEPT ![b] = @ \o ops[src]]
  /\ UNCHANGED readVars

Clear(b) ==
  /\ record = NoBatch /\ ops[b] # <<>>
  /\ rep' = [rep EXCEPT ![b] = Empty] /\ ops' = [ops EXCEPT ![b] = <<>>]
  /\ UNCHANGED readVars

\* SetSequence, then InsertInto: the batch is read whole, or as a record that lost bytes
\* from its end or has one changed.
Insert(b, seq) ==
  /\ record = NoBatch /\ ops[b] # <<>>
  /\ record' = b /\ whole' = ops[b]
  /\ rep' = [rep EXCEPT ![b].seq = seq]
  /\ \/ input' = rep[b].body /\ UNCHANGED <<cut, changed>>
     \/ /\ \E n \in 0..(Len(rep[b].body) - 1) : input' = SubSeq(rep[b].body, 1, n)
        /\ cut' = TRUE /\ UNCHANGED changed
     \/ /\ \E i \in 1..Len(rep[b].body), x \in Byte :
             x # rep[b].body[i] /\ input' = [rep[b].body EXCEPT ![i] = x]
        /\ changed' = TRUE /\ UNCHANGED cut
  /\ found' = 0 /\ status' = "reading" /\ sequence' = seq
  /\ UNCHANGED <<ops, mem, maxSequence>>
-----------------------------------------------------------------------------
\* One record of Iterate: [ok, op, rest].
Entry ==
  LET rest == Tail(input)
      key == GetLengthPrefixedSlice(rest)
      value == GetLengthPrefixedSlice(key.rest)
  IN  CASE Head(input) = kTypeValue ->
             [ok |-> key.ok /\ value.ok, op |-> <<kTypeValue, key.value, value.value>>, rest |-> value.rest]
        [] Head(input) = kTypeDeletion ->
             [ok |-> key.ok, op |-> <<kTypeDeletion, key.value, <<>>>>, rest |-> key.rest]
        [] OTHER -> [ok |-> FALSE, op |-> <<>>, rest |-> <<>>]

\* What InsertInto's caller does when it returns: RecoverLogFile takes the last number
\* of the batch from its header, also after an error that MaybeIgnoreError drops.
Last(b) == rep[b].seq + rep[b].count - 1
Returns(s) == status' = s /\ maxSequence' = Last(record)

Iterate ==
  /\ status = "reading" /\ input # <<>>
  /\ found' = found + 1
  /\ IF Entry.ok
     THEN /\ mem' = Append(mem, [seq |-> sequence, op |-> Entry.op])
          /\ sequence' = sequence + 1 /\ input' = Entry.rest
          /\ UNCHANGED <<status, maxSequence>>
     ELSE Returns("corruption") /\ UNCHANGED <<mem, sequence, input>>
  /\ UNCHANGED <<rep, ops, record, whole, cut, changed>>

CountIsRight == found = rep[record].count
IterateEnds ==
  /\ status = "reading" /\ input = <<>>
  /\ Returns(IF CountIsRight THEN "ok" ELSE "corruption")
  /\ UNCHANGED <<rep, ops, record, whole, input, found, sequence, mem, cut, changed>>

Build ==
  \E b \in Batches :
    \/ \E k \in Keys : Delete(b, k) \/ \E v \in Values : Put(b, k, v)
    \/ \E src \in Batches : AppendBatch(b, src)
    \/ Clear(b)
    \/ \E seq \in Sequences : Insert(b, seq)
Next == Build \/ Iterate \/ IterateEnds
Spec == Init /\ [][Next]_vars
-----------------------------------------------------------------------------
Returned == status \in {"ok", "corruption"}
Applied == [i \in 1..Len(mem) |-> mem[i].op]

\* A batch read back whole gives the memtable its operations, each with the next number,
\* and OK.
BatchIsItsOperations ==
  Returned /\ ~cut /\ ~changed =>
    /\ status = "ok" /\ Applied = whole
    /\ \A i \in 1..Len(mem) : mem[i].seq = rep[record].seq + i - 1

\* A batch cut short applies its operations up to the cut, and is reported, also when the
\* cut is between two records.
CutIsReported ==
  Returned /\ cut =>
    /\ status = "corruption" /\ Len(mem) < Len(whole)
    /\ \A i \in 1..Len(mem) : mem[i].op = whole[i]

\* Whatever byte was changed, OK is returned for as many entries as the header says.
OkMeansAllOfThem == status = "ok" => Len(mem) = rep[record].count

\* Unless a changed byte made more records of a batch, recovery goes on numbering above
\* every number it has used, also when it ignored an error.
NumbersNotReused ==
  Returned /\ ~changed => \A i \in 1..Len(mem) : mem[i].seq <= maxSequence

\* The numbers that recovery skips are those of the batch: the next batch is numbered
\* right after this one was.
NumbersFollow == Returned => maxSequence - rep[record].seq + 1 = Len(whole)
=============================================================================
