------------------------------ MODULE LogFormat ------------------------------
(***************************************************************************)
(* The log and MANIFEST format of leveldb (log_writer.cc, log_reader.cc):  *)
(* records in fragments that never cross a block, written until something  *)
(* goes wrong with the file, then read back from the start or an offset.   *)
(*                                                                         *)
(* A byte is named by the fragment it was written for and its place in it, *)
(* so that checksums tell a byte that belongs from one that does not.      *)
(***************************************************************************)
EXTENDS Integers, Sequences, FiniteSets, SequencesExt

CONSTANTS
  BlockSize,      \* kBlockSize
  HeaderSize,     \* kHeaderSize
  Lengths,        \* lengths of the records
  InitialOffsets, \* initial_offset_ of the reader
  Records,        \* bound: records added
  Failures,       \* bound: appends that fail
  Damages,        \* bound: bytes of the file that change
  Reuses          \* bound: writers that go on with a file (options.reuse_logs)

\* What the constants must be.
FormatAssumption ==
  /\ {BlockSize, HeaderSize} \subseteq Nat \ {0} /\ HeaderSize < BlockSize
  /\ Lengths \subseteq Nat /\ InitialOffsets \subseteq Nat
  /\ {Records, Failures, Damages, Reuses} \subseteq Nat

VARIABLES
  file,         \* bytes of the log
  fragments,    \* every fragment ever emitted
  blockOffset,  \* block_offset_ of the writer
  adding,       \* {} or the singleton of what AddRecord still has to emit
  records,      \* records added: "adding", "added" or "failed"
  phase,        \* "writing" or "reading"
  left,         \* what is left of the bounds
  reader        \* the reader: see NewReader

vars == <<file, fragments, blockOffset, adding, records, phase, left, reader>>
writerVars == <<blockOffset, adding, records, phase>>
-----------------------------------------------------------------------------
Byte(f, n) == [fragment |-> f, at |-> n]
Zero == Byte(0, 0)
Damaged == Byte(-1, 0)
Bytes(f, length) == [n \in 1..HeaderSize + length |-> Byte(f, n)]
NoBytes == <<>>

NewReader(offset) ==
  [pos |-> 0,           \* bytes before buffer_
   end |-> 0,           \* end_of_buffer_offset_
   eof |-> FALSE,
   initial |-> offset,
   started |-> FALSE,   \* SkipToInitialBlock was called
   resyncing |-> offset > 0,
   fragmented |-> FALSE,  \* in_fragmented_record
   scratch |-> <<>>,      \* the fragments in scratch
   start |-> 0,           \* prospective_record_offset
   out |-> <<>>,          \* what was returned: fragments and record offset
   dropped |-> 0,         \* times a corruption was reported
   done |-> FALSE]

Init ==
  /\ file = NoBytes /\ fragments = <<>> /\ records = <<>>
  /\ blockOffset = 0 /\ adding = {}
  /\ phase = "writing"
  /\ left = [failures |-> Failures, damages |-> Damages, reuses |-> Reuses]
  /\ \E offset \in InitialOffsets : reader = NewReader(offset)
-----------------------------------------------------------------------------
(***************************************************************************)
(* Writer.                                                                 *)
(***************************************************************************)
AddRecord(length) ==
  /\ phase = "writing" /\ adding = {} /\ Len(records) < Records
  /\ records' = Append(records, "adding")
  /\ adding' = {[left |-> length, begin |-> TRUE]}
  /\ UNCHANGED <<file, fragments, blockOffset, phase, left, reader>>

\* Where the next fragment goes and what comes before it.
Fits == BlockSize - blockOffset >= HeaderSize
Trailer == IF Fits THEN NoBytes ELSE [n \in 1..BlockSize - blockOffset |-> Zero]
Start == IF Fits THEN blockOffset ELSE 0

Type(begin, end) ==
  IF begin THEN IF end THEN "full" ELSE "first"
           ELSE IF end THEN "last" ELSE "middle"

\* A pass of the loop of AddRecord with EmitPhysicalRecord: of the trailer and
\* the fragment, n bytes reach the file.
Emit(n) ==
  \E a \in adding :
    LET avail == BlockSize - Start - HeaderSize
        length == IF a.left < avail THEN a.left ELSE avail
        end == a.left = length
        bytes == Trailer \o Bytes(Len(fragments) + 1, length)
        ok == n = Len(bytes)
    IN  /\ n <= Len(bytes)
        /\ ok \/ left.failures > 0
        /\ file' = file \o SubSeq(bytes, 1, n)
        /\ fragments' = Append(fragments, [record |-> Len(records), length |-> length,
                                           type |-> Type(a.begin, end)])
        /\ blockOffset' = Start + HeaderSize + length
        /\ adding' = IF ok /\ ~end
                     THEN {[left |-> a.left - length, begin |-> FALSE]} ELSE {}
        /\ records' = [records EXCEPT ![Len(records)] =
                         IF ~ok THEN "failed" ELSE IF end THEN "added" ELSE @]
        /\ left' = [left EXCEPT !.failures = IF ok THEN @ ELSE @ - 1]
        /\ UNCHANGED <<phase, reader>>

EmitPhysicalRecord == phase = "writing" /\ \E n \in 0..BlockSize + HeaderSize : Emit(n)

\* A crash leaves the first n bytes of the file.
Crash(n) ==
  /\ phase = "writing"
  /\ file' = SubSeq(file, 1, n)
  /\ phase' = "reading"
  /\ UNCHANGED <<fragments, blockOffset, adding, records, left, reader>>

\* The file is recovered, and a new writer goes on behind what it holds
\* (DBImpl::RecoverLogFile).
ReuseLog(n) ==
  /\ phase = "writing" /\ left.reuses > 0
  /\ file' = SubSeq(file, 1, n)
  /\ blockOffset' = n % BlockSize
  /\ adding' = {}
  /\ left' = [left EXCEPT !.reuses = @ - 1]
  /\ UNCHANGED <<fragments, records, phase, reader>>

\* A byte goes bad on the disk.
Damage(i) ==
  /\ phase = "reading" /\ ~reader.started /\ left.damages > 0
  /\ file' = [file EXCEPT ![i] = Damaged]
  /\ left' = [left EXCEPT !.damages = @ - 1]
  /\ UNCHANGED <<fragments, writerVars, reader>>
-----------------------------------------------------------------------------
(***************************************************************************)
(* Reader.                                                                 *)
(***************************************************************************)
Reader(r) ==
  /\ phase = "reading" /\ ~reader.done
  /\ reader' = r
  /\ UNCHANGED <<file, fragments, writerVars, left>>

\* The start of the first block that may hold a record from the offset on.
InitialBlock(offset) ==
  LET inBlock == offset % BlockSize
  IN  offset - inBlock + (IF inBlock > BlockSize - (HeaderSize - 1)
                          THEN BlockSize ELSE 0)

SkipToInitialBlock ==
  /\ ~reader.started
  /\ LET from == InitialBlock(reader.initial)
     IN  Reader([reader EXCEPT !.started = TRUE, !.pos = from, !.end = from])

\* What ReadPhysicalRecord returns: a type, the fragment if there is one, the
\* buffer it leaves, and whether it reports a corruption of so many bytes.
Result(type, fragment, pos, reported, bytes) ==
  [type |-> type, fragment |-> fragment, pos |-> pos,
   reported |-> reported, bytes |-> bytes]

\* The buffer once it holds a header or the file has ended.
HasHeader(pos, end) == end - pos >= HeaderSize
BlockEnd == IF Len(file) - reader.end >= BlockSize THEN reader.end + BlockSize
            ELSE IF Len(file) > reader.end THEN Len(file) ELSE reader.end
Refill ==
  IF HasHeader(reader.pos, reader.end) \/ reader.eof THEN reader
  ELSE [reader EXCEPT !.pos = reader.end, !.end = BlockEnd,
                      !.eof = BlockEnd - reader.end < BlockSize]

\* The fragment whose header is at pos: of a header that is none, the length
\* can be anything.
HeaderAt(pos) == {f \in 1..Len(fragments) :
                    \A n \in 1..HeaderSize : file[pos + n] = Byte(f, n)}
Blank(pos) == \A n \in 1..HeaderSize : file[pos + n] = Zero
Sound(f, pos) ==
  \A n \in 1..HeaderSize + fragments[f].length : file[pos + n] = Byte(f, n)

\* A length beyond the buffer, or a checksum that does not match: the rest of the
\* buffer goes.  Mutant: a cut is a corruption.
BadLengthReported(b) == Result("bad", 0, b.end, TRUE, b.end - b.pos)
BadLength(b) == IF b.eof THEN Result("eof", 0, b.end, FALSE, 0)
                ELSE Result("bad", 0, b.end, TRUE, b.end - b.pos)
BadChecksum(b) == Result("bad", 0, b.end, TRUE, b.end - b.pos)
Skipped(b) == Result("bad", 0, b.end, FALSE, 0)

\* The checksum, and the test that leaves out what begins before the initial offset.
Verified(f, pos) == Sound(f, pos)
Before(b) == b.pos < b.initial

ReadPhysicalRecord(b) ==
  IF ~HasHeader(b.pos, b.end) THEN {Result("eof", 0, b.end, FALSE, 0)}
  ELSE IF Blank(b.pos) THEN {Skipped(b)}
  ELSE IF HeaderAt(b.pos) = {} THEN {BadLength(b), BadChecksum(b), Skipped(b)}
  ELSE {LET after == b.pos + HeaderSize + fragments[f].length
        IN  IF after > b.end THEN BadLength(b)
            ELSE IF ~Verified(f, b.pos) THEN BadChecksum(b)
            ELSE IF Before(b) THEN Result("bad", 0, after, FALSE, 0)
            ELSE Result(fragments[f].type, f, after, FALSE, 0)
          : f \in HeaderAt(b.pos)}

\* ReportDrop: only what lies behind the initial offset.
Reports(r, reported, bytes, b) ==
  IF reported /\ r.pos - bytes >= b.initial THEN 1 ELSE 0

LengthOf(scratch) ==
  FoldLeft(LAMBDA sum, f : sum + fragments[f].length, 0, scratch)

\* The switch of ReadRecord.  b is the reader with the outcome r of
\* ReadPhysicalRecord taken in.
Returned(b, scratch, start) ==
  [b EXCEPT !.out = Append(@, [fragments |-> scratch, offset |-> start]),
            !.scratch = <<>>, !.fragmented = FALSE]
Unfinished(b, r) ==
  IF b.fragmented THEN Reports(r, LengthOf(b.scratch) > 0, LengthOf(b.scratch), b) ELSE 0
Missing(b, r) == Reports(r, TRUE, fragments[r.fragment].length, b)

Full(b, r, at) ==
  Returned([b EXCEPT !.dropped = @ + Unfinished(b, r)], <<r.fragment>>, at)
FirstFragment(b, r, at) ==
  [b EXCEPT !.dropped = @ + Unfinished(b, r), !.start = at,
            !.scratch = <<r.fragment>>, !.fragmented = TRUE]
Middle(b, r) ==
  IF b.fragmented THEN [b EXCEPT !.scratch = Append(@, r.fragment)]
                  ELSE [b EXCEPT !.dropped = @ + Missing(b, r)]
LastFragment(b, r) ==
  IF b.fragmented THEN Returned(b, Append(b.scratch, r.fragment), b.start)
                  ELSE [b EXCEPT !.dropped = @ + Missing(b, r)]
Eof(b) == [b EXCEPT !.done = TRUE, !.fragmented = FALSE, !.scratch = <<>>]

\* Mutant: goes on with the record as if nothing was missing.
BadKept(b, r) == b
Bad(b, r) ==
  IF b.fragmented
  THEN [b EXCEPT !.dropped = @ + Reports(r, TRUE, LengthOf(b.scratch), b),
                 !.fragmented = FALSE, !.scratch = <<>>]
  ELSE b

ReadRecord ==
  /\ reader.started
  /\ LET b == Refill
     IN  \E r \in ReadPhysicalRecord(b) :
           LET c == [b EXCEPT !.pos = r.pos,
                              !.dropped = @ + Reports(r, r.reported, r.bytes, b),
                              !.resyncing = @ /\ r.type = "middle"]
               skip == b.resyncing /\ r.type \in {"middle", "last"}
           IN  Reader(CASE skip -> c
                        [] r.type = "full" -> Full(c, r, b.pos)
                        [] ~skip /\ r.type = "first" -> FirstFragment(c, r, b.pos)
                        [] ~skip /\ r.type = "middle" -> Middle(c, r)
                        [] ~skip /\ r.type = "last" -> LastFragment(c, r)
                        [] r.type = "eof" -> Eof(c)
                        [] r.type = "bad" -> Bad(c, r))

Next ==
  \/ \E length \in Lengths : AddRecord(length)
  \/ EmitPhysicalRecord
  \/ \E n \in 0..Len(file) : Crash(n) \/ ReuseLog(n)
  \/ \E i \in 1..Len(file) : Damage(i)
  \/ SkipToInitialBlock
  \/ ReadRecord

Spec == Init /\ [][Next]_vars
FairSpec == Spec /\ WF_vars(SkipToInitialBlock) /\ WF_vars(ReadRecord)
-----------------------------------------------------------------------------
(***************************************************************************)
(* What a reader finds in a log, whatever happened to the file.            *)
(***************************************************************************)

\* block_offset_ never leaves less than a header in a block (the assertions of
\* log_writer.cc:45 and 57), and the reader stays inside the file.
FormatTypeOK ==
  /\ blockOffset \in 0..BlockSize
  /\ BlockSize - Start - HeaderSize >= 0
  /\ \A a \in adding : a.left \in Nat
  /\ reader.pos <= reader.end
  /\ \A i \in 1..Len(reader.out) : reader.out[i].offset < Len(file)

FragmentsOf(n) == {f \in 1..Len(fragments) : fragments[f].record = n}
RecordOf(out) == fragments[out.fragments[1]].record
RecordsRead == {RecordOf(reader.out[i]) : i \in 1..Len(reader.out)}
\* The bytes of record n that are in the file.
BytesOf(n) == {i \in 1..Len(file) : file[i].fragment \in FragmentsOf(n)}
InFile(f) == \A n \in 1..HeaderSize + fragments[f].length :
               \E i \in 1..Len(file) : file[i] = Byte(f, n)
\* Where the record begins in the file, in bytes before it.
BeginsAt(n) == Min(BytesOf(n)) - 1
Complete(n) == records[n] = "added" /\ \A f \in FragmentsOf(n) : InFile(f)

\* Nothing is made up: what is read is a record that was added, with all of its
\* fragments in order, once, in the order of writing, at its place in the file.
OnlyWrittenRecords ==
  /\ \A i \in 1..Len(reader.out) :
       LET out == reader.out[i]
       IN  /\ ToSet(out.fragments) = FragmentsOf(RecordOf(out))
           /\ \A j \in 1..Len(out.fragments) - 1 :
                out.fragments[j] < out.fragments[j + 1]
           /\ fragments[Last(out.fragments)].type \in {"full", "last"}
           /\ out.offset = BeginsAt(RecordOf(out))
  /\ \A i, j \in 1..Len(reader.out) :
       i < j => RecordOf(reader.out[i]) < RecordOf(reader.out[j])

\* A file cut anywhere gives back every record that is whole, and the cut is not
\* taken for a corruption (log_reader.cc:145 and 229).
CutIsHarmless ==
  reader.done => /\ \A n \in 1..Len(records) : Complete(n) => n \in RecordsRead
                 /\ reader.dropped = 0

\* A bad byte costs the records of its block and no other.
DamageStaysInBlock ==
  LET Block(i) == (i - 1) \div BlockSize
      bad == {Block(i) : i \in {j \in 1..Len(file) : file[j] = Damaged}}
      Touched(n) == \E i \in BytesOf(n) : Block(i) \in bad
  IN  reader.done => \A n \in 1..Len(records) :
        Complete(n) /\ ~Touched(n) => n \in RecordsRead

\* A reader with an offset reads the records that begin at or after it
\* (log_reader.h:48).
ReadsFromOffset ==
  reader.done =>
    RecordsRead = {n \in 1..Len(records) :
                     Complete(n) /\ BeginsAt(n) >= reader.initial}

=============================================================================
