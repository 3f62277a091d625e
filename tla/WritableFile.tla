---------------------------- MODULE WritableFile ----------------------------
(***************************************************************************)
(* PosixWritableFile (env_posix.cc): bytes go to the buffer, from there to *)
(* the kernel, and to the disk when Sync says so or the kernel likes.  A   *)
(* byte is its place in what was appended.  Of a MANIFEST each record is   *)
(* one Append and names a table made just before (LogAndApply).            *)
(* Interrupted system calls, which are tried again, leave no trace.        *)
(***************************************************************************)
EXTENDS Integers, Sequences

CONSTANTS
  BufferSize,  \* kWritableFileBufferSize
  Sizes,       \* sizes of what Append is given
  Manifest,    \* is_manifest_
  MaxBytes,    \* bound: bytes appended
  MaxFaults    \* bound: system calls that fail

\* What the constants must be.
FileAssumption ==
  /\ BufferSize \in Nat \ {0} /\ Sizes \subseteq Nat \ {0} /\ Manifest \in BOOLEAN
  /\ MaxBytes \in Nat /\ MaxFaults \in Nat

VARIABLES
  buf,      \* buf_[0, pos_ - 1]
  file,     \* what the kernel has been given
  disk,     \* how much of it is on disk
  todo,     \* bytes WriteUnbuffered has yet to write
  rest,     \* bytes of Append that come after them
  pc,       \* the step of the call in progress
  appended, \* how many bytes Append has been given
  faults,   \* system calls that have failed
  ends,     \* where the record that names each table ends
  named     \* how many of the tables' directory entries are on disk

vars == <<buf, file, disk, todo, rest, pc, appended, faults, ends, named>>

Bytes(from, n) == [i \in 1..n |-> from + i]
From(s, n) == SubSeq(s, n, Len(s))
Smaller(m, n) == IF m < n THEN m ELSE n

\* Fit as much as possible into the buffer.
Room(b) == BufferSize - Len(b)
-----------------------------------------------------------------------------
AppendData(n) ==
  LET data == Bytes(appended, n)
      fits == Smaller(n, Room(buf))
  IN  /\ pc = "ready" /\ appended + n <= MaxBytes
      /\ appended' = appended + n
      /\ buf' = buf \o SubSeq(data, 1, fits)
      /\ rest' = From(data, fits + 1)
      /\ IF rest' = <<>> THEN UNCHANGED <<todo, pc>> ELSE todo' = buf' /\ pc' = "spill"
      /\ ends' = IF Manifest THEN Append(ends, appended') ELSE ends
      /\ UNCHANGED <<file, disk, faults, named>>

\* Flush and Close begin with FlushBuffer.
FlushBuffer(then) ==
  /\ todo' = buf /\ pc' = then
  /\ UNCHANGED <<buf, file, disk, rest, appended, faults, ends>>
Flush == pc = "ready" /\ FlushBuffer("flush") /\ UNCHANGED named
Close == pc = "ready" /\ FlushBuffer("close") /\ UNCHANGED named

\* Sync, which for a MANIFEST begins with SyncDirIfManifest.  Mutant: it does not.
NoDirectory == FALSE
SyncsDirectory == Manifest
Sync == pc = "ready" /\ FlushBuffer("sync")
  /\ named' = IF SyncsDirectory THEN Len(ends) ELSE named

\* write(): any part of it.
Write(n) ==
  /\ n \in 1..Len(todo)
  /\ file' = file \o SubSeq(todo, 1, n)
  /\ todo' = From(todo, n + 1)
  /\ UNCHANGED <<buf, disk, rest, pc, appended, faults, ends, named>>

\* All is written: FlushBuffer sets pos_, and each call goes on.
Reset(b) == <<>>
Written ==
  /\ todo = <<>>
  /\ \/ /\ pc = "spill" /\ rest' = <<>>
        /\ IF Len(rest) < BufferSize
           THEN buf' = rest /\ pc' = "ready" /\ UNCHANGED todo
           ELSE buf' = Reset(buf) /\ todo' = rest /\ pc' = "direct"
     \/ /\ pc = "direct" /\ pc' = "ready"
        /\ UNCHANGED <<buf, todo, rest>>
     \/ /\ pc \in {"flush", "sync", "close"} /\ buf' = Reset(buf)
        /\ pc' = CASE pc = "flush" -> "ready" [] pc = "sync" -> "fsync" [] OTHER -> "closed"
        /\ UNCHANGED <<todo, rest>>
  /\ UNCHANGED <<file, disk, appended, faults, ends, named>>

\* SyncFd succeeds.
Synced == Len(file)
SyncFd ==
  /\ pc = "fsync" /\ pc' = "ready" /\ disk' = Synced
  /\ UNCHANGED <<buf, file, todo, rest, appended, faults, ends, named>>

\* A write or a sync fails: the call ends, and what was in the buffer is lost.
Fails ==
  /\ faults < MaxFaults /\ faults' = faults + 1
  /\ \/ /\ todo # <<>> /\ buf' = IF pc = "direct" THEN buf ELSE <<>>
        /\ pc' = IF pc = "close" THEN "closed" ELSE "ready"
     \/ pc = "fsync" /\ pc' = "ready" /\ UNCHANGED buf
  /\ todo' = <<>> /\ rest' = <<>>
  /\ UNCHANGED <<file, disk, appended, ends, named>>
\* The directory cannot be opened or synced: nothing is written.
SyncDirFails ==
  /\ pc = "ready" /\ Manifest
  /\ faults < MaxFaults /\ faults' = faults + 1
  /\ UNCHANGED <<buf, file, disk, todo, rest, pc, appended, ends, named>>

\* The kernel writes back what it has, in its own time.
WriteBack ==
  /\ disk' \in disk..Len(file) /\ named' \in named..Len(ends)
  /\ UNCHANGED <<buf, file, todo, rest, pc, appended, faults, ends>>

Init ==
  /\ buf = <<>> /\ file = <<>> /\ disk = 0 /\ todo = <<>> /\ rest = <<>> /\ pc = "ready"
  /\ appended = 0 /\ faults = 0 /\ ends = <<>> /\ named = 0

Next ==
  \/ (\E n \in Sizes : AppendData(n)) \/ Flush \/ Sync \/ Close
  \/ (\E n \in 1..MaxBytes : Write(n)) \/ Written \/ SyncFd
  \/ Fails \/ SyncDirFails \/ WriteBack

Spec == Init /\ [][Next]_vars
-----------------------------------------------------------------------------
\* Type invariant: pos_ never passes the end of buf_.
WriterTypeOK ==
  /\ Len(buf) <= BufferSize /\ disk \in 0..Len(file) /\ named \in 0..Len(ends)
  /\ pc \in {"ready", "spill", "direct", "flush", "sync", "fsync", "close", "closed"}

\* What the kernel has, what is being written and what is in the buffer are together
\* what was appended, through short writes, records that span the buffer and
\* records larger than it, until a system call fails (Append, FlushBuffer).
Pending == IF pc \in {"spill", "direct", "flush", "sync", "close"} THEN todo \o rest ELSE buf
NothingLost == faults = 0 => file \o Pending = Bytes(0, appended)

\* Failures leave holes in the file, never a byte twice or out of its order.
NothingTwice == \A i, j \in DOMAIN file : i < j => file[i] < file[j]

\* A Sync that returns OK has put on disk all that was appended if nothing failed
\* before, and all the file has in any case, and of a MANIFEST the entries of the
\* tables it names.
SyncStep ==
  (pc = "fsync" /\ pc' = "ready" /\ faults' = faults) =>
    /\ disk' = Len(file) /\ (faults = 0 => disk' = appended)
    /\ Manifest => named' = Len(ends)

=============================================================================
