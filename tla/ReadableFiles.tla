---------------------------- MODULE ReadableFiles ----------------------------
(***************************************************************************)
(* Table files opened for reading (NewRandomAccessFile, env_posix.cc):     *)
(* mapped into memory while mmap_limiter_ allows it, else kept open while  *)
(* fd_limiter_ does, else opened anew by each Read.  The limiters are lock *)
(* free: fetch_sub and the fetch_add that takes it back are two steps.     *)
(***************************************************************************)
EXTENDS Integers, FiniteSets

CONSTANTS
  Files,             \* file objects, each opened, read and deleted over and over by some thread
  MmapLimit, FdLimit \* MaxMmaps() and MaxOpenFiles()

ASSUME LimitsAssumption == IsFiniteSet(Files) /\ MmapLimit \in Nat /\ FdLimit \in Nat

VARIABLES
  allowed, \* acquires_allowed_ of the two limiters
  at,      \* where each file object's thread is
  fds,     \* descriptors each file object has open
  regions  \* file objects that have a mapped region

limitVars == <<allowed, at, fds, regions>>

Limiters == {"mmap", "fd"}
MaxAcquires == [l \in Limiters |-> IF l = "mmap" THEN MmapLimit ELSE FdLimit]

\* What a file object holds a place of each limiter for, and what a refused thread
\* still has to put back.
Maps == {"sizing", "mapped", "failed"}
Holding(l) == {f \in Files : IF l = "mmap" THEN at[f] \in Maps ELSE at[f] \in {"open", "shut"}}
Refused(l) == {f \in Files : at[f] = IF l = "mmap" THEN "no map" ELSE "no fd"}

\* Limiter::Acquire, its first half: fetch_sub, which answers what was there before.
\* Mutant: the last place is given twice.
AllowsZero(l) == allowed[l] >= 0
Allows(l) == allowed[l] > 0
FetchSub(f, l, granted, denied) ==
  /\ allowed' = [allowed EXCEPT ![l] = @ - 1]
  /\ at' = [at EXCEPT ![f] = IF Allows(l) THEN granted ELSE denied]
\* Its second half, for a refused thread.
PutBack(l) == [allowed EXCEPT ![l] = @ + 1]
\* Limiter::Release.
FetchAdd(l) == [allowed EXCEPT ![l] = @ + 1]
-----------------------------------------------------------------------------
OpenFile(f) ==  \* open() succeeds
  /\ at[f] = "none"
  /\ at' = [at EXCEPT ![f] = "fd"]
  /\ fds' = [fds EXCEPT ![f] = 1]
  /\ UNCHANGED <<allowed, regions>>

AcquireMap(f) ==
  /\ at[f] = "fd"
  /\ FetchSub(f, "mmap", "sizing", "no map")
  /\ UNCHANGED <<fds, regions>>
RefusedMap(f) ==
  /\ at[f] = "no map"
  /\ allowed' = PutBack("mmap")
  /\ at' = [at EXCEPT ![f] = "try fd"]
  /\ UNCHANGED <<fds, regions>>

\* GetFileSize and mmap, and the descriptor is closed in any case.
Map(f) ==
  /\ at[f] = "sizing"
  /\ at' = [at EXCEPT ![f] = "mapped"]
  /\ regions' = regions \cup {f}
  /\ fds' = [fds EXCEPT ![f] = 0]
  /\ UNCHANGED allowed
CannotMap(f) ==
  /\ at[f] = "sizing"
  /\ at' = [at EXCEPT ![f] = "failed"]
  /\ fds' = [fds EXCEPT ![f] = 0]
  /\ UNCHANGED <<allowed, regions>>
FailedMap(f) ==
  /\ at[f] = "failed"
  /\ allowed' = FetchAdd("mmap")
  /\ at' = [at EXCEPT ![f] = "none"]
  /\ UNCHANGED <<fds, regions>>

\* The constructor of PosixRandomAccessFile.
AcquireFd(f) ==
  /\ at[f] = "try fd"
  /\ FetchSub(f, "fd", "open", "no fd")
  /\ UNCHANGED <<fds, regions>>
RefusedFd(f) ==
  /\ at[f] = "no fd"
  /\ allowed' = PutBack("fd")
  /\ at' = [at EXCEPT ![f] = "transient"]
  /\ fds' = [fds EXCEPT ![f] = 0]
  /\ UNCHANGED regions

\* Read of a file without a descriptor of its own opens one for the call.
BeginRead(f) ==
  /\ at[f] = "transient"
  /\ at' = [at EXCEPT ![f] = "reading"]
  /\ fds' = [fds EXCEPT ![f] = 1]
  /\ UNCHANGED <<allowed, regions>>
EndRead(f) ==
  /\ at[f] = "reading"
  /\ at' = [at EXCEPT ![f] = "transient"]
  /\ fds' = [fds EXCEPT ![f] = 0]  \* close(), whatever pread answered
  /\ UNCHANGED <<allowed, regions>>

\* The destructors: munmap or close, then Release.
Unmap(f) ==
  /\ at[f] = "mapped" /\ f \in regions
  /\ regions' = regions \ {f}
  /\ UNCHANGED <<allowed, at, fds>>
ReleaseMap(f) ==
  /\ at[f] = "mapped" /\ f \notin regions
  /\ allowed' = FetchAdd("mmap")
  /\ at' = [at EXCEPT ![f] = "none"]
  /\ UNCHANGED <<fds, regions>>
CloseFd(f) ==
  /\ at[f] = "open"
  /\ at' = [at EXCEPT ![f] = "shut"]
  /\ fds' = [fds EXCEPT ![f] = 0]
  /\ UNCHANGED <<allowed, regions>>
ReleaseFd(f) ==
  /\ at[f] = "shut"
  /\ allowed' = FetchAdd("fd")
  /\ at' = [at EXCEPT ![f] = "none"]
  /\ UNCHANGED <<fds, regions>>
Drop(f) ==
  /\ at[f] = "transient"
  /\ at' = [at EXCEPT ![f] = "none"]
  /\ UNCHANGED <<allowed, fds, regions>>

LimitsInit ==
  /\ allowed = MaxAcquires /\ at = [f \in Files |-> "none"]
  /\ fds = [f \in Files |-> 0] /\ regions = {}

LimitsNext ==
  \E f \in Files :
    \/ OpenFile(f) \/ AcquireMap(f) \/ RefusedMap(f) \/ Map(f) \/ CannotMap(f) \/ FailedMap(f)
    \/ AcquireFd(f) \/ RefusedFd(f) \/ BeginRead(f) \/ EndRead(f)
    \/ Unmap(f) \/ ReleaseMap(f) \/ CloseFd(f) \/ ReleaseFd(f) \/ Drop(f)

LimitsSpec == LimitsInit /\ [][LimitsNext]_limitVars
-----------------------------------------------------------------------------
Places == {"none", "fd", "no map", "try fd", "no fd", "transient", "reading", "open", "shut"} \cup Maps

\* Type invariant.
FilesTypeOK ==
  /\ allowed \in [Limiters -> Int] /\ at \in [Files -> Places]
  /\ fds \in [Files -> {0, 1}] /\ regions \in SUBSET Files

\* The lock-free counter never gives more places than there are, however many
\* threads subtract at once, and loses none: what is not held or about to be put back
\* is there (Limiter::Acquire and Release).
LimiterIsExact ==
  \A l \in Limiters :
    /\ Cardinality(Holding(l)) <= MaxAcquires[l]
    /\ allowed[l] = MaxAcquires[l] - Cardinality(Holding(l)) - Cardinality(Refused(l))

\* No more regions are mapped than allowed, and each object has the descriptor its
\* state calls for: none is leaked when mapping or a read fails.
NoLeak ==
  /\ Cardinality(regions) <= MmapLimit
  /\ \A f \in Files :
       /\ fds[f] = IF at[f] \in {"none", "transient", "mapped", "failed", "shut"} THEN 0 ELSE 1
       /\ f \in regions => at[f] = "mapped"

\* The limiters give out what they have and get back what they gave
\* (Limiter::Acquire and Release, and each way out of NewRandomAccessFile).
LimitsAreKept == FilesTypeOK /\ LimiterIsExact /\ NoLeak

\* Each limiter is a pool of places, whatever the threads do at once.
MmapPool == INSTANCE Pool WITH Owners <- Files, Limit <- MmapLimit, using <- Holding("mmap")
FdPool == INSTANCE Pool WITH Owners <- Files, Limit <- FdLimit, using <- Holding("fd")
IsMmapPool == MmapPool!Spec
IsFdPool == FdPool!Spec

=============================================================================
