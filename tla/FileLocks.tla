------------------------------ MODULE FileLocks ------------------------------
(***************************************************************************)
(* LockFile and UnlockFile (env_posix.cc): the LOCK file that keeps a      *)
(* database to one process, and DestroyDB (db_impl.cc), which deletes it.  *)
(* Each system call is a step.  The kernel gives the lock of a file to a   *)
(* process, and takes it back when the process closes ANY descriptor of    *)
(* that file.                                                              *)
(***************************************************************************)
EXTENDS Integers, FiniteSets

CONSTANTS
  Processes, Threads, \* each process has the same threads
  MayDestroy,         \* whether threads call DestroyDB too
  None,               \* no process
  MaxFiles            \* bound: files the name LOCK has stood for, one after the other

ASSUME LocksAssumption ==
  /\ None \notin Processes /\ MayDestroy \in BOOLEAN /\ MaxFiles \in Nat \ {0}

VARIABLES
  locked, \* processes with LOCK in locked_files_ (PosixLockTable)
  pc,     \* what each thread of each process is doing
  fd,     \* the file it has open, 0: none
  destroys, \* whether it is in DestroyDB
  named,  \* the file the name LOCK stands for, 0: none
  last,   \* the last file created
  owner   \* the process that has the kernel's lock on each file

lockVars == <<locked, pc, fd, destroys, named, last, owner>>

Callers == Processes \X Threads
FileIds == 1..MaxFiles
Proc(c) == c[1]
Goes(c, to) == pc' = [pc EXCEPT ![c] = to]

\* close(): the lock of the process on that file goes with any of its descriptors.
Close(c) ==
  /\ fd' = [fd EXCEPT ![c] = 0]
  /\ owner' = IF owner[fd[c]] = Proc(c) THEN [owner EXCEPT ![fd[c]] = None] ELSE owner
-----------------------------------------------------------------------------
\* LockFile: open with O_CREAT.
Open(c, destroy) ==
  /\ pc[c] = "idle"
  /\ \/ named # 0 /\ UNCHANGED <<named, last>>
     \/ named = 0 /\ last < MaxFiles /\ last' = last + 1 /\ named' = last'
  /\ fd' = [fd EXCEPT ![c] = named']
  /\ destroys' = [destroys EXCEPT ![c] = destroy]
  /\ Goes(c, "opened")
  /\ UNCHANGED <<locked, owner>>

\* locks_.Insert.  Mutant: another thread's lock is not looked at.
NotAsked(p) == TRUE
Inserts(p) == p \notin locked
InsertLock(c) ==
  /\ pc[c] = "opened"
  /\ Goes(c, IF Inserts(Proc(c)) THEN "entered" ELSE "refused")
  /\ locked' = locked \cup {Proc(c)}
  /\ UNCHANGED <<fd, destroys, named, last, owner>>
\* "already held by process".
ClosesRefused(c) == Close(c)
CloseRefused(c) ==
  /\ pc[c] = "refused"
  /\ ClosesRefused(c) /\ Goes(c, "idle")
  /\ UNCHANGED <<locked, destroys, named, last>>

\* fcntl(F_SETLK): another process' lock is an error.  Mutant: a shared lock is
\* asked for.
GrantsAll(c) == TRUE
Grants(c) == owner[fd[c]] \in {None, Proc(c)}
SetLock(c) ==
  /\ pc[c] = "entered"
  /\ IF Grants(c)
     THEN owner' = [owner EXCEPT ![fd[c]] = Proc(c)] /\ Goes(c, "holds")
     ELSE Goes(c, "denied") /\ UNCHANGED owner
  /\ UNCHANGED <<locked, fd, destroys, named, last>>
CloseDenied(c) ==
  /\ pc[c] = "denied" /\ fd[c] # 0
  /\ Close(c)
  /\ UNCHANGED <<locked, pc, destroys, named, last>>
\* locks_.Remove.
Removed(p) == locked \ {p}
RemoveDenied(c) ==
  /\ pc[c] = "denied" /\ fd[c] = 0
  /\ locked' = Removed(Proc(c)) /\ Goes(c, "idle")
  /\ UNCHANGED <<fd, destroys, named, last, owner>>

\* UnlockFile: fcntl(F_UNLCK), locks_.Remove, close.
Unlock(c) ==
  /\ pc[c] = "holds"
  /\ owner' = IF owner[fd[c]] = Proc(c) THEN [owner EXCEPT ![fd[c]] = None] ELSE owner
  /\ Goes(c, "unlocked")
  /\ UNCHANGED <<locked, fd, destroys, named, last>>
RemoveLock(c) ==
  /\ pc[c] = "unlocked"
  /\ locked' = Removed(Proc(c)) /\ Goes(c, "removed")
  /\ UNCHANGED <<fd, destroys, named, last, owner>>
CloseUnlocked(c) ==
  /\ pc[c] = "removed"
  /\ Close(c) /\ Goes(c, IF destroys[c] THEN "unlink" ELSE "idle")
  /\ UNCHANGED <<locked, destroys, named, last>>

\* DestroyDB goes on to delete the lock file.
Unlink(c) ==
  /\ pc[c] = "unlink"
  /\ named' = 0 /\ Goes(c, "idle")
  /\ UNCHANGED <<locked, fd, destroys, last, owner>>

\* A process ends: its descriptors and so its locks go, and it may start again.
Exit(p) ==
  /\ \E t \in Threads : pc[<<p, t>>] # "idle"
  /\ locked' = locked \ {p}
  /\ pc' = [c \in Callers |-> IF Proc(c) = p THEN "idle" ELSE pc[c]]
  /\ fd' = [c \in Callers |-> IF Proc(c) = p THEN 0 ELSE fd[c]]
  /\ owner' = [f \in FileIds |-> IF owner[f] = p THEN None ELSE owner[f]]
  /\ UNCHANGED <<destroys, named, last>>

LocksInit ==
  /\ locked = {} /\ named = 0 /\ last = 0
  /\ pc = [c \in Callers |-> "idle"] /\ fd = [c \in Callers |-> 0]
  /\ destroys = [c \in Callers |-> FALSE] /\ owner = [f \in FileIds |-> None]

LocksNext ==
  \/ \E c \in Callers : \E destroy \in {FALSE, MayDestroy} : Open(c, destroy)
  \/ \E c \in Callers :
       InsertLock(c) \/ CloseRefused(c) \/ SetLock(c) \/ CloseDenied(c) \/ RemoveDenied(c)
       \/ Unlock(c) \/ RemoveLock(c) \/ CloseUnlocked(c) \/ Unlink(c)
  \/ \E p \in Processes : Exit(p)

LocksSpec == LocksInit /\ [][LocksNext]_lockVars
-----------------------------------------------------------------------------
Holders == {c \in Callers : pc[c] = "holds"}

\* Type invariant: among the types, a thread has a descriptor open exactly while it is
\* between opening and closing one, whatever failed.
LocksTypeOK ==
  /\ locked \subseteq Processes /\ named \in 0..last /\ last \in 0..MaxFiles
  /\ fd \in [Callers -> 0..last] /\ owner \in [FileIds -> Processes \cup {None}]
  /\ \A c \in Callers :
       /\ pc[c] \in {"idle", "unlink"} => fd[c] = 0
       /\ pc[c] \notin {"idle", "unlink", "denied"} => fd[c] # 0

\* Of the threads of one process at most one has the lock (PosixLockTable): fcntl
\* would give it to all of them.
OnePerProcess == \A c, d \in Holders : Proc(c) = Proc(d) => c = d

\* env.h on LockFile: "Used to prevent concurrent access to the same db by multiple
\* processes", so of all processes only one has the lock.
OneProcess == \A c, d \in Holders : Proc(c) = Proc(d)

\* A lock is given back however the attempt ends: while no thread of a process has it
\* or is on its way, neither the table nor the kernel keeps anyone out.
NothingLeftLocked ==
  \A p \in Processes : (\A t \in Threads : pc[<<p, t>>] \in {"idle", "unlink", "opened"}) =>
    p \notin locked /\ \A f \in FileIds : owner[f] # p

\* What the table of locks (PosixLockTable) is for, and that every way out of LockFile
\* and UnlockFile undoes what it did.
LocksAreKept == LocksTypeOK /\ OnePerProcess /\ NothingLeftLocked
=============================================================================
