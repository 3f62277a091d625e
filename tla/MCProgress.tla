------------------------------ MODULE MCProgress -----------------------------
(***************************************************************************)
(* Instances, of the modules of leveldb that wait or loop, whose liveness  *)
(* is checked. Each behaviour is of one of them: part names it.            *)
(***************************************************************************)
EXTENDS BackgroundWork, TLC

Writers == {"t1", "t2"}
BudgetKinds == {"kill", "reboot", "fault", "tear", "retry", "read", "flush", "close"}
One(kind) == [k \in BudgetKinds |-> IF k = kind THEN 1 ELSE 0]

VARIABLES
  part,  \* the part whose behaviours these are
  logs, tables, manifests, dbCurrent, phase, versions, mem, imm, logfileNumber,
  bgError, shuttingDown, pendingOutputs, readers, deleting, toReplay, edit, dbQueue,
  wpc, group, bgpc, job, merge, nextId, asked, acked, durable, budget,  \* of DBImpl
  levelMem, files, lastSeq, snapshots, compactPointer, compaction, manual,  \* of Compaction
  file, fragments, blockOffset, adding, records, logPhase, left, reader,  \* of LogFormat
  iterMem, blocks, bad, sequence, iter, dir, valid, savedKey, savedValue, loop, call,  \* of DBIter
  log, insert, done, skipIter  \* of SkipList

dbVars == <<logs, tables, manifests, dbCurrent, phase, versions, mem, imm,
            logfileNumber, bgError, shuttingDown, pendingOutputs, readers, deleting,
            toReplay, edit, dbQueue, wpc, group, bgpc, job, merge, nextId, asked,
            acked, durable, budget>>
levelVars == <<levelMem, files, lastSeq, snapshots, compactPointer, compaction,
               manual>>
logVars == <<file, fragments, blockOffset, adding, records, logPhase, left, reader>>
iterVars == <<iterMem, blocks, bad, sequence, iter, dir, valid, savedKey, savedValue,
              loop, call>>
skipVars == <<log, insert, done, skipIter>>
mcVars == <<part, workVars, dbVars, levelVars, logVars, iterVars, skipVars>>
-----------------------------------------------------------------------------
Waits == INSTANCE DBImpl WITH
  Threads <- Writers, Sync <- {FALSE}, ReuseLogs <- FALSE, Existing <- TRUE,
  WriteBufferSize <- 1, MaxGroup <- 2, L0_Compaction <- 2, L0_StopWrites <- 2,
  MaxIds <- 3, Budget <- One("flush"), current <- dbCurrent, queue <- dbQueue
Stops == INSTANCE DBImpl WITH
  Threads <- Writers, Sync <- {FALSE}, ReuseLogs <- FALSE, Existing <- TRUE,
  WriteBufferSize <- 1, MaxGroup <- 2, L0_Compaction <- 2, L0_StopWrites <- 2,
  MaxIds <- 3, Budget <- [One("fault") EXCEPT !["tear"] = 1],
  current <- dbCurrent, queue <- dbQueue

Settling == INSTANCE Compaction WITH
  MaxKey <- 2, Handles <- {}, NumLevels <- 4, MaxMemLevel <- 2, L0_Trigger <- 2,
  LevelLimit <- 1, MaxOutput <- 1, MaxGrandparents <- 1, MaxExpanded <- 6,
  ManualLevels <- {0, 1}, Seeks <- FALSE, Deletes <- TRUE, MaxSeq <- 3,
  mem <- levelMem

Cut == INSTANCE LogFormat WITH
  BlockSize <- 5, HeaderSize <- 2, Lengths <- {0, 1, 2, 4}, InitialOffsets <- {0},
  Records <- 3, Failures <- 0, Damages <- 0, Reuses <- 0, phase <- logPhase

Walking == INSTANCE DBIter WITH
  Keys <- {1, 2}, Old <- 2, Snapshots <- {2}, BadBlocks <- {{}}, Inserts <- 1,
  mem <- iterMem, iter <- iter

Search == INSTANCE SkipList WITH
  ListKeys <- {1, 2}, Null <- 3, MaxHeight <- 2, iter <- skipIter

ASSUME
  /\ Waits!DBAssumption
  /\ Stops!DBAssumption
  /\ Settling!SizesAssumption
  /\ Cut!FormatAssumption
  /\ Walking!IterAssumption
  /\ Search!SkipAssumption

-----------------------------------------------------------------------------
\* The variables of the other parts stay as they are.
MCInit ==
  /\ part \in {"work", "waits", "stops", "settles", "cut", "walk", "search"}
  /\ WorkInit
  /\ CASE part = "waits" -> Waits!Init
       [] part = "stops" -> Stops!Init
       [] OTHER -> logs = 0 /\ tables = 0 /\ manifests = 0 /\ dbCurrent = 0 /\ phase = 0
                   /\ versions = 0 /\ mem = 0 /\ imm = 0 /\ logfileNumber = 0
                   /\ bgError = 0 /\ shuttingDown = 0 /\ pendingOutputs = 0 /\ readers = 0
                   /\ deleting = 0 /\ toReplay = 0 /\ edit = 0 /\ dbQueue = 0 /\ wpc = 0
                   /\ group = 0 /\ bgpc = 0 /\ job = 0 /\ merge = 0 /\ nextId = 0
                   /\ asked = 0 /\ acked = 0 /\ durable = 0 /\ budget = 0
  /\ CASE part = "settles" -> Settling!Init
       [] OTHER -> levelMem = 0 /\ files = 0 /\ lastSeq = 0 /\ snapshots = 0
                   /\ compactPointer = 0 /\ compaction = 0 /\ manual = 0
  /\ CASE part = "cut" -> Cut!Init
       [] OTHER -> file = 0 /\ fragments = 0 /\ blockOffset = 0 /\ adding = 0
                   /\ records = 0 /\ logPhase = 0 /\ left = 0 /\ reader = 0
  /\ CASE part = "walk" -> Walking!Init
       [] OTHER -> iterMem = 0 /\ blocks = 0 /\ bad = 0 /\ sequence = 0 /\ iter = 0
                   /\ dir = 0 /\ valid = 0 /\ savedKey = 0 /\ savedValue = 0 /\ loop = 0
                   /\ call = 0
  /\ CASE part = "search" -> Search!SkipInit
       [] OTHER -> log = 0 /\ insert = 0 /\ done = 0 /\ skipIter = 0

WorkStep ==
  /\ \/ part = "work" /\ WorkNext
  /\ UNCHANGED <<part, dbVars, levelVars, logVars, iterVars, skipVars>>
DbStep ==
  /\ \/ part = "waits" /\ Waits!Next
     \/ part = "stops" /\ Stops!Next
  /\ UNCHANGED <<part, workVars, levelVars, logVars, iterVars, skipVars>>
LevelStep ==
  /\ \/ part = "settles" /\ Settling!Next
  /\ UNCHANGED <<part, workVars, dbVars, logVars, iterVars, skipVars>>
LogStep ==
  /\ \/ part = "cut" /\ Cut!Next
  /\ UNCHANGED <<part, workVars, dbVars, levelVars, iterVars, skipVars>>
IterStep ==
  /\ \/ part = "walk" /\ Walking!Next
  /\ UNCHANGED <<part, workVars, dbVars, levelVars, logVars, skipVars>>
SkipStep ==
  /\ \/ part = "search" /\ Search!SkipNext
  /\ UNCHANGED <<part, workVars, dbVars, levelVars, logVars, iterVars>>

MCNext == WorkStep \/ DbStep \/ LevelStep \/ LogStep \/ IterStep \/ SkipStep
MCSpec == MCInit /\ [][MCNext]_mcVars

(***************************************************************************)
(* Fairness, of each module's own FairSpec: the threads run, the Env runs   *)
(* what it is given, and calls that began go on.                           *)
(***************************************************************************)
DBWrites(t) ==
  /\ part \in {"waits", "stops"} /\ Waits!Writer(t)
  /\ UNCHANGED <<part, workVars, levelVars, logVars, iterVars, skipVars>>
DBRecovers ==
  /\ part \in {"waits", "stops"} /\ Waits!Recovery
  /\ UNCHANGED <<part, workVars, levelVars, logVars, iterVars, skipVars>>
DBFlushes ==
  /\ part \in {"waits", "stops"} /\ Waits!Background
  /\ UNCHANGED <<part, workVars, levelVars, logVars, iterVars, skipVars>>
LevelCompacts ==
  /\ part = "settles" /\ Settling!Background
  /\ UNCHANGED <<part, workVars, dbVars, logVars, iterVars, skipVars>>
LogReads ==
  /\ part = "cut" /\ (Cut!SkipToInitialBlock \/ Cut!ReadRecord)
  /\ UNCHANGED <<part, workVars, dbVars, levelVars, iterVars, skipVars>>
IterScans ==
  /\ part = "walk" /\ Walking!Scan
  /\ UNCHANGED <<part, workVars, dbVars, levelVars, logVars, skipVars>>
SkipFinds ==
  /\ part = "search" /\ Search!FindStep
  /\ UNCHANGED <<part, workVars, dbVars, levelVars, logVars, iterVars>>
SkipInserts ==
  /\ part = "search" /\ Search!Work
  /\ UNCHANGED <<part, workVars, dbVars, levelVars, logVars, iterVars>>
WorkCalls(a) ==
  /\ part = "work" /\ Call(a)
  /\ UNCHANGED <<part, dbVars, levelVars, logVars, iterVars, skipVars>>
WorkRuns ==
  /\ part = "work" /\ (Wait \/ Take \/ Return)
  /\ UNCHANGED <<part, dbVars, levelVars, logVars, iterVars, skipVars>>
WorkLocks ==
  /\ part = "work" /\ WorkerLocks
  /\ UNCHANGED <<part, dbVars, levelVars, logVars, iterVars, skipVars>>
WorkWakes ==
  /\ part = "work" /\ Wake
  /\ UNCHANGED <<part, dbVars, levelVars, logVars, iterVars, skipVars>>
MCFairness ==
  /\ \A t \in Writers : WF_mcVars(DBWrites(t))
  /\ \A a \in Actors : WF_mcVars(WorkCalls(a))
  /\ WF_mcVars(DBRecovers) /\ WF_mcVars(DBFlushes)
  /\ []<>~(part = "settles" /\ Settling!WorkLeft) \/ []<><<LevelCompacts>>_mcVars
  /\ WF_mcVars(LogReads) /\ WF_mcVars(IterScans) /\ WF_mcVars(SkipFinds) /\ WF_mcVars(SkipInserts)
  /\ WF_mcVars(WorkRuns) /\ WF_mcVars(WorkLocks) /\ WF_mcVars(WorkWakes)
MCFairSpec == MCSpec /\ MCFairness
-----------------------------------------------------------------------------
\* A log cut anywhere gives back every record that is whole, and reports no
\* corruption.
CutIsHarmless == part = "cut" => Cut!CutIsHarmless

\* A thread that waits, in the queue of writers, for room or for a flush,
\* gets an answer.
WritesReturn ==
  \A t \in Writers : (part \in {"waits", "stops"} /\ wpc[t] # "idle")
       ~> (part \in {"waits", "stops"} => wpc[t] = "idle")

\* When no more manual compactions are asked for the automatic ones come to
\* an end and leave no level too large, and a manual compaction returns.
CompactionsEnd ==
  /\ <>[](part = "settles" => manual = {}) =>
       <>[](part = "settles" => ~Settling!NeedsSizeCompaction)
  /\ (part = "settles" /\ manual # {}) ~> (part = "settles" => manual = {})

\* ReadRecord comes to the end of every file, each call of an iterator and
\* each search and Insert of a skip list ends though the other goes on, and
\* all items of Schedule run.
CallsEnd ==
  /\ (part = "cut" /\ logPhase = "reading") ~> (part = "cut" => reader.done)
  /\ []<>(part = "walk" => loop = Walking!Idle)
  /\ []<>(part = "search" => skipIter.search = "none")
  /\ []<>(part = "search" => insert.step = "none")
  /\ [](WorkTypeOK /\ NotAsleep) /\ AllRun
=============================================================================
