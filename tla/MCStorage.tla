------------------------------ MODULE MCStorage ------------------------------
(***************************************************************************)
(* Instances of the modules of leveldb's storage. They share no variable,  *)
(* so each behaviour is of one of them: part names the scenario, and the   *)
(* variables of the others stay as they are.  The skip list and the levels *)
(* keep their names.                                                       *)
(***************************************************************************)
EXTENDS SkipList, Compaction, TLC

\* The constants that the scenarios of one module share.
Records == 3
Key == {1, 2}
MaxCompactions == 1
MaxErrors == 1
MaxKills == 1

VARIABLES
  part,  \* the part whose behaviours these are
  file, fragments, blockOffset, adding, records, phase, left, reader,  \* of LogFormat
  iterMem, blocks, bad, sequence, dbIter, dir, valid, savedKey, savedValue, loop, call,  \* of DBIter
  repairDir, lost, manifest, current, live, repairLog, dbNext, lastSequence,
  compactions, damage, errors, kills, crashes, readable, pc, logs, tableNumbers,
  tables, next, scanned, copy  \* of Repair

logVars == <<file, fragments, blockOffset, adding, records, phase, left, reader>>
iterVars == <<iterMem, blocks, bad, sequence, dbIter, dir, valid, savedKey, savedValue,
              loop, call>>
repairVars == <<repairDir, lost, manifest, current, live, repairLog, dbNext,
                lastSequence, compactions, damage, errors, kills, crashes, readable,
                pc, logs, tableNumbers, tables, next, scanned, copy>>
mcVars == <<part, vars, logVars, iterVars, skipVars, repairVars>>
-----------------------------------------------------------------------------
Deletions == INSTANCE Compaction WITH
  MaxMemLevel <- 1, L0_Trigger <- 1, LevelLimit <- 1, MaxOutput <- 9,
  MaxGrandparents <- 9, MaxExpanded <- 9, Seeks <- FALSE, Deletes <- TRUE, MaxSeq <- 3
Boundary == INSTANCE Compaction WITH
  MaxMemLevel <- 1, L0_Trigger <- 1, LevelLimit <- 1, MaxOutput <- 1,
  MaxGrandparents <- 9, MaxExpanded <- 9, Seeks <- FALSE, Deletes <- FALSE, MaxSeq <- 3
Splits == INSTANCE Compaction WITH
  MaxMemLevel <- 2, L0_Trigger <- 1, LevelLimit <- 1, MaxOutput <- 1,
  MaxGrandparents <- 1, MaxExpanded <- 9, Seeks <- TRUE, Deletes <- TRUE, MaxSeq <- 4

Damage == INSTANCE LogFormat WITH
  BlockSize <- 5, HeaderSize <- 2, Lengths <- {0, 2, 4}, InitialOffsets <- {0},
  Failures <- 0, Damages <- 1, Reuses <- 0
FailedAppends == INSTANCE LogFormat WITH
  BlockSize <- 5, HeaderSize <- 2, Lengths <- {0, 4}, InitialOffsets <- {0},
  Failures <- 1, Damages <- 0, Reuses <- 1
Offset == INSTANCE LogFormat WITH
  BlockSize <- 6, HeaderSize <- 3, Lengths <- {0, 2, 4},
  InitialOffsets <- {0, 1, 4, 5, 6, 7, 11}, Failures <- 0, Damages <- 0, Reuses <- 0

Turns == INSTANCE DBIter WITH
  Keys <- {1, 2, 3}, Old <- 3, Snapshots <- {2, 3}, BadBlocks <- {{}}, Inserts <- 0,
  mem <- iterMem, iter <- dbIter
Meanwhile == INSTANCE DBIter WITH
  Keys <- {1, 2}, Old <- 2, Snapshots <- {1, 2}, BadBlocks <- {{}}, Inserts <- 1,
  mem <- iterMem, iter <- dbIter
BadBlocks == INSTANCE DBIter WITH
  Keys <- {1, 2}, Old <- 3, Snapshots <- {3}, BadBlocks <- SUBSET (1..2),
  Inserts <- 0, mem <- iterMem, iter <- dbIter

Once == INSTANCE Repair WITH
  MaxWrites <- 2, MaxDamage <- 2, MaxCrashes <- 0, dir <- repairDir, log <- repairLog
Again == INSTANCE Repair WITH
  MaxWrites <- 2, MaxDamage <- 1, MaxKills <- 0, MaxCrashes <- 1,
  dir <- repairDir, log <- repairLog

ASSUME
  /\ SizesAssumption
  /\ Deletions!SizesAssumption
  /\ Boundary!SizesAssumption
  /\ Splits!SizesAssumption
  /\ Damage!FormatAssumption
  /\ FailedAppends!FormatAssumption
  /\ Offset!FormatAssumption
  /\ Turns!IterAssumption
  /\ Meanwhile!IterAssumption
  /\ BadBlocks!IterAssumption
  /\ Once!RepairAssumption
  /\ Again!RepairAssumption

-----------------------------------------------------------------------------
\* The variables of the other parts stay as they are.
MCInit ==
  /\ part \in {"levels", "deletes", "boundary", "splits", "damage", "faults",
               "offset", "turns", "meanwhile", "badBlocks", "skip", "repair", "repairAgain"}
  /\ Init
  /\ CASE part = "damage" -> Damage!Init
       [] part = "faults" -> FailedAppends!Init
       [] part = "offset" -> Offset!Init
       [] OTHER -> file = 0 /\ fragments = 0 /\ blockOffset = 0 /\ adding = 0
                   /\ records = 0 /\ phase = 0 /\ left = 0 /\ reader = 0
  /\ CASE part = "turns" -> Turns!Init
       [] part = "meanwhile" -> Meanwhile!Init
       [] part = "badBlocks" -> BadBlocks!Init
       [] OTHER -> iterMem = 0 /\ blocks = 0 /\ bad = 0 /\ sequence = 0 /\ dbIter = 0
                   /\ dir = 0 /\ valid = 0 /\ savedKey = 0 /\ savedValue = 0 /\ loop = 0
                   /\ call = 0
  /\ SkipInit
  /\ CASE part = "repair" -> Once!Init
       [] part = "repairAgain" -> Again!Init
       [] OTHER -> repairDir = 0 /\ lost = 0 /\ manifest = 0 /\ current = 0 /\ live = 0
                   /\ repairLog = 0 /\ dbNext = 0 /\ lastSequence = 0 /\ compactions = 0
                   /\ damage = 0 /\ errors = 0 /\ kills = 0 /\ crashes = 0 /\ readable = 0
                   /\ pc = 0 /\ logs = 0 /\ tableNumbers = 0 /\ tables = 0 /\ next = 0
                   /\ scanned = 0 /\ copy = 0

LevelStep ==
  /\ \/ part = "levels" /\ Next /\ snapshots' = snapshots
     \/ part = "deletes" /\ Deletions!Next
     \/ part = "boundary" /\ Boundary!Next
     \/ part = "splits" /\ Splits!Next /\ snapshots' = snapshots
  /\ UNCHANGED <<part, logVars, iterVars, skipVars, repairVars>>
LogStep ==
  /\ \/ part = "damage" /\ Damage!Next
     \/ part = "faults" /\ FailedAppends!Next
     \/ part = "offset" /\ Offset!Next
  /\ UNCHANGED <<part, vars, iterVars, skipVars, repairVars>>
IterStep ==
  /\ \/ part = "turns" /\ Turns!Next
     \/ part = "meanwhile" /\ Meanwhile!Next
     \/ part = "badBlocks" /\ BadBlocks!Next
  /\ UNCHANGED <<part, vars, logVars, skipVars, repairVars>>
SkipStep ==
  /\ part = "skip" /\ SkipNext
  /\ UNCHANGED <<part, vars, logVars, iterVars, repairVars>>
RepairStep ==
  /\ \/ part = "repair" /\ Once!Next
     \/ part = "repairAgain" /\ Again!Next
  /\ UNCHANGED <<part, vars, logVars, iterVars, skipVars>>

MCNext == LevelStep \/ LogStep \/ IterStep \/ SkipStep \/ RepairStep
MCSpec == MCInit /\ [][MCNext]_mcVars
-----------------------------------------------------------------------------
\* A log gives back records that were added, whole and in their order; a bad
\* byte costs the records of its block and no other; and a reader with an
\* offset reads those that begin at or after it (log_reader.h:48).
OnlyWrittenRecords ==
  /\ part = "damage" =>
       /\ Damage!FormatTypeOK
       /\ Damage!OnlyWrittenRecords
       /\ Damage!DamageStaysInBlock
  /\ part = "faults" => FailedAppends!OnlyWrittenRecords
  /\ part = "offset" => Offset!ReadsFromOffset

\* An iterator that turns back and forth walks its snapshot, past entries that are
\* newer and whatever is written between two of its moves.
WalksSnapshot ==
  /\ part = "turns" => Turns!Walk!Init
  /\ part = "meanwhile" => Meanwhile!Walk!Init
  /\ [][part = "turns" => [Turns!Walk!Next]_Turns!Walk!vars]_iterVars
  /\ [][part = "meanwhile" => [Meanwhile!Walk!Next]_Meanwhile!Walk!vars]_iterVars

\* As long as status() is OK every call of an iterator led to the right key
\* (iterator.h).
StatusTellsErrors ==
  /\ part = "badBlocks" => BadBlocks!IterTypeOK /\ BadBlocks!StatusTellsErrors

\* Repair: every entry that could be read when it began is at every moment in
\* some file, and listed when no error was met; a repair that has ended,
\* however often it was begun, leaves a database that opens; and the numbers
\* it takes, and those taken after it, are in use by no file.
NothingVanishes ==
  /\ part = "repair" => Once!NothingVanishes /\ Once!AllListed
  /\ part = "repairAgain" =>
       /\ Again!RepairedOpens
       /\ Again!NumbersAbove
       /\ Again!TakesFreeNumbers
=============================================================================
