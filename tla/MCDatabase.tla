------------------------------ MODULE MCDatabase -----------------------------
(***************************************************************************)
(* Instances of DBImpl: two threads that write while the process is        *)
(* killed, or the machine crashes; reads and iterators that outlive        *)
(* compactions, or are under way at a close; an I/O error; appends to logs *)
(* and MANIFESTs that stop part-way, with a kill or a crash behind them;   *)
(* and logs reused after a kill.  The first has the constants of the       *)
(* configuration; the others share its variables, and those of its         *)
(* constants that they do not name.  And a table cache, which shares no    *)
(* variable with it.  Each behaviour is of one scenario, named by part;    *)
(* the other variables stay as they are.                                   *)
(***************************************************************************)
EXTENDS DBImplProofs, TableCache, TLC

VARIABLE part  \* the scenario

mcVars == <<part, vars, tableVars>>

Nothing == [k \in BudgetKinds |-> 0]
TwoKills == [Nothing EXCEPT !["kill"] = 2]
TornAndKilled == [Nothing EXCEPT !["tear"] = 1, !["kill"] = 1]
TwoShards == [k \in Keys |-> IF k <= 2 THEN 0 ELSE 1]
-----------------------------------------------------------------------------
Crashes == INSTANCE DBImpl WITH
  Sync <- {TRUE, FALSE}, L0_StopWrites <- 2, Budget <- [Nothing EXCEPT !["reboot"] = 2]
Reads == INSTANCE DBImpl WITH
  Threads <- {"t1"}, Budget <- [Nothing EXCEPT !["read"] = 2, !["flush"] = 1]
Closes == INSTANCE DBImpl WITH
  Threads <- {"t1"}, Budget <- [Nothing EXCEPT !["read"] = 2, !["close"] = 1]
Errors == INSTANCE DBImpl WITH
  Threads <- {"t1"}, Sync <- {TRUE},
  Budget <- [Nothing EXCEPT !["fault"] = 1, !["retry"] = 1, !["close"] = 1, !["flush"] = 1]
Tears == INSTANCE DBImpl WITH
  Threads <- {"t1"}, L0_Compaction <- 1, Budget <- TornAndKilled
TornSyncs == INSTANCE DBImpl WITH
  Threads <- {"t1"}, Sync <- {TRUE, FALSE}, WriteBufferSize <- 2, L0_StopWrites <- 2,
  Budget <- [Nothing EXCEPT !["tear"] = 2, !["reboot"] = 1, !["close"] = 1]
Reuse == INSTANCE DBImpl WITH
  ReuseLogs <- TRUE, WriteBufferSize <- 2, L0_StopWrites <- 2, MaxIds <- 4,
  Budget <- TwoKills

ASSUME
  /\ Crashes!DBAssumption /\ Reads!DBAssumption /\ Closes!DBAssumption
  /\ Errors!DBAssumption /\ Reuse!DBAssumption
  /\ Tears!DBAssumption /\ TornSyncs!DBAssumption
  /\ Survivable /\ Crashes!Survivable /\ Reads!Survivable /\ Closes!Survivable
  /\ Errors!Survivable /\ Reuse!Survivable
  /\ Tears!Survivable /\ TornSyncs!Survivable
  /\ TableAssumption
-----------------------------------------------------------------------------
\* The variables of the other parts stay as they are.
MCInit ==
  /\ part \in {"kills", "crashes", "reads", "closes", "errors", "tears", "tornSyncs",
              "reuse", "tableCache"}
  /\ CASE part = "crashes" -> Crashes!Init
       [] part = "reads" -> Reads!Init
       [] part = "closes" -> Closes!Init
       [] part = "errors" -> Errors!Init
       [] part = "tears" -> Tears!Init
       [] part = "tornSyncs" -> TornSyncs!Init
       [] part = "reuse" -> Reuse!Init
       [] OTHER -> Init
  /\ TableInit

DbStep ==
  /\ \/ part = "kills" /\ Next
     \/ part = "crashes" /\ Crashes!Next
     \/ part = "reads" /\ Reads!Next
     \/ part = "closes" /\ Closes!Next
     \/ part = "errors" /\ Errors!Next
     \/ part = "tears" /\ Tears!Next
     \/ part = "tornSyncs" /\ TornSyncs!Next
     \/ part = "reuse" /\ Reuse!Next
  /\ UNCHANGED <<part, tableVars>>
TablesStep ==
  /\ part = "tableCache" /\ TableNext
  /\ UNCHANGED <<part, vars>>

MCNext == DbStep \/ TablesStep
MCSpec == MCInit /\ [][MCNext]_mcVars
=============================================================================
