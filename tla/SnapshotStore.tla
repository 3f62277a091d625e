--------------------------- MODULE SnapshotStore ----------------------------
(***************************************************************************)
(* What leveldb promises a reader (include/leveldb/db.h): Get finds the    *)
(* latest value written, or the one that was the latest when the snapshot  *)
(* was taken; nothing but a write or a delete changes an answer.           *)
(***************************************************************************)
EXTENDS Naturals

CONSTANTS Keys, Handles
VARIABLES writes, \* how many there were; a value is the number of its write
          now,    \* key -> its value, 0 if it has none
          views   \* snapshot -> what now was when it was taken

vars == <<writes, now, views>>
NotHeld == [k \in Keys |-> 0]

Init == writes = 0 /\ now = NotHeld /\ views = [h \in Handles |-> NotHeld]

\* Put, or Delete.
Set ==
  /\ writes' = writes + 1
  /\ \E k \in Keys, v \in {writes', 0} : now' = [now EXCEPT ![k] = v]
  /\ UNCHANGED views

GetSnapshot ==
  /\ \E h \in Handles : views' = [views EXCEPT ![h] = now]
  /\ UNCHANGED <<writes, now>>

ReleaseSnapshot ==
  /\ \E h \in Handles : views' = [views EXCEPT ![h] = NotHeld]
  /\ UNCHANGED <<writes, now>>

Next == Set \/ ReleaseSnapshot \/ GetSnapshot

Spec == Init /\ [][Next]_vars
=============================================================================
