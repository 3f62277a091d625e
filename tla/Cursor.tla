------------------------------- MODULE Cursor -------------------------------
(***************************************************************************)
(* What an iterator of leveldb promises (include/leveldb/iterator.h): it   *)
(* walks the keys of one view of the database in order, both ways, and the *)
(* view never changes.                                                     *)
(***************************************************************************)
EXTENDS Naturals

CONSTANT Keys   \* positive numbers
VARIABLES view, \* key -> value, 0 if it has none
          at    \* the key the cursor is at, 0 if it is not valid

vars == <<view, at>>
Present == {k \in Keys : view[k] # 0}
Least(keys) == IF keys = {} THEN 0 ELSE CHOOSE k \in keys : \A j \in keys : k <= j
Greatest(keys) == IF keys = {} THEN 0 ELSE CHOOSE k \in keys : \A j \in keys : k >= j

Init == at = 0
Move(to) == at' = to /\ UNCHANGED view

Seek == \E target \in Keys : Move(Least({k \in Present : k >= target}))
SeekToFirst == Move(Least(Present))
SeekToLast == Move(Greatest(Present))
Next1 == at # 0 /\ Move(Least({k \in Present : k > at}))
Prev1 == at # 0 /\ Move(Greatest({k \in Present : k < at}))

Next == Seek \/ SeekToFirst \/ SeekToLast \/ Next1 \/ Prev1
Spec == Init /\ [][Next]_vars
=============================================================================
