------------------------------ MODULE WorkQueue ------------------------------
(***************************************************************************)
(* What PosixEnv makes of Env::Schedule: every function scheduled runs     *)
(* once, one at a time, in the order they were accepted.  (env.h promises  *)
(* less: functions may run concurrently.)                                  *)
(***************************************************************************)
EXTENDS Sequences

CONSTANT Items
VARIABLES
  waiting, \* items accepted and not begun
  running, \* the items that run: none or one
  done     \* items that have run, in order

vars == <<waiting, running, done>>

Init == waiting = <<>> /\ running = <<>> /\ done = <<>>
Accept(i) ==
  /\ waiting' = Append(waiting, i)
  /\ UNCHANGED <<running, done>>
Begin ==
  /\ waiting # <<>> /\ running = <<>>
  /\ running' = <<Head(waiting)>> /\ waiting' = Tail(waiting)
  /\ UNCHANGED done
End ==
  /\ running # <<>>
  /\ done' = done \o running /\ running' = <<>>
  /\ UNCHANGED waiting
Next == Begin \/ End \/ \E i \in Items : Accept(i)
Spec == Init /\ [][Next]_vars /\ WF_vars(Begin \/ End)
=============================================================================
