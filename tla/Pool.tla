-------------------------------- MODULE Pool --------------------------------
(***************************************************************************)
(* What a Limiter (env_posix.cc) promises: of the owners that want one of  *)
(* Limit resources, some get one and some are told to do without.          *)
(***************************************************************************)
EXTENDS Integers, FiniteSets

CONSTANTS Owners, Limit
VARIABLE using  \* owners that have one of the resources

Init == using = {}
Acquire(o) ==
  /\ o \notin using /\ Cardinality(using) < Limit
  /\ using' = using \cup {o}
Release(o) ==
  /\ o \in using
  /\ using' = using \ {o}
Next == \E o \in Owners : Acquire(o) \/ Release(o)
Spec == Init /\ [][Next]_using
=============================================================================
