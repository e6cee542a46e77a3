----------------------------- MODULE MCHostWait -----------------------------
(* Two threads, one object of each kind, and waits that overlap: two pollers *)
(* that take the same mutexes in opposite orders, sleepers on the objects    *)
(* the pollers wait for.                                                     *)
EXTENDS HostWait

CONSTANTS t1, t2, auto, manual, sem, mutant

Any(objs, timed, alertable) == [objs |-> objs, all |-> FALSE, timed |-> timed, alertable |-> alertable]
All(objs, timed, alertable) == [objs |-> objs, all |-> TRUE, timed |-> timed, alertable |-> alertable]

OverlappingWaits == [t \in Threads |->
  IF t = t1
  THEN {All(<<mutant, auto>>, FALSE, FALSE), Any(<<auto>>, TRUE, TRUE), Any(<<manual>>, TRUE, FALSE)}
  ELSE {All(<<auto, mutant>>, TRUE, TRUE), Any(<<sem, auto>>, TRUE, FALSE), Any(<<mutant>>, FALSE, FALSE)}]
=============================================================================
