--------------------------- MODULE RecursiveLock ---------------------------
(***************************************************************************)
(* What a guest program expects of an RTL_CRITICAL_SECTION                 *)
(* (xboxkrnl_rtl.cpp): one thread is inside, as often as it has entered.   *)
(* CriticalSection implements it.                                          *)
(***************************************************************************)
EXTENDS Integers

CONSTANT Threads

VARIABLE depth  \* how often each thread is inside

Init == depth = [t \in Threads |-> 0]

Enter(t) ==
  /\ \A u \in Threads \ {t} : depth[u] = 0
  /\ depth' = [depth EXCEPT ![t] = @ + 1]

Leave(t) ==
  /\ depth[t] > 0
  /\ depth' = [depth EXCEPT ![t] = @ - 1]

Next == \E t \in Threads : Enter(t) \/ Leave(t)

Spec == Init /\ [][Next]_depth
=============================================================================
