---------------------------- MODULE MCTimerQueue ----------------------------
(* TimerQueue with a recurring item, a, which one thread queues, and two    *)
(* single-shot items, which another thread queues before and after it, so   *)
(* that slots are published in another order than they were claimed.        *)
EXTENDS TimerQueue

CONSTANTS a, b, c, c1, c2

MCInterval == [i \in Items |-> IF i = a THEN 1 ELSE 0]
MCDelays == [i \in Items |-> CASE i = a -> {-2} [] i = b -> {0} [] i = c -> {1}]
MCQueues ==
  [t \in Clients \cup {Callback} |->
     CASE t = c1 -> {a} [] t = c2 -> {b, c} [] t = Callback -> {b}]
MCDisarms == [t \in Clients \cup {Callback} |-> IF t = c1 THEN {} ELSE {a, b}]
=============================================================================
