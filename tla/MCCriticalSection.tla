------------------------- MODULE MCCriticalSection -------------------------
(* Three threads that enter up to twice, and spin once before they wait. *)
EXTENDS CriticalSection

CONSTANTS t1, t2, t3
=============================================================================
