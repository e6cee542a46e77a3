--------------------------- MODULE MCObjectTable ---------------------------
(* The object table on small instances. *)
EXTENDS ObjectTable, TLC

\* Threads are alike; sound where no liveness is checked.
Alike == Permutations(Threads)
=============================================================================
