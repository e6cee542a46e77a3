--------------------------- MODULE MCReadWriteLock ---------------------------
(***************************************************************************)
(* Five threads, any of which reads or writes, again and again.            *)
(***************************************************************************)
EXTENDS ReadWriteLock

CONSTANTS t1, t2, t3, t4, t5
=============================================================================
