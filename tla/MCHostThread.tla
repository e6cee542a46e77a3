---------------------------- MODULE MCHostThread ----------------------------
(* One host thread and one or two threads that control it.                  *)
EXTENDS HostThread

CONSTANTS c1, c2

Use(created, ends, suspends) == [created |-> created, ends |-> ends, suspends |-> suspends]

\* A thread that runs forever and is suspended now and then, a thread that may
\* end by itself while it is suspended, and a thread created suspended that is
\* only resumed.
ServedOrStarted == {Use(FALSE, FALSE, 3), Use(FALSE, TRUE, 1), Use(TRUE, TRUE, 0)}

StartedOnly == {Use(TRUE, TRUE, 0)}
=============================================================================
