-------------------------- MODULE ThreadSuspension --------------------------
(* What Suspend() and Resume() of one host thread are to agree on, whatever  *)
(* the order of their steps: the suspend count, the signals on their way,    *)
(* the waits in the signal handler and the tokens of suspend_sem_.           *)
EXTENDS Integers, FiniteSets

CONSTANTS
  Controllers,      \* the other threads
  MaxTerminates     \* bound: calls of Terminate()

VARIABLES
  use,           \* how the thread is used; use.created: it was created suspended
  sem,           \* the value of suspend_sem_
  signals,       \* kThreadSuspend signals sent and not delivered
  handling,      \* the thread is in signal_handler, in WaitSuspended
  tpc,           \* where the thread is, outside of the handler
  cpc,           \* where every controller is
  terminatesLeft,
  held           \* history: the suspend count as documented: creation and
                 \* Suspend() add one, Resume() takes one away

\* The other threads that are at l.
ControllersAt(l) == {c \in Controllers : cpc[c] = l}

\* The waits on suspend_sem_, under way or still to come.
SemWaits ==
  signals + Cardinality(ControllersAt("kill"))
    + (IF handling THEN 1 ELSE 0) + (IF tpc = "suspending" THEN 1 ELSE 0)

\* Suspend() "suspends the specified thread" (thread.h:464): once its signal
\* has been delivered, the thread executes nothing of its routine until the
\* suspend count is back at zero.
NoCodeWhileSuspended ==
  held > 0 /\ signals = 0 /\ ControllersAt("kill") = {} /\ ~handling => tpc # "run"

\* Every wait on suspend_sem_, under way or still to come, has its token, or
\* the suspension in force that Resume() will turn into one; a token too many
\* would let a later Suspend() through, one too few would stop the thread.
\* (Once somebody has called Terminate(), or the thread has ended by itself,
\* Resume() posts no more.)
TokensMatchWaits ==
  ~use.created /\ terminatesLeft = MaxTerminates /\ tpc \notin {"signal", "gone"} =>
    SemWaits = sem + held
=============================================================================
