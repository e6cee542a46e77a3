----------------------------- MODULE HostThread -----------------------------
(***************************************************************************)
(* PosixCondition<Thread> (src/src/core/threading_posix.cpp): one host     *)
(* thread, from pthread_create to pthread_join, and the threads that       *)
(* resume, suspend, terminate and wait for it.                             *)
(*                                                                         *)
(* A thread that others suspend stops inside a signal handler, in          *)
(* sem_wait(suspend_sem_); real-time signals queue, and the handler runs   *)
(* to its end before the next one is delivered.  The signal may arrive     *)
(* while the thread holds state_mutex_, so the critical sections of the    *)
(* thread itself are two steps; those of the others are one.  Where a      *)
(* critical section of the others needs state_mutex_, it waits for it.     *)
(***************************************************************************)
EXTENDS ThreadSuspension

CONSTANTS
  Nobody, Self,     \* Self: the thread itself, as a holder of state_mutex_
  Uses,             \* how the thread may be used, see UseType
  MaxNesting,       \* bound: suspensions in force or under way at one time
  MaxWaits          \* bound: Wait() calls on the thread object

\* created: params.create_suspended; ends: may the start routine return or
\* call Exit; suspends: a bound on the calls of Suspend().
UseType == [created : BOOLEAN, ends : BOOLEAN, suspends : Nat]

ASSUME HostThreadAssumption ==
  /\ IsFiniteSet(Controllers)
  /\ Nobody \notin Controllers /\ Self \notin Controllers /\ Nobody # Self
  /\ Uses \subseteq UseType
  /\ MaxNesting \in Nat
  /\ MaxWaits \in Nat /\ MaxTerminates \in Nat

VARIABLES
  state,         \* state_
  suspendCount,  \* suspend_count_
  stateMutex,    \* the holder of state_mutex_: Self or Nobody
  signaled,      \* signaled_
  condMutex,     \* the waiter that joins with mutex_ held, or Nobody
  cancelled,     \* pthread_cancel was called
  joins,         \* pthread_join calls that returned
  sleepers,      \* callers in WaitStarted, asleep on state_signal_
  suspendsLeft, waitsLeft

threadVars == <<handling, tpc>>
bounds == <<use, suspendsLeft, waitsLeft, terminatesLeft>>
vars == <<state, suspendCount, stateMutex, sem, signals, threadVars, signaled, condMutex,
          cancelled, joins, sleepers, cpc, bounds, held>>

States == {"Uninitialized", "Running", "Suspended", "Finished"}
ThreadPc == {"new", "starting", "hold", "created", "run", "selfSuspend", "suspending",
             "finish", "spin", "signal", "gone"}
ControllerPc == {"ready", "resume", "suspend", "kill", "terminate", "signal", "cancel",
                 "wait", "join"}

TypeOK ==
  /\ use \in Uses
  /\ state \in States
  /\ suspendCount \in Nat /\ held \in Nat /\ sem \in Nat /\ signals \in Nat /\ joins \in Nat
  /\ stateMutex \in {Self, Nobody}
  /\ stateMutex = Self <=> tpc \in {"hold", "selfSuspend", "finish", "spin"}
  /\ tpc \in ThreadPc
  /\ handling \in BOOLEAN /\ signaled \in BOOLEAN /\ cancelled \in BOOLEAN
  /\ handling => tpc \notin {"new", "gone"}
  /\ condMutex \in Controllers \cup {Nobody}
  /\ cpc \in [Controllers -> ControllerPc] /\ sleepers \subseteq Controllers
  /\ suspendsLeft \in Nat /\ waitsLeft \in Nat /\ terminatesLeft \in Nat

Init ==
  /\ use \in Uses
  /\ state = "Uninitialized" /\ suspendCount = 0 /\ stateMutex = Nobody
  /\ sem = 0 /\ signals = 0 /\ handling = FALSE /\ tpc = "new"
  /\ signaled = FALSE /\ condMutex = Nobody /\ cancelled = FALSE /\ joins = 0
  /\ cpc = [c \in Controllers |-> "ready"] /\ sleepers = {}
  /\ suspendsLeft = use.suspends /\ waitsLeft = MaxWaits /\ terminatesLeft = MaxTerminates
  /\ held = IF use.created THEN 1 ELSE 0

Goto(c, l) == cpc' = [cpc EXCEPT ![c] = l]

\* The thread is at program point l and takes a step of its own.
At(l) == tpc = l /\ ~handling

\* Another thread enters a critical section of state_mutex_.
StateUnlocked == stateMutex = Nobody

\* The caller finds in WaitStarted that the thread has started; a caller that
\* sleeps there finds out when it is notified.
Started(c) == c \notin sleepers /\ state # "Uninitialized" /\ StateUnlocked

-----------------------------------------------------------------------------
(* The thread: ThreadStartRoutine.                                          *)

\* Mutant: those who wait for the start are not notified.
StartNotifiesNobody ==
  /\ At("new") /\ StateUnlocked
  /\ state' = IF use.created THEN "Suspended" ELSE "Running"
  /\ tpc' = IF use.created THEN "starting" ELSE "run"
  /\ UNCHANGED <<suspendCount, stateMutex, sem, signals, handling, signaled, condMutex,
                 cancelled, joins, sleepers, cpc, bounds, held>>

\* The first critical section notifies those who wait for the start.
Start ==
  /\ At("new") /\ StateUnlocked
  /\ state' = IF use.created THEN "Suspended" ELSE "Running"
  /\ tpc' = IF use.created THEN "starting" ELSE "run"
  /\ sleepers' = {}
  /\ UNCHANGED <<suspendCount, stateMutex, sem, signals, handling, signaled, condMutex,
                 cancelled, joins, cpc, bounds, held>>

\* The second one, of a thread that is created suspended.
BeginHold ==
  /\ At("starting") /\ StateUnlocked
  /\ stateMutex' = Self
  /\ tpc' = "hold"
  /\ UNCHANGED <<state, suspendCount, sem, signals, handling, signaled, condMutex,
                 cancelled, joins, sleepers, cpc, bounds, held>>

\* Mutant: suspend_count_ stays zero.
HoldForgotten ==
  /\ At("hold")
  /\ stateMutex' = Nobody
  /\ tpc' = "created"
  /\ UNCHANGED <<state, suspendCount, sem, signals, handling, signaled, condMutex,
                 cancelled, joins, sleepers, cpc, bounds, held>>

\* suspend_count_ = 1, then the wait on state_signal_, which unlocks.
HoldCreated ==
  /\ At("hold")
  /\ suspendCount' = 1
  /\ stateMutex' = Nobody
  /\ tpc' = "created"
  /\ UNCHANGED <<state, sem, signals, handling, signaled, condMutex,
                 cancelled, joins, sleepers, cpc, bounds, held>>

CreatedWakes ==
  /\ At("created")
  /\ suspendCount = 0 /\ StateUnlocked
  /\ tpc' = "run"
  /\ UNCHANGED <<state, suspendCount, stateMutex, sem, signals, handling, signaled,
                 condMutex, cancelled, joins, sleepers, cpc, bounds, held>>

\* Suspend() of the thread by itself; Finish, the end of the start routine,
\* and Exit, which is Terminate() of the thread by itself, lock likewise.
LockTo(l) ==
  /\ At("run")
  /\ StateUnlocked
  /\ stateMutex' = Self
  /\ tpc' = l
  /\ UNCHANGED <<state, suspendCount, sem, signals, handling, signaled, condMutex,
                 cancelled, joins, sleepers, cpc, held>>

BeginSelfSuspend ==
  /\ suspendsLeft > 0
  /\ suspendCount + Cardinality({c \in Controllers : cpc[c] = "suspend"}) < MaxNesting
  /\ suspendsLeft' = suspendsLeft - 1
  /\ LockTo("selfSuspend")
  /\ UNCHANGED <<use, waitsLeft, terminatesLeft>>

SelfSuspend ==
  /\ At("selfSuspend")
  /\ state' = "Suspended"
  /\ suspendCount' = suspendCount + 1
  /\ held' = held + 1
  /\ stateMutex' = Nobody
  /\ tpc' = "suspending"
  /\ UNCHANGED <<sem, signals, handling, signaled, condMutex, cancelled, joins, sleepers, cpc,
                 bounds>>

WaitSuspended ==
  /\ At("suspending")
  /\ sem > 0
  /\ sem' = sem - 1
  /\ tpc' = "run"
  /\ UNCHANGED <<state, suspendCount, stateMutex, signals, handling, signaled, condMutex,
                 cancelled, joins, sleepers, cpc, bounds, held>>

BeginFinish == use.ends /\ LockTo("finish") /\ UNCHANGED bounds

Finish ==
  /\ At("finish")
  /\ state' = "Finished"
  /\ stateMutex' = Nobody
  /\ tpc' = "signal"
  /\ UNCHANGED <<suspendCount, sem, signals, handling, signaled, condMutex, cancelled,
                 joins, sleepers, cpc, bounds, held>>

\* Exit() after somebody's Terminate(): loop, lock held, until cancelled.
Spin ==
  /\ At("finish")
  /\ state = "Finished"
  /\ tpc' = "spin"
  /\ UNCHANGED <<state, suspendCount, stateMutex, sem, signals, handling, signaled,
                 condMutex, cancelled, joins, sleepers, cpc, bounds, held>>

\* signaled_ and the notification under mutex_, and the end of the thread.
End ==
  /\ At("signal")
  /\ condMutex = Nobody
  /\ signaled' = TRUE
  /\ tpc' = "gone"
  /\ UNCHANGED <<state, suspendCount, stateMutex, sem, signals, handling, condMutex,
                 cancelled, joins, sleepers, cpc, bounds, held>>

\* pthread_cancel with PTHREAD_CANCEL_ASYNCHRONOUS ends the thread anywhere;
\* unwinding unlocks what it holds.
Die ==
  /\ cancelled /\ tpc # "gone"
  /\ tpc' = "gone" /\ handling' = FALSE
  /\ stateMutex' = Nobody
  /\ UNCHANGED <<state, suspendCount, sem, signals, signaled, condMutex, cancelled, joins,
                 sleepers, cpc, bounds, held>>

\* The kernel delivers a signal: signal_handler calls WaitSuspended.
EnterHandler ==
  /\ signals > 0 /\ ~handling
  /\ tpc \notin {"new", "gone"}
  /\ signals' = signals - 1
  /\ handling' = TRUE
  /\ UNCHANGED <<state, suspendCount, stateMutex, sem, tpc, signaled, condMutex, cancelled,
                 joins, sleepers, cpc, bounds, held>>

LeaveHandler ==
  /\ handling
  /\ sem > 0
  /\ sem' = sem - 1
  /\ handling' = FALSE
  /\ UNCHANGED <<state, suspendCount, stateMutex, signals, tpc, signaled, condMutex,
                 cancelled, joins, sleepers, cpc, bounds, held>>

-----------------------------------------------------------------------------
(* The other threads.                                                       *)

Call(c, l) ==
  /\ cpc[c] = "ready"
  /\ Goto(c, l)
  /\ UNCHANGED <<state, suspendCount, stateMutex, sem, signals, threadVars, signaled,
                 condMutex, cancelled, joins, sleepers, held>>

CallResume(c) == Call(c, "resume") /\ UNCHANGED bounds

CallSuspend(c) ==
  /\ suspendsLeft > 0
  /\ suspendCount + Cardinality({d \in Controllers : cpc[d] = "suspend"})
       + (IF tpc = "selfSuspend" THEN 1 ELSE 0) < MaxNesting
  /\ suspendsLeft' = suspendsLeft - 1
  /\ Call(c, "suspend")
  /\ UNCHANGED <<use, waitsLeft, terminatesLeft>>

CallTerminate(c) ==
  /\ terminatesLeft > 0
  /\ terminatesLeft' = terminatesLeft - 1
  /\ Call(c, "terminate")
  /\ UNCHANGED <<use, suspendsLeft, waitsLeft>>

CallWait(c) ==
  /\ waitsLeft > 0
  /\ waitsLeft' = waitsLeft - 1
  /\ Call(c, "wait")
  /\ UNCHANGED <<use, suspendsLeft, terminatesLeft>>

Less(n) == IF n = 0 THEN 0 ELSE n - 1

\* WaitStarted: the caller tests the state and sleeps on state_signal_, which
\* Start notifies, and Resume() too when it resumes something.  Terminate(),
\* which stores kFinished, does not.
WaitStarted(c) ==
  /\ cpc[c] \in {"resume", "suspend"} /\ c \notin sleepers
  /\ state = "Uninitialized" /\ StateUnlocked
  /\ sleepers' = sleepers \cup {c}
  /\ UNCHANGED <<state, suspendCount, stateMutex, sem, signals, threadVars, signaled,
                 condMutex, cancelled, joins, cpc, bounds, held>>

\* Mutant: Resume() forgets to post.
ResumeWithoutPost(c) ==
  /\ cpc[c] = "resume" /\ Started(c)
  /\ held' = Less(held)
  /\ suspendCount' = Less(suspendCount)
  /\ IF suspendCount = 1 /\ state = "Suspended"
     THEN state' = "Running"
     ELSE UNCHANGED state
  /\ sleepers' = IF suspendCount = 0 THEN sleepers ELSE {}
  /\ Goto(c, "ready")
  /\ UNCHANGED <<sem, stateMutex, signals, threadVars, signaled, condMutex, cancelled, joins,
                 bounds>>

\* Resume() returns false when suspend_count_ is zero.
Resume(c) ==
  /\ cpc[c] = "resume" /\ Started(c)
  /\ held' = Less(held)
  /\ suspendCount' = Less(suspendCount)
  /\ IF suspendCount = 1 /\ state = "Suspended"
     THEN state' = "Running" /\ sem' = sem + 1
     ELSE UNCHANGED <<state, sem>>
  /\ sleepers' = IF suspendCount = 0 THEN sleepers ELSE {}
  /\ Goto(c, "ready")
  /\ UNCHANGED <<stateMutex, signals, threadVars, signaled, condMutex, cancelled, joins,
                 bounds>>

\* Suspend() sets the state whatever it was, then signals the thread.
Suspend(c) ==
  /\ cpc[c] = "suspend" /\ Started(c)
  /\ state' = "Suspended"
  /\ suspendCount' = suspendCount + 1
  /\ held' = held + 1
  /\ Goto(c, "kill")
  /\ UNCHANGED <<stateMutex, sem, signals, threadVars, signaled, condMutex, cancelled,
                 joins, sleepers, bounds>>

\* Mutant: the signal is not sent.
KillSendsNothing(c) ==
  /\ cpc[c] = "kill"
  /\ Goto(c, "ready")
  /\ UNCHANGED <<state, suspendCount, stateMutex, sem, signals, threadVars, signaled,
                 condMutex, cancelled, joins, sleepers, bounds, held>>

Kill(c) ==
  /\ cpc[c] = "kill"
  /\ signals' = IF tpc = "gone" THEN signals ELSE signals + 1
  /\ Goto(c, "ready")
  /\ UNCHANGED <<state, suspendCount, stateMutex, sem, threadVars, signaled, condMutex,
                 cancelled, joins, sleepers, bounds, held>>

Terminate(c) ==
  /\ cpc[c] = "terminate" /\ StateUnlocked
  /\ IF state = "Finished"
     THEN Goto(c, "ready") /\ UNCHANGED state
     ELSE Goto(c, "signal") /\ state' = "Finished"
  /\ UNCHANGED <<suspendCount, stateMutex, sem, signals, threadVars, signaled, condMutex,
                 cancelled, joins, sleepers, bounds, held>>

TerminateSignals(c) ==
  /\ cpc[c] = "signal" /\ condMutex = Nobody
  /\ signaled' = TRUE
  /\ Goto(c, "cancel")
  /\ UNCHANGED <<state, suspendCount, stateMutex, sem, signals, threadVars, condMutex,
                 cancelled, joins, sleepers, bounds, held>>

\* Mutant: the thread is not cancelled.
CancelNothing(c) ==
  /\ cpc[c] = "cancel"
  /\ Goto(c, "ready")
  /\ UNCHANGED <<state, suspendCount, stateMutex, sem, signals, threadVars, signaled,
                 condMutex, cancelled, joins, sleepers, bounds, held>>

Cancel(c) ==
  /\ cpc[c] = "cancel"
  /\ cancelled' = TRUE
  /\ Goto(c, "ready")
  /\ UNCHANGED <<state, suspendCount, stateMutex, sem, signals, threadVars, signaled,
                 condMutex, joins, sleepers, bounds, held>>

\* Wait() on the thread object: post_execution joins it with mutex_ held.
WaitSignaled(c) ==
  /\ cpc[c] = "wait"
  /\ signaled /\ condMutex = Nobody
  /\ condMutex' = c
  /\ Goto(c, "join")
  /\ UNCHANGED <<state, suspendCount, stateMutex, sem, signals, threadVars, signaled,
                 cancelled, joins, sleepers, bounds, held>>

Join(c) ==
  /\ cpc[c] = "join"
  /\ tpc = "gone"
  /\ joins' = joins + 1
  /\ condMutex' = Nobody
  /\ Goto(c, "ready")
  /\ UNCHANGED <<state, suspendCount, stateMutex, sem, signals, threadVars, signaled,
                 cancelled, sleepers, bounds, held>>

-----------------------------------------------------------------------------
\* What the thread does whether it wants to or not; suspending itself and
\* ending are its own choice.
ThreadStep ==
  \/ Start \/ BeginHold \/ HoldCreated \/ CreatedWakes \/ SelfSuspend \/ WaitSuspended
  \/ Finish \/ Spin \/ End \/ Die

CallStep(c) ==
  \/ WaitStarted(c) \/ Resume(c) \/ Suspend(c) \/ Kill(c) \/ Terminate(c) \/ TerminateSignals(c)
  \/ Cancel(c) \/ WaitSignaled(c) \/ Join(c)

Next ==
  \/ ThreadStep \/ EnterHandler \/ LeaveHandler
  \/ BeginSelfSuspend \/ BeginFinish
  \/ \E c \in Controllers : CallResume(c) \/ CallSuspend(c) \/ CallTerminate(c)
                              \/ CallWait(c) \/ CallStep(c)

Spec == Init /\ [][Next]_vars

\* Threads are scheduled and signals are delivered; a mutex somebody releases
\* again and again is got.
Fairness ==
  /\ WF_vars(ThreadStep) /\ WF_vars(EnterHandler) /\ WF_vars(LeaveHandler)
  /\ \A c \in Controllers : SF_vars(CallStep(c))

FairSpec == Spec /\ Fairness

-----------------------------------------------------------------------------
(* Properties.                                                              *)

\* The thread waits on suspend_sem_.
Asleep == handling \/ tpc = "suspending"
Stopped == Asleep \/ tpc = "created"
Ended == tpc = "gone"

SuspendedThreadStops == held > 0 ~> (Stopped \/ held = 0 \/ Ended \/ state = "Finished")

\* The signal came while the routine was ending: kFinished is stored over
\* kSuspended, and Resume() posts nothing.
EndedWhileSuspended == tpc = "signal" /\ state = "Finished"

ResumedThreadRuns ==
  (held = 0 /\ Asleep) ~> (~Asleep \/ held > 0 \/ EndedWhileSuspended)

\* The signal of a Suspend() is delivered, and the thread does stop; and "when
\* the suspend count is decremented to zero, the execution of the thread is
\* resumed" (thread.h:460), however the calls and the signals they send
\* interleave with the thread's own steps; but for EndedWhileSuspended.
SuspensionTakesEffect == SuspendedThreadStops /\ ResumedThreadRuns

\* The same for a thread created suspended, which waits on state_signal_.
CreatedThreadStarts == (held = 0 /\ tpc = "created") ~> tpc # "created"

\* The thread that c waits for in WaitStarted ended before it started: nobody
\* notifies state_signal_.
NeverNotified(c) == c \in sleepers /\ Ended

\* The signal came while the thread held state_mutex_, which Resume() needs.
SuspendedWithMutex == handling /\ stateMutex = Self

CallsReturn ==
  \A c \in Controllers :
    []<>~(NeverNotified(c) \/ SuspendedWithMutex) =>
      ((cpc[c] # "ready" /\ (cpc[c] = "wait" => signaled \/ Ended)) ~> cpc[c] = "ready")

TerminatedThreadEnds == (\E c \in Controllers : cpc[c] = "signal") ~> (Ended /\ signaled)

\* Terminate() ends the thread wherever it is, in the handler or out of it:
\* "the state of the thread object becomes signaled, releasing any other
\* threads that had been waiting" (thread.h:469).  And every call returns:
\* Resume(), Suspend() and Terminate() for good, Wait() when the thread object
\* has become signaled or the thread has ended, which must therefore have
\* signaled it.  Two cases in which the code blocks for good are left out by
\* name: NeverNotified and SuspendedWithMutex.
CallsComplete == CallsReturn /\ TerminatedThreadEnds
=============================================================================
