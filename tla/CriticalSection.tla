-------------------------- MODULE CriticalSection --------------------------
(***************************************************************************)
(* The guest's critical section (src/src/kernel/xboxkrnl/                  *)
(* xboxkrnl_rtl.cpp): a count that is changed atomically, an owner with    *)
(* its recursion, and an auto-reset event for those who wait.  One step is *)
(* one access to a word that another thread reads; recursion_count is read *)
(* by the owner alone and goes with the step next to it.                   *)
(***************************************************************************)
EXTENDS Integers, FiniteSets

CONSTANTS
  Threads, NoThread,
  SpinCount,  \* header.absolute * 256, any multiple up to 255 * 256 in the code
  MaxDepth    \* bound: how often a thread enters again

ASSUME CriticalSectionAssumption ==
  /\ IsFiniteSet(Threads) /\ NoThread \notin Threads
  /\ SpinCount \in Nat /\ MaxDepth \in Nat \ {0}

VARIABLES
  lockCount,  \* lock_count: the threads inside or on their way in, less one
  recursion,  \* recursion_count
  owner,      \* owning_thread
  event,      \* the event of header: is it set
  pc,         \* where each thread is in Enter, TryEnter or Leave
  spins,      \* spin_count of the thread's RtlEnterCriticalSection
  depth       \* how often each thread is inside, as its calls have returned

vars == <<lockCount, recursion, owner, event, pc, spins, depth>>

Pc == {"out", "enter", "spin", "count", "wait", "own", "try", "tryAgain",
       "uncount", "unlock", "signal"}

TypeOK ==
  /\ lockCount \in Int
  /\ recursion \in Nat
  /\ owner \in Threads \cup {NoThread}
  /\ event \in BOOLEAN
  /\ pc \in [Threads -> Pc]
  /\ spins \in [Threads -> 0 .. SpinCount]
  /\ depth \in [Threads -> Nat]

\* RtlInitializeCriticalSection, with a spin count or without.
Init ==
  /\ lockCount = -1 /\ recursion = 0 /\ owner = NoThread /\ event = FALSE
  /\ pc = [t \in Threads |-> "out"]
  /\ spins = [t \in Threads |-> 0]
  /\ depth = [t \in Threads |-> 0]

At(t, l) == pc[t] = l
Goto(t, l) == pc' = [pc EXCEPT ![t] = l]
Returns(t) == Goto(t, "out")

-----------------------------------------------------------------------------
(* RtlEnterCriticalSection.                                                 *)

CallEnter(t) ==
  /\ At(t, "out") /\ depth[t] < MaxDepth
  /\ Goto(t, "enter")
  /\ spins' = [spins EXCEPT ![t] = SpinCount]
  /\ UNCHANGED <<lockCount, recursion, owner, event, depth>>

\* Mutant: the owner enters again without counting itself.
EnterAgainUncounted(t) ==
  /\ owner = t
  /\ recursion' = recursion + 1
  /\ depth' = [depth EXCEPT ![t] = @ + 1]
  /\ Returns(t)
  /\ UNCHANGED <<lockCount, owner, event, spins>>

\* atomic_inc(&lock_count); recursion_count++.
EnterAgain(t) ==
  /\ owner = t
  /\ lockCount' = lockCount + 1
  /\ recursion' = recursion + 1
  /\ depth' = [depth EXCEPT ![t] = @ + 1]
  /\ Returns(t)
  /\ UNCHANGED <<owner, event, spins>>

Enter(t) ==
  /\ At(t, "enter")
  /\ \/ EnterAgain(t)
     \/ /\ owner # t
        /\ Goto(t, "spin")
        /\ UNCHANGED <<lockCount, recursion, owner, event, spins, depth>>

\* atomic_cas(-1, 0, &lock_count).
TakeFree(t) ==
  /\ lockCount = -1
  /\ lockCount' = 0
  /\ Goto(t, "own")

Spin(t) ==
  /\ At(t, "spin") /\ spins[t] > 0
  /\ spins' = [spins EXCEPT ![t] = @ - 1]
  /\ \/ TakeFree(t)
     \/ lockCount # -1 /\ UNCHANGED <<lockCount, pc>>
  /\ UNCHANGED <<recursion, owner, event, depth>>

EndSpin(t) ==
  /\ At(t, "spin") /\ spins[t] = 0
  /\ Goto(t, "count")
  /\ UNCHANGED <<lockCount, recursion, owner, event, spins, depth>>

\* atomic_inc(&lock_count) != 0: somebody is inside, or before this thread.
CountIn(t) ==
  /\ At(t, "count")
  /\ lockCount' = lockCount + 1
  /\ Goto(t, IF lockCount' # 0 THEN "wait" ELSE "own")
  /\ UNCHANGED <<recursion, owner, event, spins, depth>>

\* xeKeWaitForSingleObject, which takes the event.
Wait(t) ==
  /\ At(t, "wait") /\ event
  /\ event' = FALSE
  /\ Goto(t, "own")
  /\ UNCHANGED <<lockCount, recursion, owner, spins, depth>>

\* Nobody else reads owning_thread and finds itself in it.
Own(t) ==
  /\ At(t, "own")
  /\ owner' = t /\ recursion' = 1
  /\ depth' = [depth EXCEPT ![t] = @ + 1]
  /\ Returns(t)
  /\ UNCHANGED <<lockCount, event, spins>>

-----------------------------------------------------------------------------
(* RtlTryEnterCriticalSection.                                              *)

CallTryEnter(t) ==
  /\ At(t, "out") /\ depth[t] < MaxDepth
  /\ Goto(t, "try")
  /\ UNCHANGED <<lockCount, recursion, owner, event, spins, depth>>

TryEnter(t) ==
  /\ At(t, "try")
  /\ \/ TakeFree(t)
     \/ lockCount # -1 /\ Goto(t, "tryAgain") /\ UNCHANGED lockCount
  /\ UNCHANGED <<recursion, owner, event, spins, depth>>

TryEnterAgain(t) ==
  /\ At(t, "tryAgain")
  /\ \/ EnterAgain(t)
     \/ /\ owner # t
        /\ Returns(t)
        /\ UNCHANGED <<lockCount, recursion, owner, event, spins, depth>>

-----------------------------------------------------------------------------
(* RtlLeaveCriticalSection, called by the owner: its assertion says so.     *)

\* --recursion_count, and owning_thread = 0 if that was the last.
CallLeave(t) ==
  /\ At(t, "out") /\ depth[t] > 0
  /\ recursion' = recursion - 1
  /\ depth' = [depth EXCEPT ![t] = @ - 1]
  /\ IF recursion' # 0 THEN Goto(t, "uncount") /\ UNCHANGED owner
                       ELSE Goto(t, "unlock") /\ owner' = NoThread
  /\ UNCHANGED <<lockCount, event, spins>>

\* atomic_dec(&lock_count) of an owner that stays.
Uncount(t) ==
  /\ At(t, "uncount")
  /\ lockCount' = lockCount - 1
  /\ Returns(t)
  /\ UNCHANGED <<recursion, owner, event, spins, depth>>

\* Mutant: a single waiter is overlooked.
UnlockAboveZero(t) ==
  /\ At(t, "unlock")
  /\ lockCount' = lockCount - 1
  /\ Goto(t, IF lockCount' > 0 THEN "signal" ELSE "out")
  /\ UNCHANGED <<recursion, owner, event, spins, depth>>

\* atomic_dec(&lock_count) != -1: there are waiters.
Unlock(t) ==
  /\ At(t, "unlock")
  /\ lockCount' = lockCount - 1
  /\ Goto(t, IF lockCount' # -1 THEN "signal" ELSE "out")
  /\ UNCHANGED <<recursion, owner, event, spins, depth>>

\* xeKeSetEvent: wake one of them.
Signal(t) ==
  /\ At(t, "signal")
  /\ event' = TRUE
  /\ Returns(t)
  /\ UNCHANGED <<lockCount, recursion, owner, spins, depth>>

-----------------------------------------------------------------------------
Call(t) == CallEnter(t) \/ CallTryEnter(t) \/ CallLeave(t)

Step(t) ==
  \/ Enter(t) \/ Spin(t) \/ EndSpin(t) \/ CountIn(t) \/ Wait(t) \/ Own(t)
  \/ TryEnter(t) \/ TryEnterAgain(t)
  \/ Uncount(t) \/ Unlock(t) \/ Signal(t)

Next == \E t \in Threads : Call(t) \/ Step(t)

Spec == Init /\ [][Next]_vars

\* The host schedules every thread.  Which of several waiters a signal goes to
\* is not said.
FairSpec == Spec /\ \A t \in Threads : WF_vars(Step(t))

-----------------------------------------------------------------------------
(* Properties.                                                              *)

ThreadsAt(l) == {t \in Threads : pc[t] = l}

\* The critical section is a recursive lock: a thread is inside only while
\* nobody else is, also between the three steps in which a thread leaves it
\* (owner, count, event), and nobody who spins takes it from one who waits.
Section == INSTANCE RecursiveLock
SectionImplemented == Section!Spec

InsideLeave == \A t \in Threads : depth[t] > 0 ~> depth[t] = 0

\* If whoever is inside leaves again, then whenever threads wait one of them is
\* let in: Set() of the event is neither lost nor given to nobody, although it
\* comes after the count has said that the section is taken.
WaiterIsLetIn ==
  InsideLeave => (ThreadsAt("wait") # {} ~> \E t \in Threads : pc[t] = "own")
=============================================================================
