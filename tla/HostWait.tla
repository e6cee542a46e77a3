------------------------------ MODULE HostWait ------------------------------
(***************************************************************************)
(* Waiting in rex::thread (src/src/core/threading_posix.cpp): events,      *)
(* semaphores and mutants as a mutex, a condition variable and a few       *)
(* fields each, Wait() and SignalAndWait() on the condition variable,      *)
(* WaitMultiple() polling under the mutexes of all its objects, and the    *)
(* alertable forms, which cut a wait into slices and look for user         *)
(* callbacks in between.                                                   *)
(*                                                                         *)
(* A critical section of one mutex is one step.  WaitMultiple takes the    *)
(* mutexes one by one with trylock; lock[o] is the poller that holds       *)
(* mutex_ of o.                                                            *)
(***************************************************************************)
EXTENDS Integers, Sequences, FiniteSets

CONSTANTS
  Threads, Nobody,
  ManualEvents, AutoEvents, Semaphores, Mutants,
  InitialCount, MaximumCount, InitialOwner,
  Requests,         \* the waits each thread may ask for
  NoWait,
  MaxCalls,         \* bound: calls of each thread
  MaxCallbacks,     \* bound: user callbacks queued at one time
  ForeignReleases   \* may a thread release a mutant it does not own

RequestType == [objs : Seq(ManualEvents \cup AutoEvents \cup Semaphores \cup Mutants),
                all : BOOLEAN, timed : BOOLEAN, alertable : BOOLEAN]

ASSUME HostWaitAssumption ==
  /\ Nobody \notin Threads /\ InitialOwner \in Threads \cup {Nobody}
  /\ \A t \in Threads : Requests[t] \subseteq RequestType /\ NoWait \notin Requests[t]
  /\ \A t \in Threads : \A r \in Requests[t] : r.objs # <<>>
  /\ (ManualEvents \cup AutoEvents) \cap (Semaphores \cup Mutants) = {}
  /\ Semaphores \cap Mutants = {}
  /\ InitialCount \in Nat /\ MaximumCount \in Nat \ {0} /\ InitialCount <= MaximumCount
  /\ MaxCalls \in Nat /\ MaxCallbacks \in Nat
  /\ ForeignReleases \in BOOLEAN

VARIABLES
  signal, count, owner,  \* signal_, count_ and owner_ of the objects
  lock,        \* the poller that holds mutex_ of each object, or Nobody
  pc,
  req,         \* the wait of each thread's call, NoWait for the others
  taken,       \* how many mutexes a poller holds
  subject,     \* the event being pulsed, the mutant being released
  callbacks,   \* how many user_callbacks_ each thread has
  callsLeft,
  holds        \* history: how often each thread acquired each mutant and did
               \* not release it

objectVars == <<signal, count, owner>>
vars == <<objectVars, lock, pc, req, taken, subject, callbacks, callsLeft, holds>>

WaitingPc == {"alert", "wait", "asleep", "expired", "try"}
Waiting == [t \in Threads |-> IF pc[t] \in WaitingPc THEN req[t] ELSE NoWait]
Abstract == INSTANCE DispatcherObjects WITH waiting <- Waiting

Everything == Abstract!Events \cup Abstract!Counted

TypeOK ==
  /\ signal \in [Abstract!Events -> BOOLEAN]
  /\ count \in [Abstract!Counted -> Nat]
  /\ \A s \in Semaphores : count[s] <= MaximumCount
  /\ owner \in [Mutants -> Threads \cup {Nobody}]
  /\ lock \in [Everything -> Threads \cup {Nobody}]
  /\ pc \in [Threads -> WaitingPc \cup {"ready", "pulse", "readCount", "release"}]
  /\ DOMAIN req = Threads /\ \A t \in Threads : req[t] \in Requests[t] \cup {NoWait}
  /\ \A t \in Threads : pc[t] \in WaitingPc => req[t] # NoWait
  /\ taken \in [Threads -> Nat]
  /\ subject \in [Threads -> Everything \cup {Nobody}]
  /\ callbacks \in [Threads -> Nat]
  /\ callsLeft \in [Threads -> Nat]
  /\ holds \in [Threads -> [Mutants -> Nat]]

Init ==
  /\ signal = [e \in Abstract!Events |-> FALSE]
  /\ owner = [m \in Mutants |-> InitialOwner]
  /\ count = [c \in Abstract!Counted |->
                IF c \in Semaphores THEN InitialCount ELSE IF InitialOwner = Nobody THEN 0 ELSE 1]
  /\ lock = [o \in Everything |-> Nobody]
  /\ pc = [t \in Threads |-> "ready"]
  /\ req = [t \in Threads |-> NoWait]
  /\ taken = [t \in Threads |-> 0]
  /\ subject = [t \in Threads |-> Nobody]
  /\ callbacks = [t \in Threads |-> 0]
  /\ callsLeft = [t \in Threads |-> MaxCalls]
  /\ holds = [t \in Threads |-> [m \in Mutants |-> IF InitialOwner = t THEN 1 ELSE 0]]

Goto(t, l) == pc' = [pc EXCEPT ![t] = l]

\* Where Wait and WaitMultiple begin, each slice of an alertable wait too.
SliceStart(r) == IF Len(r.objs) = 1 THEN "wait" ELSE "try"
WaitStart(r) == IF r = NoWait THEN "ready" ELSE IF r.alertable THEN "alert" ELSE SliceStart(r)

\* cond_.notify_all() by t, which goes on at l.
NotifyAndGoto(o, t, l) ==
  pc' = [u \in Threads |-> IF u = t THEN l
                           ELSE IF pc[u] = "asleep" /\ req[u].objs = <<o>> THEN "wait"
                           ELSE pc[u]]

\* The call of t returns.
Return(t) ==
  /\ Goto(t, "ready")
  /\ req' = [req EXCEPT ![t] = NoWait]

\* The wait, or the slice of an alertable wait, is over without success.
EndSlice(t) ==
  IF req[t].alertable THEN Goto(t, "alert") /\ UNCHANGED req
  ELSE Return(t)

BeginCall(t) ==
  /\ pc[t] = "ready" /\ callsLeft[t] > 0
  /\ callsLeft' = [callsLeft EXCEPT ![t] = @ - 1]

\* post_execution of the objects in S.
Acquire(S, t) ==
  /\ Abstract!Take(S, t)
  /\ holds' = [holds EXCEPT ![t] = [m \in Mutants |-> IF m \in S THEN @[m] + 1 ELSE @[m]]]

-----------------------------------------------------------------------------
(* Signalling.  Each may be the first half of a SignalAndWait for r.         *)

WaitsAfter(t) == {NoWait} \cup {r \in Requests[t] : Len(r.objs) = 1}

\* Mutant: Signal() forgets to notify.
SetWithoutNotify(t, e, r) ==
  /\ BeginCall(t)
  /\ lock[e] = Nobody
  /\ Abstract!Set(e)
  /\ req' = [req EXCEPT ![t] = r]
  /\ Goto(t, WaitStart(r))
  /\ UNCHANGED <<lock, taken, subject, callbacks, holds>>

Set(t, e, r) ==
  /\ BeginCall(t)
  /\ lock[e] = Nobody
  /\ Abstract!Set(e)
  /\ req' = [req EXCEPT ![t] = r]
  /\ NotifyAndGoto(e, t, WaitStart(r))
  /\ UNCHANGED <<lock, taken, subject, callbacks, holds>>

\* Pulse: Signal, yield and sleep, Reset.
Pulse(t, e) ==
  /\ BeginCall(t)
  /\ lock[e] = Nobody
  /\ Abstract!Set(e)
  /\ subject' = [subject EXCEPT ![t] = e]
  /\ NotifyAndGoto(e, t, "pulse")
  /\ UNCHANGED <<lock, req, taken, callbacks, holds>>

EndPulse(t) ==
  /\ pc[t] = "pulse"
  /\ lock[subject[t]] = Nobody
  /\ Abstract!Reset(subject[t])
  /\ subject' = [subject EXCEPT ![t] = Nobody]
  /\ Goto(t, "ready")
  /\ UNCHANGED <<lock, req, taken, callbacks, callsLeft, holds>>

Reset(t, e) ==
  /\ BeginCall(t)
  /\ lock[e] = Nobody
  /\ Abstract!Reset(e)
  /\ UNCHANGED <<lock, pc, req, taken, subject, callbacks, holds>>

Release(t, s, n, r) ==
  /\ BeginCall(t)
  /\ r = NoWait \/ n = 1
  /\ lock[s] = Nobody
  /\ Abstract!Release(s, n)
  /\ req' = [req EXCEPT ![t] = r]
  /\ NotifyAndGoto(s, t, WaitStart(r))
  /\ UNCHANGED <<lock, taken, subject, callbacks, holds>>

\* More than the maximum: Release() returns false, SignalAndWait kFailed.
ReleaseFails(t, s, n) ==
  /\ BeginCall(t)
  /\ lock[s] = Nobody
  /\ n > MaximumCount - count[s]
  /\ UNCHANGED <<objectVars, lock, pc, req, taken, subject, callbacks, holds>>

\* Mutant::Release reads owner_ and then count_ before it takes mutex_.
ReadOwner(t, m, r) ==
  /\ BeginCall(t)
  /\ ForeignReleases \/ holds[t][m] > 0
  /\ IF owner[m] = t
     THEN /\ Goto(t, "readCount")
          /\ subject' = [subject EXCEPT ![t] = m]
          /\ req' = [req EXCEPT ![t] = r]
     ELSE UNCHANGED <<pc, subject, req>>
  /\ UNCHANGED <<objectVars, lock, taken, callbacks, holds>>

ReadCount(t) ==
  /\ pc[t] = "readCount"
  /\ IF count[subject[t]] > 0
     THEN Goto(t, "release") /\ UNCHANGED <<req, subject>>
     ELSE Return(t) /\ subject' = [subject EXCEPT ![t] = Nobody]
  /\ UNCHANGED <<objectVars, lock, taken, callbacks, callsLeft, holds>>

ReleaseMutant(t) ==
  /\ pc[t] = "release"
  /\ lock[subject[t]] = Nobody
  /\ Abstract!ReleaseMutant(subject[t])
  /\ holds' = [holds EXCEPT ![t][subject[t]] = IF @ = 0 THEN 0 ELSE @ - 1]
  /\ IF count[subject[t]] = 1
     THEN NotifyAndGoto(subject[t], t, WaitStart(req[t]))
     ELSE Goto(t, WaitStart(req[t]))
  /\ subject' = [subject EXCEPT ![t] = Nobody]
  /\ UNCHANGED <<lock, req, taken, callbacks, callsLeft>>

-----------------------------------------------------------------------------
(* Waiting.                                                                 *)

BeginWait(t, r) ==
  /\ BeginCall(t)
  /\ req' = [req EXCEPT ![t] = r]
  /\ Goto(t, WaitStart(r))
  /\ UNCHANGED <<objectVars, lock, taken, subject, callbacks, holds>>

TimeMayRunOut(t) == req[t].timed \/ req[t].alertable

\* The loop of an alertable wait: one user callback, the deadline, a slice.
DispatchCallback(t) ==
  /\ pc[t] = "alert"
  /\ callbacks[t] > 0
  /\ callbacks' = [callbacks EXCEPT ![t] = @ - 1]
  /\ Return(t)
  /\ UNCHANGED <<objectVars, lock, taken, subject, callsLeft, holds>>

DeadlinePasses(t) ==
  /\ pc[t] = "alert"
  /\ callbacks[t] = 0 /\ req[t].timed
  /\ Return(t)
  /\ UNCHANGED <<objectVars, lock, taken, subject, callbacks, callsLeft, holds>>

BeginSlice(t) ==
  /\ pc[t] = "alert"
  /\ callbacks[t] = 0
  /\ Goto(t, SliceStart(req[t]))
  /\ UNCHANGED <<objectVars, lock, req, taken, subject, callbacks, callsLeft, holds>>

\* Wait: the predicate under mutex_, before the first sleep, after a
\* notification and once more when the time is up.
WaitSucceeds(t) ==
  /\ pc[t] \in {"wait", "expired"}
  /\ lock[req[t].objs[1]] = Nobody
  /\ Abstract!Satisfied(req[t], t)
  /\ Acquire(Abstract!Takes(req[t], t), t)
  /\ Return(t)
  /\ UNCHANGED <<lock, taken, subject, callbacks, callsLeft>>

WaitSleeps(t) ==
  /\ pc[t] = "wait"
  /\ lock[req[t].objs[1]] = Nobody
  /\ ~Abstract!Satisfied(req[t], t)
  /\ Goto(t, "asleep")
  /\ UNCHANGED <<objectVars, lock, req, taken, subject, callbacks, callsLeft, holds>>

TimeRunsOut(t) ==
  /\ pc[t] = "asleep"
  /\ TimeMayRunOut(t)
  /\ Goto(t, "expired")
  /\ UNCHANGED <<objectVars, lock, req, taken, subject, callbacks, callsLeft, holds>>

WaitExpires(t) ==
  /\ pc[t] = "expired"
  /\ lock[req[t].objs[1]] = Nobody
  /\ ~Abstract!Satisfied(req[t], t)
  /\ EndSlice(t)
  /\ UNCHANGED <<objectVars, lock, taken, subject, callbacks, callsLeft, holds>>

-----------------------------------------------------------------------------
(* WaitMultiple.                                                            *)

NextObject(t) == req[t].objs[taken[t] + 1]
AllTaken(t) == pc[t] = "try" /\ taken[t] = Len(req[t].objs)

Unlock(t) ==
  /\ lock' = [o \in Everything |-> IF lock[o] = t THEN Nobody ELSE lock[o]]
  /\ taken' = [taken EXCEPT ![t] = 0]

TryLock(t) ==
  /\ pc[t] = "try" /\ ~AllTaken(t)
  /\ lock[NextObject(t)] = Nobody
  /\ lock' = [lock EXCEPT ![NextObject(t)] = t]
  /\ taken' = [taken EXCEPT ![t] = @ + 1]
  /\ UNCHANGED <<objectVars, pc, req, subject, callbacks, callsLeft, holds>>

\* Mutant: the poller waits for a mutex with the others held.
KeepLocks(t) ==
  /\ pc[t] = "try" /\ ~AllTaken(t)
  /\ lock[NextObject(t)] # Nobody
  /\ UNCHANGED vars

\* trylock failed: let go of the others, yield and begin again.
TryFails(t) ==
  /\ pc[t] = "try" /\ ~AllTaken(t)
  /\ lock[NextObject(t)] # Nobody
  /\ Unlock(t)
  /\ UNCHANGED <<objectVars, pc, req, subject, callbacks, callsLeft, holds>>

\* Mutant: wait_all takes what is signaled.
TakeSignaled(t) ==
  /\ AllTaken(t)
  /\ \E o \in Abstract!Objects(req[t]) : Abstract!Signaled(o, t)
  /\ Acquire({o \in Abstract!Objects(req[t]) : Abstract!Signaled(o, t)}, t)
  /\ Unlock(t)
  /\ Return(t)
  /\ UNCHANGED <<subject, callbacks, callsLeft>>

PollSucceeds(t) ==
  /\ AllTaken(t)
  /\ Abstract!Satisfied(req[t], t)
  /\ Acquire(Abstract!Takes(req[t], t), t)
  /\ Unlock(t)
  /\ Return(t)
  /\ UNCHANGED <<subject, callbacks, callsLeft>>

\* Not satisfied: unlock, then return at the deadline or sleep for one
\* millisecond and poll again.
PollAgain(t) ==
  /\ AllTaken(t)
  /\ ~Abstract!Satisfied(req[t], t)
  /\ Unlock(t)
  /\ UNCHANGED <<objectVars, pc, req, subject, callbacks, callsLeft, holds>>

PollExpires(t) ==
  /\ AllTaken(t)
  /\ ~Abstract!Satisfied(req[t], t)
  /\ TimeMayRunOut(t)
  /\ Unlock(t)
  /\ EndSlice(t)
  /\ UNCHANGED <<objectVars, subject, callbacks, callsLeft, holds>>

\* QueueUserCallback for t by another thread; its signal is only a hint.
QueueUserCallback(t) ==
  /\ callbacks[t] < MaxCallbacks
  /\ callbacks' = [callbacks EXCEPT ![t] = @ + 1]
  /\ UNCHANGED <<objectVars, lock, pc, req, taken, subject, callsLeft, holds>>

-----------------------------------------------------------------------------
SignalCalls(t) ==
  \/ \E r \in WaitsAfter(t) :
       \/ \E e \in Abstract!Events : Set(t, e, r)
       \/ \E s \in Semaphores, n \in 1..MaximumCount : Release(t, s, n, r)
       \/ \E m \in Mutants : ReadOwner(t, m, r)
  \/ \E e \in Abstract!Events : Pulse(t, e) \/ Reset(t, e)
  \/ \E s \in Semaphores, n \in 1..MaximumCount : ReleaseFails(t, s, n)

\* The steps of a call that has begun.
Progress(t) ==
  \/ EndPulse(t) \/ ReadCount(t) \/ ReleaseMutant(t)
  \/ DispatchCallback(t) \/ BeginSlice(t)
  \/ WaitSucceeds(t) \/ WaitSleeps(t) \/ WaitExpires(t)
  \/ TryLock(t) \/ TryFails(t) \/ PollSucceeds(t) \/ PollAgain(t)

TimePasses(t) == DeadlinePasses(t) \/ TimeRunsOut(t) \/ PollExpires(t)

Next == \E t \in Threads :
  \/ SignalCalls(t) \/ \E r \in Requests[t] : BeginWait(t, r)
  \/ Progress(t) \/ TimePasses(t)
  \/ QueueUserCallback(t)

Spec == Init /\ [][Next]_vars

\* Every thread in a call is scheduled, and deadlines pass however often a
\* thread is woken before.
Fairness == \A t \in Threads :
  /\ WF_vars(Progress(t))
  /\ SF_vars(DeadlinePasses(t)) /\ SF_vars(TimeRunsOut(t)) /\ SF_vars(PollExpires(t))

FairSpec == Spec /\ Fairness

-----------------------------------------------------------------------------
(* Properties.                                                              *)

\* Every wait takes what it waits for in one step, all of it or nothing, and
\* what it takes was there: two threads never get one Set of an auto-reset
\* event (thread.h:285), one count of a semaphore, or one mutant.
ImplementsObjects == Abstract!Spec

\* A thread that sleeps on the condition variable of an object does so because
\* the object was not signaled when it looked, and everybody who signals the
\* object wakes it: no notification is lost.
SleepersAreNotMissed ==
  \A t \in Threads : pc[t] = "asleep" => ~Abstract!Satisfied(req[t], t)

LocksAreReleased == \A o \in Everything : lock[o] # Nobody ~> lock[o] = Nobody

OthersPoll(t) == \E u \in Threads \ {t} : pc[u] = "try"

TimedWaitReturns ==
  \A t \in Threads :
    ~<>[](pc[t] \in WaitingPc /\ req[t].timed /\ ~OthersPoll(t))

CallbackIsDispatched ==
  \A t \in Threads :
    ~<>[](pc[t] \in WaitingPc /\ req[t].alertable /\ callbacks[t] > 0 /\ ~OthersPoll(t))

\* Waits end as their callers asked: pollers that take mutexes in opposite
\* orders let go of them; "if timeout is zero the call will return immediately",
\* and any timeout ends a wait that nothing satisfies (thread.h:224); an
\* alertable wait dispatches a user callback that is queued for the thread.
\* Two pollers can make each other's trylock fail for ever, so the last two
\* hold for a wait without rivals.
WaitsMoveOn == LocksAreReleased /\ TimedWaitReturns /\ CallbackIsDispatched
=============================================================================
