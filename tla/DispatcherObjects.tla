-------------------------- MODULE DispatcherObjects --------------------------
(***************************************************************************)
(* What include/rex/thread.h promises of events, semaphores and mutants:   *)
(* a wait takes everything it waits for in one step, when it can, and      *)
(* nothing otherwise.                                                      *)
(***************************************************************************)
EXTENDS Integers, Sequences

CONSTANTS
  Threads, Nobody,
  ManualEvents, AutoEvents, Semaphores, Mutants,
  InitialCount, MaximumCount,  \* of the semaphores
  InitialOwner,  \* of the mutants, or Nobody
  Requests,  \* the waits of each thread: the objects in order, wait_all,
             \* is there a timeout, is the wait alertable
  NoWait

VARIABLES
  signal,   \* the state of the events
  count,    \* the semaphores' counts, the mutants' recursion counts
  owner,    \* the last owner of each mutant: in force while its count is not 0
  waiting   \* the request each thread waits for

objectVars == <<signal, count, owner>>

Events == ManualEvents \cup AutoEvents
Counted == Semaphores \cup Mutants

Init ==
  /\ signal = [e \in Events |-> FALSE]
  /\ owner = [m \in Mutants |-> InitialOwner]
  /\ count = [c \in Counted |-> IF c \in Semaphores THEN InitialCount
                                ELSE IF InitialOwner = Nobody THEN 0 ELSE 1]
  /\ waiting = [t \in Threads |-> NoWait]

Objects(r) == {r.objs[k] : k \in 1..Len(r.objs)}

Signaled(o, t) ==
  \/ o \in Events /\ signal[o]
  \/ o \in Semaphores /\ count[o] > 0
  \/ o \in Mutants /\ (count[o] = 0 \/ owner[o] = t)

\* What a satisfied wait takes: all of its objects, or the first signaled one.
Takes(r, t) ==
  IF r.all THEN Objects(r)
  ELSE {r.objs[k] : k \in {i \in 1..Len(r.objs) :
          Signaled(r.objs[i], t) /\ \A j \in 1..(i - 1) : ~Signaled(r.objs[j], t)}}

Satisfied(r, t) ==
  IF r.all THEN \A o \in Objects(r) : Signaled(o, t) ELSE \E o \in Objects(r) : Signaled(o, t)

Take(S, t) ==
  /\ signal' = [e \in Events |-> signal[e] /\ ~(e \in AutoEvents /\ e \in S)]
  /\ count' = [c \in Counted |-> IF c \notin S THEN count[c]
                                 ELSE IF c \in Semaphores THEN count[c] - 1 ELSE count[c] + 1]
  /\ owner' = [m \in Mutants |-> IF m \in S THEN t ELSE owner[m]]

Set(e) == signal' = [signal EXCEPT ![e] = TRUE] /\ UNCHANGED <<count, owner>>
Reset(e) == signal' = [signal EXCEPT ![e] = FALSE] /\ UNCHANGED <<count, owner>>

Release(s, n) ==
  /\ n <= MaximumCount - count[s]
  /\ count' = [count EXCEPT ![s] = @ + n]
  /\ UNCHANGED <<signal, owner>>

ReleaseMutant(m) == count' = [count EXCEPT ![m] = @ - 1] /\ UNCHANGED <<signal, owner>>

Signal(t) ==
  \/ \E e \in Events : Set(e)
  \/ \E s \in Semaphores, n \in 1..MaximumCount : Release(s, n)
  \/ \E m \in Mutants : owner[m] = t /\ count[m] > 0 /\ ReleaseMutant(m)

-----------------------------------------------------------------------------
Wait(t, r) == waiting[t] = NoWait /\ waiting' = [waiting EXCEPT ![t] = r]
StopWaiting(t) == waiting' = [waiting EXCEPT ![t] = NoWait]

Begin(t) == (\E r \in Requests[t] : Wait(t, r)) /\ UNCHANGED objectVars

Satisfy(t) ==
  /\ waiting[t] # NoWait
  /\ Satisfied(waiting[t], t)
  /\ Take(Takes(waiting[t], t), t)
  /\ StopWaiting(t)

GiveUp(t) ==
  /\ waiting[t] # NoWait
  /\ waiting[t].timed \/ waiting[t].alertable
  /\ StopWaiting(t)
  /\ UNCHANGED objectVars

\* Signal an object, or signal it and wait as a single operation.
SignalAndWait(t) ==
  /\ waiting[t] = NoWait
  /\ Signal(t)
  /\ UNCHANGED waiting \/ \E r \in Requests[t] : Wait(t, r)

ResetEvent(t) ==
  /\ waiting[t] = NoWait
  /\ \E e \in Events : Reset(e)
  /\ UNCHANGED waiting

Next == \E t \in Threads :
  Begin(t) \/ Satisfy(t) \/ GiveUp(t) \/ SignalAndWait(t) \/ ResetEvent(t)

Spec == Init /\ [][Next]_<<signal, count, owner, waiting>>
=============================================================================
