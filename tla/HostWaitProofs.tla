--------------------------- MODULE HostWaitProofs ---------------------------
(***************************************************************************)
(* The events, semaphores and mutants of the host are dispatcher objects,  *)
(* for any number of threads and objects and any waits, as long as only    *)
(* the owner of a mutant releases it.  The argument: what a thread has     *)
(* acquired and not released agrees with the mutant's fields (Ownership),  *)
(* so that the checks Release() makes outside the mutex still hold when it *)
(* has the mutex; and what a thread waits for agrees with its place in the *)
(* code (Places), so that each step is one of DispatcherObjects or none.   *)
(* The last part is about the threads of the same file: HostThread, under  *)
(* the prefix Thread.                                                      *)
(***************************************************************************)
EXTENDS HostWait, ThreadSuspension, FiniteSetTheorems, TLAPS

Events == ManualEvents \cup AutoEvents
Counted == Semaphores \cup Mutants

\* What a thread waits for, or is about to change, where it is.
Places ==
  \A t \in Threads :
    /\ pc[t] \in {"ready", "pulse"} => req[t] = NoWait
    /\ pc[t] = "pulse" => subject[t] \in Events
    /\ pc[t] \in {"readCount", "release"} => subject[t] \in Mutants
    /\ pc[t] = "alert" => req[t].alertable
    /\ pc[t] = "expired" => req[t].timed \/ req[t].alertable
    /\ pc[t] \in {"wait", "asleep", "expired"} => Len(req[t].objs) = 1

\* A mutant's fields say what its owner has acquired; who releases one has it.
Ownership ==
  /\ \A t \in Threads, m \in Mutants : holds[t][m] = IF owner[m] = t THEN count[m] ELSE 0
  /\ \A t \in Threads : pc[t] \in {"readCount", "release"} => holds[t][subject[t]] > 0
  /\ \A m \in Mutants : owner[m] = Nobody => count[m] = 0

IInv == TypeOK /\ Places /\ Ownership /\ SleepersAreNotMissed

-----------------------------------------------------------------------------
(* Waits and what they take.                                                *)

LEMMA Kinds ==
  /\ Abstract!Events = Events /\ Abstract!Counted = Counted /\ Everything = Events \cup Counted
  /\ Events \cap Counted = {} /\ Semaphores \cap Mutants = {}
  BY HostWaitAssumption
  DEF Abstract!Events, Abstract!Counted, Everything, Events, Counted

\* A request names objects, one at least.
LEMMA RequestsTyped ==
  ASSUME NEW t \in Threads, NEW r \in Requests[t]
  PROVE  /\ r # NoWait /\ r.objs \in Seq(Events \cup Counted) /\ Len(r.objs) \in Nat \ {0}
         /\ r.all \in BOOLEAN /\ r.timed \in BOOLEAN /\ r.alertable \in BOOLEAN
         /\ \A k \in 1 .. Len(r.objs) : r.objs[k] \in Events \cup Counted
<1>1. r \in RequestType /\ r # NoWait /\ r.objs # <<>>
  BY HostWaitAssumption
<1>2. r.objs \in Seq(Events \cup Counted)
  <2>1. Events \cup Counted = ManualEvents \cup AutoEvents \cup Semaphores \cup Mutants
    BY DEF Events, Counted
  <2> QED
    BY <1>1, <2>1 DEF RequestType
<1> QED
  BY <1>1, <1>2 DEF RequestType

\* What a satisfied wait takes is signaled.
LEMMA TakesSignaled ==
  ASSUME NEW t \in Threads, NEW r \in Requests[t], Abstract!Satisfied(r, t),
         NEW o \in Abstract!Takes(r, t)
  PROVE  Abstract!Signaled(o, t)
  BY DEF Abstract!Satisfied, Abstract!Takes

\* A wait for one object is satisfied when the object is signaled.
LEMMA WaitForOne ==
  ASSUME NEW t \in Threads, NEW r \in Requests[t], Len(r.objs) = 1
  PROVE  /\ r.objs[1] \in Events \cup Counted
         /\ r.objs = <<r.objs[1]>>
         /\ Abstract!Satisfied(r, t) <=> Abstract!Signaled(r.objs[1], t)
         /\ Abstract!Satisfied(r, t)' <=> Abstract!Signaled(r.objs[1], t)'
<1>1. r.objs \in Seq(Events \cup Counted) /\ r.all \in BOOLEAN
  BY RequestsTyped
<1>2. r.objs = <<r.objs[1]>>
  BY <1>1
<1>3. Abstract!Objects(r) = {r.objs[1]}
  BY <1>1 DEF Abstract!Objects
<1> QED
  BY <1>1, <1>2, <1>3, RequestsTyped DEF Abstract!Satisfied

\* Where a call goes on that waits for r, or for nothing.
LEMMA WaitStarts ==
  ASSUME NEW t \in Threads, NEW r \in Requests[t] \cup {NoWait}
  PROVE  /\ r = NoWait => WaitStart(r) = "ready"
         /\ r # NoWait => WaitStart(r) \in {"alert", "wait", "try"}
         /\ WaitStart(r) = "alert" => r.alertable
         /\ WaitStart(r) = "wait" => Len(r.objs) = 1
  BY DEF WaitStart, SliceStart

LEMMA SliceStarts ==
  ASSUME NEW r
  PROVE  /\ SliceStart(r) \in {"wait", "try"}
         /\ SliceStart(r) = "wait" => Len(r.objs) = 1
  BY DEF SliceStart

\* Taking what satisfies a wait keeps the objects what they are.
LEMMA TakeKeepsTypes ==
  ASSUME TypeOK, NEW t \in Threads, NEW r \in Requests[t],
         Abstract!Satisfied(r, t), Acquire(Abstract!Takes(r, t), t)
  PROVE  /\ signal' \in [Abstract!Events -> BOOLEAN]
         /\ count' \in [Abstract!Counted -> Nat]
         /\ \A s \in Semaphores : count'[s] <= MaximumCount
         /\ owner' \in [Mutants -> Threads \cup {Nobody}]
         /\ holds' \in [Threads -> [Mutants -> Nat]]
<1> DEFINE S == Abstract!Takes(r, t)
<1>0. \A o \in S : Abstract!Signaled(o, t)
  BY TakesSignaled
<1> HIDE DEF S
<1> USE DEF TypeOK
<1>1. Abstract!Take(S, t)
  BY DEF Acquire, S
<1>2. signal' \in [Abstract!Events -> BOOLEAN] /\ owner' \in [Mutants -> Threads \cup {Nobody}]
  BY <1>1 DEF Abstract!Take
<1>3. \A s \in Semaphores \cap S : count[s] > 0
  BY <1>0, Kinds DEF Abstract!Signaled, Abstract!Counted, Abstract!Events, Events, Counted
<1>4. count' \in [Abstract!Counted -> Nat]
  BY <1>1, <1>3 DEF Abstract!Take, Abstract!Counted
<1>5. \A s \in Semaphores : count'[s] <= count[s]
  BY <1>1 DEF Abstract!Take, Abstract!Counted
<1>6. \A s \in Semaphores : count'[s] <= MaximumCount
  BY <1>4, <1>5, HostWaitAssumption DEF Abstract!Counted
<1>7. holds' \in [Threads -> [Mutants -> Nat]]
  BY DEF Acquire
<1> QED
  BY <1>2, <1>4, <1>6, <1>7

\* Setting, resetting and releasing keep them, too.
LEMMA SignalKeepsTypes ==
  ASSUME TypeOK
  PROVE  /\ \A e \in Abstract!Events : Abstract!Set(e) \/ Abstract!Reset(e) =>
              signal' \in [Abstract!Events -> BOOLEAN] /\ UNCHANGED <<count, owner>>
         /\ \A s \in Semaphores, n \in 1 .. MaximumCount : Abstract!Release(s, n) =>
              /\ count' \in [Abstract!Counted -> Nat]
              /\ \A u \in Semaphores : count'[u] <= MaximumCount
              /\ UNCHANGED <<signal, owner>>
<1> USE DEF TypeOK
<1>1. ASSUME NEW e \in Abstract!Events, Abstract!Set(e) \/ Abstract!Reset(e)
      PROVE  signal' \in [Abstract!Events -> BOOLEAN] /\ UNCHANGED <<count, owner>>
  BY <1>1 DEF Abstract!Set, Abstract!Reset
<1>2. ASSUME NEW s \in Semaphores, NEW n \in 1 .. MaximumCount, Abstract!Release(s, n)
      PROVE  /\ count' \in [Abstract!Counted -> Nat]
             /\ \A u \in Semaphores : count'[u] <= MaximumCount
             /\ UNCHANGED <<signal, owner>>
  <2>1. count[s] + n \in Nat /\ count[s] + n <= MaximumCount
    BY <1>2, HostWaitAssumption DEF Abstract!Release, Abstract!Counted
  <2> QED
    BY <1>2, <2>1 DEF Abstract!Release, Abstract!Counted
<1> QED
  BY <1>1, <1>2

-----------------------------------------------------------------------------
(* The invariant.                                                           *)

\* The steps of a thread, one by one.
LEMMA Steps ==
  ASSUME [Next]_vars
  PROVE  \/ UNCHANGED vars
         \/ \E t \in Threads :
              \/ \E r \in WaitsAfter(t), e \in Events : Set(t, e, r)
              \/ \E r \in WaitsAfter(t), s \in Semaphores, n \in 1 .. MaximumCount : Release(t, s, n, r)
              \/ \E r \in WaitsAfter(t), m \in Mutants : ReadOwner(t, m, r)
              \/ \E e \in Events : Pulse(t, e) \/ Reset(t, e)
              \/ \E s \in Semaphores, n \in 1 .. MaximumCount : ReleaseFails(t, s, n)
              \/ EndPulse(t) \/ ReadCount(t) \/ ReleaseMutant(t)
              \/ \E r \in Requests[t] : BeginWait(t, r)
              \/ DispatchCallback(t) \/ DeadlinePasses(t) \/ BeginSlice(t)
              \/ WaitSucceeds(t) \/ WaitSleeps(t) \/ TimeRunsOut(t) \/ WaitExpires(t)
              \/ TryLock(t) \/ TryFails(t) \/ PollSucceeds(t) \/ PollAgain(t) \/ PollExpires(t)
              \/ QueueUserCallback(t)
<1>1. CASE Next
  <2>1. PICK t \in Threads : \/ SignalCalls(t) \/ \E r \in Requests[t] : BeginWait(t, r)
                           \/ Progress(t) \/ TimePasses(t) \/ QueueUserCallback(t)
    BY <1>1 DEF Next
  <2>2. CASE SignalCalls(t)
    BY <2>2, Kinds DEF SignalCalls
  <2>3. CASE Progress(t) \/ TimePasses(t)
    BY <2>3 DEF Progress, TimePasses
  <2> QED
    BY <2>1, <2>2, <2>3
<1> QED
  BY <1>1

LEMMA InitIInv == Init => IInv
<1> SUFFICES ASSUME Init PROVE IInv
  OBVIOUS
<1> USE HostWaitAssumption DEF Init
<1>1. TypeOK
  <2>1. count \in [Abstract!Counted -> Nat] /\ \A s \in Semaphores : count[s] <= MaximumCount
    BY DEF Abstract!Counted
  <2>2. holds \in [Threads -> [Mutants -> Nat]]
    OBVIOUS
  <2> QED
    BY <2>1, <2>2 DEF TypeOK, WaitingPc
<1>2. Ownership
  <2>1. \A m \in Mutants : owner[m] = InitialOwner
                        /\ count[m] = IF InitialOwner = Nobody THEN 0 ELSE 1
    BY Kinds DEF Abstract!Counted
  <2> QED
    BY <2>1 DEF Ownership
<1> QED
  BY <1>1, <1>2 DEF IInv, Places, SleepersAreNotMissed

\* The parts of the type invariant.
ObjectsTyped ==
  /\ signal \in [Abstract!Events -> BOOLEAN]
  /\ count \in [Abstract!Counted -> Nat]
  /\ \A s \in Semaphores : count[s] <= MaximumCount
  /\ owner \in [Mutants -> Threads \cup {Nobody}]
  /\ holds \in [Threads -> [Mutants -> Nat]]
PlacesTyped ==
  /\ pc \in [Threads -> WaitingPc \cup {"ready", "pulse", "readCount", "release"}]
  /\ DOMAIN req = Threads /\ \A t \in Threads : req[t] \in Requests[t] \cup {NoWait}
  /\ \A t \in Threads : pc[t] \in WaitingPc => req[t] # NoWait
RestTyped ==
  /\ lock \in [Everything -> Threads \cup {Nobody}]
  /\ taken \in [Threads -> Nat]
  /\ subject \in [Threads -> Everything \cup {Nobody}]
  /\ callbacks \in [Threads -> Nat]
  /\ callsLeft \in [Threads -> Nat]

LEMMA TypeParts ==
  /\ TypeOK <=> ObjectsTyped /\ PlacesTyped /\ RestTyped
  /\ TypeOK' <=> ObjectsTyped' /\ PlacesTyped' /\ RestTyped'
  BY DEF TypeOK, ObjectsTyped, PlacesTyped, RestTyped

\* A mutant is released by the thread that has it.
LEMMA ReleaserOwns ==
  ASSUME IInv, NEW t \in Threads, pc[t] \in {"readCount", "release"}
  PROVE  subject[t] \in Mutants /\ owner[subject[t]] = t /\ count[subject[t]] > 0
  BY DEF IInv, TypeOK, Places, Ownership

LEMMA StepObjectsTyped ==
  ASSUME IInv, [Next]_vars
  PROVE  ObjectsTyped'
<1>t. TypeOK /\ ObjectsTyped
  BY TypeParts DEF IInv
<1>0. CASE UNCHANGED <<objectVars, holds>>
  BY <1>t, <1>0 DEF ObjectsTyped, objectVars
<1>1. ASSUME NEW e \in Events, Abstract!Set(e) \/ Abstract!Reset(e), UNCHANGED holds
      PROVE  ObjectsTyped'
  BY <1>t, <1>1, SignalKeepsTypes, Kinds DEF ObjectsTyped
<1>2. ASSUME NEW s \in Semaphores, NEW n \in 1 .. MaximumCount, Abstract!Release(s, n), UNCHANGED holds
      PROVE  ObjectsTyped'
  BY <1>t, <1>2, SignalKeepsTypes DEF ObjectsTyped
<1>3. ASSUME NEW t \in Threads, ReleaseMutant(t)
      PROVE  ObjectsTyped'
  <2>1. subject[t] \in Mutants /\ count[subject[t]] > 0
    BY <1>3, ReleaserOwns DEF ReleaseMutant
  <2>2. holds' \in [Threads -> [Mutants -> Nat]]
    <3> DEFINE k == IF holds[t][subject[t]] = 0 THEN 0 ELSE holds[t][subject[t]] - 1
    <3>1. holds \in [Threads -> [Mutants -> Nat]] /\ k \in Nat
      BY <1>t, <2>1 DEF ObjectsTyped
    <3>2. holds' = [holds EXCEPT ![t] = [holds[t] EXCEPT ![subject[t]] = k]]
      BY <1>3 DEF ReleaseMutant
    <3> HIDE DEF k
    <3>3. [holds[t] EXCEPT ![subject[t]] = k] \in [Mutants -> Nat]
      BY <3>1
    <3> QED
      BY <3>1, <3>2, <3>3
  <2>3. count' \in [Abstract!Counted -> Nat] /\ UNCHANGED <<signal, owner>>
    BY <1>t, <1>3, <2>1 DEF ReleaseMutant, Abstract!ReleaseMutant, ObjectsTyped, Abstract!Counted
  <2>4. \A s \in Semaphores : count'[s] <= MaximumCount
    BY <1>t, <1>3, <2>1, Kinds DEF ReleaseMutant, Abstract!ReleaseMutant, ObjectsTyped, Abstract!Counted
  <2> QED
    BY <1>t, <2>2, <2>3, <2>4 DEF ObjectsTyped
<1>4. ASSUME NEW t \in Threads, req[t] \in Requests[t], Abstract!Satisfied(req[t], t),
             Acquire(Abstract!Takes(req[t], t), t)
      PROVE  ObjectsTyped'
  BY <1>t, <1>4, TakeKeepsTypes DEF ObjectsTyped
<1>5. ASSUME NEW t \in Threads, WaitSucceeds(t) \/ PollSucceeds(t)
      PROVE  ObjectsTyped'
  <2>1. req[t] \in Requests[t]
    BY <1>5, <1>t DEF WaitSucceeds, PollSucceeds, AllTaken, TypeOK, WaitingPc
  <2> QED
    BY <1>4, <1>5, <2>1 DEF WaitSucceeds, PollSucceeds
<1>6. ASSUME NEW t \in Threads, EndPulse(t)
      PROVE  ObjectsTyped'
  BY <1>1, <1>6 DEF EndPulse, IInv, Places
<1>7. ASSUME NEW t \in Threads, NEW r \in WaitsAfter(t), NEW e \in Events,
             Set(t, e, r) \/ Pulse(t, e) \/ Reset(t, e)
      PROVE  ObjectsTyped'
  BY <1>1, <1>7 DEF Set, Pulse, Reset
<1>8. ASSUME NEW t \in Threads, NEW r \in WaitsAfter(t), NEW s \in Semaphores,
             NEW n \in 1 .. MaximumCount, Release(t, s, n, r)
      PROVE  ObjectsTyped'
  BY <1>2, <1>8 DEF Release
<1>9. \A t \in Threads : NoWait \in WaitsAfter(t)
  BY DEF WaitsAfter
<1> QED
  BY <1>0, <1>3, <1>5, <1>6, <1>7, <1>8, <1>9, Steps
  DEF vars, ReadOwner, ReleaseFails, ReadCount, BeginWait, DispatchCallback, DeadlinePasses,
      BeginSlice, WaitSleeps, TimeRunsOut, WaitExpires, TryLock, TryFails, PollAgain, PollExpires,
      QueueUserCallback

\* A thread that goes from one place to another, with what it waits for then.
Arrives(t, l, r) ==
  /\ l \in WaitingPc \cup {"ready", "pulse", "readCount", "release"}
  /\ r \in Requests[t] \cup {NoWait}
  /\ l \in WaitingPc => r # NoWait
  /\ l \in {"ready", "pulse"} => r = NoWait
  /\ l = "alert" => r.alertable
  /\ l = "expired" => r.timed \/ r.alertable
  /\ l \in {"wait", "asleep", "expired"} => Len(r.objs) = 1

\* The others stay where they are, but for sleepers that are woken.
OthersStay(t) ==
  /\ pc' \in [Threads -> WaitingPc \cup {"ready", "pulse", "readCount", "release"}]
  /\ \A u \in Threads \ {t} :
       /\ pc'[u] = pc[u] \/ (pc[u] = "asleep" /\ pc'[u] = "wait")
       /\ req'[u] = req[u] /\ subject'[u] = subject[u]

LEMMA ArrivalKeepsPlaces ==
  ASSUME PlacesTyped, Places, NEW t \in Threads, DOMAIN req' = Threads, OthersStay(t), Arrives(t, pc'[t], req'[t]),
         pc'[t] = "pulse" => subject'[t] \in Events,
         pc'[t] \in {"readCount", "release"} => subject'[t] \in Mutants
  PROVE  PlacesTyped' /\ Places'
<1>1. ASSUME NEW u \in Threads
      PROVE  /\ pc'[u] \in WaitingPc \cup {"ready", "pulse", "readCount", "release"}
             /\ req'[u] \in Requests[u] \cup {NoWait}
             /\ pc'[u] \in WaitingPc => req'[u] # NoWait
             /\ pc'[u] \in {"ready", "pulse"} => req'[u] = NoWait
             /\ pc'[u] = "pulse" => subject'[u] \in Events
             /\ pc'[u] \in {"readCount", "release"} => subject'[u] \in Mutants
             /\ pc'[u] = "alert" => req'[u].alertable
             /\ pc'[u] = "expired" => req'[u].timed \/ req'[u].alertable
             /\ pc'[u] \in {"wait", "asleep", "expired"} => Len(req'[u].objs) = 1
  <2>1. CASE u = t
    BY <2>1 DEF Arrives
  <2>2. CASE u # t /\ pc'[u] = pc[u]
    BY <2>2 DEF OthersStay, PlacesTyped, Places
  <2>3. CASE u # t /\ pc[u] = "asleep" /\ pc'[u] = "wait"
    BY <2>3 DEF OthersStay, PlacesTyped, Places, WaitingPc
  <2> QED
    BY <2>1, <2>2, <2>3 DEF OthersStay
<1> QED
  BY <1>1 DEF OthersStay, PlacesTyped, Places

\* The two ways to move: with a notification of somebody else, and without.
LEMMA Moves ==
  ASSUME PlacesTyped, NEW t \in Threads,
         NEW l \in WaitingPc \cup {"ready", "pulse", "readCount", "release"},
         \A u \in Threads \ {t} : req'[u] = req[u] /\ subject'[u] = subject[u]
  PROVE  /\ Goto(t, l) => OthersStay(t) /\ pc'[t] = l
         /\ \A o : NotifyAndGoto(o, t, l) => OthersStay(t) /\ pc'[t] = l
<1> USE DEF PlacesTyped, OthersStay, WaitingPc
<1>1. ASSUME Goto(t, l) PROVE OthersStay(t) /\ pc'[t] = l
  BY <1>1 DEF Goto
<1>2. ASSUME NEW o, NotifyAndGoto(o, t, l) PROVE OthersStay(t) /\ pc'[t] = l
  BY <1>2 DEF NotifyAndGoto
<1> QED
  BY <1>1, <1>2

LEMMA StartsArrive ==
  ASSUME NEW t \in Threads, NEW r \in Requests[t] \cup {NoWait}
  PROVE  Arrives(t, WaitStart(r), r)
<1>1. r \in Requests[t] => r # NoWait
  BY RequestsTyped
<1> QED
  BY <1>1, WaitStarts DEF Arrives, WaitingPc

\* A thread goes to a place with a wait, and may change its subject on the way.
Travels(t, l, r) ==
  /\ Arrives(t, l, r)
  /\ Goto(t, l) \/ \E o : NotifyAndGoto(o, t, l)
  /\ \/ UNCHANGED req /\ r = req[t]
     \/ req' = [req EXCEPT ![t] = r]
  /\ UNCHANGED subject \/ \E o : subject' = [subject EXCEPT ![t] = o]
  /\ l = "pulse" => subject'[t] \in Events
  /\ l \in {"readCount", "release"} => subject'[t] \in Mutants

LEMMA TravelKeepsPlaces ==
  ASSUME TypeOK, Places, NEW t \in Threads, NEW l, NEW r, Travels(t, l, r)
  PROVE  PlacesTyped' /\ Places'
<1>1. PlacesTyped /\ DOMAIN subject = Threads
  BY TypeParts DEF RestTyped
<1>2. DOMAIN req' = Threads /\ req'[t] = r
  BY <1>1 DEF PlacesTyped, Travels
<1>3. \A u \in Threads \ {t} : req'[u] = req[u] /\ subject'[u] = subject[u]
  BY <1>1 DEF PlacesTyped, Travels
<1>4. l \in WaitingPc \cup {"ready", "pulse", "readCount", "release"}
  BY DEF Travels, Arrives
<1>5. OthersStay(t) /\ pc'[t] = l
  BY <1>1, <1>3, <1>4, Moves DEF Travels
<1> QED
  BY <1>1, <1>2, <1>5, ArrivalKeepsPlaces DEF Travels

LEMMA StepPlaces ==
  ASSUME IInv, [Next]_vars
  PROVE  PlacesTyped' /\ Places'
<1>t. TypeOK /\ Places
  BY DEF IInv
<1>p. PlacesTyped /\ DOMAIN subject = Threads
  BY <1>t, TypeParts DEF RestTyped
<1>0. CASE UNCHANGED <<pc, req, subject>>
  BY <1>p, <1>t, <1>0 DEF PlacesTyped, Places
<1>r. ASSUME NEW t \in Threads, Return(t), UNCHANGED subject \/ \E o : subject' = [subject EXCEPT ![t] = o]
      PROVE  PlacesTyped' /\ Places'
  <2>1. Arrives(t, "ready", NoWait)
    BY DEF Arrives, WaitingPc
  <2>2. Travels(t, "ready", NoWait)
    BY <1>r, <2>1 DEF Return, Travels
  <2> QED
    BY <1>t, <2>2, TravelKeepsPlaces
<1>s. ASSUME NEW t \in Threads, req[t] # NoWait, EndSlice(t), UNCHANGED subject
      PROVE  PlacesTyped' /\ Places'
  <2>1. CASE req[t].alertable
    <3>1. Arrives(t, "alert", req[t])
      BY <1>p, <1>s, <2>1 DEF Arrives, WaitingPc, PlacesTyped
    <3>2. Travels(t, "alert", req[t])
      BY <1>s, <2>1, <3>1 DEF EndSlice, Travels
    <3> QED
      BY <1>t, <3>2, TravelKeepsPlaces
  <2>2. CASE ~req[t].alertable
    BY <1>r, <1>s, <2>2 DEF EndSlice
  <2> QED
    BY <2>1, <2>2
\* Signalling, alone or before a wait.
<1>1. ASSUME NEW t \in Threads, NEW r \in WaitsAfter(t),
             \/ \E e \in Events : Set(t, e, r)
             \/ \E s \in Semaphores, n \in 1 .. MaximumCount : Release(t, s, n, r)
      PROVE  PlacesTyped' /\ Places'
  <2>1. Arrives(t, WaitStart(r), r)
    BY StartsArrive DEF WaitsAfter
  <2>2. WaitStart(r) \notin {"pulse", "readCount", "release"}
    BY WaitStarts DEF WaitsAfter
  <2>3. Travels(t, WaitStart(r), r)
    BY <1>1, <2>1, <2>2 DEF Travels, Set, Release
  <2> QED
    BY <1>t, <2>3, TravelKeepsPlaces
<1>2. ASSUME NEW t \in Threads, NEW r \in WaitsAfter(t), NEW m \in Mutants, ReadOwner(t, m, r)
      PROVE  PlacesTyped' /\ Places'
  <2>1. CASE owner[m] = t
    <3>1. Arrives(t, "readCount", r)
      BY DEF Arrives, WaitingPc, WaitsAfter
    <3>2. subject'[t] = m
      BY <1>2, <1>p, <2>1 DEF ReadOwner
    <3>3. Travels(t, "readCount", r)
      BY <1>2, <2>1, <3>1, <3>2 DEF Travels, ReadOwner
    <3> QED
      BY <1>t, <3>3, TravelKeepsPlaces
  <2>2. CASE owner[m] # t
    BY <1>0, <1>2, <2>2 DEF ReadOwner
  <2> QED
    BY <2>1, <2>2
<1>3. ASSUME NEW t \in Threads, NEW e \in Events, Pulse(t, e)
      PROVE  PlacesTyped' /\ Places'
  <2>1. req[t] = NoWait
    BY <1>3, <1>t DEF Pulse, BeginCall, Places
  <2>2. Arrives(t, "pulse", req[t])
    BY <2>1 DEF Arrives, WaitingPc
  <2>3. subject'[t] = e
    BY <1>3, <1>p DEF Pulse
  <2>4. Travels(t, "pulse", req[t])
    BY <1>3, <2>2, <2>3 DEF Travels, Pulse
  <2> QED
    BY <1>t, <2>4, TravelKeepsPlaces
<1>4. ASSUME NEW t \in Threads, EndPulse(t)
      PROVE  PlacesTyped' /\ Places'
  <2>1. Arrives(t, "ready", req[t])
    BY <1>4, <1>t DEF EndPulse, Places, Arrives, WaitingPc
  <2>2. Travels(t, "ready", req[t])
    BY <1>4, <2>1 DEF EndPulse, Travels
  <2> QED
    BY <1>t, <2>2, TravelKeepsPlaces
<1>5. ASSUME NEW t \in Threads, ReadCount(t)
      PROVE  PlacesTyped' /\ Places'
  <2>1. Arrives(t, "release", req[t])
    BY <1>p DEF Arrives, WaitingPc, PlacesTyped
  <2>2. count[subject[t]] > 0 => Travels(t, "release", req[t])
    BY <1>5, <1>t, <2>1 DEF ReadCount, Travels, Places
  <2>3. ~(count[subject[t]] > 0) => Return(t)
    BY <1>5 DEF ReadCount
  <2> QED
    BY <1>5, <1>t, <1>r, <2>2, <2>3, TravelKeepsPlaces DEF ReadCount
<1>6. ASSUME NEW t \in Threads, ReleaseMutant(t)
      PROVE  PlacesTyped' /\ Places'
  <2>1. req[t] \in Requests[t] \cup {NoWait}
    BY <1>p DEF PlacesTyped
  <2>2. WaitStart(req[t]) \notin {"pulse", "readCount", "release"}
    BY <2>1, WaitStarts
  <2>3. Travels(t, WaitStart(req[t]), req[t])
    BY <1>6, <2>1, <2>2, StartsArrive DEF ReleaseMutant, Travels
  <2> QED
    BY <1>t, <2>3, TravelKeepsPlaces
\* Waiting.
<1>7. ASSUME NEW t \in Threads, NEW r \in Requests[t], BeginWait(t, r)
      PROVE  PlacesTyped' /\ Places'
  <2>1. WaitStart(r) \notin {"pulse", "readCount", "release"}
    BY WaitStarts
  <2>2. Travels(t, WaitStart(r), r)
    BY <1>7, <2>1, StartsArrive DEF BeginWait, Travels
  <2> QED
    BY <1>t, <2>2, TravelKeepsPlaces
<1>8. ASSUME NEW t \in Threads,
             DispatchCallback(t) \/ DeadlinePasses(t) \/ WaitSucceeds(t) \/ PollSucceeds(t)
      PROVE  PlacesTyped' /\ Places'
  BY <1>8, <1>r DEF DispatchCallback, DeadlinePasses, WaitSucceeds, PollSucceeds
<1>9. ASSUME NEW t \in Threads, BeginSlice(t) \/ WaitSleeps(t) \/ TimeRunsOut(t)
      PROVE  PlacesTyped' /\ Places'
  <2>1. req[t] \in Requests[t] /\ req[t] # NoWait
    BY <1>9, <1>p DEF BeginSlice, WaitSleeps, TimeRunsOut, PlacesTyped, WaitingPc
  <2>2. BeginSlice(t) => Travels(t, SliceStart(req[t]), req[t])
    BY <2>1, SliceStarts DEF BeginSlice, Travels, Arrives, WaitingPc
  <2>3. WaitSleeps(t) => Travels(t, "asleep", req[t])
    BY <1>t, <2>1 DEF WaitSleeps, Travels, Arrives, WaitingPc, Places
  <2>4. TimeRunsOut(t) => Travels(t, "expired", req[t])
    BY <1>t, <2>1 DEF TimeRunsOut, TimeMayRunOut, Travels, Arrives, WaitingPc, Places
  <2> QED
    BY <1>9, <1>t, <2>2, <2>3, <2>4, TravelKeepsPlaces
<1>10. ASSUME NEW t \in Threads, WaitExpires(t) \/ PollExpires(t)
       PROVE  PlacesTyped' /\ Places'
  <2>1. req[t] # NoWait
    BY <1>10, <1>p DEF WaitExpires, PollExpires, AllTaken, PlacesTyped, WaitingPc
  <2> QED
    BY <1>10, <1>s, <2>1 DEF WaitExpires, PollExpires
<1> QED
  BY <1>0, <1>1, <1>2, <1>3, <1>4, <1>5, <1>6, <1>7, <1>8, <1>9, <1>10, Steps
  DEF vars, Reset, ReleaseFails, TryLock, TryFails, PollAgain, QueueUserCallback

LEMMA StepRestTyped ==
  ASSUME IInv, [Next]_vars
  PROVE  RestTyped'
<1>t. RestTyped /\ PlacesTyped
  BY TypeParts DEF IInv
<1>0. ASSUME UNCHANGED <<lock, taken>>, NEW t \in Threads,
             UNCHANGED callsLeft \/ BeginCall(t),
             \/ UNCHANGED callbacks
             \/ callbacks[t] > 0 /\ callbacks' = [callbacks EXCEPT ![t] = @ - 1]
             \/ callbacks' = [callbacks EXCEPT ![t] = @ + 1],
             UNCHANGED subject \/ \E o \in Everything \cup {Nobody} : subject' = [subject EXCEPT ![t] = o]
      PROVE  RestTyped'
  <2>1. callsLeft' \in [Threads -> Nat]
    BY <1>0, <1>t DEF BeginCall, RestTyped
  <2>2. callbacks' \in [Threads -> Nat]
    BY <1>0, <1>t DEF RestTyped
  <2>3. subject' \in [Threads -> Everything \cup {Nobody}]
    BY <1>0, <1>t DEF RestTyped
  <2> QED
    BY <1>0, <1>t, <2>1, <2>2, <2>3 DEF RestTyped
<1>1. ASSUME NEW t \in Threads, UNCHANGED <<subject, callbacks, callsLeft>>, Unlock(t)
      PROVE  RestTyped'
  BY <1>1, <1>t DEF RestTyped, Unlock
<1>2. ASSUME NEW t \in Threads, TryLock(t)
      PROVE  RestTyped'
  <2>1. lock' = [lock EXCEPT ![NextObject(t)] = t] /\ taken' = [taken EXCEPT ![t] = @ + 1]
        /\ UNCHANGED <<subject, callbacks, callsLeft>>
    BY <1>2 DEF TryLock
  <2>2. lock' \in [Everything -> Threads \cup {Nobody}]
    BY <1>t, <2>1 DEF RestTyped
  <2> QED
    BY <1>t, <2>1, <2>2 DEF RestTyped
<1>3. ASSUME NEW t \in Threads, TryFails(t) \/ PollSucceeds(t) \/ PollAgain(t) \/ PollExpires(t)
      PROVE  RestTyped'
  BY <1>1, <1>3 DEF TryFails, PollSucceeds, PollAgain, PollExpires
<1>4. ASSUME NEW t \in Threads, NEW r, NEW e \in Events, Set(t, e, r) \/ Pulse(t, e) \/ Reset(t, e)
      PROVE  RestTyped'
  BY <1>0, <1>4, Kinds DEF Set, Pulse, Reset
<1>5. ASSUME NEW t \in Threads, NEW r, NEW s, NEW n, Release(t, s, n, r) \/ ReleaseFails(t, s, n)
      PROVE  RestTyped'
  BY <1>0, <1>5 DEF Release, ReleaseFails
<1>6. ASSUME NEW t \in Threads, NEW r, NEW m \in Mutants, ReadOwner(t, m, r)
      PROVE  RestTyped'
  BY <1>0, <1>6, Kinds DEF ReadOwner, Counted
<1>7. ASSUME NEW t \in Threads, EndPulse(t) \/ ReadCount(t) \/ ReleaseMutant(t)
      PROVE  RestTyped'
  <2>1. UNCHANGED <<lock, taken, callbacks, callsLeft>>
    BY <1>7 DEF EndPulse, ReadCount, ReleaseMutant
  <2>2. UNCHANGED subject \/ subject' = [subject EXCEPT ![t] = Nobody]
    BY <1>7 DEF EndPulse, ReadCount, ReleaseMutant
  <2> QED
    BY <1>0, <2>1, <2>2
<1>8. ASSUME NEW t \in Threads, NEW r, BeginWait(t, r)
      PROVE  RestTyped'
  BY <1>0, <1>8 DEF BeginWait
<1>9. ASSUME NEW t \in Threads, DispatchCallback(t) \/ QueueUserCallback(t)
      PROVE  RestTyped'
  BY <1>0, <1>9 DEF DispatchCallback, QueueUserCallback
<1>10. CASE UNCHANGED <<lock, taken, subject, callbacks, callsLeft>>
  BY <1>10, <1>t DEF RestTyped
<1> QED
  BY <1>2, <1>3, <1>4, <1>5, <1>6, <1>7, <1>8, <1>9, <1>10, Steps
  DEF vars, DeadlinePasses, BeginSlice, WaitSucceeds, WaitSleeps, TimeRunsOut, WaitExpires

\* What a wait takes of the mutants becomes its thread's.
LEMMA TakeKeepsOwnership ==
  ASSUME IInv, NEW t \in Threads, NEW r \in Requests[t], pc[t] \notin {"readCount", "release"},
         Abstract!Satisfied(r, t), Acquire(Abstract!Takes(r, t), t),
         \A u \in Threads \ {t} : pc'[u] = pc[u], pc'[t] = "ready", UNCHANGED subject
  PROVE  Ownership'
<1> DEFINE S == Abstract!Takes(r, t)
<1>0. \A o \in S : Abstract!Signaled(o, t)
  BY TakesSignaled
<1> HIDE DEF S
<1>1. Abstract!Take(S, t) /\ holds' = [holds EXCEPT ![t] = [m \in Mutants |-> IF m \in S THEN @[m] + 1 ELSE @[m]]]
  BY DEF Acquire, S
<1>t. /\ count \in [Counted -> Nat] /\ owner \in [Mutants -> Threads \cup {Nobody}]
      /\ holds \in [Threads -> [Mutants -> Nat]] /\ t # Nobody
  BY Kinds, HostWaitAssumption DEF IInv, TypeOK
<1>m. \A m \in Mutants : m \in Counted /\ m \notin Semaphores /\ m \notin Events
  BY Kinds DEF Counted
<1>2. ASSUME NEW m \in Mutants
      PROVE  /\ m \in S => count[m] = 0 \/ owner[m] = t
             /\ m \in S => count'[m] = count[m] + 1 /\ owner'[m] = t
             /\ m \notin S => count'[m] = count[m] /\ owner'[m] = owner[m]
             /\ holds'[t][m] = IF m \in S THEN holds[t][m] + 1 ELSE holds[t][m]
             /\ \A u \in Threads \ {t} : holds'[u] = holds[u]
  BY <1>0, <1>1, <1>t, <1>m, Kinds DEF Abstract!Take, Abstract!Signaled, Events
<1>3. ASSUME NEW u \in Threads, NEW m \in Mutants
      PROVE  holds'[u][m] = IF owner'[m] = u THEN count'[m] ELSE 0
  <2>1. holds[u][m] = IF owner[m] = u THEN count[m] ELSE 0
    BY DEF IInv, Ownership
  <2>2. holds[t][m] = IF owner[m] = t THEN count[m] ELSE 0
    BY DEF IInv, Ownership
  <2> QED
    BY <1>2, <1>t, <1>m, <2>1, <2>2
<1>4. ASSUME NEW u \in Threads, pc'[u] \in {"readCount", "release"}
      PROVE  holds'[u][subject'[u]] > 0
  <2>1. u # t /\ pc[u] = pc'[u]
    BY <1>4
  <2>2. holds[u][subject[u]] > 0 /\ subject[u] \in Mutants
    BY <1>4, <2>1 DEF IInv, Ownership, Places
  <2> QED
    BY <1>2, <2>1, <2>2
<1>5. \A m \in Mutants : owner'[m] = Nobody => count'[m] = 0
  BY <1>2, <1>t DEF IInv, Ownership
<1> QED
  BY <1>3, <1>4, <1>5 DEF Ownership

LEMMA StepOwnership ==
  ASSUME ~ForeignReleases, IInv, [Next]_vars
  PROVE  Ownership'
<1>t. /\ count \in [Counted -> Nat] /\ owner \in [Mutants -> Threads \cup {Nobody}]
      /\ holds \in [Threads -> [Mutants -> Nat]] /\ \A t \in Threads : t # Nobody
      /\ Mutants \subseteq Counted /\ Mutants \cap Semaphores = {}
      /\ pc \in [Threads -> WaitingPc \cup {"ready", "pulse", "readCount", "release"}]
      /\ DOMAIN subject = Threads
  BY Kinds, HostWaitAssumption DEF IInv, TypeOK, Counted
\* The steps that leave the mutants alone, and bring nobody to a release.
<1>k. ASSUME UNCHANGED <<owner, holds>>, \A m \in Mutants : count'[m] = count[m],
             \A u \in Threads : pc'[u] \in {"readCount", "release"} =>
               pc[u] \in {"readCount", "release"} /\ subject'[u] = subject[u]
      PROVE  Ownership'
  BY <1>k DEF IInv, Ownership, Places
<1>0. CASE UNCHANGED vars
  BY <1>0, <1>k DEF vars, objectVars
<1>1. ASSUME NEW t \in Threads, NEW l \in WaitingPc \cup {"ready", "pulse"},
             Goto(t, l) \/ \E o : NotifyAndGoto(o, t, l)
      PROVE  \A u \in Threads : pc'[u] \in {"readCount", "release"} =>
               u # t /\ pc[u] \in {"readCount", "release"}
  BY <1>1, <1>t DEF Goto, NotifyAndGoto, WaitingPc
<1>2. ASSUME NEW t \in Threads, NEW r \in WaitsAfter(t),
             \/ \E e \in Events : Set(t, e, r)
             \/ \E s \in Semaphores, n \in 1 .. MaximumCount : Release(t, s, n, r)
      PROVE  Ownership'
  <2>1. WaitStart(r) \in WaitingPc \cup {"ready", "pulse"}
    BY WaitStarts DEF WaitsAfter, WaitingPc
  <2>2. UNCHANGED <<owner, holds, subject>> /\ \A m \in Mutants : count'[m] = count[m]
    BY <1>2, <1>t DEF Set, Release, Abstract!Set, Abstract!Release
  <2>3. \E o : NotifyAndGoto(o, t, WaitStart(r))
    BY <1>2 DEF Set, Release
  <2> QED
    BY <1>1, <1>k, <2>1, <2>2, <2>3
<1>3. ASSUME NEW t \in Threads, NEW e \in Events, Pulse(t, e)
      PROVE  Ownership'
  <2>1. \A u \in Threads : pc'[u] \in {"readCount", "release"} =>
          u # t /\ pc[u] \in {"readCount", "release"}
    BY <1>1, <1>3 DEF Pulse
  <2> QED
    BY <1>3, <1>k, <1>t, <2>1 DEF Pulse, Abstract!Set
<1>4. ASSUME NEW t \in Threads, EndPulse(t)
      PROVE  Ownership'
  <2>1. \A u \in Threads : pc'[u] \in {"readCount", "release"} =>
          u # t /\ pc[u] \in {"readCount", "release"}
    BY <1>1, <1>4 DEF EndPulse
  <2> QED
    BY <1>4, <1>k, <1>t, <2>1 DEF EndPulse, Abstract!Reset
<1>5. ASSUME NEW t \in Threads, NEW r, NEW m \in Mutants, ReadOwner(t, m, r)
      PROVE  Ownership'
  <2>1. holds[t][m] > 0
    BY <1>5 DEF ReadOwner
  <2>2. UNCHANGED <<owner, holds, count>>
    BY <1>5 DEF ReadOwner, objectVars
  <2>3. \/ UNCHANGED <<pc, subject>>
        \/ Goto(t, "readCount") /\ subject' = [subject EXCEPT ![t] = m]
    BY <1>5 DEF ReadOwner
  <2>4. CASE UNCHANGED <<pc, subject>>
    BY <1>k, <2>2, <2>4
  <2>5. CASE Goto(t, "readCount") /\ subject' = [subject EXCEPT ![t] = m]
    <3>1. ASSUME NEW u \in Threads, pc'[u] \in {"readCount", "release"}
          PROVE  holds[u][subject'[u]] > 0
      <4>1. CASE u = t
        BY <1>t, <2>1, <2>5, <4>1
      <4>2. CASE u # t
        BY <1>t, <2>5, <3>1, <4>2 DEF Goto, IInv, Ownership
      <4> QED
        BY <4>1, <4>2
    <3> QED
      BY <2>2, <3>1 DEF IInv, Ownership
  <2> QED
    BY <2>3, <2>4, <2>5
<1>6. ASSUME NEW t \in Threads, ReadCount(t)
      PROVE  Ownership'
  <2>1. UNCHANGED <<owner, holds, count>>
    BY <1>6 DEF ReadCount, objectVars
  <2>2. \/ Goto(t, "release") /\ UNCHANGED subject
        \/ Goto(t, "ready") /\ subject' = [subject EXCEPT ![t] = Nobody]
    BY <1>6 DEF ReadCount, Return
  <2> QED
    BY <1>6, <1>k, <1>t, <2>1, <2>2 DEF ReadCount, Goto
<1>7. ASSUME NEW t \in Threads, ReleaseMutant(t)
      PROVE  Ownership'
  <2> DEFINE m == subject[t]
  <2>1. m \in Mutants /\ owner[m] = t /\ count[m] > 0
    BY <1>7, ReleaserOwns DEF ReleaseMutant
  <2>2. holds[t][m] = count[m]
    BY <2>1 DEF IInv, Ownership
  <2> HIDE DEF m
  <2>3. /\ count' = [count EXCEPT ![m] = @ - 1] /\ UNCHANGED owner
        /\ holds' = [holds EXCEPT ![t][m] = IF @ = 0 THEN 0 ELSE @ - 1]
        /\ subject' = [subject EXCEPT ![t] = Nobody]
    BY <1>7 DEF ReleaseMutant, Abstract!ReleaseMutant, m
  <2>4. count'[m] = count[m] - 1 /\ \A c \in Mutants \ {m} : count'[c] = count[c]
    BY <1>t, <2>1, <2>3
  <2>5. /\ holds'[t][m] = holds[t][m] - 1
        /\ \A c \in Mutants \ {m} : holds'[t][c] = holds[t][c]
        /\ \A u \in Threads \ {t} : holds'[u] = holds[u]
    <3>1. holds' = [holds EXCEPT ![t] = [holds[t] EXCEPT ![m] = IF @ = 0 THEN 0 ELSE @ - 1]]
      BY <2>3
    <3>2. holds[t][m] # 0 /\ holds[t] \in [Mutants -> Nat]
      BY <1>t, <2>1, <2>2
    <3> QED
      BY <1>t, <2>1, <3>1, <3>2
  <2>6. ASSUME NEW u \in Threads, NEW c \in Mutants
        PROVE  holds'[u][c] = IF owner'[c] = u THEN count'[c] ELSE 0
    <3>1. holds[u][c] = IF owner[c] = u THEN count[c] ELSE 0
      BY DEF IInv, Ownership
    <3> QED
      BY <2>1, <2>2, <2>3, <2>4, <2>5, <3>1
  <2>7. ASSUME NEW u \in Threads, pc'[u] \in {"readCount", "release"}
        PROVE  holds'[u][subject'[u]] > 0
    <3>1. req[t] \in Requests[t] \cup {NoWait}
      BY DEF IInv, TypeOK
    <3>2. WaitStart(req[t]) \in WaitingPc \cup {"ready", "pulse"}
      BY <3>1, WaitStarts DEF WaitingPc
    <3>3. u # t /\ pc[u] \in {"readCount", "release"}
      BY <1>1, <1>7, <2>7, <3>2 DEF ReleaseMutant
    <3> QED
      BY <1>t, <2>3, <2>5, <3>3 DEF IInv, Ownership
  <2>8. \A c \in Mutants : owner'[c] = Nobody => count'[c] = 0
    BY <1>t, <2>1, <2>3, <2>4 DEF IInv, Ownership
  <2> QED
    BY <2>6, <2>7, <2>8 DEF Ownership
<1>8. ASSUME NEW t \in Threads, NEW l \in WaitingPc \cup {"ready", "pulse"}, Goto(t, l),
             UNCHANGED <<objectVars, subject, holds>>
      PROVE  Ownership'
  BY <1>1, <1>8, <1>k DEF objectVars
<1>9. ASSUME NEW t \in Threads, WaitSucceeds(t) \/ PollSucceeds(t)
      PROVE  Ownership'
  <2>1. req[t] \in Requests[t] /\ pc[t] \in WaitingPc
    BY <1>9 DEF WaitSucceeds, PollSucceeds, AllTaken, IInv, TypeOK, WaitingPc
  <2>2. pc' = [pc EXCEPT ![t] = "ready"] /\ UNCHANGED subject
    BY <1>9 DEF WaitSucceeds, PollSucceeds, Return, Goto
  <2>3. pc'[t] = "ready" /\ \A u \in Threads \ {t} : pc'[u] = pc[u]
    BY <1>t, <2>2
  <2> QED
    BY <1>9, <2>1, <2>2, <2>3, TakeKeepsOwnership DEF WaitSucceeds, PollSucceeds, WaitingPc
<1>10. ASSUME NEW t \in Threads,
              \/ \E r \in Requests[t] : BeginWait(t, r)
              \/ DispatchCallback(t) \/ DeadlinePasses(t) \/ BeginSlice(t) \/ WaitSleeps(t)
              \/ TimeRunsOut(t) \/ WaitExpires(t) \/ PollExpires(t)
       PROVE  Ownership'
  <2>1. \A r \in Requests[t] : WaitStart(r) \in WaitingPc \cup {"ready"} /\ SliceStart(req[t]) \in WaitingPc
    BY WaitStarts, SliceStarts DEF WaitingPc
  <2>2. UNCHANGED <<objectVars, subject, holds>>
    BY <1>10 DEF BeginWait, DispatchCallback, DeadlinePasses, BeginSlice, WaitSleeps, TimeRunsOut,
             WaitExpires, PollExpires
  <2>3. \/ Goto(t, "ready") \/ Goto(t, "alert") \/ Goto(t, "asleep") \/ Goto(t, "expired")
        \/ Goto(t, SliceStart(req[t])) \/ \E r \in Requests[t] : Goto(t, WaitStart(r))
    BY <1>10 DEF BeginWait, DispatchCallback, DeadlinePasses, BeginSlice, WaitSleeps, TimeRunsOut,
             WaitExpires, PollExpires, Return, EndSlice
  <2> QED
    BY <1>8, <2>1, <2>2, <2>3, SliceStarts DEF WaitingPc
<1>11. ASSUME NEW t \in Threads,
              \/ \E e \in Events : Reset(t, e)
              \/ \E s, n : ReleaseFails(t, s, n)
              \/ TryLock(t) \/ TryFails(t) \/ PollAgain(t) \/ QueueUserCallback(t)
       PROVE  Ownership'
  <2>1. UNCHANGED <<count, owner, holds, pc, subject>>
    BY <1>11 DEF Reset, Abstract!Reset, ReleaseFails, TryLock, TryFails, PollAgain,
             QueueUserCallback, objectVars
  <2> QED
    BY <1>k, <2>1
<1> QED
  BY <1>0, <1>2, <1>3, <1>4, <1>5, <1>6, <1>7, <1>9, <1>10, <1>11, Steps

\* A sleeper is not missed in a step that wakes it, or makes nothing signaled for it.
LEMMA SleepersKept ==
  ASSUME IInv,
         \A u \in Threads : pc'[u] = "asleep" =>
           /\ req'[u] = req[u]
           /\ \/ pc[u] = "asleep"
              \/ Len(req[u].objs) = 1 /\ req[u] \in Requests[u] /\ ~Abstract!Satisfied(req[u], u)
           /\ \A o : o = req[u].objs[1] /\ ~Abstract!Signaled(o, u) => ~Abstract!Signaled(o, u)'
  PROVE  SleepersAreNotMissed'
<1> SUFFICES ASSUME NEW u \in Threads, pc'[u] = "asleep", NEW r, r = req[u]
             PROVE  ~Abstract!Satisfied(r, u)'
  BY DEF SleepersAreNotMissed
<1>1. r \in Requests[u] /\ Len(r.objs) = 1 /\ ~Abstract!Satisfied(r, u)
  BY DEF IInv, TypeOK, Places, WaitingPc, SleepersAreNotMissed
<1>2. ~Abstract!Signaled(r.objs[1], u)'
  BY <1>1, WaitForOne
<1> QED
  BY <1>1, <1>2, WaitForOne

\* Nobody else's wait makes an object signaled for a thread.
LEMMA TakeSignalsNobody ==
  ASSUME IInv, NEW t \in Threads, NEW r \in Requests[t],
         Abstract!Satisfied(r, t), Abstract!Take(Abstract!Takes(r, t), t),
         NEW u \in Threads, u # t, NEW o \in Events \cup Counted, ~Abstract!Signaled(o, u)
  PROVE  ~Abstract!Signaled(o, u)'
<1> DEFINE S == Abstract!Takes(r, t)
<1>0. \A x \in S : Abstract!Signaled(x, t)
  BY TakesSignaled
<1> HIDE DEF S
<1>t. /\ count \in [Counted -> Nat] /\ Abstract!Events = Events /\ Abstract!Counted = Counted
      /\ Events \cap Counted = {} /\ Semaphores \cap Mutants = {}
      /\ Counted = Semaphores \cup Mutants
  BY Kinds DEF IInv, TypeOK, Counted
<1>1. Abstract!Take(S, t)
  BY DEF S
<1>2. CASE o \in Events
  BY <1>1, <1>2, <1>t DEF Abstract!Signaled, Abstract!Take
<1>3. CASE o \in Semaphores
  <2>1. count'[o] <= count[o]
    BY <1>1, <1>3, <1>t DEF Abstract!Take
  <2> QED
    BY <1>1, <1>3, <1>t, <2>1 DEF Abstract!Signaled, Abstract!Take
<1>4. CASE o \in Mutants
  <2>1. count[o] # 0 /\ owner[o] # u
    BY <1>4 DEF Abstract!Signaled
  <2>2. count'[o] # 0
    BY <1>1, <1>4, <1>t, <2>1 DEF Abstract!Take
  <2>3. owner'[o] # u
    BY <1>1, <1>4, <2>1 DEF Abstract!Take
  <2> QED
    BY <1>4, <1>t, <2>2, <2>3 DEF Abstract!Signaled
<1> QED
  BY <1>2, <1>3, <1>4, <1>t

LEMMA StepSleepers ==
  ASSUME IInv, [Next]_vars
  PROVE  SleepersAreNotMissed'
<1>t. /\ pc \in [Threads -> WaitingPc \cup {"ready", "pulse", "readCount", "release"}]
      /\ DOMAIN req = Threads /\ count \in [Counted -> Nat] /\ signal \in [Events -> BOOLEAN]
      /\ Events \cap Counted = {} /\ Semaphores \cap Mutants = {}
      /\ Counted = Semaphores \cup Mutants
      /\ \A o, u : Abstract!Signaled(o, u) <=>
           ((o \in Events /\ signal[o]) \/ (o \in Semaphores /\ count[o] > 0)
            \/ (o \in Mutants /\ (count[o] = 0 \/ owner[o] = u)))
      /\ \A o, u : Abstract!Signaled(o, u)' <=>
           ((o \in Events /\ signal'[o]) \/ (o \in Semaphores /\ count'[o] > 0)
            \/ (o \in Mutants /\ (count'[o] = 0 \/ owner'[o] = u)))
  BY Kinds DEF IInv, TypeOK, Counted, Abstract!Signaled
\* A step that changes no object.
<1>1. ASSUME UNCHANGED <<signal, count, owner>>,
             \A u \in Threads : pc'[u] = "asleep" =>
               /\ req'[u] = req[u]
               /\ \/ pc[u] = "asleep"
                  \/ Len(req[u].objs) = 1 /\ req[u] \in Requests[u] /\ ~Abstract!Satisfied(req[u], u)
      PROVE  SleepersAreNotMissed'
  <2>1. \A o, u : ~Abstract!Signaled(o, u) => ~Abstract!Signaled(o, u)'
    BY <1>1, <1>t
  <2> QED
    BY <1>1, <2>1, SleepersKept
\* A step of t that changes objects at most for those who sleep on o.
<1>2. ASSUME NEW t \in Threads, NEW l, l # "asleep", NEW o, NotifyAndGoto(o, t, l) \/ Goto(t, l),
             UNCHANGED req \/ \E r : req' = [req EXCEPT ![t] = r],
             \A x, u : u # t /\ ~Abstract!Signaled(x, u) /\ (x = o => ~NotifyAndGoto(o, t, l))
                => ~Abstract!Signaled(x, u)'
      PROVE  SleepersAreNotMissed'
  <2> SUFFICES ASSUME NEW u \in Threads, pc'[u] = "asleep"
               PROVE  /\ req'[u] = req[u] /\ pc[u] = "asleep"
                      /\ \A x : x = req[u].objs[1] /\ ~Abstract!Signaled(x, u) => ~Abstract!Signaled(x, u)'
    BY SleepersKept
  <2>1. u # t /\ pc[u] = "asleep" /\ (NotifyAndGoto(o, t, l) => req[u].objs # <<o>>)
    BY <1>2, <1>t DEF NotifyAndGoto, Goto
  <2>2. req'[u] = req[u]
    BY <1>2, <1>t, <2>1
  <2>3. req[u] \in Requests[u] /\ Len(req[u].objs) = 1
    BY <2>1 DEF IInv, TypeOK, Places, WaitingPc
  <2>4. NotifyAndGoto(o, t, l) => req[u].objs[1] # o
    BY <2>1, <2>3, WaitForOne
  <2> QED
    BY <1>2, <2>1, <2>2, <2>4
<1>3. ASSUME NEW t \in Threads, NEW r \in WaitsAfter(t), NEW e \in Events, Set(t, e, r)
      PROVE  SleepersAreNotMissed'
  <2>1. WaitStart(r) # "asleep"
    BY WaitStarts DEF WaitsAfter
  <2>2. \A x, u : x # e /\ ~Abstract!Signaled(x, u) => ~Abstract!Signaled(x, u)'
    BY <1>3, <1>t DEF Set, Abstract!Set
  <2> QED
    BY <1>2, <1>3, <2>1, <2>2 DEF Set
<1>4. ASSUME NEW t \in Threads, NEW e \in Events, Pulse(t, e)
      PROVE  SleepersAreNotMissed'
  <2>1. \A x, u : x # e /\ ~Abstract!Signaled(x, u) => ~Abstract!Signaled(x, u)'
    BY <1>4, <1>t DEF Pulse, Abstract!Set
  <2> QED
    BY <1>2, <1>4, <2>1 DEF Pulse
<1>5. ASSUME NEW t \in Threads, NEW r \in WaitsAfter(t), NEW s \in Semaphores,
             NEW n \in 1 .. MaximumCount, Release(t, s, n, r)
      PROVE  SleepersAreNotMissed'
  <2>1. WaitStart(r) # "asleep"
    BY WaitStarts DEF WaitsAfter
  <2>2. \A x, u : x # s /\ ~Abstract!Signaled(x, u) => ~Abstract!Signaled(x, u)'
    BY <1>5, <1>t DEF Release, Abstract!Release
  <2> QED
    BY <1>2, <1>5, <2>1, <2>2 DEF Release
<1>6. ASSUME NEW t \in Threads, ReleaseMutant(t)
      PROVE  SleepersAreNotMissed'
  <2>1. req[t] \in Requests[t] \cup {NoWait}
    BY DEF IInv, TypeOK
  <2>2. WaitStart(req[t]) # "asleep"
    BY <2>1, WaitStarts
  <2> DEFINE m == subject[t]
  <2>3. m \in Mutants /\ owner[m] = t /\ count[m] > 0
    BY <1>6, ReleaserOwns DEF ReleaseMutant
  <2>4. count' = [count EXCEPT ![m] = @ - 1] /\ UNCHANGED <<signal, owner>>
    BY <1>6 DEF ReleaseMutant, Abstract!ReleaseMutant
  <2> HIDE DEF m
  <2>5. ASSUME NEW x, NEW u, u # t, ~Abstract!Signaled(x, u), x = m => count[m] # 1
        PROVE  ~Abstract!Signaled(x, u)'
    BY <1>t, <2>3, <2>4, <2>5
  <2>6. IF count[m] = 1 THEN NotifyAndGoto(m, t, WaitStart(req[t])) ELSE Goto(t, WaitStart(req[t]))
    BY <1>6 DEF ReleaseMutant, m
  <2>7. UNCHANGED req
    BY <1>6 DEF ReleaseMutant
  <2> QED
    BY <1>2, <2>2, <2>5, <2>6, <2>7
<1>7. ASSUME NEW t \in Threads, WaitSucceeds(t) \/ PollSucceeds(t)
      PROVE  SleepersAreNotMissed'
  <2>1. req[t] \in Requests[t]
    BY <1>7 DEF WaitSucceeds, PollSucceeds, AllTaken, IInv, TypeOK, WaitingPc
  <2>2. ASSUME NEW u \in Threads, pc'[u] = "asleep"
        PROVE  /\ req'[u] = req[u] /\ pc[u] = "asleep"
               /\ \A x : x = req[u].objs[1] /\ ~Abstract!Signaled(x, u) => ~Abstract!Signaled(x, u)'
    <3>1. u # t /\ pc[u] = "asleep" /\ req'[u] = req[u]
      BY <1>7, <1>t, <2>2 DEF WaitSucceeds, PollSucceeds, Return, Goto
    <3>2. req[u].objs[1] \in Events \cup Counted
      BY <3>1, WaitForOne DEF IInv, TypeOK, Places, WaitingPc
    <3>3. Abstract!Satisfied(req[t], t) /\ Abstract!Take(Abstract!Takes(req[t], t), t)
      BY <1>7 DEF WaitSucceeds, PollSucceeds, Acquire
    <3> QED
      BY <2>1, <3>1, <3>2, <3>3, TakeSignalsNobody
  <2> QED
    BY <2>2, SleepersKept
<1>8. ASSUME NEW t \in Threads, WaitSleeps(t)
      PROVE  SleepersAreNotMissed'
  <2>1. req[t] \in Requests[t] /\ Len(req[t].objs) = 1
    BY <1>8 DEF WaitSleeps, IInv, TypeOK, Places, WaitingPc
  <2> QED
    BY <1>1, <1>8, <1>t, <2>1 DEF WaitSleeps, Goto, objectVars
<1>9. ASSUME NEW t \in Threads, NEW l, l # "asleep", Goto(t, l),
             UNCHANGED req \/ \E r : req' = [req EXCEPT ![t] = r], UNCHANGED <<signal, count, owner>>
      PROVE  SleepersAreNotMissed'
  BY <1>1, <1>9, <1>t DEF Goto
<1>10. ASSUME UNCHANGED <<pc, req>>, UNCHANGED <<signal, count, owner>> \/ \E e \in Events : Abstract!Reset(e)
       PROVE  SleepersAreNotMissed'
  <2>1. \A x, u : ~Abstract!Signaled(x, u) => ~Abstract!Signaled(x, u)'
    BY <1>10, <1>t DEF Abstract!Reset
  <2> QED
    BY <1>10, <2>1, SleepersKept
<1>11. ASSUME NEW t \in Threads, EndPulse(t)
       PROVE  SleepersAreNotMissed'
  <2>1. \A x, u : ~Abstract!Signaled(x, u) => ~Abstract!Signaled(x, u)'
    BY <1>11, <1>t DEF EndPulse, Abstract!Reset
  <2>2. \A u \in Threads : pc'[u] = "asleep" => pc[u] = "asleep" /\ req'[u] = req[u]
    BY <1>11, <1>t DEF EndPulse, Goto
  <2> QED
    BY <2>1, <2>2, SleepersKept
<1>12. ASSUME NEW t \in Threads,
              \/ \E r, m : ReadOwner(t, m, r)
              \/ \E r \in Requests[t] : BeginWait(t, r)
              \/ ReadCount(t) \/ DispatchCallback(t) \/ DeadlinePasses(t) \/ BeginSlice(t)
              \/ TimeRunsOut(t) \/ WaitExpires(t) \/ PollExpires(t)
       PROVE  SleepersAreNotMissed'
  <2>1. UNCHANGED <<signal, count, owner>> /\ (UNCHANGED req \/ \E r : req' = [req EXCEPT ![t] = r])
    BY <1>12 DEF ReadOwner, BeginWait, ReadCount, DispatchCallback, DeadlinePasses, BeginSlice,
             TimeRunsOut, WaitExpires, PollExpires, EndSlice, Return, objectVars
  <2>2. \A r \in Requests[t] : WaitStart(r) # "asleep" /\ SliceStart(req[t]) # "asleep"
    BY WaitStarts, SliceStarts
  <2>3. SliceStart(req[t]) # "asleep"
    BY SliceStarts
  <2>4. UNCHANGED <<pc, req>> \/ \E l : l # "asleep" /\ Goto(t, l)
    BY <1>12, <2>2, <2>3 DEF ReadOwner, BeginWait, ReadCount, DispatchCallback, DeadlinePasses,
             BeginSlice, TimeRunsOut, WaitExpires, PollExpires, EndSlice, Return
  <2> QED
    BY <1>9, <1>10, <2>1, <2>4
<1>13. ASSUME NEW t \in Threads,
              \/ \E e \in Events : Reset(t, e)
              \/ \E s, n : ReleaseFails(t, s, n)
              \/ TryLock(t) \/ TryFails(t) \/ PollAgain(t) \/ QueueUserCallback(t) \/ UNCHANGED vars
       PROVE  SleepersAreNotMissed'
  <2>1. UNCHANGED <<pc, req>> /\ (UNCHANGED <<signal, count, owner>> \/ \E e \in Events : Abstract!Reset(e))
    BY <1>13 DEF Reset, ReleaseFails, TryLock, TryFails, PollAgain, QueueUserCallback, vars, objectVars
  <2> QED
    BY <1>10, <2>1
<1>14. CASE UNCHANGED vars
  BY <1>10, <1>14 DEF vars, objectVars
<1> QED
  BY <1>3, <1>4, <1>5, <1>6, <1>7, <1>8, <1>11, <1>12, <1>13, <1>14, Steps

LEMMA NextIInv ==
  ASSUME ~ForeignReleases, IInv, [Next]_vars
  PROVE  IInv'
  BY TypeParts, StepObjectsTyped, StepPlaces, StepRestTyped, StepOwnership, StepSleepers DEF IInv

-----------------------------------------------------------------------------
(* The refinement.                                                          *)

\* What the threads wait for when t goes to l, with what it waits for then.
LEMMA WaitingMoves ==
  ASSUME IInv, NEW t \in Threads, NEW l, NEW r,
         Goto(t, l) \/ \E o : NotifyAndGoto(o, t, l),
         (UNCHANGED req /\ r = req[t]) \/ req' = [req EXCEPT ![t] = r]
  PROVE  Waiting' = [Waiting EXCEPT ![t] = IF l \in WaitingPc THEN r ELSE NoWait]
<1>1. DOMAIN pc = Threads /\ DOMAIN req = Threads
  BY DEF IInv, TypeOK
<1>2. pc'[t] = l /\ req'[t] = r
  BY <1>1 DEF Goto, NotifyAndGoto
<1>3. ASSUME NEW u \in Threads, u # t
      PROVE  req'[u] = req[u] /\ (pc'[u] = pc[u] \/ (pc[u] = "asleep" /\ pc'[u] = "wait"))
  BY <1>1, <1>3 DEF Goto, NotifyAndGoto
<1>4. ASSUME NEW u \in Threads, u # t
      PROVE  (IF pc'[u] \in WaitingPc THEN req'[u] ELSE NoWait)
             = (IF pc[u] \in WaitingPc THEN req[u] ELSE NoWait)
  BY <1>3, <1>4 DEF WaitingPc
<1> QED
  BY <1>2, <1>4 DEF Waiting

\* What a thread waits for when it is in a wait, and that it waits for nothing
\* when it is not.
LEMMA WaitingAt ==
  ASSUME IInv, NEW t \in Threads
  PROVE  /\ pc[t] \notin WaitingPc => Waiting[t] = NoWait
         /\ pc[t] \in WaitingPc => /\ Waiting[t] = req[t] /\ req[t] \in Requests[t]
                                   /\ req[t] # NoWait
         /\ DOMAIN Waiting = Threads
         /\ Waiting = [Waiting EXCEPT ![t] = Waiting[t]]
<1>1. DOMAIN Waiting = Threads /\ Waiting[t] = IF pc[t] \in WaitingPc THEN req[t] ELSE NoWait
  BY DEF Waiting
<1>2. Waiting = [Waiting EXCEPT ![t] = Waiting[t]]
  BY DEF Waiting
<1> QED
  BY <1>1, <1>2 DEF IInv, TypeOK

\* Signalling and going on to a wait, or to none.
LEMMA SignalImplements ==
  ASSUME IInv, NEW t \in Threads, NEW r \in Requests[t] \cup {NoWait}, pc[t] \notin WaitingPc,
         Abstract!Signal(t),
         Goto(t, WaitStart(r)) \/ \E o : NotifyAndGoto(o, t, WaitStart(r)),
         (UNCHANGED req /\ r = req[t]) \/ req' = [req EXCEPT ![t] = r]
  PROVE  Abstract!SignalAndWait(t)
<1>1. Waiting[t] = NoWait
  BY WaitingAt
<1>2. Waiting' = [Waiting EXCEPT ![t] = IF WaitStart(r) \in WaitingPc THEN r ELSE NoWait]
  BY WaitingMoves
<1>3. CASE r = NoWait
  <2>1. WaitStart(r) \notin WaitingPc
    BY <1>3, WaitStarts DEF WaitingPc
  <2>2. Waiting' = Waiting
    BY <1>1, <1>2, <2>1, WaitingAt
  <2> QED
    BY <1>1, <2>2 DEF Abstract!SignalAndWait
<1>4. CASE r # NoWait
  <2>1. r \in Requests[t] /\ WaitStart(r) \in WaitingPc
    BY <1>4, WaitStarts DEF WaitingPc
  <2>2. Abstract!Wait(t, r)
    BY <1>1, <1>2, <2>1 DEF Abstract!Wait
  <2> QED
    BY <1>1, <2>1, <2>2 DEF Abstract!SignalAndWait
<1> QED
  BY <1>3, <1>4

\* A wait ends, with what it waits for or without.
LEMMA ReturnImplements ==
  ASSUME IInv, NEW t \in Threads, pc[t] \in WaitingPc, Return(t)
  PROVE  /\ UNCHANGED objectVars /\ (req[t].timed \/ req[t].alertable) => Abstract!GiveUp(t)
         /\ Abstract!Satisfied(req[t], t) /\ Abstract!Take(Abstract!Takes(req[t], t), t)
              => Abstract!Satisfy(t)
<1>1. Waiting[t] = req[t] /\ req[t] # NoWait
  BY WaitingAt
<1>2. Waiting' = [Waiting EXCEPT ![t] = NoWait]
  BY WaitingMoves DEF Return
<1>3. Abstract!StopWaiting(t)
  BY <1>2 DEF Abstract!StopWaiting
<1>4. UNCHANGED objectVars => UNCHANGED Abstract!objectVars
  BY DEF objectVars, Abstract!objectVars
<1> QED
  BY <1>1, <1>3, <1>4 DEF Abstract!GiveUp, Abstract!Satisfy

\* A thread that stays in its wait, or out of any, takes no step of the objects.
LEMMA StaysInWait ==
  ASSUME IInv, NEW t \in Threads, NEW l,
         Goto(t, l) \/ \E o : NotifyAndGoto(o, t, l),
         l \in WaitingPc <=> pc[t] \in WaitingPc, UNCHANGED req \/ l \notin WaitingPc,
         UNCHANGED req \/ \E r : req' = [req EXCEPT ![t] = r]
  PROVE  UNCHANGED Waiting
<1>1. PICK r : (UNCHANGED req /\ r = req[t]) \/ req' = [req EXCEPT ![t] = r]
  OBVIOUS
<1>2. Waiting' = [Waiting EXCEPT ![t] = IF l \in WaitingPc THEN r ELSE NoWait]
  BY <1>1, WaitingMoves
<1>3. l \in WaitingPc => r = req[t]
  BY <1>1 DEF IInv, TypeOK
<1> QED
  BY <1>2, <1>3, WaitingAt

\* Each step of the code is one of the objects', or none.
LEMMA StepImplements ==
  ASSUME ~ForeignReleases, IInv, [Next]_vars
  PROVE  [Abstract!Next]_<<signal, count, owner, Waiting>>
<1> DEFINE Stutters == UNCHANGED <<signal, count, owner, Waiting>>
           Does(t) == \/ Abstract!Begin(t) \/ Abstract!Satisfy(t) \/ Abstract!GiveUp(t)
                      \/ Abstract!SignalAndWait(t) \/ Abstract!ResetEvent(t)
<1>k. /\ \A e \in Events : e \in Abstract!Events
      /\ \A t \in Threads : pc[t] \notin WaitingPc => Waiting[t] = NoWait
  BY Kinds, WaitingAt
\* Signalling.
<1>1. ASSUME NEW t \in Threads, NEW r \in WaitsAfter(t),
             \/ \E e \in Events : Set(t, e, r)
             \/ \E s \in Semaphores, n \in 1 .. MaximumCount : Release(t, s, n, r)
      PROVE  Does(t)
  <2>1. Abstract!Signal(t)
    BY <1>1, <1>k DEF Set, Release, Abstract!Signal
  <2>2. pc[t] \notin WaitingPc /\ r \in Requests[t] \cup {NoWait}
    BY <1>1 DEF Set, Release, BeginCall, WaitingPc, WaitsAfter
  <2>3. (\E o : NotifyAndGoto(o, t, WaitStart(r))) /\ req' = [req EXCEPT ![t] = r]
    BY <1>1 DEF Set, Release
  <2> QED
    BY <2>1, <2>2, <2>3, SignalImplements
<1>2. ASSUME NEW t \in Threads, ReleaseMutant(t)
      PROVE  Does(t)
  <2>1. Abstract!Signal(t)
    BY <1>2, ReleaserOwns DEF ReleaseMutant, Abstract!Signal
  <2>2. pc[t] \notin WaitingPc /\ req[t] \in Requests[t] \cup {NoWait}
    BY <1>2 DEF ReleaseMutant, WaitingPc, IInv, TypeOK
  <2>3. UNCHANGED req /\ (Goto(t, WaitStart(req[t])) \/ \E o : NotifyAndGoto(o, t, WaitStart(req[t])))
    BY <1>2 DEF ReleaseMutant
  <2> QED
    BY <2>1, <2>2, <2>3, SignalImplements
<1>3. ASSUME NEW t \in Threads, NEW e \in Events, Pulse(t, e)
      PROVE  Does(t)
  <2>1. Abstract!Signal(t) /\ pc[t] \notin WaitingPc
    BY <1>3, <1>k DEF Pulse, Abstract!Signal, BeginCall, WaitingPc
  <2>2. UNCHANGED Waiting
    BY <1>3, <2>1, StaysInWait DEF Pulse, WaitingPc
  <2> QED
    BY <1>k, <2>1, <2>2 DEF Abstract!SignalAndWait
<1>4. ASSUME NEW t \in Threads, EndPulse(t) \/ \E e \in Events : Reset(t, e)
      PROVE  Does(t)
  <2>1. pc[t] \notin WaitingPc /\ \E e \in Events : Abstract!Reset(e)
    BY <1>4 DEF EndPulse, Reset, BeginCall, WaitingPc, IInv, Places
  <2>2. UNCHANGED Waiting
    <3>1. CASE EndPulse(t)
      BY <2>1, <3>1, StaysInWait DEF EndPulse, WaitingPc
    <3>2. CASE \E e \in Events : Reset(t, e)
      BY <3>2 DEF Reset, Waiting
    <3> QED
      BY <1>4, <3>1, <3>2
  <2> QED
    BY <1>k, <2>1, <2>2 DEF Abstract!ResetEvent
<1>5. ASSUME NEW t \in Threads, (\E r, m : ReadOwner(t, m, r)) \/ ReadCount(t)
      PROVE  Stutters
  <2>1. pc[t] \notin WaitingPc /\ UNCHANGED <<signal, count, owner>>
    BY <1>5 DEF ReadOwner, ReadCount, BeginCall, WaitingPc, objectVars
  <2>2. \/ UNCHANGED <<pc, req>>
        \/ /\ \E l : Goto(t, l) /\ l \notin WaitingPc
           /\ UNCHANGED req \/ \E r : req' = [req EXCEPT ![t] = r]
    BY <1>5 DEF ReadOwner, ReadCount, Return, WaitingPc
  <2>3. CASE UNCHANGED <<pc, req>>
    BY <2>1, <2>3 DEF Waiting
  <2>4. CASE /\ \E l : Goto(t, l) /\ l \notin WaitingPc
             /\ UNCHANGED req \/ \E r : req' = [req EXCEPT ![t] = r]
    BY <2>1, <2>4, StaysInWait
  <2> QED
    BY <2>2, <2>3, <2>4
\* Waiting.
<1>6. ASSUME NEW t \in Threads, NEW r \in Requests[t], BeginWait(t, r)
      PROVE  Does(t)
  <2>1. r # NoWait /\ WaitStart(r) \in WaitingPc /\ Waiting[t] = NoWait
    BY <1>6, <1>k, RequestsTyped, WaitStarts DEF BeginWait, BeginCall, WaitingPc
  <2>2. Waiting' = [Waiting EXCEPT ![t] = r]
    BY <1>6, <2>1, WaitingMoves DEF BeginWait
  <2> QED
    BY <1>6, <2>1, <2>2
    DEF BeginWait, objectVars, Abstract!Begin, Abstract!Wait, Abstract!objectVars
<1>7. ASSUME NEW t \in Threads, WaitSucceeds(t) \/ PollSucceeds(t)
      PROVE  Does(t)
  BY <1>7, ReturnImplements DEF WaitSucceeds, PollSucceeds, AllTaken, Acquire, WaitingPc
<1>8. ASSUME NEW t \in Threads, DispatchCallback(t) \/ DeadlinePasses(t)
      PROVE  Does(t)
  <2>1. pc[t] \in WaitingPc /\ req[t].alertable /\ UNCHANGED objectVars /\ Return(t)
    BY <1>8 DEF DispatchCallback, DeadlinePasses, WaitingPc, IInv, Places
  <2> QED
    BY <2>1, ReturnImplements
<1>9. ASSUME NEW t \in Threads, WaitExpires(t) \/ PollExpires(t)
      PROVE  Does(t) \/ Stutters
  <2>1. pc[t] \in WaitingPc /\ UNCHANGED objectVars /\ EndSlice(t) /\ (req[t].timed \/ req[t].alertable)
    BY <1>9 DEF WaitExpires, PollExpires, AllTaken, TimeMayRunOut, WaitingPc, IInv, Places
  <2>2. CASE req[t].alertable
    BY <2>1, <2>2, StaysInWait DEF EndSlice, WaitingPc, objectVars
  <2>3. CASE ~req[t].alertable
    BY <2>1, <2>3, ReturnImplements DEF EndSlice
  <2> QED
    BY <2>2, <2>3
<1>10. ASSUME NEW t \in Threads, BeginSlice(t) \/ WaitSleeps(t) \/ TimeRunsOut(t)
       PROVE  Stutters
  <2>1. pc[t] \in WaitingPc /\ UNCHANGED <<signal, count, owner, req>>
    BY <1>10 DEF BeginSlice, WaitSleeps, TimeRunsOut, WaitingPc, objectVars
  <2>2. \E l \in WaitingPc : Goto(t, l)
    BY <1>10, SliceStarts DEF BeginSlice, WaitSleeps, TimeRunsOut, WaitingPc
  <2> QED
    BY <2>1, <2>2, StaysInWait
<1>11. CASE UNCHANGED <<objectVars, pc, req>>
  BY <1>11 DEF objectVars, Waiting
<1>12. ASSUME NEW t \in Threads, Does(t)
       PROVE  Abstract!Next
  BY <1>12 DEF Abstract!Next
<1> HIDE DEF Does
<1> QED
  BY <1>1, <1>2, <1>3, <1>4, <1>5, <1>6, <1>7, <1>8, <1>9, <1>10, <1>11, <1>12, Steps
  DEF vars, ReleaseFails, TryLock, TryFails, PollAgain, QueueUserCallback

-----------------------------------------------------------------------------
(* The theorems.  All of them ask that a thread releases only mutants it     *)
(* has: Release() checks the owner before it takes the mutex, and then       *)
(* trusts what it read.                                                     *)

LEMMA Invariance ==
  ASSUME ~ForeignReleases
  PROVE  Spec => []IInv
<1>1. IInv /\ [Next]_vars => IInv'
  BY NextIInv
<1> QED
  BY <1>1, InitIInv, PTL DEF Spec

\* The fields of the objects and the places of the threads are what the code
\* takes them for.
THEOREM TypeCorrect ==
  ASSUME ~ForeignReleases
  PROVE  Spec => []TypeOK
<1>1. IInv => TypeOK
  BY DEF IInv
<1> QED
  BY <1>1, Invariance, PTL

\* No notification is lost: Set(), Pulse(), Release() and the releases of a
\* mutant wake everybody who sleeps in Wait() on what they signal, and a thread
\* that goes to sleep has looked under the same mutex.
THEOREM NoSleeperMissed ==
  ASSUME ~ForeignReleases
  PROVE  Spec => []SleepersAreNotMissed
<1>1. IInv => SleepersAreNotMissed
  BY DEF IInv
<1> QED
  BY <1>1, Invariance, PTL

\* A thread that acquired a mutant n times more often than it released it is
\* its owner, with count_ = n, and a mutant without owner_ is free: the fields
\* never lose an acquisition of WaitMultiple() or of SignalAndWait().
THEOREM OwnersAreRecorded ==
  ASSUME ~ForeignReleases
  PROVE  Spec => []Ownership
<1>1. IInv => Ownership
  BY DEF IInv
<1> QED
  BY <1>1, Invariance, PTL

\* Waiting with Wait(), WaitMultiple() and SignalAndWait() is waiting for
\* dispatcher objects: everything a wait asks for is taken in one step, or
\* nothing, and what is taken was signaled.
THEOREM ObjectsImplemented ==
  ASSUME ~ForeignReleases
  PROVE  Spec => ImplementsObjects
<1>1. Init => Abstract!Init
  <2> SUFFICES ASSUME Init PROVE Abstract!Init
    OBVIOUS
  <2>1. Waiting = [t \in Threads |-> NoWait]
    BY DEF Init, Waiting, WaitingPc
  <2> QED
    BY <2>1 DEF Init, Abstract!Init, Abstract!Events, Abstract!Counted
<1>2. IInv /\ [Next]_vars => [Abstract!Next]_<<signal, count, owner, Waiting>>
  BY StepImplements
<1> QED
  BY <1>1, <1>2, Invariance, PTL DEF Spec, ImplementsObjects, Abstract!Spec

-----------------------------------------------------------------------------
(* The host's threads (HostThread), which wait for such objects and are       *)
(* waited for: threading_posix.cpp has them in one class template.  What is   *)
(* true of one thread follows from counting its suspensions, the signals on   *)
(* their way and the tokens of suspend_sem_ (SemWaits).  An instance brings   *)
(* no assumption along: what HostThread assumes is a hypothesis here.         *)

CONSTANTS Self, Uses, MaxNesting, MaxWaits

VARIABLES state, suspendCount, stateMutex, signaled, condMutex, cancelled, joins, sleepers,
          suspendsLeft, waitsLeft

Thread == INSTANCE HostThread

\* A thread that was not created suspended: the code's suspend count is the
\* documented one, and no wait has a token while a suspension is in force.
ServedCounts ==
  ~use.created =>
    /\ held = suspendCount
    /\ tpc \notin {"starting", "hold", "created"}
    /\ tpc # "gone" => SemWaits >= sem + held

\* A thread that was, and that nobody suspends.
CreatedHeld ==
  use.created =>
    /\ suspendsLeft = 0 /\ held <= 1
    /\ ControllersAt("suspend") = {} /\ ControllersAt("kill") = {}
    /\ tpc \notin {"selfSuspend", "suspending"}
    /\ held > 0 => tpc \in {"new", "starting", "hold", "created", "gone"}
    /\ tpc = "created" => held <= suspendCount

\* Suspensions in force and calls of Suspend() that have begun.
NestingBounded ==
  /\ terminatesLeft <= MaxTerminates
  /\ ~use.created =>
       suspendCount + Cardinality(ControllersAt("suspend")) + (IF tpc = "selfSuspend" THEN 1 ELSE 0)
         <= MaxNesting

\* Before the first Terminate() and before the thread ends by itself.
TokensKept ==
  ~use.created /\ terminatesLeft = MaxTerminates =>
    /\ ~cancelled /\ \A c \in Controllers : cpc[c] \notin {"terminate", "signal", "cancel"}
    /\ tpc \notin {"signal", "gone"} =>
         /\ tpc # "spin" /\ state # "Finished"
         /\ tpc = "new" => state = "Uninitialized"
         /\ state = "Uninitialized" => suspendCount = 0
         /\ suspendCount > 0 => state = "Suspended"
         /\ SemWaits = sem + held

\* What the theorem about threads created suspended asks of Uses.
CreatedNotSuspended == \A u \in Uses : u.created => u.suspends = 0

\* Another thread begins a call.
EnterCall(c) ==
  \/ Thread!CallResume(c) \/ Thread!CallSuspend(c)
  \/ Thread!CallTerminate(c) \/ Thread!CallWait(c)

-----------------------------------------------------------------------------
\* An instance has operators of its own for the size of a set.
LEMMA SameFiniteSets ==
  ASSUME NEW S
  PROVE  Thread!Cardinality(S) = Cardinality(S) /\ (Thread!IsFiniteSet(S) <=> IsFiniteSet(S))
<1>1. Thread!Cardinality(S) = Cardinality(S)
  BY Zenon DEF Thread!Cardinality, Cardinality
<1>2. Thread!IsFiniteSet(S) <=> IsFiniteSet(S)
  BY Zenon DEF Thread!IsFiniteSet, IsFiniteSet
<1> QED
  BY <1>1, <1>2

LEMMA InFinite ==
  ASSUME Thread!HostThreadAssumption, NEW l
  PROVE  IsFiniteSet(ControllersAt(l)) /\ Cardinality(ControllersAt(l)) \in Nat
<1>1. IsFiniteSet(ControllersAt(l))
  BY SameFiniteSets, FS_Subset DEF Thread!HostThreadAssumption, ControllersAt
<1> QED
  BY <1>1, FS_CardinalityType

\* A call moves from one place to another.
LEMMA InMoves ==
  ASSUME Thread!HostThreadAssumption, Thread!TypeOK, NEW l,
         NEW c \in Controllers, NEW m \in Thread!ControllerPc, Thread!Goto(c, m)
  PROVE  Cardinality(ControllersAt(l)') = Cardinality(ControllersAt(l)) + (IF m = l THEN 1 ELSE 0)
                                 - (IF cpc[c] = l THEN 1 ELSE 0)
<1>1. /\ IsFiniteSet(ControllersAt(l)) /\ Cardinality(ControllersAt(l)) \in Nat
  BY InFinite
<1>2. ControllersAt(l)' = IF m = l THEN ControllersAt(l) \cup {c} ELSE ControllersAt(l) \ {c}
  BY DEF Thread!Goto, Thread!TypeOK, ControllersAt
<1>3. c \in ControllersAt(l) <=> cpc[c] = l
  BY DEF ControllersAt
<1>4. /\ Cardinality(ControllersAt(l) \cup {c})
           = IF c \in ControllersAt(l) THEN Cardinality(ControllersAt(l))
             ELSE Cardinality(ControllersAt(l)) + 1
      /\ Cardinality(ControllersAt(l) \ {c})
           = IF c \in ControllersAt(l) THEN Cardinality(ControllersAt(l)) - 1
             ELSE Cardinality(ControllersAt(l))
  BY <1>1, FS_AddElement, FS_RemoveElement
<1> QED
  BY <1>1, <1>2, <1>3, <1>4

LEMMA InStays ==
  ASSUME UNCHANGED cpc, NEW l
  PROVE  ControllersAt(l)' = ControllersAt(l)
BY DEF ControllersAt

-----------------------------------------------------------------------------
\* Every step keeps the types.
LEMMA ThreadTypes ==
  ASSUME Thread!HostThreadAssumption, Thread!TypeOK,
         Thread!ThreadStep \/ Thread!EnterHandler \/ Thread!LeaveHandler
  PROVE  Thread!TypeOK'
<1> USE DEF Thread!HostThreadAssumption, Thread!TypeOK, Thread!States, Thread!ThreadPc,
            Thread!ControllerPc, Thread!bounds, Thread!At
<1>1. CASE Thread!Start BY <1>1 DEF Thread!Start
<1>2. CASE Thread!HoldCreated BY <1>2 DEF Thread!HoldCreated
<1>3. CASE Thread!CreatedWakes BY <1>3 DEF Thread!CreatedWakes
<1>12. CASE Thread!BeginHold BY <1>12 DEF Thread!BeginHold, Thread!StateUnlocked
<1>4. CASE Thread!SelfSuspend BY <1>4 DEF Thread!SelfSuspend
<1>5. CASE Thread!WaitSuspended BY <1>5 DEF Thread!WaitSuspended
<1>6. CASE Thread!Finish BY <1>6 DEF Thread!Finish
<1>7. CASE Thread!Spin BY <1>7 DEF Thread!Spin
<1>8. CASE Thread!End BY <1>8 DEF Thread!End
<1>9. CASE Thread!Die BY <1>9 DEF Thread!Die
<1>10. CASE Thread!EnterHandler BY <1>10 DEF Thread!EnterHandler
<1>11. CASE Thread!LeaveHandler
  <2>1. sem' \in Nat /\ handling' = FALSE
    BY <1>11 DEF Thread!LeaveHandler
  <2> QED
    BY <1>11, <2>1 DEF Thread!LeaveHandler
<1> QED
  BY <1>1, <1>2, <1>3, <1>4, <1>5, <1>6, <1>7, <1>8, <1>9, <1>10, <1>11, <1>12
     DEF Thread!ThreadStep

LEMMA CallTypes ==
  ASSUME Thread!HostThreadAssumption, Thread!TypeOK, NEW c \in Controllers, EnterCall(c)
  PROVE  Thread!TypeOK'
<1> USE DEF Thread!HostThreadAssumption, Thread!TypeOK, Thread!ControllerPc, Thread!bounds,
            Thread!threadVars, Thread!Goto, Thread!Call, EnterCall
<1>1. CASE Thread!CallResume(c) BY <1>1 DEF Thread!CallResume
<1>2. CASE Thread!CallSuspend(c) BY <1>2 DEF Thread!CallSuspend
<1>3. CASE Thread!CallTerminate(c) BY <1>3 DEF Thread!CallTerminate
<1>4. CASE Thread!CallWait(c) BY <1>4 DEF Thread!CallWait
<1> QED
  BY <1>1, <1>2, <1>3, <1>4

LEMMA CallStepTypes ==
  ASSUME Thread!HostThreadAssumption, Thread!TypeOK, NEW c \in Controllers, Thread!CallStep(c)
  PROVE  Thread!TypeOK'
<1> USE DEF Thread!HostThreadAssumption, Thread!TypeOK, Thread!States, Thread!ControllerPc,
            Thread!bounds, Thread!threadVars, Thread!Goto, Thread!Less
<1>1. CASE Thread!Resume(c) BY <1>1 DEF Thread!Resume
<1>2. CASE Thread!Suspend(c) BY <1>2 DEF Thread!Suspend
<1>3. CASE Thread!Kill(c) BY <1>3 DEF Thread!Kill
<1>4. CASE Thread!Terminate(c) BY <1>4 DEF Thread!Terminate
<1>5. CASE Thread!TerminateSignals(c) BY <1>5 DEF Thread!TerminateSignals
<1>6. CASE Thread!Cancel(c) BY <1>6 DEF Thread!Cancel
<1>7. CASE Thread!WaitSignaled(c) BY <1>7 DEF Thread!WaitSignaled
<1>8. CASE Thread!Join(c) BY <1>8 DEF Thread!Join
<1>9. CASE Thread!WaitStarted(c) BY <1>9 DEF Thread!WaitStarted
<1> QED
  BY <1>1, <1>2, <1>3, <1>4, <1>5, <1>6, <1>7, <1>8, <1>9 DEF Thread!CallStep

LEMMA LockTypes ==
  ASSUME Thread!HostThreadAssumption, Thread!TypeOK, Thread!BeginSelfSuspend \/ Thread!BeginFinish
  PROVE  Thread!TypeOK'
<1> USE DEF Thread!HostThreadAssumption, Thread!TypeOK, Thread!ThreadPc, Thread!bounds,
            Thread!LockTo, Thread!At, Thread!StateUnlocked
<1>1. CASE Thread!BeginSelfSuspend BY <1>1 DEF Thread!BeginSelfSuspend
<1>2. CASE Thread!BeginFinish BY <1>2 DEF Thread!BeginFinish
<1> QED
  BY <1>1, <1>2

LEMMA InitTypes == Thread!HostThreadAssumption /\ Thread!Init => Thread!TypeOK
<1> SUFFICES ASSUME Thread!HostThreadAssumption, Thread!Init PROVE Thread!TypeOK
  OBVIOUS
<1>1. use \in Uses /\ use.suspends \in Nat
  BY DEF Thread!HostThreadAssumption, Thread!UseType, Thread!Init
<1> QED
  BY <1>1 DEF Thread!HostThreadAssumption, Thread!Init, Thread!TypeOK, Thread!States, Thread!ThreadPc,
     Thread!ControllerPc

LEMMA NextTypes ==
  ASSUME Thread!HostThreadAssumption, Thread!TypeOK, [Thread!Next]_Thread!vars
  PROVE  Thread!TypeOK'
<1>1. CASE UNCHANGED Thread!vars
  BY <1>1 DEF Thread!TypeOK, Thread!vars, Thread!threadVars, Thread!bounds
<1> QED
  BY <1>1, ThreadTypes, CallTypes, CallStepTypes, LockTypes DEF Thread!Next, EnterCall

-----------------------------------------------------------------------------
\* What the other steps leave alone: the counters change in these alone.
LEMMA QuietSteps ==
  ASSUME Thread!Next, ~Thread!HoldCreated, ~Thread!SelfSuspend, ~Thread!WaitSuspended,
         ~Thread!EnterHandler, ~Thread!LeaveHandler, ~Thread!Die,
         \A c \in Controllers : ~Thread!Resume(c) /\ ~Thread!Suspend(c) /\ ~Thread!Kill(c)
  PROVE  /\ UNCHANGED <<suspendCount, held, sem, signals, handling>>
         /\ UNCHANGED cpc \/ \E c \in Controllers, m \in Thread!ControllerPc \ {"kill"} :
              Thread!Goto(c, m) /\ cpc[c] \notin {"suspend", "kill"}
<1> USE DEF EnterCall
<1>1. CASE Thread!ThreadStep
  BY <1>1 DEF Thread!ThreadStep, Thread!Start, Thread!BeginHold, Thread!CreatedWakes, Thread!Finish, Thread!Spin,
     Thread!End
<1>2. CASE Thread!BeginSelfSuspend \/ Thread!BeginFinish
  BY <1>2 DEF Thread!BeginSelfSuspend, Thread!BeginFinish, Thread!LockTo
<1>3. ASSUME NEW c \in Controllers, EnterCall(c)
      PROVE  /\ UNCHANGED <<suspendCount, held, sem, signals, handling>>
             /\ \E m \in Thread!ControllerPc \ {"kill"} :
                  Thread!Goto(c, m) /\ cpc[c] \notin {"suspend", "kill"}
  BY <1>3 DEF Thread!CallResume, Thread!CallSuspend, Thread!CallTerminate, Thread!CallWait, Thread!Call,
     Thread!threadVars, Thread!ControllerPc
<1>4. ASSUME NEW c \in Controllers, Thread!CallStep(c)
      PROVE  /\ UNCHANGED <<suspendCount, held, sem, signals, handling>>
             /\ UNCHANGED cpc \/ \E m \in Thread!ControllerPc \ {"kill"} :
                  Thread!Goto(c, m) /\ cpc[c] \notin {"suspend", "kill"}
  BY <1>4 DEF Thread!CallStep, Thread!Terminate, Thread!TerminateSignals, Thread!WaitStarted, Thread!Cancel,
     Thread!WaitSignaled, Thread!Join, Thread!threadVars, Thread!ControllerPc
<1> QED
  BY <1>1, <1>2, <1>3, <1>4, Zenon DEF Thread!Next

\* A call that moves leaves the number at l alone, unless it comes from there.
LEMMA InKept ==
  ASSUME Thread!HostThreadAssumption, Thread!TypeOK, NEW l,
         UNCHANGED cpc \/ \E c \in Controllers, m \in Thread!ControllerPc \ {l} :
                           Thread!Goto(c, m) /\ cpc[c] # l
  PROVE  ControllersAt(l)' = ControllersAt(l)
BY DEF ControllersAt, Thread!Goto, Thread!TypeOK

LEMMA UseKept == Thread!Next => use' = use
BY DEF Thread!Next, Thread!ThreadStep, Thread!CallStep, Thread!Start, Thread!HoldCreated,
   Thread!BeginHold, Thread!CreatedWakes, Thread!SelfSuspend, Thread!WaitSuspended, Thread!Finish, Thread!Spin,
   Thread!End, Thread!Die, Thread!EnterHandler, Thread!LeaveHandler, Thread!BeginSelfSuspend,
   Thread!BeginFinish, Thread!CallResume, Thread!CallSuspend, Thread!CallTerminate, Thread!CallWait,
   Thread!Resume, Thread!Suspend, Thread!Kill, Thread!Terminate, Thread!TerminateSignals, Thread!WaitStarted, Thread!Cancel,
   Thread!WaitSignaled, Thread!Join, Thread!bounds

LEMMA ServedInit == Thread!HostThreadAssumption /\ Thread!Init => ServedCounts
<1> SUFFICES ASSUME Thread!HostThreadAssumption, Thread!Init PROVE ServedCounts
  OBVIOUS
<1>1. ControllersAt("kill") = {}
  BY DEF Thread!Init, ControllersAt
<1> QED
  BY <1>1, FS_EmptySet DEF Thread!Init, ServedCounts, SemWaits

LEMMA ServedNext ==
  ASSUME Thread!HostThreadAssumption, Thread!TypeOK, ServedCounts, Thread!Next
  PROVE  ServedCounts'
<1> SUFFICES ASSUME ~use.created PROVE ServedCounts'
  BY UseKept DEF ServedCounts
<1> DEFINE n == Cardinality(ControllersAt("kill"))
<1>t. /\ suspendCount \in Nat /\ held \in Nat /\ sem \in Nat /\ signals \in Nat /\ n \in Nat
      /\ held = suspendCount /\ tpc \notin {"starting", "hold", "created"}
      /\ tpc # "gone" => SemWaits >= sem + held
  BY InFinite DEF Thread!TypeOK, ServedCounts
<1>1. CASE Thread!SelfSuspend
  <2>1. n' = n
    BY <1>1, InStays DEF Thread!SelfSuspend
  <2> QED
    BY <1>1, <1>t, <2>1 DEF Thread!SelfSuspend, ServedCounts, SemWaits, Thread!At
<1>2. CASE Thread!WaitSuspended
  <2>1. n' = n
    BY <1>2, InStays DEF Thread!WaitSuspended
  <2> QED
    BY <1>2, <1>t, <2>1 DEF Thread!WaitSuspended, ServedCounts, SemWaits, Thread!At
<1>3. CASE Thread!EnterHandler
  <2>1. n' = n
    BY <1>3, InStays DEF Thread!EnterHandler
  <2> QED
    BY <1>3, <1>t, <2>1 DEF Thread!EnterHandler, ServedCounts, SemWaits
<1>4. CASE Thread!LeaveHandler
  <2>1. n' = n
    BY <1>4, InStays DEF Thread!LeaveHandler
  <2> QED
    BY <1>4, <1>t, <2>1 DEF Thread!LeaveHandler, ServedCounts, SemWaits
<1>5. CASE Thread!Die
  BY <1>5, <1>t DEF Thread!Die, ServedCounts
<1>6. CASE Thread!HoldCreated
  BY <1>6, <1>t DEF Thread!HoldCreated, Thread!At
<1>7. ASSUME NEW c \in Controllers, Thread!Resume(c) PROVE ServedCounts'
  <2>1. n' = n
    BY <1>7, <1>t, InMoves DEF Thread!Resume, Thread!ControllerPc
  <2> QED
    BY <1>7, <1>t, <2>1 DEF Thread!Resume, ServedCounts, SemWaits, Thread!Less, Thread!threadVars
<1>8. ASSUME NEW c \in Controllers, Thread!Suspend(c) PROVE ServedCounts'
  <2>1. n' = n + 1
    BY <1>8, <1>t, InMoves DEF Thread!Suspend, Thread!ControllerPc
  <2> QED
    BY <1>8, <1>t, <2>1 DEF Thread!Suspend, ServedCounts, SemWaits, Thread!threadVars
<1>9. ASSUME NEW c \in Controllers, Thread!Kill(c) PROVE ServedCounts'
  <2>1. n' = n - 1
    BY <1>9, <1>t, InMoves DEF Thread!Kill, Thread!ControllerPc
  <2> QED
    BY <1>9, <1>t, <2>1 DEF Thread!Kill, ServedCounts, SemWaits, Thread!threadVars
<1>10. CASE /\ ~Thread!HoldCreated /\ ~Thread!SelfSuspend /\ ~Thread!WaitSuspended
            /\ ~Thread!EnterHandler /\ ~Thread!LeaveHandler /\ ~Thread!Die
            /\ \A c \in Controllers : ~Thread!Resume(c) /\ ~Thread!Suspend(c) /\ ~Thread!Kill(c)
  <2>1. /\ UNCHANGED <<suspendCount, held, sem, signals, handling>>
        /\ UNCHANGED cpc \/ \E c \in Controllers, m \in Thread!ControllerPc \ {"kill"} :
             Thread!Goto(c, m) /\ cpc[c] \notin {"suspend", "kill"}
    BY <1>10, QuietSteps
  <2>2. n' = n
    BY <2>1, InKept
  <2>3. /\ tpc' \notin {"starting", "hold", "created"}
        /\ tpc' = "suspending" => tpc = "suspending"
    BY <1>10, <1>t DEF Thread!Next, Thread!ThreadStep, Thread!CallStep, Thread!Start, Thread!BeginHold,
       Thread!CreatedWakes, Thread!At, Thread!bounds,
       Thread!Finish, Thread!Spin, Thread!End, Thread!BeginSelfSuspend, Thread!BeginFinish,
       Thread!LockTo, Thread!CallResume, Thread!CallSuspend, Thread!CallTerminate, Thread!CallWait,
       Thread!Call, Thread!Terminate, Thread!TerminateSignals, Thread!WaitStarted, Thread!Cancel,
       Thread!WaitSignaled, Thread!Join, Thread!threadVars
  <2>4. tpc = "suspending" => tpc' = tpc
    BY <1>10 DEF Thread!Next, Thread!ThreadStep, Thread!CallStep, Thread!Start, Thread!BeginHold, Thread!CreatedWakes,
       Thread!Finish, Thread!Spin, Thread!End, Thread!BeginSelfSuspend, Thread!BeginFinish,
       Thread!LockTo, Thread!CallResume, Thread!CallSuspend, Thread!CallTerminate, Thread!CallWait,
       Thread!Call, Thread!Terminate, Thread!TerminateSignals, Thread!WaitStarted, Thread!Cancel, Thread!WaitSignaled,
       Thread!Join, Thread!threadVars, Thread!At
  <2>5. tpc = "gone" => tpc' = "gone"
    BY <1>10 DEF Thread!Next, Thread!ThreadStep, Thread!CallStep, Thread!Start, Thread!BeginHold, Thread!CreatedWakes,
       Thread!Finish, Thread!Spin, Thread!End, Thread!BeginSelfSuspend, Thread!BeginFinish,
       Thread!LockTo, Thread!CallResume, Thread!CallSuspend, Thread!CallTerminate, Thread!CallWait,
       Thread!Call, Thread!Terminate, Thread!TerminateSignals, Thread!WaitStarted, Thread!Cancel, Thread!WaitSignaled,
       Thread!Join, Thread!threadVars, Thread!At
  <2> QED
    BY <1>t, <2>1, <2>2, <2>3, <2>4, <2>5 DEF ServedCounts, SemWaits
<1> QED
  BY <1>1, <1>2, <1>3, <1>4, <1>5, <1>6, <1>7, <1>8, <1>9, <1>10

-----------------------------------------------------------------------------
LEMMA CreatedInit == Thread!HostThreadAssumption /\ CreatedNotSuspended /\ Thread!Init => CreatedHeld
<1> SUFFICES ASSUME Thread!HostThreadAssumption, CreatedNotSuspended, Thread!Init, use.created
             PROVE  CreatedHeld
  BY DEF CreatedHeld
<1>1. ControllersAt("kill") = {} /\ ControllersAt("suspend") = {}
  BY DEF Thread!Init, ControllersAt
<1>2. use.suspends = 0
  BY DEF Thread!Init, CreatedNotSuspended
<1> QED
  BY <1>1, <1>2 DEF Thread!Init, CreatedHeld

LEMMA CreatedNext ==
  ASSUME Thread!HostThreadAssumption, Thread!TypeOK, CreatedHeld, Thread!Next
  PROVE  CreatedHeld'
<1> USE DEF EnterCall
<1> SUFFICES ASSUME use.created PROVE CreatedHeld'
  BY UseKept DEF CreatedHeld
<1>t. /\ suspendCount \in Nat /\ held \in Nat /\ suspendsLeft = 0 /\ held <= 1
      /\ ControllersAt("suspend") = {} /\ ControllersAt("kill") = {}
      /\ cpc \in [Controllers -> Thread!ControllerPc]
      /\ tpc \notin {"selfSuspend", "suspending"}
      /\ held > 0 => tpc \in {"new", "starting", "hold", "created", "gone"}
      /\ tpc = "created" => held <= suspendCount
  BY DEF Thread!TypeOK, CreatedHeld
<1>1. CASE Thread!ThreadStep
  <2>1. ~Thread!SelfSuspend
    BY <1>t DEF Thread!SelfSuspend, Thread!At
  <2>2. /\ UNCHANGED <<held, suspendsLeft>>
        /\ ControllersAt("suspend")' = {} /\ ControllersAt("kill")' = {}
    BY <1>1, <1>t, <2>1, InStays DEF Thread!ThreadStep, Thread!Start, Thread!HoldCreated,
       Thread!BeginHold, Thread!CreatedWakes, Thread!WaitSuspended, Thread!Finish, Thread!Spin, Thread!End, Thread!Die,
       Thread!bounds
  <2> QED
    BY <1>1, <1>t, <2>1, <2>2 DEF CreatedHeld, Thread!ThreadStep, Thread!Start, Thread!HoldCreated,
       Thread!BeginHold, Thread!CreatedWakes, Thread!WaitSuspended, Thread!Finish, Thread!Spin, Thread!End, Thread!Die,
       Thread!At
<1>2. CASE Thread!EnterHandler \/ Thread!LeaveHandler \/ Thread!BeginSelfSuspend \/ Thread!BeginFinish
  <2>1. ~Thread!BeginSelfSuspend
    BY <1>t DEF Thread!BeginSelfSuspend
  <2>2. /\ ControllersAt("suspend")' = {} /\ ControllersAt("kill")' = {}
        /\ UNCHANGED <<suspendCount, held, suspendsLeft>>
    BY <1>2, <1>t, <2>1, InStays DEF Thread!EnterHandler, Thread!LeaveHandler, Thread!BeginFinish,
       Thread!LockTo, Thread!bounds
  <2> QED
    BY <1>2, <1>t, <2>1, <2>2 DEF CreatedHeld, Thread!EnterHandler, Thread!LeaveHandler,
       Thread!BeginFinish, Thread!LockTo, Thread!At
<1>3. ASSUME NEW c \in Controllers, EnterCall(c)
      PROVE  CreatedHeld'
  <2>1. ~Thread!CallSuspend(c)
    BY <1>t DEF Thread!CallSuspend
  <2>2. UNCHANGED <<suspendCount, held, suspendsLeft, tpc>>
        /\ \E m \in Thread!ControllerPc \ {"suspend", "kill"} : Thread!Goto(c, m)
    BY <1>3, <2>1 DEF Thread!CallResume, Thread!CallTerminate, Thread!CallWait, Thread!Call,
       Thread!threadVars, Thread!bounds, Thread!ControllerPc
  <2>3. ControllersAt("suspend")' = {} /\ ControllersAt("kill")' = {}
    BY <1>t, <2>2 DEF ControllersAt, Thread!Goto
  <2> QED
    BY <1>t, <2>2, <2>3 DEF CreatedHeld
<1>4. ASSUME NEW c \in Controllers, Thread!CallStep(c) PROVE CreatedHeld'
  <2>1. ~Thread!Suspend(c) /\ ~Thread!Kill(c)
    BY <1>t DEF Thread!Suspend, Thread!Kill, ControllersAt
  <2>2. /\ UNCHANGED <<suspendsLeft, tpc>>
        /\ UNCHANGED cpc \/ \E m \in Thread!ControllerPc \ {"suspend", "kill"} : Thread!Goto(c, m)
    BY <1>4, <2>1 DEF Thread!CallStep, Thread!Resume, Thread!Terminate, Thread!TerminateSignals, Thread!WaitStarted,
       Thread!Cancel, Thread!WaitSignaled, Thread!Join, Thread!threadVars, Thread!bounds,
       Thread!ControllerPc
  <2>3. ControllersAt("suspend")' = {} /\ ControllersAt("kill")' = {}
    BY <1>t, <2>2 DEF ControllersAt, Thread!Goto
  <2>4. \/ UNCHANGED <<held, suspendCount>>
        \/ held' = Thread!Less(held) /\ suspendCount' = Thread!Less(suspendCount)
    <3>1. CASE Thread!Resume(c)
      BY <3>1 DEF Thread!Resume
    <3>2. CASE \/ Thread!Terminate(c) \/ Thread!TerminateSignals(c) \/ Thread!Cancel(c)
               \/ Thread!WaitSignaled(c) \/ Thread!Join(c) \/ Thread!WaitStarted(c)
      BY <3>2 DEF Thread!Terminate, Thread!TerminateSignals, Thread!WaitStarted, Thread!Cancel, Thread!WaitSignaled,
         Thread!Join
    <3> QED
      BY <1>4, <2>1, <3>1, <3>2 DEF Thread!CallStep
  <2> QED
    BY <1>t, <2>2, <2>3, <2>4 DEF CreatedHeld, Thread!Less
<1> QED
  BY <1>1, <1>2, <1>3, <1>4 DEF Thread!Next

-----------------------------------------------------------------------------
LEMMA NestingInit == Thread!HostThreadAssumption /\ Thread!Init => NestingBounded
<1> SUFFICES ASSUME Thread!HostThreadAssumption, Thread!Init PROVE NestingBounded
  OBVIOUS
<1>1. ControllersAt("suspend") = {}
  BY DEF Thread!Init, ControllersAt
<1> QED
  BY <1>1, FS_EmptySet DEF Thread!Init, NestingBounded, Thread!HostThreadAssumption

LEMMA NestingNext ==
  ASSUME Thread!HostThreadAssumption, Thread!TypeOK, ServedCounts, NestingBounded, Thread!Next
  PROVE  NestingBounded'
<1> DEFINE n == Cardinality(ControllersAt("suspend"))
           self == IF tpc = "selfSuspend" THEN 1 ELSE 0
<1>t. /\ suspendCount \in Nat /\ terminatesLeft \in Nat /\ n \in Nat /\ MaxTerminates \in Nat
      /\ MaxNesting \in Nat
  BY InFinite DEF Thread!TypeOK, Thread!HostThreadAssumption
<1>u. terminatesLeft' = terminatesLeft \/ terminatesLeft' = terminatesLeft - 1
  BY DEF Thread!Next, Thread!ThreadStep, Thread!CallStep, Thread!Start, Thread!HoldCreated,
     Thread!BeginHold, Thread!CreatedWakes, Thread!SelfSuspend, Thread!WaitSuspended, Thread!Finish, Thread!Spin,
     Thread!End, Thread!Die, Thread!EnterHandler, Thread!LeaveHandler, Thread!BeginSelfSuspend,
     Thread!BeginFinish, Thread!CallResume, Thread!CallSuspend, Thread!CallTerminate, Thread!CallWait,
     Thread!Resume, Thread!Suspend, Thread!Kill, Thread!Terminate, Thread!TerminateSignals, Thread!WaitStarted,
     Thread!Cancel, Thread!WaitSignaled, Thread!Join, Thread!bounds
<1> SUFFICES ASSUME ~use.created PROVE suspendCount' + n' + self' <= MaxNesting
  BY <1>t, <1>u, UseKept DEF NestingBounded
<1>v. suspendCount + n + self <= MaxNesting /\ tpc \notin {"starting", "hold"}
  BY DEF NestingBounded, ServedCounts
<1>1. CASE \/ Thread!ThreadStep \/ Thread!EnterHandler \/ Thread!LeaveHandler
          \/ Thread!BeginSelfSuspend \/ Thread!BeginFinish
  <2>1. n' = n
    BY <1>1, InStays DEF Thread!ThreadStep, Thread!Start, Thread!HoldCreated, Thread!BeginHold, Thread!CreatedWakes,
       Thread!SelfSuspend, Thread!WaitSuspended, Thread!Finish, Thread!Spin, Thread!End, Thread!Die,
       Thread!EnterHandler, Thread!LeaveHandler, Thread!BeginSelfSuspend, Thread!BeginFinish,
       Thread!LockTo
  <2>2. \/ UNCHANGED suspendCount /\ (tpc' = "selfSuspend" => tpc = "selfSuspend")
        \/ suspendCount' = suspendCount + 1 /\ tpc = "selfSuspend" /\ tpc' = "suspending"
        \/ UNCHANGED suspendCount /\ tpc = "run" /\ suspendCount + n < MaxNesting
    BY <1>1, <1>v, SameFiniteSets DEF Thread!ThreadStep, Thread!Start, Thread!HoldCreated, Thread!BeginHold, Thread!CreatedWakes,
       Thread!SelfSuspend, Thread!WaitSuspended, Thread!Finish, Thread!Spin, Thread!End, Thread!Die,
       Thread!EnterHandler, Thread!LeaveHandler, Thread!BeginSelfSuspend, Thread!BeginFinish,
       Thread!LockTo, Thread!At, ControllersAt
  <2> QED
    BY <1>t, <1>v, <2>1, <2>2
<1>2. ASSUME NEW c \in Controllers, Thread!CallSuspend(c) PROVE suspendCount' + n' + self' <= MaxNesting
  <2>1. n' = n + 1 /\ UNCHANGED <<suspendCount, tpc>>
    BY <1>2, <1>t, InMoves DEF Thread!CallSuspend, Thread!Call, Thread!threadVars, Thread!ControllerPc
  <2>2. suspendCount + n + self < MaxNesting
    BY <1>2, SameFiniteSets DEF Thread!CallSuspend, ControllersAt
  <2> QED
    BY <1>t, <2>1, <2>2
<1>3. ASSUME NEW c \in Controllers, Thread!Suspend(c) PROVE suspendCount' + n' + self' <= MaxNesting
  <2>1. n' = n - 1 /\ UNCHANGED tpc /\ suspendCount' = suspendCount + 1
    BY <1>3, <1>t, InMoves DEF Thread!Suspend, Thread!threadVars, Thread!ControllerPc
  <2> QED
    BY <1>t, <1>v, <2>1
<1>4. ASSUME NEW c \in Controllers, ~Thread!Suspend(c),
             \/ Thread!CallStep(c)
             \/ Thread!CallResume(c) \/ Thread!CallTerminate(c) \/ Thread!CallWait(c)
      PROVE  suspendCount' + n' + self' <= MaxNesting
  <2>1. \/ UNCHANGED cpc
        \/ \E m \in Thread!ControllerPc \ {"suspend"} : Thread!Goto(c, m) /\ cpc[c] # "suspend"
    BY <1>4 DEF Thread!CallStep, Thread!Resume, Thread!Kill, Thread!Terminate, Thread!TerminateSignals, Thread!WaitStarted,
       Thread!Cancel, Thread!WaitSignaled, Thread!Join, Thread!CallResume, Thread!CallTerminate,
       Thread!CallWait, Thread!Call, Thread!ControllerPc
  <2>2. n' = n
    BY <2>1, InKept
  <2>3. UNCHANGED tpc /\ (UNCHANGED suspendCount \/ suspendCount' = Thread!Less(suspendCount))
    BY <1>4 DEF Thread!CallStep, Thread!Resume, Thread!Kill, Thread!Terminate, Thread!TerminateSignals, Thread!WaitStarted,
       Thread!Cancel, Thread!WaitSignaled, Thread!Join, Thread!CallResume, Thread!CallTerminate,
       Thread!CallWait, Thread!Call, Thread!threadVars
  <2> QED
    BY <1>t, <1>v, <2>2, <2>3 DEF Thread!Less
<1> QED
  BY <1>1, <1>2, <1>3, <1>4 DEF Thread!Next

-----------------------------------------------------------------------------
LEMMA TokensInit == Thread!HostThreadAssumption /\ Thread!Init => TokensKept
<1> SUFFICES ASSUME Thread!HostThreadAssumption, Thread!Init PROVE TokensKept
  OBVIOUS
<1>1. ControllersAt("kill") = {}
  BY DEF Thread!Init, ControllersAt
<1> QED
  BY <1>1, FS_EmptySet DEF Thread!Init, TokensKept, SemWaits

LEMMA TokensNext ==
  ASSUME Thread!HostThreadAssumption, MaxNesting <= 1,
         Thread!TypeOK, ServedCounts, NestingBounded, TokensKept, Thread!Next
  PROVE  TokensKept'
<1> DEFINE n == Cardinality(ControllersAt("kill"))
<1>t. /\ suspendCount \in Nat /\ held \in Nat /\ sem \in Nat /\ signals \in Nat /\ n \in Nat
      /\ terminatesLeft \in Nat /\ MaxTerminates \in Nat /\ terminatesLeft <= MaxTerminates
      /\ tpc \in Thread!ThreadPc /\ handling \in BOOLEAN
  BY InFinite DEF Thread!TypeOK, Thread!HostThreadAssumption, NestingBounded
<1>u. \/ UNCHANGED terminatesLeft /\ \A c \in Controllers : ~Thread!CallTerminate(c)
      \/ terminatesLeft' = terminatesLeft - 1
  BY <1>t DEF Thread!Next, Thread!ThreadStep, Thread!CallStep, Thread!Start, Thread!HoldCreated,
     Thread!BeginHold, Thread!CreatedWakes, Thread!SelfSuspend, Thread!WaitSuspended, Thread!Finish, Thread!Spin,
     Thread!End, Thread!Die, Thread!EnterHandler, Thread!LeaveHandler, Thread!BeginSelfSuspend,
     Thread!BeginFinish, Thread!CallResume, Thread!CallSuspend, Thread!CallTerminate, Thread!CallWait,
     Thread!Resume, Thread!Suspend, Thread!Kill, Thread!Terminate, Thread!TerminateSignals, Thread!WaitStarted,
     Thread!Cancel, Thread!WaitSignaled, Thread!Join, Thread!bounds
<1> SUFFICES ASSUME ~use.created, terminatesLeft = MaxTerminates,
                    \A c \in Controllers : ~Thread!CallTerminate(c)
             PROVE  TokensKept'
  BY <1>t, <1>u, UseKept DEF TokensKept
<1>c. ~cancelled /\ \A c \in Controllers : cpc[c] \notin {"terminate", "signal", "cancel"}
  BY DEF TokensKept
<1>d. ~cancelled' /\ \A c \in Controllers : cpc'[c] \notin {"terminate", "signal", "cancel"}
  <2>1. CASE \/ Thread!ThreadStep \/ Thread!EnterHandler \/ Thread!LeaveHandler
            \/ Thread!BeginSelfSuspend \/ Thread!BeginFinish
    BY <1>c, <2>1 DEF Thread!ThreadStep, Thread!Start, Thread!HoldCreated, Thread!BeginHold,
       Thread!CreatedWakes, Thread!SelfSuspend, Thread!WaitSuspended, Thread!Finish, Thread!Spin,
       Thread!End, Thread!Die, Thread!EnterHandler, Thread!LeaveHandler, Thread!BeginSelfSuspend,
       Thread!BeginFinish, Thread!LockTo
  <2>2. ASSUME NEW c \in Controllers,
               \/ Thread!CallResume(c) \/ Thread!CallSuspend(c) \/ Thread!CallWait(c)
               \/ Thread!CallStep(c)
        PROVE  ~cancelled' /\ \A d \in Controllers : cpc'[d] \notin {"terminate", "signal", "cancel"}
    <3>1. cpc[c] \notin {"terminate", "signal", "cancel"}
      BY <1>c
    <3>2. UNCHANGED cancelled
      BY <2>2, <3>1 DEF Thread!CallResume, Thread!CallSuspend, Thread!CallWait, Thread!Call,
         Thread!CallStep, Thread!WaitStarted, Thread!Resume, Thread!Suspend, Thread!Kill,
         Thread!Terminate, Thread!TerminateSignals, Thread!Cancel, Thread!WaitSignaled, Thread!Join
    <3>3. UNCHANGED cpc \/ \E m \in {"resume", "suspend", "wait", "ready", "kill", "join"} : Thread!Goto(c, m)
      BY <2>2, <3>1 DEF Thread!CallResume, Thread!CallSuspend, Thread!CallWait, Thread!Call,
         Thread!CallStep, Thread!WaitStarted, Thread!Resume, Thread!Suspend, Thread!Kill,
         Thread!Terminate, Thread!TerminateSignals, Thread!Cancel, Thread!WaitSignaled, Thread!Join
    <3> QED
      BY <1>c, <3>2, <3>3 DEF Thread!TypeOK, Thread!Goto
  <2> QED
    BY <2>1, <2>2 DEF Thread!Next
<1> SUFFICES ASSUME tpc' \notin {"signal", "gone"}
             PROVE  /\ tpc' # "spin" /\ state' # "Finished"
                    /\ tpc' = "new" => state' = "Uninitialized"
                    /\ state' = "Uninitialized" => suspendCount' = 0
                    /\ suspendCount' > 0 => state' = "Suspended"
                    /\ SemWaits' = sem' + held'
  BY <1>d DEF TokensKept
<1>e. tpc \notin {"signal", "gone"}
  BY DEF Thread!Next, Thread!ThreadStep, Thread!CallStep, Thread!Start, Thread!At,
     Thread!HoldCreated, Thread!BeginHold, Thread!CreatedWakes, Thread!SelfSuspend, Thread!WaitSuspended,
     Thread!Finish, Thread!Spin, Thread!End, Thread!Die, Thread!EnterHandler, Thread!LeaveHandler,
     Thread!BeginSelfSuspend, Thread!BeginFinish, Thread!LockTo, Thread!Call, Thread!CallResume,
     Thread!CallSuspend, Thread!CallWait, Thread!Resume, Thread!Suspend, Thread!Kill, Thread!Terminate,
     Thread!TerminateSignals, Thread!WaitStarted, Thread!Cancel, Thread!WaitSignaled, Thread!Join,
     Thread!threadVars
<1>v. /\ tpc \notin {"spin", "starting", "hold", "created"} /\ state # "Finished"
      /\ tpc = "new" => state = "Uninitialized"
      /\ state = "Uninitialized" => suspendCount = 0
      /\ suspendCount > 0 => state = "Suspended"
      /\ SemWaits = sem + held
      /\ held = suspendCount /\ suspendCount <= 1
  <2>1. suspendCount + Cardinality(ControllersAt("suspend"))
          + (IF tpc = "selfSuspend" THEN 1 ELSE 0) <= 1
    BY <1>t, InFinite DEF NestingBounded, Thread!HostThreadAssumption
  <2>2. suspendCount <= 1
    BY <1>t, <2>1, InFinite
  <2> QED
    BY <1>e, <2>2 DEF TokensKept, ServedCounts
<1>n. /\ ~Thread!Die /\ ~Thread!BeginHold /\ ~Thread!HoldCreated /\ ~Thread!CreatedWakes
      /\ ~Thread!Finish /\ ~Thread!Spin /\ ~Thread!End
  BY <1>c, <1>v DEF Thread!Die, Thread!BeginHold, Thread!HoldCreated, Thread!CreatedWakes, Thread!Finish,
     Thread!Spin, Thread!End, Thread!At
<1>1. CASE \/ Thread!ThreadStep \/ Thread!EnterHandler \/ Thread!LeaveHandler
          \/ Thread!BeginSelfSuspend \/ Thread!BeginFinish
  <2>1. n' = n /\ UNCHANGED cpc
    BY <1>1, <1>n, InStays DEF Thread!ThreadStep, Thread!Start, Thread!SelfSuspend,
       Thread!WaitSuspended, Thread!EnterHandler, Thread!LeaveHandler, Thread!BeginSelfSuspend,
       Thread!BeginFinish, Thread!LockTo
  <2>2. CASE Thread!Start
    BY <1>t, <1>v, <2>1, <2>2 DEF SemWaits, Thread!Start, Thread!At
  <2>3. CASE Thread!SelfSuspend
    BY <1>t, <1>v, <2>1, <2>3 DEF SemWaits, Thread!SelfSuspend, Thread!At
  <2>4. CASE Thread!WaitSuspended
    BY <1>t, <1>v, <2>1, <2>4 DEF SemWaits, Thread!WaitSuspended, Thread!At
  <2>5. CASE Thread!EnterHandler
    BY <1>t, <1>v, <2>1, <2>5 DEF SemWaits, Thread!EnterHandler
  <2>6. CASE Thread!LeaveHandler
    BY <1>t, <1>v, <2>1, <2>6 DEF SemWaits, Thread!LeaveHandler
  <2>7. CASE Thread!BeginSelfSuspend \/ Thread!BeginFinish
    BY <1>t, <1>v, <2>1, <2>7 DEF SemWaits, Thread!BeginSelfSuspend, Thread!BeginFinish,
       Thread!LockTo, Thread!At
  <2> QED
    BY <1>1, <1>n, <2>2, <2>3, <2>4, <2>5, <2>6, <2>7 DEF Thread!ThreadStep
<1>2. CASE \E c \in Controllers : Thread!CallResume(c) \/ Thread!CallSuspend(c) \/ Thread!CallWait(c)
  <2>1. /\ UNCHANGED <<state, suspendCount, held, sem, signals, handling, tpc>>
        /\ \E c \in Controllers, m \in {"resume", "suspend", "wait"} :
             Thread!Goto(c, m) /\ cpc[c] = "ready"
    BY <1>2 DEF Thread!CallResume, Thread!CallSuspend, Thread!CallWait, Thread!Call, Thread!threadVars
  <2>2. n' = n
    BY <2>1, InKept DEF Thread!ControllerPc
  <2> QED
    BY <1>t, <1>v, <2>1, <2>2 DEF SemWaits
<1>3. CASE \E c \in Controllers : Thread!CallStep(c)
  <2> PICK c \in Controllers : Thread!CallStep(c)
    BY <1>3
  <2>n. ~Thread!Terminate(c) /\ ~Thread!TerminateSignals(c) /\ ~Thread!Cancel(c)
    BY <1>c DEF Thread!Terminate, Thread!TerminateSignals, Thread!Cancel
  <2>2. UNCHANGED <<handling, tpc>>
    BY <2>n DEF Thread!CallStep, Thread!Resume, Thread!Suspend, Thread!Kill, Thread!WaitSignaled,
       Thread!Join, Thread!WaitStarted, Thread!threadVars
  <2>3. CASE Thread!Resume(c)
    <3>1. n' = n
      BY <2>3, <1>t, InMoves DEF Thread!Resume, Thread!ControllerPc
    <3>2. CASE suspendCount = 0
      BY <1>t, <1>v, <2>2, <2>3, <3>1, <3>2 DEF SemWaits, Thread!Resume, Thread!Less
    <3>3. CASE suspendCount = 1
      BY <1>t, <1>v, <2>2, <2>3, <3>1, <3>3 DEF SemWaits, Thread!Resume, Thread!Less
    <3> QED
      BY <1>t, <1>v, <3>2, <3>3
  <2>4. CASE Thread!Suspend(c)
    <3>1. n' = n + 1
      BY <2>4, <1>t, InMoves DEF Thread!Suspend, Thread!ControllerPc
    <3> QED
      BY <1>t, <1>v, <2>2, <2>4, <3>1 DEF SemWaits, Thread!Suspend, Thread!Started
  <2>5. CASE Thread!Kill(c)
    <3>1. n' = n - 1
      BY <2>5, <1>t, InMoves DEF Thread!Kill, Thread!ControllerPc
    <3> QED
      BY <1>t, <1>v, <2>2, <2>5, <3>1 DEF SemWaits, Thread!Kill
  <2>6. CASE Thread!WaitSignaled(c) \/ Thread!Join(c)
    <3>1. n' = n
      BY <2>6, <1>t, InMoves DEF Thread!WaitSignaled, Thread!Join, Thread!ControllerPc
    <3> QED
      BY <1>t, <1>v, <2>2, <2>6, <3>1 DEF SemWaits, Thread!WaitSignaled, Thread!Join
  <2>7. CASE Thread!WaitStarted(c)
    <3>1. n' = n
      BY <2>7, InStays DEF Thread!WaitStarted
    <3> QED
      BY <1>t, <1>v, <2>2, <2>7, <3>1 DEF SemWaits, Thread!WaitStarted
  <2> QED
    BY <2>n, <2>3, <2>4, <2>5, <2>6, <2>7 DEF Thread!CallStep
<1> QED
  BY <1>n, <1>1, <1>2, <1>3 DEF Thread!Next

-----------------------------------------------------------------------------
\* Every variable of the host thread has its type, however it is used.
THEOREM ThreadTypeCorrect ==
  ASSUME Thread!HostThreadAssumption
  PROVE  Thread!Spec => []Thread!TypeOK
<1>1. Thread!Init => Thread!TypeOK
  BY InitTypes
<1>2. Thread!TypeOK /\ [Thread!Next]_Thread!vars => Thread!TypeOK'
  BY NextTypes
<1> QED
  BY <1>1, <1>2, PTL DEF Thread!Spec

Counts == ServedCounts /\ NestingBounded

LEMMA CountsInvariant ==
  ASSUME Thread!HostThreadAssumption
  PROVE  Thread!Spec => []Counts
<1>1. Thread!Init => Counts
  BY ServedInit, NestingInit DEF Counts
<1>2. Thread!TypeOK /\ Counts /\ [Thread!Next]_Thread!vars => Counts'
  <2>1. CASE UNCHANGED Thread!vars
    BY <2>1 DEF Counts, ServedCounts, NestingBounded, SemWaits, ControllersAt, Thread!vars,
       Thread!threadVars, Thread!bounds
  <2> QED
    BY <2>1, ServedNext, NestingNext DEF Counts
<1> QED
  BY <1>1, <1>2, ThreadTypeCorrect, PTL DEF Thread!Spec

\* Once the signal of a Suspend() is delivered the thread runs nothing of its
\* routine while a suspension is in force, however many Suspend() and Resume()
\* calls overlap and whether it is terminated or ends by itself; a thread
\* created suspended likewise, if it is only resumed.
THEOREM SuspendedRunsNothing ==
  ASSUME Thread!HostThreadAssumption, CreatedNotSuspended
  PROVE  Thread!Spec => []NoCodeWhileSuspended
<1>1. Thread!Init => CreatedHeld
  BY CreatedInit
<1>2. Thread!TypeOK /\ CreatedHeld /\ [Thread!Next]_Thread!vars => CreatedHeld'
  <2>1. CASE UNCHANGED Thread!vars
    BY <2>1 DEF CreatedHeld, ControllersAt, Thread!vars, Thread!threadVars, Thread!bounds
  <2> QED
    BY <2>1, CreatedNext
<1>3. Thread!TypeOK /\ Counts /\ CreatedHeld => NoCodeWhileSuspended
  <2> SUFFICES ASSUME Thread!TypeOK, Counts, CreatedHeld, held > 0, signals = 0, Thread!At("run"),
                      ControllersAt("kill") = {}
               PROVE  FALSE
    BY DEF NoCodeWhileSuspended, Thread!At
  <2>1. SemWaits = 0
    BY FS_EmptySet DEF SemWaits, Thread!At
  <2>2. use.created
    BY <2>1 DEF Counts, ServedCounts, Thread!TypeOK, Thread!At
  <2> QED
    BY <2>2 DEF CreatedHeld, Thread!At
<1> QED
  BY <1>1, <1>2, <1>3, ThreadTypeCorrect, CountsInvariant, PTL DEF Thread!Spec

\* One suspension at a time: until somebody terminates the thread, or it ends by
\* itself, signals, waits, tokens and the suspend count agree after every step.
THEOREM TokensAgree ==
  ASSUME Thread!HostThreadAssumption, MaxNesting <= 1
  PROVE  Thread!Spec => []TokensMatchWaits
<1>1. Thread!Init => TokensKept
  BY TokensInit
<1>2. Thread!TypeOK /\ Counts /\ TokensKept /\ [Thread!Next]_Thread!vars => TokensKept'
  <2>1. CASE UNCHANGED Thread!vars
    BY <2>1 DEF TokensKept, SemWaits, ControllersAt, Thread!vars, Thread!threadVars, Thread!bounds
  <2> QED
    BY <2>1, TokensNext DEF Counts
<1>3. TokensKept => TokensMatchWaits
  BY DEF TokensKept, TokensMatchWaits
<1> QED
  BY <1>1, <1>2, <1>3, ThreadTypeCorrect, CountsInvariant, PTL DEF Thread!Spec
=============================================================================
