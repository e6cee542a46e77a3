--------------------------- MODULE GuestTimerProofs ---------------------------
(***************************************************************************)
(* The host timer and the guest timer over it, for any number of           *)
(* activations and of threads that cancel, as long as the calls that set   *)
(* the timer do not overlap.  The argument: the one wait item that can     *)
(* fire is the one callback_ was installed with (OneLive), because a call  *)
(* that installs another has disarmed wait_item_ before, and wait_item_    *)
(* is the only item it has to look for (CallsPlaced); and while the item's *)
(* routine runs, no such call gets past Disarm() (RoutinePlaced).          *)
(***************************************************************************)
EXTENDS GuestTimer, TLAPS

\* A call of SetOnce or SetRepeating, up to the end of its critical section.
Sets(t) == setting[t] /\ pc[t] \in {"cancel", "disarm", "set", "queue", "assign"}

\* What the caller of the timer has to see to: two overlapping calls disarm the
\* same item and queue two, and the first of these is forgotten.
SetsDoNotOverlap == \A t, u \in Threads : Sets(t) /\ Sets(u) => t = u

\* What a call has achieved where it is.
CallsPlaced ==
  \A t \in Threads :
    /\ pc[t] \in {"set", "queue", "assign"} => setting[t]
    /\ pc[t] = "ready" => ~setting[t]
    /\ pc[t] = "disarm" => target[t] # NoItem
    /\ setting[t] /\ pc[t] = "disarm" => target[t] = waitItem
    /\ pc[t] \in {"set", "queue"} => Live = {}
    /\ pc[t] \in {"queue", "assign"} => mutex = t /\ target[t] = callback /\ callback # NoItem
    /\ pc[t] = "queue" => phase[callback] = "new"

OneLive ==
  /\ (\A t \in Threads : pc[t] \notin {"queue", "assign"}) => callback = waitItem
  /\ Live \subseteq {callback}
  /\ signal => signalBy = callback

\* The item whose routine runs, and what its callback may have done.
RoutinePlaced ==
  /\ \A i \in Items : phase[i] \in {"running", "leaving"} => cur = i
  /\ dpc # "idle" => phase[cur] \in {"running", "leaving"}
  /\ dpc \in {"signal", "copy", "run"} => phase[cur] = "running"
  /\ dpc \in {"run", "called"} => copied = cur
  /\ pc[Dispatcher] # "ready" => dpc = "called"

\* A Cancel that no Set overlapped with, and the time after it.
Cancels ==
  /\ \A t \in Threads : clean[t] =>
       /\ NoSetInProgress /\ pc[t] \in {"cancel", "disarm", "return"}
       /\ pc[t] = "disarm" => target[t] = waitItem
       /\ pc[t] = "return" => Live = {}
  /\ quiet => NoSetInProgress /\ Live = {}

IInv == TypeOK /\ CallsPlaced /\ OneLive /\ RoutinePlaced /\ Cancels

\* What a callback of the guest timer does is, for the host timer, that it has
\* begun and will set or cancel nothing.
CallbackRuns ==
  /\ dpc = "run" /\ dpc' = "called"
  /\ UNCHANGED <<phase, waitItem, callback, signal, mutex, callVars, cur, copied, dead, setsLeft,
                 signalBy, cancelVars>>

HostStep == [Next]_vars \/ CallbackRuns

-----------------------------------------------------------------------------
(* The wait items.                                                          *)

\* The steps of the timer, one by one.
LEMMA Steps ==
  ASSUME HostStep
  PROVE  \/ UNCHANGED vars
         \/ \E t \in Threads : \/ CallSet(t) \/ CallCancel(t) \/ Destroy(t) \/ Cancel(t) \/ Disarm(t)
                               \/ Install(t) \/ Queue(t) \/ Assign(t) \/ Return(t)
         \/ \E i \in Items : Fire(i)
         \/ Signal \/ CopyCallback \/ CallbackEnds \/ Finish \/ WaitTakesSignal \/ CallbackRuns
  BY DEF HostStep, Next, CallStep, RoutineStep

\* The steps that change no item.
LEMMA PhasesKept ==
  ASSUME \/ \E t \in Threads : \/ CallSet(t) \/ CallCancel(t) \/ Destroy(t) \/ Cancel(t)
                               \/ Install(t) \/ Assign(t) \/ Return(t)
         \/ Signal \/ CopyCallback \/ CallbackEnds \/ WaitTakesSignal \/ CallbackRuns
  PROVE  UNCHANGED phase
  BY DEF CallSet, CallCancel, Destroy, Cancel, Install, Assign, Return, Signal, CopyCallback,
         CallbackEnds, WaitTakesSignal, CallbackRuns

\* Disarm() by t: the item is off, or will be when its routine ends.
LEMMA Disarms ==
  ASSUME IInv, NEW t \in Threads, Disarm(t)
  PROVE  /\ target[t] \in Items
         /\ phase' \in [Items -> Service!Phases]
         /\ \A i \in Items \ {target[t]} : phase'[i] = phase[i]
         /\ phase'[target[t]] \in {"leaving", "off"}
         /\ phase[target[t]] = "armed" => phase'[target[t]] = "off"
         /\ phase'[target[t]] = "leaving" => phase[target[t]] = "running" /\ t = Dispatcher /\ target[t] = cur
         /\ phase[target[t]] \notin {"new", "leaving"}
<1>1. target[t] \in Items /\ phase \in [Items -> Service!Phases]
  BY DEF Disarm, IInv, TypeOK, CallsPlaced, OrNone, Service!TypeOK
<1> QED
  BY <1>1
  DEF Disarm, Service!Disarm, Service!DisarmSelf, Service!Enter, Service!Phases

\* The item that Queue() arms is the one that was installed.
LEMMA Queues ==
  ASSUME IInv, NEW t \in Threads, Queue(t)
  PROVE  /\ callback \in Items /\ phase[callback] = "new" /\ Live = {}
         /\ phase' = [phase EXCEPT ![callback] = "armed"]
         /\ phase' \in [Items -> Service!Phases]
         /\ Live' = {callback}
<1>1. target[t] = callback /\ callback \in Items /\ Live = {} /\ phase \in [Items -> Service!Phases]
  BY DEF Queue, IInv, TypeOK, CallsPlaced, OrNone, Service!TypeOK
<1>2. phase' = [phase EXCEPT ![callback] = "armed"] /\ phase[callback] = "new"
  BY <1>1 DEF Queue, Service!Arm, Service!Enter
<1> QED
  BY <1>1, <1>2 DEF Live, Service!Phases

\* The dispatch thread's steps.
LEMMA Fires ==
  ASSUME IInv, NEW i \in Items, Fire(i)
  PROVE  /\ phase[i] = "armed" /\ phase' = [phase EXCEPT ![i] = "running"]
         /\ phase' \in [Items -> Service!Phases]
         /\ \A j \in Items : phase[j] \notin {"running", "leaving"}
         /\ Live' = Live
<1>1. phase \in [Items -> Service!Phases]
  BY DEF IInv, TypeOK, Service!TypeOK
<1>2. /\ phase[i] = "armed" /\ phase' = [phase EXCEPT ![i] = "running"]
      /\ \A j \in Items : phase[j] \notin {"running", "leaving"}
  BY DEF Fire, Service!Fire, Service!Enter, Service!InCallback
<1> QED
  BY <1>1, <1>2 DEF Live, Service!Phases

LEMMA Finishes ==
  ASSUME IInv, Finish
  PROVE  /\ cur \in Items /\ phase[cur] \in {"running", "leaving"}
         /\ \/ phase' = [phase EXCEPT ![cur] = "armed"] /\ phase[cur] = "running"
            \/ phase' = [phase EXCEPT ![cur] = "off"]
         /\ phase' \in [Items -> Service!Phases]
         /\ Live' \subseteq Live
<1>1. phase \in [Items -> Service!Phases] /\ cur \in Items
  BY DEF Finish, IInv, TypeOK, OrNone, Service!TypeOK
<1>2. /\ phase[cur] \in {"running", "leaving"}
      /\ \/ phase' = [phase EXCEPT ![cur] = "armed"] /\ phase[cur] = "running"
         \/ phase' = [phase EXCEPT ![cur] = "off"]
  BY DEF Finish, Service!Rearm, Service!Retire, Service!Enter
<1> QED
  BY <1>1, <1>2 DEF Live, Service!Phases

\* Nothing but Queue() adds to the items that can fire.
LEMMA LiveGrows ==
  ASSUME IInv, HostStep
  PROVE  Live' \subseteq Live \/ \E t \in Threads : Queue(t)
<1>1. ASSUME UNCHANGED phase PROVE Live' \subseteq Live
  BY <1>1 DEF Live
<1>2. ASSUME NEW t \in Threads, Disarm(t) PROVE Live' \subseteq Live
  BY <1>2, Disarms DEF Live
<1> QED
  BY <1>1, <1>2, Steps, PhasesKept, Fires, Finishes DEF vars

-----------------------------------------------------------------------------
(* The invariant.                                                           *)

LEMMA InitIInv == Init => IInv
<1> SUFFICES ASSUME Init PROVE IInv
  OBVIOUS
<1>1. TypeOK
  BY PosixTimerAssumption
  DEF Init, TypeOK, Service!Init, Service!TypeOK, Service!Phases, Threads, OrNone, CallPc, RoutinePc
<1>2. Live = {}
  BY DEF Init, Service!Init, Live
<1> QED
  BY <1>1, <1>2
  DEF Init, Service!Init, IInv, CallsPlaced, OneLive, RoutinePlaced, Cancels, NoSetInProgress, Threads

LEMMA StepTypeOK ==
  ASSUME IInv, HostStep
  PROVE  TypeOK'
<1>t. TypeOK
  BY DEF IInv
<1> USE DEF TypeOK, Service!TypeOK, Goto, Aim, OrNone, CallPc, RoutinePc, callVars, routineVars, cancelVars
<1>1. ASSUME NEW t \in Threads, CallSet(t) \/ CallCancel(t) \/ Destroy(t) \/ Cancel(t) \/ Return(t)
      PROVE  TypeOK'
  <2>1. CASE CallSet(t)
    <3>1. setsLeft' \in [Threads -> Nat]
      BY <1>t, <2>1 DEF CallSet
    <3>2. pc' \in [Threads -> CallPc] /\ setting' \in [Threads -> BOOLEAN] /\ clean' \in [Threads -> BOOLEAN]
      BY <1>t, <2>1 DEF CallSet
    <3>3. dpc' \in RoutinePc /\ (cur = NoItem <=> dpc' = "idle")
      BY <1>t, <2>1 DEF CallSet, MayCall
    <3>4. mutex # Nobody => pc'[mutex] \in {"queue", "assign"}
      BY <1>t, <2>1 DEF CallSet, MayCall
    <3> QED
      BY <1>t, <2>1, <3>1, <3>2, <3>3, <3>4 DEF CallSet
  <2>2. CASE CallCancel(t)
    BY <1>t, <2>2 DEF CallCancel, MayCall, NoSetInProgress
  <2>3. CASE Destroy(t)
    BY <1>t, <2>3 DEF Destroy, NoSetInProgress
  <2>4. CASE Cancel(t)
    BY <1>t, <2>4 DEF Cancel, AfterCancel
  <2>5. CASE Return(t)
    BY <1>t, <2>5 DEF Return
  <2> QED
    BY <1>1, <2>1, <2>2, <2>3, <2>4, <2>5
<1>2. ASSUME NEW t \in Threads, Disarm(t)
      PROVE  TypeOK'
  BY <1>t, <1>2, Disarms DEF Disarm, AfterCancel
<1>3. ASSUME NEW t \in Threads, Install(t)
      PROVE  TypeOK'
  BY <1>t, <1>3 DEF Install
<1>4. ASSUME NEW t \in Threads, Queue(t)
      PROVE  TypeOK'
  BY <1>t, <1>4, Queues DEF Queue
<1>5. ASSUME NEW t \in Threads, Assign(t)
      PROVE  TypeOK'
  BY <1>t, <1>5 DEF Assign
<1>6. ASSUME NEW i \in Items, Fire(i)
      PROVE  TypeOK'
  BY <1>t, <1>6, Fires, PosixTimerAssumption DEF Fire
<1>7. CASE Signal \/ CopyCallback \/ CallbackEnds \/ CallbackRuns
  BY <1>t, <1>7 DEF Signal, CopyCallback, CallbackEnds, CallbackRuns
<1>8. CASE Finish
  BY <1>t, <1>8, Finishes DEF Finish
<1>9. CASE WaitTakesSignal \/ UNCHANGED vars
  BY <1>t, <1>9 DEF WaitTakesSignal, vars
<1> QED
  BY <1>1, <1>2, <1>3, <1>4, <1>5, <1>6, <1>7, <1>8, <1>9, Steps

LEMMA StepRoutinePlaced ==
  ASSUME IInv, HostStep
  PROVE  RoutinePlaced'
<1>t. /\ TypeOK /\ RoutinePlaced /\ Dispatcher \in Threads
      /\ DOMAIN pc = Threads /\ phase \in [Items -> Service!Phases]
  BY DEF IInv, Threads, TypeOK, Service!TypeOK
<1> USE DEF RoutinePlaced, Goto
<1>1. ASSUME NEW t \in Threads,
             CallSet(t) \/ CallCancel(t) \/ Destroy(t) \/ Cancel(t) \/ Install(t) \/ Assign(t) \/ Return(t)
      PROVE  RoutinePlaced'
  <2>1. UNCHANGED <<phase, cur, copied>>
    BY <1>1, PhasesKept
    DEF CallSet, CallCancel, Destroy, Cancel, Install, Assign, Return, routineVars
  <2>2. CASE CallSet(t) \/ CallCancel(t)
    BY <1>t, <2>1, <2>2 DEF CallSet, CallCancel, MayCall
  <2>3. CASE Destroy(t) \/ Cancel(t) \/ Install(t) \/ Assign(t) \/ Return(t)
    <3>1. UNCHANGED dpc /\ (pc[Dispatcher] = "ready" => pc'[Dispatcher] = "ready")
      BY <1>t, <2>3, PosixTimerAssumption DEF Destroy, Cancel, Install, Assign, Return, routineVars
    <3> QED
      BY <1>t, <2>1, <3>1
  <2> QED
    BY <1>1, <2>2, <2>3
<1>2. ASSUME NEW t \in Threads, Disarm(t)
      PROVE  RoutinePlaced'
  <2>1. UNCHANGED <<dpc, cur, copied>> /\ pc[t] = "disarm" /\ (pc[Dispatcher] = "ready" => pc'[Dispatcher] = "ready")
    BY <1>t, <1>2 DEF Disarm, routineVars
  <2>2. phase'[target[t]] = "leaving" => dpc = "called"
    BY <1>t, <1>2, <2>1, Disarms
  <2>3. phase[target[t]] = "running" => phase'[target[t]] = "leaving"
    BY <1>2, Disarms, <1>t DEF Disarm, Service!Disarm, Service!DisarmSelf, Service!Enter
  <2>4. \A i \in Items : phase'[i] \in {"running", "leaving"} => phase[i] \in {"running", "leaving"}
    BY <1>2, Disarms
  <2>5. dpc # "idle" => cur \in Items
    BY <1>t DEF TypeOK, OrNone
  <2> QED
    BY <1>t, <1>2, <2>1, <2>2, <2>3, <2>4, <2>5, Disarms
<1>3. ASSUME NEW t \in Threads, Queue(t)
      PROVE  RoutinePlaced'
  <2>1. UNCHANGED <<dpc, cur, copied>> /\ (pc[Dispatcher] = "ready" => pc'[Dispatcher] = "ready")
    BY <1>t, <1>3 DEF Queue, routineVars
  <2>2. dpc # "idle" => cur \in Items \ {callback}
    BY <1>t, <1>3, Queues DEF TypeOK, OrNone
  <2>3. \A i \in Items \ {callback} : phase'[i] = phase[i]
    BY <1>t, <1>3, Queues
  <2>4. phase'[callback] = "armed"
    BY <1>t, <1>3, Queues
  <2> QED
    BY <1>t, <2>1, <2>2, <2>3, <2>4
<1>4. ASSUME NEW i \in Items, Fire(i)
      PROVE  RoutinePlaced'
  BY <1>t, <1>4, Fires DEF Fire, callVars
<1>5. CASE Signal \/ CopyCallback \/ CallbackEnds \/ CallbackRuns
  <2>1. phase' = phase /\ cur' = cur /\ pc' = pc
    BY <1>5 DEF Signal, CopyCallback, CallbackEnds, CallbackRuns, callVars
  <2>2. dpc = "copy" /\ mutex = Nobody => callback = cur
    <3>1. ASSUME dpc = "copy" PROVE cur \in Live
      BY <1>t, <3>1 DEF TypeOK, OrNone, Live
    <3> QED
      BY <3>1 DEF IInv, OneLive
  <2> QED
    BY <1>t, <1>5, <2>1, <2>2 DEF Signal, CopyCallback, CallbackEnds, CallbackRuns
<1>6. CASE Finish
  BY <1>t, <1>6, Finishes DEF Finish, callVars
<1>7. CASE WaitTakesSignal \/ UNCHANGED vars
  BY <1>t, <1>7 DEF WaitTakesSignal, vars, callVars, routineVars
<1> QED
  BY <1>1, <1>2, <1>3, <1>4, <1>5, <1>6, <1>7, Steps

\* Who is in the critical section, and that a set item is there to be found.
LEMMA Alone ==
  ASSUME IInv, SetsDoNotOverlap, NEW t \in Threads, Sets(t)
  PROVE  /\ \A u \in Threads \ {t} : pc[u] \notin {"set", "queue", "assign"}
         /\ pc[t] \in {"cancel", "disarm", "set"} => callback = waitItem
  BY DEF IInv, CallsPlaced, OneLive, SetsDoNotOverlap, Sets

LEMMA StepCallsPlaced ==
  ASSUME IInv, SetsDoNotOverlap, HostStep
  PROVE  CallsPlaced'
<1>t. /\ TypeOK /\ CallsPlaced
      /\ DOMAIN pc = Threads /\ DOMAIN setting = Threads /\ DOMAIN target = Threads
  BY DEF IInv, TypeOK
<1> USE DEF CallsPlaced, Goto, Aim
<1>0. ASSUME NEW t \in Threads, pc'[t] \in {"ready", "cancel", "return"}, pc'[t] = "ready" => ~setting'[t],
             \A u \in Threads \ {t} : pc'[u] = pc[u] /\ setting'[u] = setting[u] /\ target'[u] = target[u],
             UNCHANGED <<callback, phase>>,
             waitItem' = waitItem \/ \A u \in Threads \ {t} : ~(setting[u] /\ pc[u] = "disarm"),
             mutex' = mutex \/ \A u \in Threads \ {t} : pc[u] \notin {"queue", "assign"}
      PROVE  CallsPlaced'
  BY <1>t, <1>0 DEF Live
<1>1. ASSUME NEW t \in Threads, CallSet(t) \/ CallCancel(t) \/ Destroy(t) \/ Return(t)
      PROVE  CallsPlaced'
  BY <1>t, <1>0, <1>1 DEF CallSet, CallCancel, Destroy, Return
<1>2. ASSUME NEW t \in Threads, Assign(t)
      PROVE  CallsPlaced'
  <2>1. Sets(t)
    BY <1>t, <1>2 DEF Assign, Sets
  <2>2. \A u \in Threads \ {t} : ~Sets(u)
    BY <2>1 DEF SetsDoNotOverlap
  <2>3. \A u \in Threads \ {t} : ~(setting[u] /\ pc[u] = "disarm") /\ pc[u] \notin {"queue", "assign"}
    BY <1>t, <2>2 DEF Sets
  <2> QED
    BY <1>t, <1>0, <1>2, <2>3 DEF Assign
<1>3. ASSUME NEW t \in Threads, Cancel(t)
      PROVE  CallsPlaced'
  <2>1. UNCHANGED <<phase, waitItem, callback, mutex, setting>> /\ pc[t] = "cancel"
    BY <1>3 DEF Cancel
  <2>2. /\ \A u \in Threads \ {t} : pc'[u] = pc[u] /\ target'[u] = target[u]
        /\ target'[t] = waitItem
        /\ pc'[t] = IF waitItem = NoItem THEN AfterCancel(t) ELSE "disarm"
    BY <1>t, <1>3 DEF Cancel
  <2>3. setting[t] /\ waitItem = NoItem => Live = {}
    <3>1. setting[t] => Sets(t)
      BY <2>1 DEF Sets
    <3>2. Live \subseteq {callback} /\ Live \subseteq Items
      BY DEF IInv, OneLive, Live
    <3> QED
      BY <2>1, <3>1, <3>2, Alone, PosixTimerAssumption
  <2> QED
    BY <1>t, <2>1, <2>2, <2>3 DEF AfterCancel, Live
<1>4. ASSUME NEW t \in Threads, Disarm(t)
      PROVE  CallsPlaced'
  <2>1. UNCHANGED <<waitItem, callback, mutex, setting, target>> /\ pc[t] = "disarm"
    BY <1>4 DEF Disarm
  <2>2. (\A u \in Threads \ {t} : pc'[u] = pc[u]) /\ pc'[t] = AfterCancel(t)
    BY <1>t, <1>4 DEF Disarm
  <2>3. setting[t] => Live' = {}
    <3>1. setting[t] => Sets(t) /\ target[t] = waitItem
      BY <1>t, <2>1 DEF Sets
    <3>2. Live \subseteq {callback}
      BY DEF IInv, OneLive
    <3> QED
      BY <1>4, <2>1, <3>1, <3>2, Alone, Disarms DEF Live
  <2>4. Live = {} => Live' = {}
    BY <1>4, Disarms DEF Live
  <2>5. \A i \in Items : phase[i] = "new" => phase'[i] = "new"
    BY <1>4, Disarms
  <2>6. \A u \in Threads : pc[u] = "queue" => callback \in Items
    BY <1>t DEF TypeOK, OrNone
  <2> QED
    BY <1>t, <2>1, <2>2, <2>3, <2>4, <2>5, <2>6 DEF AfterCancel
<1>5. ASSUME NEW t \in Threads, Install(t)
      PROVE  CallsPlaced'
  <2>1. Sets(t) /\ pc[t] = "set" /\ UNCHANGED <<phase, waitItem, setting>> /\ mutex' = t
    BY <1>t, <1>5 DEF Install, Sets
  <2>2. PICK i \in Items : phase[i] = "new" /\ callback' = i /\ target' = [target EXCEPT ![t] = i]
    BY <1>5 DEF Install
  <2>3. \A u \in Threads \ {t} : pc'[u] = pc[u] /\ target'[u] = target[u]
    BY <1>t, <1>5, <2>2 DEF Install
  <2>4. pc'[t] = "queue" /\ target'[t] = i
    BY <1>t, <1>5, <2>2 DEF Install
  <2>5. Live' = {}
    BY <1>t, <2>1 DEF Live
  <2> QED
    BY <1>t, <2>1, <2>2, <2>3, <2>4, <2>5, Alone, PosixTimerAssumption
<1>6. ASSUME NEW t \in Threads, Queue(t)
      PROVE  CallsPlaced'
  <2>1. Sets(t) /\ UNCHANGED <<waitItem, callback, mutex, setting, target>>
    BY <1>t, <1>6 DEF Queue, Sets
  <2>2. pc'[t] = "assign" /\ \A u \in Threads \ {t} : pc'[u] = pc[u]
    BY <1>t, <1>6 DEF Queue
  <2> QED
    BY <1>t, <1>6, <2>1, <2>2, Alone DEF Queue
<1>7. ASSUME UNCHANGED <<waitItem, callback, mutex, callVars>>, Live' \subseteq Live,
             \A i \in Items : phase[i] = "new" => phase'[i] = "new"
      PROVE  CallsPlaced'
  <2>1. \A u \in Threads : pc[u] = "queue" => callback \in Items
    BY <1>t DEF TypeOK, OrNone
  <2> QED
    BY <1>t, <1>7, <2>1 DEF callVars
<1>8. ASSUME NEW i \in Items, Fire(i)
      PROVE  CallsPlaced'
  BY <1>7, <1>8, Fires DEF Fire
<1>9. CASE Finish
  BY <1>7, <1>9, Finishes DEF Finish
<1>10. CASE Signal \/ CopyCallback \/ CallbackEnds \/ WaitTakesSignal \/ CallbackRuns \/ UNCHANGED vars
  BY <1>7, <1>10 DEF Signal, CopyCallback, CallbackEnds, WaitTakesSignal, CallbackRuns, vars, Live
<1> QED
  BY <1>1, <1>2, <1>3, <1>4, <1>5, <1>6, <1>8, <1>9, <1>10, Steps

LEMMA StepOneLive ==
  ASSUME IInv, SetsDoNotOverlap, HostStep
  PROVE  OneLive'
<1>t. /\ TypeOK /\ OneLive /\ CallsPlaced /\ DOMAIN pc = Threads
  BY DEF IInv, TypeOK
<1> USE DEF OneLive, Goto
<1>0. ASSUME UNCHANGED <<waitItem, callback>>, Live' \subseteq Live,
             signal' => signal /\ UNCHANGED signalBy,
             \A t \in Threads : pc[t] \in {"queue", "assign"} => pc'[t] \in {"queue", "assign"}
      PROVE  OneLive'
  BY <1>t, <1>0
<1>1. ASSUME NEW t \in Threads,
             CallSet(t) \/ CallCancel(t) \/ Destroy(t) \/ Cancel(t) \/ Return(t) \/ Disarm(t)
      PROVE  OneLive'
  <2>1. UNCHANGED <<waitItem, callback, signal, signalBy>>
    BY <1>1 DEF CallSet, CallCancel, Destroy, Cancel, Return, Disarm
  <2>2. Live' \subseteq Live
    BY <1>1, PhasesKept, Disarms DEF Live
  <2>3. \A u \in Threads : pc[u] \in {"queue", "assign"} => pc'[u] \in {"queue", "assign"}
    BY <1>t, <1>1 DEF CallSet, CallCancel, MayCall, Destroy, Cancel, Return, Disarm
  <2> QED
    BY <1>0, <2>1, <2>2, <2>3
<1>2. ASSUME NEW t \in Threads, Install(t)
      PROVE  OneLive'
  <2>1. Live' = {}
    BY <1>t, <1>2, PhasesKept DEF Install, CallsPlaced, Live
  <2>2. pc'[t] = "queue" /\ signal' = FALSE
    BY <1>t, <1>2 DEF Install
  <2> QED
    BY <2>1, <2>2
<1>3. ASSUME NEW t \in Threads, Queue(t)
      PROVE  OneLive'
  <2>1. pc'[t] = "assign" /\ UNCHANGED <<callback, signal, signalBy>>
    BY <1>t, <1>3 DEF Queue
  <2> QED
    BY <1>t, <1>3, <2>1, Queues
<1>4. ASSUME NEW t \in Threads, Assign(t)
      PROVE  OneLive'
  <2>1. waitItem' = callback /\ UNCHANGED <<callback, signal, signalBy>> /\ Live' = Live
    BY <1>t, <1>4, PhasesKept DEF Assign, CallsPlaced, Live
  <2> QED
    BY <1>t, <2>1
<1>5. ASSUME NEW i \in Items, Fire(i)
      PROVE  OneLive'
  BY <1>0, <1>5, Fires DEF Fire, callVars
<1>6. CASE Finish
  BY <1>0, <1>6, Finishes DEF Finish, callVars
<1>7. CASE Signal
  <2>1. cur \in Live
    BY <1>t, <1>7 DEF Signal, IInv, RoutinePlaced, TypeOK, OrNone, Live
  <2>2. UNCHANGED <<waitItem, callback, pc>> /\ signalBy' = cur /\ Live' = Live
    BY <1>7 DEF Signal, callVars, Live
  <2> QED
    BY <1>t, <2>1, <2>2
<1>8. CASE CopyCallback \/ CallbackEnds \/ WaitTakesSignal \/ CallbackRuns \/ UNCHANGED vars
  BY <1>0, <1>8 DEF CopyCallback, CallbackEnds, WaitTakesSignal, CallbackRuns, vars, callVars, Live
<1> QED
  BY <1>1, <1>2, <1>3, <1>4, <1>5, <1>6, <1>7, <1>8, Steps

LEMMA StepCancels ==
  ASSUME IInv, HostStep
  PROVE  Cancels'
<1>t. /\ TypeOK /\ Cancels /\ CallsPlaced /\ OneLive /\ \A t \in Threads : setting[t] \in BOOLEAN
      /\ DOMAIN pc = Threads /\ DOMAIN setting = Threads /\ DOMAIN target = Threads
      /\ DOMAIN clean = Threads
  BY DEF IInv, TypeOK
\* Without a Set under way, what can fire is what Cancel() disarms.
<1>s. NoSetInProgress => /\ callback = waitItem /\ Live \subseteq {waitItem}
                         /\ \A t \in Threads : pc[t] \notin {"set", "queue", "assign"}
  BY <1>t DEF NoSetInProgress, CallsPlaced, OneLive
<1>q. NoItem \notin Live /\ Live \subseteq Items
  BY PosixTimerAssumption DEF Live
<1> USE DEF Cancels, Goto, Aim, NoSetInProgress
\* Steps outside of the cancelling threads, while no Set is under way.
<1>0. ASSUME UNCHANGED <<callVars, cancelVars, waitItem>>, Live' \subseteq Live
      PROVE  Cancels'
  BY <1>t, <1>0 DEF callVars, cancelVars
\* Steps of a thread whose Cancel was not clean, or is not any more.
<1>1. ASSUME NEW t \in Threads, CallSet(t)
      PROVE  Cancels'
  BY <1>t, <1>1 DEF CallSet
<1>2. ASSUME NEW t \in Threads, CallCancel(t) \/ Destroy(t)
      PROVE  Cancels'
  <2>1. /\ UNCHANGED <<phase, waitItem, setting, target, quiet>>
        /\ clean' = [clean EXCEPT ![t] = NoSetInProgress] /\ pc' = [pc EXCEPT ![t] = "cancel"]
    BY <1>2 DEF CallCancel, Destroy
  <2>2. /\ clean'[t] <=> NoSetInProgress
        /\ pc'[t] = "cancel" /\ \A u \in Threads \ {t} : pc'[u] = pc[u] /\ clean'[u] = clean[u]
    BY <1>t, <2>1
  <2>3. Live' = Live
    BY <2>1 DEF Live
  <2> QED
    BY <1>t, <2>1, <2>2, <2>3
<1>3. ASSUME NEW t \in Threads, Cancel(t)
      PROVE  Cancels'
  <2>1. UNCHANGED <<phase, waitItem, setting, clean, quiet>> /\ pc[t] = "cancel"
    BY <1>3 DEF Cancel, cancelVars
  <2>2. /\ target'[t] = waitItem /\ pc'[t] = IF waitItem = NoItem THEN AfterCancel(t) ELSE "disarm"
        /\ \A u \in Threads \ {t} : pc'[u] = pc[u] /\ target'[u] = target[u]
    BY <1>t, <1>3 DEF Cancel
  <2>3. Live' = Live
    BY <2>1 DEF Live
  <2> QED
    BY <1>t, <1>s, <1>q, <2>1, <2>2, <2>3 DEF AfterCancel
<1>4. ASSUME NEW t \in Threads, Disarm(t)
      PROVE  Cancels'
  <2>1. UNCHANGED <<waitItem, setting, target, clean, quiet>> /\ pc[t] = "disarm"
    BY <1>4 DEF Disarm, cancelVars
  <2>2. pc'[t] = AfterCancel(t) /\ \A u \in Threads \ {t} : pc'[u] = pc[u]
    BY <1>t, <1>4 DEF Disarm
  <2>3. Live' \subseteq Live \ {target[t]}
    BY <1>4, Disarms DEF Live
  <2> QED
    BY <1>t, <1>s, <2>1, <2>2, <2>3 DEF AfterCancel
<1>5. ASSUME NEW t \in Threads, Install(t) \/ Queue(t) \/ Assign(t)
      PROVE  Cancels'
  <2>1. setting[t] /\ UNCHANGED <<setting, clean, quiet>>
    BY <1>t, <1>5 DEF Install, Queue, Assign, CallsPlaced, cancelVars
  <2> QED
    BY <1>t, <2>1
<1>6. ASSUME NEW t \in Threads, Return(t)
      PROVE  Cancels'
  <2>1. /\ UNCHANGED <<phase, waitItem>> /\ pc[t] = "return" /\ quiet' = (quiet \/ clean[t])
        /\ clean'[t] = FALSE /\ setting'[t] = FALSE
        /\ \A u \in Threads \ {t} : pc'[u] = pc[u] /\ target'[u] = target[u]
                                    /\ clean'[u] = clean[u] /\ setting'[u] = setting[u]
    BY <1>t, <1>6 DEF Return
  <2>2. Live' = Live
    BY <2>1 DEF Live
  <2> QED
    BY <1>t, <2>1, <2>2
<1>7. ASSUME NEW i \in Items, Fire(i)
      PROVE  Cancels'
  BY <1>0, <1>7, Fires DEF Fire
<1>8. CASE Finish
  BY <1>0, <1>8, Finishes DEF Finish
<1>9. CASE Signal \/ CopyCallback \/ CallbackEnds \/ WaitTakesSignal \/ CallbackRuns \/ UNCHANGED vars
  BY <1>0, <1>9 DEF Signal, CopyCallback, CallbackEnds, WaitTakesSignal, CallbackRuns, vars, Live
<1> QED
  BY <1>1, <1>2, <1>3, <1>4, <1>5, <1>6, <1>7, <1>8, <1>9, Steps

LEMMA StepIInv ==
  ASSUME IInv, SetsDoNotOverlap, HostStep
  PROVE  IInv'
  BY StepTypeOK, StepCallsPlaced, StepOneLive, StepRoutinePlaced, StepCancels DEF IInv

-----------------------------------------------------------------------------
(* The host timer.                                                          *)

LEMMA Invariance == Spec /\ []SetsDoNotOverlap => []IInv
<1>1. IInv /\ SetsDoNotOverlap /\ [Next]_vars => IInv'
  BY StepIInv DEF HostStep
<1> QED
  BY <1>1, InitIInv, PTL DEF Spec

\* The places of the threads and the wait items are what the code takes them
\* for; mutex_ is held in the critical section of a Set only.
THEOREM TypeCorrect == Spec /\ []SetsDoNotOverlap => []TypeOK
<1>1. IInv => TypeOK
  BY DEF IInv
<1> QED
  BY <1>1, Invariance, PTL

\* Cancel() stops the timer: when one has returned that no SetOnce or
\* SetRepeating overlapped with, no callback runs and none will, until the next.
THEOREM CancelIsSilent == Spec /\ []SetsDoNotOverlap => []CancelSilences
<1>1. IInv => CancelSilences
  BY DEF IInv, Cancels, CancelSilences
<1> QED
  BY <1>1, Invariance, PTL

\* CompletionRoutine copies callback_ after it was started for a wait item, and
\* still finds the callback of that item's activation.
THEOREM CallbacksAreOwn == Spec /\ []SetsDoNotOverlap => []CallbackIsOwn
<1>1. IInv => CallbackIsOwn
  BY DEF IInv, RoutinePlaced, CallbackIsOwn
<1> QED
  BY <1>1, Invariance, PTL

\* SetOnce and SetRepeating leave no signal of an earlier activation behind.
THEOREM SignalsAreCurrent == Spec /\ []SetsDoNotOverlap => []SignalIsCurrent
<1>1. IInv => SignalIsCurrent
  BY DEF IInv, OneLive, SignalIsCurrent
<1> QED
  BY <1>1, Invariance, PTL

\* A timer that only s sets, or only the callback when s is the dispatch thread.
SetterIs(s) ==
  /\ DOMAIN setsLeft = Threads /\ DOMAIN setting = Threads
  /\ \A t \in Threads \ {s} : setsLeft[t] = 0 /\ ~setting[t]

LEMMA SetterStays ==
  ASSUME NEW s \in Threads, SetterIs(s), HostStep
  PROVE  SetterIs(s)'
<1> USE DEF SetterIs
<1>1. ASSUME NEW t \in Threads, CallSet(t) PROVE SetterIs(s)'
  BY <1>1 DEF CallSet
<1>2. ASSUME NEW t \in Threads, Return(t) PROVE SetterIs(s)'
  BY <1>2 DEF Return
<1>3. CASE UNCHANGED <<setsLeft, setting>>
  BY <1>3
<1> QED
  BY <1>1, <1>2, <1>3, Steps
  DEF vars, callVars, CallCancel, Destroy, Cancel, Disarm, Install, Queue, Assign, Fire, Signal,
      CopyCallback, CallbackEnds, Finish, WaitTakesSignal, CallbackRuns

\* Sets do not overlap when one thread only, or only the callback, may make them;
\* any number of other threads may cancel and destroy.
THEOREM OneThreadSets ==
  ASSUME NEW s \in Threads
  PROVE  Spec /\ (\A t \in Threads \ {s} : setsLeft[t] = 0) => []SetsDoNotOverlap
<1>1. Init /\ (\A t \in Threads \ {s} : setsLeft[t] = 0) => SetterIs(s)
  BY PosixTimerAssumption DEF Init, Threads, SetterIs
<1>2. SetterIs(s) /\ [Next]_vars => SetterIs(s)'
  BY SetterStays DEF HostStep
<1>3. SetterIs(s) => SetsDoNotOverlap
  BY DEF SetsDoNotOverlap, Sets, SetterIs
<1> QED
  BY <1>1, <1>2, <1>3, PTL DEF Spec

\* A timer that s sets once and, from then on, the callback.
FirstSetIs(s) ==
  /\ setsLeft \in [Threads -> Nat]
  /\ \A t \in Setters \ {s} : setsLeft[t] = 0 /\ ~setting[t]
  /\ setsLeft[s] <= 1 /\ (setting[s] => setsLeft[s] = 0)
  /\ setsLeft[s] = 1 \/ (setting[s] /\ pc[s] \in {"cancel", "disarm", "set", "queue"}) =>
       ~setting[Dispatcher] /\ \A i \in Items : phase[i] = "new"
  /\ setting[s] /\ pc[s] = "assign" => ~setting[Dispatcher] /\ dpc \in {"idle", "signal"}

LEMMA FirstSetStays ==
  ASSUME NEW s \in Setters, IInv, FirstSetIs(s), HostStep
  PROVE  FirstSetIs(s)'
<1>t. /\ TypeOK /\ s \in Threads /\ Dispatcher \in Threads /\ s # Dispatcher /\ s # Nobody
      /\ Setters \subseteq Threads /\ \A t \in Threads \ Setters : t = Dispatcher
      /\ DOMAIN setting = Threads /\ pc \in [Threads -> CallPc]
  BY PosixTimerAssumption DEF IInv, TypeOK, Threads
<1>new. ASSUME \A i \in Items : phase[i] = "new"
        PROVE  dpc = "idle"
  BY <1>t, <1>new DEF IInv, TypeOK, RoutinePlaced, OrNone
<1>run. MayCall(Dispatcher) => /\ ~(\A i \in Items : phase[i] = "new")
                               /\ ~(setting[s] /\ pc[s] = "assign")
  BY <1>new DEF MayCall, FirstSetIs
<1>1. ASSUME NEW t \in Threads, CallSet(t) PROVE FirstSetIs(s)'
  <2>1. /\ setsLeft' = [setsLeft EXCEPT ![t] = @ - 1] /\ setsLeft[t] > 0
        /\ setting' = [setting EXCEPT ![t] = TRUE]
        /\ pc' = [pc EXCEPT ![t] = "cancel"] /\ UNCHANGED phase
        /\ MayCall(t) /\ dpc' = IF t = Dispatcher THEN "called" ELSE dpc
    BY <1>1 DEF CallSet, Goto
  <2>2. CASE t = s
    BY <1>t, <2>1, <2>2 DEF FirstSetIs
  <2>3. CASE t = Dispatcher
    BY <1>t, <1>run, <2>1, <2>3 DEF FirstSetIs
  <2> QED
    BY <1>t, <2>1, <2>2, <2>3 DEF FirstSetIs
<1>2. ASSUME NEW t \in Threads, CallCancel(t) \/ Destroy(t) PROVE FirstSetIs(s)'
  <2>1. /\ pc[t] = "ready" /\ pc' = [pc EXCEPT ![t] = "cancel"]
        /\ UNCHANGED <<phase, setting, setsLeft>>
        /\ dpc' = dpc \/ (MayCall(Dispatcher) /\ dpc' = "called")
    BY <1>t, <1>2 DEF CallCancel, Destroy, Goto, MayCall, routineVars
  <2>2. ~setting[t]
    BY <2>1 DEF IInv, CallsPlaced
  <2> QED
    BY <1>t, <1>run, <2>1, <2>2 DEF FirstSetIs
<1>3. ASSUME NEW t \in Threads, Cancel(t) PROVE FirstSetIs(s)'
  <2>1. /\ pc[t] = "cancel" /\ UNCHANGED <<phase, setting, setsLeft, dpc>>
        /\ \E l \in {"set", "return", "disarm"} : pc' = [pc EXCEPT ![t] = l]
    BY <1>3 DEF Cancel, Goto, AfterCancel, routineVars
  <2> QED
    BY <1>t, <2>1 DEF FirstSetIs
<1>4. ASSUME NEW t \in Threads, Disarm(t) PROVE FirstSetIs(s)'
  <2>1. /\ pc[t] = "disarm" /\ UNCHANGED <<setting, setsLeft, dpc>>
        /\ \E l \in {"set", "return"} : pc' = [pc EXCEPT ![t] = l]
    BY <1>4 DEF Disarm, Goto, AfterCancel, routineVars
  <2>2. ~(\A i \in Items : phase[i] = "new")
    BY <1>4, Disarms
  <2> QED
    BY <1>t, <2>1, <2>2 DEF FirstSetIs
<1>5. ASSUME NEW t \in Threads, Install(t) PROVE FirstSetIs(s)'
  <2>1. /\ pc[t] = "set" /\ pc' = [pc EXCEPT ![t] = "queue"]
        /\ UNCHANGED <<phase, setting, setsLeft, dpc>>
    BY <1>5 DEF Install, Goto, routineVars
  <2> QED
    BY <1>t, <2>1 DEF FirstSetIs
<1>6. ASSUME NEW t \in Threads, Queue(t) PROVE FirstSetIs(s)'
  <2>1. /\ pc[t] = "queue" /\ pc' = [pc EXCEPT ![t] = "assign"] /\ mutex = t /\ setting[t]
        /\ UNCHANGED <<setting, setsLeft, dpc>>
    BY <1>6 DEF Queue, Goto, routineVars, IInv, CallsPlaced
  <2>2. CASE t = s
    BY <1>t, <1>new, <2>1, <2>2 DEF FirstSetIs
  <2>3. CASE t = Dispatcher
    BY <1>t, <2>1, <2>3 DEF FirstSetIs
  <2> QED
    BY <1>t, <2>1, <2>2, <2>3 DEF FirstSetIs
<1>7. ASSUME NEW t \in Threads, Assign(t) PROVE FirstSetIs(s)'
  <2>1. /\ pc[t] = "assign" /\ pc' = [pc EXCEPT ![t] = "return"]
        /\ UNCHANGED <<phase, setting, setsLeft, dpc>>
    BY <1>7 DEF Assign, Goto, routineVars
  <2> QED
    BY <1>t, <2>1 DEF FirstSetIs
<1>8. ASSUME NEW t \in Threads, Return(t) PROVE FirstSetIs(s)'
  <2>1. /\ pc[t] = "return" /\ pc' = [pc EXCEPT ![t] = "ready"]
        /\ setting' = [setting EXCEPT ![t] = FALSE] /\ UNCHANGED <<phase, setsLeft, dpc>>
    BY <1>8 DEF Return, Goto, routineVars
  <2> QED
    BY <1>t, <2>1 DEF FirstSetIs
<1>9. ASSUME NEW i \in Items, Fire(i) PROVE FirstSetIs(s)'
  <2>1. phase[i] = "armed" /\ dpc' = "signal" /\ UNCHANGED <<pc, setting, setsLeft>>
    BY <1>9, Fires DEF Fire, callVars
  <2> QED
    BY <1>t, <2>1 DEF FirstSetIs
<1>10. CASE Finish
  <2>1. /\ cur \in Items /\ phase[cur] \in {"running", "leaving"} /\ dpc = "done"
        /\ UNCHANGED <<pc, setting, setsLeft>>
    BY <1>10, Finishes DEF Finish, callVars
  <2> QED
    BY <1>t, <2>1 DEF FirstSetIs
<1>11. CASE Signal \/ CopyCallback
  <2>1. mutex = Nobody /\ UNCHANGED <<phase, pc, setting, setsLeft>>
    BY <1>11 DEF Signal, CopyCallback, callVars
  <2>2. pc[s] # "assign"
    BY <1>t, <2>1 DEF IInv, CallsPlaced
  <2> QED
    BY <1>t, <2>1, <2>2 DEF FirstSetIs
<1>12. CASE CallbackEnds \/ CallbackRuns
  <2>1. dpc \in {"run", "called"} /\ UNCHANGED <<phase, pc, setting, setsLeft>>
    BY <1>12 DEF CallbackEnds, CallbackRuns, callVars
  <2> QED
    BY <1>t, <2>1 DEF FirstSetIs
<1>13. CASE WaitTakesSignal \/ UNCHANGED vars
  BY <1>t, <1>13 DEF WaitTakesSignal, vars, callVars, routineVars, FirstSetIs
<1> QED
  BY <1>1, <1>2, <1>3, <1>4, <1>5, <1>6, <1>7, <1>8, <1>9, <1>10, <1>11, <1>12, <1>13, Steps

\* Nor do they overlap when one thread sets the timer once and its callback
\* sets it again: the callback does not begin before that first call is done.
THEOREM CallbackSetsAgain ==
  ASSUME NEW s \in Setters
  PROVE  Spec /\ setsLeft[s] <= 1 /\ (\A t \in Setters \ {s} : setsLeft[t] = 0) => []SetsDoNotOverlap
<1>1. Init /\ setsLeft[s] <= 1 /\ (\A t \in Setters \ {s} : setsLeft[t] = 0) => IInv /\ FirstSetIs(s)
  BY InitIInv, PosixTimerAssumption DEF Init, Threads, FirstSetIs, Service!Init
<1>2. FirstSetIs(s) => SetsDoNotOverlap
  BY DEF SetsDoNotOverlap, Sets, FirstSetIs, Threads
<1>3. IInv /\ FirstSetIs(s) /\ [Next]_vars => (IInv /\ FirstSetIs(s))'
  BY <1>2, FirstSetStays, StepIInv DEF HostStep
<1> QED
  BY <1>1, <1>2, <1>3, PTL DEF Spec

-----------------------------------------------------------------------------
(* The guest timer.                                                         *)

Setting(t) == stash[t] # "none" \/ setting[t]

\* SetTimer calls of guest threads on one timer do not overlap.
SetTimersDoNotOverlap == \A t, u \in Setters : Setting(t) /\ Setting(u) => t = u

\* A SetTimer that has not yet replaced the activation.
Before(t) == stash[t] # "none" \/ (setting[t] /\ pc[t] \in {"cancel", "disarm", "set"})

Given(i) == given[i] = IF \E t \in Setters : Before(t) THEN calls - 1 ELSE calls

\* What SetTimer has stored, and what the callback read of it.
Stored ==
  /\ calls \in Nat /\ routine = calls
  /\ arg = IF \E t \in Setters : stash[t] = "routine" THEN calls - 1 ELSE calls
  /\ callback # NoItem => Given(callback)
  /\ read # 0 => /\ dpc = "run" /\ read \in {given[cur], calls}
                 /\ SetTimerInProgress \/ read = given[cur]

GuestPlaces ==
  /\ DOMAIN stash = Setters /\ DOMAIN given = Items
  /\ \A t \in Setters : stash[t] # "none" => pc[t] = "ready"
  /\ pc[Dispatcher] = "ready"

GuestIInv == IInv /\ Stored /\ GuestPlaces

\* The steps of the guest timer, one by one.
LEMMA GuestSteps ==
  ASSUME [GuestNext]_timerVars
  PROVE  \/ UNCHANGED timerVars
         \/ \E t \in Setters : \/ StashRoutine(t) \/ StashArgument(t) \/ SetHostTimer(t)
                               \/ CancelTimer(t) \/ HostCall(t)
         \/ \E i \in Items : Fire(i) /\ UNCHANGED guestVars
         \/ ReadRoutine \/ EnqueueApc \/ HostRoutine
         \/ WaitTakesSignal /\ UNCHANGED guestVars
  BY DEF GuestNext

\* Each is a step of the host timer, or none.
LEMMA GuestStepsHost ==
  ASSUME [GuestNext]_timerVars
  PROVE  HostStep
<1> USE DEF HostStep, Next, Threads
<1>1. ASSUME NEW t \in Setters, StashRoutine(t) \/ StashArgument(t) \/ SetHostTimer(t)
                                \/ CancelTimer(t) \/ HostCall(t)
      PROVE  HostStep
  BY <1>1 DEF StashRoutine, StashArgument, SetHostTimer, CancelTimer, HostCall
<1>2. CASE ReadRoutine \/ UNCHANGED timerVars
  BY <1>2 DEF ReadRoutine, timerVars
<1>3. CASE EnqueueApc
  BY <1>3 DEF EnqueueApc, CallbackRuns
<1>4. CASE HostRoutine
  BY <1>4 DEF HostRoutine
<1> QED
  BY <1>1, <1>2, <1>3, <1>4, GuestSteps

LEMMA SetTimersKeepSetsApart ==
  ASSUME GuestIInv, SetTimersDoNotOverlap
  PROVE  SetsDoNotOverlap
  BY DEF GuestIInv, GuestPlaces, IInv, CallsPlaced, SetTimersDoNotOverlap, SetsDoNotOverlap, Setting, Sets, Threads

LEMMA StepGuestPlaces ==
  ASSUME GuestIInv, [GuestNext]_timerVars
  PROVE  GuestPlaces'
<1>t. /\ GuestPlaces /\ DOMAIN pc = Threads /\ Setters \subseteq Threads /\ Dispatcher \in Threads \ Setters
  BY PosixTimerAssumption DEF GuestIInv, IInv, TypeOK, Threads
<1> USE DEF GuestPlaces
<1>1. ASSUME NEW t \in Setters, StashRoutine(t) \/ StashArgument(t)
      PROVE  GuestPlaces'
  BY <1>t, <1>1 DEF StashRoutine, StashArgument, vars, callVars
<1>2. ASSUME NEW t \in Setters, SetHostTimer(t)
      PROVE  GuestPlaces'
  BY <1>t, <1>2 DEF SetHostTimer, CallSet, Goto
<1>3. ASSUME NEW t \in Setters, CancelTimer(t)
      PROVE  GuestPlaces'
  BY <1>t, <1>3 DEF CancelTimer, CallCancel, Destroy, Goto, guestVars
<1>4. ASSUME NEW t \in Setters, HostCall(t)
      PROVE  GuestPlaces'
  <2>1. pc[t] # "ready" /\ \E l : pc' = [pc EXCEPT ![t] = l]
    BY <1>4 DEF HostCall, CallStep, Cancel, Disarm, Install, Queue, Assign, Return, Goto
  <2>2. UNCHANGED stash /\ DOMAIN given' = Items
    BY <1>t, <1>4 DEF HostCall
  <2> QED
    BY <1>t, <2>1, <2>2
<1>5. CASE UNCHANGED <<pc, stash, given>>
  BY <1>t, <1>5
<1> QED
  BY <1>1, <1>2, <1>3, <1>4, <1>5, GuestSteps
  DEF timerVars, vars, callVars, guestVars, Fire, ReadRoutine, EnqueueApc, HostRoutine, RoutineStep, Signal,
      CopyCallback, CallbackEnds, Finish, WaitTakesSignal

\* The item whose callback runs was armed last.
LEMMA RunsCallback ==
  ASSUME IInv, dpc = "run"
  PROVE  cur = callback /\ cur \in Live /\ callback \in Items
<1>1. cur \in Items /\ phase[cur] = "running"
  BY DEF IInv, TypeOK, OrNone, RoutinePlaced
<1> QED
  BY <1>1 DEF IInv, OneLive, Live

LEMMA StepStored ==
  ASSUME GuestIInv, SetTimersDoNotOverlap, SetTimersDoNotOverlap', [GuestNext]_timerVars
  PROVE  Stored'
<1>t. /\ Stored /\ GuestPlaces /\ IInv /\ Setters \subseteq Threads
      /\ DOMAIN pc = Threads /\ DOMAIN setting = Threads /\ DOMAIN target = Threads
      /\ callback \in Items \cup {NoItem}
  BY DEF GuestIInv, IInv, TypeOK, Threads, OrNone
<1> USE DEF Stored, GuestPlaces, SetTimerInProgress, Before, Setting, Given
\* Steps that leave the SetTimer calls where they are.
<1>0. ASSUME UNCHANGED <<calls, routine, arg, callback, given>>,
             \A t \in Setters : /\ stash'[t] = "routine" <=> stash[t] = "routine"
                                /\ Before(t)' <=> Before(t)
                                /\ Setting(t)' <=> Setting(t),
             read' = 0 \/ UNCHANGED <<read, dpc, cur>>
      PROVE  Stored'
  BY <1>t, <1>0
<1>1. ASSUME NEW t \in Setters, StashRoutine(t)
      PROVE  Stored'
  <2>1. /\ UNCHANGED <<pc, setting, callback, dpc, cur, given, read, arg>>
        /\ calls' = calls + 1 /\ routine' = calls + 1
        /\ stash[t] = "none" /\ stash'[t] = "routine" /\ \A u \in Setters \ {t} : stash'[u] = stash[u]
    BY <1>t, <1>1 DEF StashRoutine, vars, callVars, routineVars
  <2>2. \A u \in Setters \ {t} : ~Setting(u)
    BY <2>1 DEF SetTimersDoNotOverlap
  <2>3. ~setting[t]
    BY <1>t, <1>1 DEF StashRoutine, IInv, CallsPlaced
  <2>4. ~SetTimerInProgress /\ \A u \in Setters : ~Before(u) /\ stash[u] # "routine"
    BY <2>1, <2>2, <2>3
  <2> QED
    BY <1>t, <2>1, <2>4
<1>2. ASSUME NEW t \in Setters, StashArgument(t)
      PROVE  Stored'
  <2>1. /\ UNCHANGED <<pc, setting, callback, dpc, cur, given, read, calls, routine>> /\ arg' = calls
        /\ stash[t] = "routine" /\ stash'[t] = "both" /\ \A u \in Setters \ {t} : stash'[u] = stash[u]
    BY <1>t, <1>2 DEF StashArgument, vars, callVars, routineVars
  <2>2. \A u \in Setters \ {t} : stash'[u] # "routine"
    BY <2>1 DEF SetTimersDoNotOverlap
  <2> QED
    BY <1>t, <2>1, <2>2
<1>3. ASSUME NEW t \in Setters, SetHostTimer(t)
      PROVE  Stored'
  <2>1. /\ UNCHANGED <<callback, cur, given, read, calls, routine, arg>>
        /\ stash[t] = "both" /\ stash'[t] = "none" /\ setting'[t] = TRUE /\ pc'[t] = "cancel"
        /\ \A u \in Setters \ {t} : stash'[u] = stash[u] /\ setting'[u] = setting[u] /\ pc'[u] = pc[u]
    BY <1>t, <1>3 DEF SetHostTimer, CallSet, Goto
  <2>2. UNCHANGED dpc
    BY <1>3, PosixTimerAssumption DEF SetHostTimer, CallSet
  <2> QED
    BY <1>0, <2>1, <2>2
<1>4. ASSUME NEW t \in Setters, CancelTimer(t)
      PROVE  Stored'
  <2>1. /\ UNCHANGED <<callback, cur, given, read, calls, routine, arg, stash, setting>>
        /\ pc[t] = "ready" /\ pc'[t] = "cancel" /\ \A u \in Setters \ {t} : pc'[u] = pc[u]
    BY <1>t, <1>4 DEF CancelTimer, CallCancel, Destroy, MayCall, Goto, guestVars, routineVars, Threads
  <2>2. UNCHANGED dpc
    BY <1>4, PosixTimerAssumption DEF CancelTimer, CallCancel, Destroy, routineVars
  <2>3. ~setting[t]
    BY <1>t, <2>1 DEF IInv, CallsPlaced
  <2> QED
    BY <1>0, <2>1, <2>2, <2>3
<1>5. ASSUME NEW t \in Setters, HostCall(t), pc[t] \notin {"set", "return"}
      PROVE  Stored'
  <2>1. UNCHANGED <<callback, dpc, cur, given, read, calls, routine, arg, stash, setting>>
    BY <1>5 DEF HostCall, CallStep, Cancel, Disarm, Install, Queue, Assign, Return, routineVars
  <2>2. \A u \in Setters \ {t} : pc'[u] = pc[u]
    BY <1>t, <1>5 DEF HostCall, CallStep, Cancel, Disarm, Install, Queue, Assign, Return, Goto
  <2>3. setting[t] => (pc'[t] \in {"cancel", "disarm", "set"} <=> pc[t] \in {"cancel", "disarm", "set"})
    BY <1>t, <1>5
    DEF HostCall, CallStep, Cancel, Disarm, Install, Queue, Assign, Return, Goto, AfterCancel
  <2> QED
    BY <1>0, <2>1, <2>2, <2>3
<1>6. ASSUME NEW t \in Setters, HostCall(t), pc[t] = "set"
      PROVE  Stored'
  <2>1. Install(t)
    BY <1>6 DEF HostCall, CallStep, Cancel, Disarm, Install, Queue, Assign, Return
  <2>2. PICK i \in Items : callback' = i /\ target' = [target EXCEPT ![t] = i]
    BY <2>1 DEF Install, Aim
  <2>3. /\ UNCHANGED <<dpc, cur, read, calls, routine, arg, stash, setting>>
        /\ given' = [given EXCEPT ![target'[t]] = calls] /\ pc' = [pc EXCEPT ![t] = "queue"]
    BY <1>6, <2>1 DEF HostCall, Install, Goto, routineVars
  <2>4. target'[t] = i /\ pc'[t] = "queue" /\ given'[i] = calls
    BY <1>t, <2>2, <2>3
  <2>5. setting[t] /\ Live = {}
    BY <1>t, <1>6 DEF IInv, CallsPlaced
  <2>6. read = 0
    BY <1>t, <2>5, RunsCallback
  <2>7. \A u \in Setters : ~Before(u)'
    <3>1. \A u \in Setters \ {t} : ~Setting(u)
      BY <2>5 DEF SetTimersDoNotOverlap
    <3>2. stash[t] = "none"
      BY <1>t, <1>6
    <3> QED
      BY <2>3, <2>4, <3>1, <3>2
  <2> QED
    BY <1>t, <2>2, <2>3, <2>4, <2>6, <2>7
<1>7. ASSUME NEW t \in Setters, HostCall(t), pc[t] = "return"
      PROVE  Stored'
  <2>1. Return(t)
    BY <1>7 DEF HostCall, CallStep, Cancel, Disarm, Install, Queue, Assign, Return
  <2>2. /\ UNCHANGED <<callback, dpc, cur, read, calls, routine, arg, stash, given>>
        /\ pc'[t] = "ready" /\ setting'[t] = FALSE
        /\ \A u \in Setters \ {t} : pc'[u] = pc[u] /\ setting'[u] = setting[u]
    BY <1>t, <1>7, <2>1 DEF HostCall, Return, Goto, routineVars
  <2>3. \A u \in Setters : Before(u)' <=> Before(u)
    BY <1>7, <2>2
  <2>4. setting[t] => \A u \in Setters : ~Before(u)
    BY <1>t, <1>7 DEF SetTimersDoNotOverlap
  <2>5. setting[t] /\ read # 0 => given[cur] = calls
    BY <1>t, <2>4, RunsCallback, PosixTimerAssumption
  <2>6. ~setting[t] => (SetTimerInProgress' <=> SetTimerInProgress)
    BY <2>2
  <2> QED
    BY <1>t, <2>2, <2>3, <2>5, <2>6
<1>8. CASE ReadRoutine
  <2>1. /\ UNCHANGED <<callback, dpc, cur, calls, routine, arg, stash, given, setting, pc>>
        /\ read' = calls /\ dpc = "run"
    BY <1>8, <1>t DEF ReadRoutine, vars, callVars, routineVars
  <2>2. SetTimerInProgress \/ given[cur] = calls
    BY <1>t, <2>1, RunsCallback, PosixTimerAssumption
  <2> QED
    BY <1>t, <2>1, <2>2
<1>9. CASE EnqueueApc
  BY <1>0, <1>9 DEF EnqueueApc, callVars
<1>10. CASE HostRoutine
  <2>1. read = 0
    BY <1>10, <1>t, RunsCallback, PosixTimerAssumption DEF HostRoutine, IInv, RoutinePlaced
  <2>2. UNCHANGED <<callback, read, calls, routine, arg, stash, given, setting, pc>>
    BY <1>10 DEF HostRoutine, RoutineStep, Signal, CopyCallback, CallbackEnds, Finish, callVars
  <2> QED
    BY <1>0, <2>1, <2>2
<1>11. ASSUME NEW i \in Items, Fire(i) /\ UNCHANGED guestVars
       PROVE  Stored'
  <2>1. read = 0
    BY <1>11, <1>t DEF Fire
  <2> QED
    BY <1>0, <1>11, <2>1 DEF Fire, guestVars, callVars
<1>12. CASE (WaitTakesSignal /\ UNCHANGED guestVars) \/ UNCHANGED timerVars
  BY <1>0, <1>12 DEF WaitTakesSignal, guestVars, timerVars, vars, callVars, routineVars
<1> QED
  BY <1>1, <1>2, <1>3, <1>4, <1>5, <1>6, <1>7, <1>8, <1>9, <1>10, <1>11, <1>12, GuestSteps

LEMMA GuestInitIInv == GuestInit => GuestIInv
<1> SUFFICES ASSUME GuestInit PROVE GuestIInv
  OBVIOUS
<1>1. IInv
  BY InitIInv DEF GuestInit
<1>2. pc[Dispatcher] = "ready" /\ callback = NoItem
  BY DEF GuestInit, Init, Threads
<1> QED
  BY <1>1, <1>2 DEF GuestInit, GuestIInv, Stored, GuestPlaces

LEMMA GuestInvariance == GuestSpec /\ []SetTimersDoNotOverlap => []GuestIInv
<1>1. ASSUME GuestIInv, SetTimersDoNotOverlap, SetTimersDoNotOverlap', [GuestNext]_timerVars
      PROVE  GuestIInv'
  BY <1>1, StepIInv, StepStored, StepGuestPlaces, GuestStepsHost, SetTimersKeepSetsApart DEF GuestIInv
<1> QED
  BY <1>1, GuestInitIInv, PTL DEF GuestSpec

\* The callback of the guest timer queues an APC with the routine and the
\* argument of the activation that came due, although SetTimer stores them while
\* that callback may run, and reads them one by one.
THEOREM TimerQueuesOwnApc ==
  GuestSpec /\ []SetTimersDoNotOverlap => TimerQueuesItsOwnApc
<1> DEFINE A == apc' \notin {apc, NoApc} =>
                  /\ {apc'.routine, apc'.arg} \subseteq
                       IF SetTimerInProgress THEN {given[cur], calls} ELSE {given[cur]}
                  /\ ~quiet
<1>1. ASSUME GuestIInv, [GuestNext]_timerVars PROVE [A]_timerVars
  <2> SUFFICES ASSUME apc' \notin {apc, NoApc}
               PROVE  /\ {apc'.routine, apc'.arg} \subseteq
                           IF SetTimerInProgress THEN {given[cur], calls} ELSE {given[cur]}
                      /\ ~quiet
    OBVIOUS
  <2>1. EnqueueApc
    BY <1>1, GuestSteps
    DEF timerVars, guestVars, StashRoutine, StashArgument, SetHostTimer, CancelTimer, HostCall,
        ReadRoutine, HostRoutine
  <2>2. apc'.routine = read /\ apc'.arg = arg /\ read # 0 /\ dpc = "run"
    BY <2>1 DEF EnqueueApc
  <2>3. cur = callback /\ callback # NoItem /\ cur \in Live
    BY <1>1, <2>2, RunsCallback, PosixTimerAssumption DEF GuestIInv
  <2>4. ~quiet
    BY <1>1, <2>3 DEF GuestIInv, IInv, Cancels
  <2>5. arg \in {given[cur], calls} /\ (SetTimerInProgress \/ arg = given[cur])
    BY <1>1, <2>3 DEF GuestIInv, Stored, Given, Before, SetTimerInProgress
  <2>6. read \in {given[cur], calls} /\ (SetTimerInProgress \/ read = given[cur])
    BY <1>1, <2>2 DEF GuestIInv, Stored
  <2> QED
    BY <2>2, <2>4, <2>5, <2>6
<1> QED
  BY <1>1, GuestInvariance, PTL DEF GuestSpec, TimerQueuesItsOwnApc

\* SetTimer calls do not overlap when one guest thread makes them; any number
\* of others may cancel the timer.
THEOREM OneGuestThreadSets ==
  ASSUME NEW s \in Setters
  PROVE  GuestSpec /\ (\A t \in Threads \ {s} : setsLeft[t] = 0) => []SetTimersDoNotOverlap
<1> DEFINE Inv == /\ SetterIs(s) /\ DOMAIN stash = Setters
                  /\ \A t \in Setters \ {s} : stash[t] = "none"
<1>1. GuestInit /\ (\A t \in Threads \ {s} : setsLeft[t] = 0) => Inv
  BY PosixTimerAssumption DEF GuestInit, Init, Threads, SetterIs
<1>2. Inv /\ [GuestNext]_timerVars => Inv'
  <2> SUFFICES ASSUME Inv, [GuestNext]_timerVars PROVE Inv'
    OBVIOUS
  <2>1. SetterIs(s)'
    BY SetterStays, GuestStepsHost DEF Threads
  <2>2. ASSUME NEW t \in Setters, StashRoutine(t) PROVE t = s
    BY <2>2 DEF StashRoutine, SetterIs, Threads
  <2>3. ASSUME NEW t \in Setters, StashArgument(t) PROVE t = s
    BY <2>3 DEF StashArgument
  <2>4. ASSUME NEW t \in Setters, SetHostTimer(t) PROVE t = s
    BY <2>4 DEF SetHostTimer
  <2>5. \/ UNCHANGED stash
        \/ \E l : stash' = [stash EXCEPT ![s] = l]
    BY <2>2, <2>3, <2>4, GuestSteps
    DEF StashRoutine, StashArgument, SetHostTimer, timerVars, guestVars, CancelTimer, HostCall,
        ReadRoutine, EnqueueApc, HostRoutine
  <2> QED
    BY <2>1, <2>5
<1>3. Inv => SetTimersDoNotOverlap
  BY DEF SetTimersDoNotOverlap, Setting, SetterIs, Threads
<1> QED
  BY <1>1, <1>2, <1>3, PTL DEF GuestSpec
=============================================================================
