----------------------------- MODULE PosixTimer -----------------------------
(***************************************************************************)
(* PosixCondition<Timer> (src/src/core/threading_posix.cpp): one timer     *)
(* object on top of the timer queue.  SetOnce and SetRepeating cancel the  *)
(* wait item of the last activation, then install the callback, clear the  *)
(* signal and queue a new wait item under the object's mutex.  The         *)
(* completion routine runs on the dispatch thread; the callback it copies  *)
(* may set or cancel the timer again.  The wait items are TimerService's.  *)
(***************************************************************************)
EXTENDS Integers

CONSTANTS
  Items,        \* bound: the wait items of all activations
  Recurring,    \* those of SetRepeating; the others are SetOnce's
  NoItem,
  Setters,      \* threads that set and cancel the timer
  Dispatcher,   \* the dispatch thread of the timer queue
  Nobody,
  Uses,             \* bounds: how many Set calls each thread may make
  CallbackCancels,  \* may the callback cancel the timer
  ManualReset   \* manual_reset_

ASSUME PosixTimerAssumption ==
  /\ Recurring \subseteq Items
  /\ NoItem \notin Items
  /\ Dispatcher \notin Setters
  /\ Nobody \notin Setters \cup {Dispatcher}
  /\ Uses \subseteq [Setters \cup {Dispatcher} -> Nat]
  /\ CallbackCancels \in BOOLEAN /\ ManualReset \in BOOLEAN

VARIABLES
  phase,      \* the wait items, as TimerService has them
  waitItem,   \* wait_item_
  callback,   \* callback_, named after the wait item it was installed with
  signal,     \* signal_
  mutex,      \* the thread that holds mutex_
  pc,         \* where each thread is in SetOnce, SetRepeating or Cancel
  setting,    \* is the call of the thread a Set, or a plain Cancel
  target,     \* the wait item the thread is disarming, or has queued
  dpc,        \* where the dispatch thread is in CompletionRoutine
  cur,        \* the wait item whose routine runs
  copied,     \* the callback CompletionRoutine copied
  dead,       \* the object was destroyed
  setsLeft,   \* the Set calls each thread has left
  signalBy,   \* history: the item whose routine last signalled the timer
  clean,      \* history: no Set overlapped with the thread's Cancel so far
  quiet       \* history: such a Cancel returned and no Set started since

callVars == <<pc, setting, target>>
routineVars == <<dpc, cur, copied>>
cancelVars == <<clean, quiet>>
vars == <<phase, waitItem, callback, signal, mutex, callVars, routineVars, dead, setsLeft,
          signalBy, cancelVars>>

Service == INSTANCE TimerService

Threads == Setters \cup {Dispatcher}
OrNone(S) == S \cup {NoItem}
CallPc == {"ready", "cancel", "disarm", "set", "queue", "assign", "return"}
RoutinePc == {"idle", "signal", "copy", "run", "called", "done"}

TypeOK ==
  /\ Service!TypeOK
  /\ waitItem \in OrNone(Items)
  /\ callback \in OrNone(Items)
  /\ signal \in BOOLEAN
  /\ mutex # Nobody => mutex \in Threads /\ pc[mutex] \in {"queue", "assign"}
  /\ pc \in [Threads -> CallPc]
  /\ setting \in [Threads -> BOOLEAN]
  /\ target \in [Threads -> OrNone(Items)]
  /\ dpc \in RoutinePc
  /\ cur \in OrNone(Items) /\ (cur = NoItem <=> dpc = "idle")
  /\ copied \in OrNone(Items)
  /\ dead \in BOOLEAN
  /\ signalBy \in OrNone(Items)
  /\ setsLeft \in [Threads -> Nat]
  /\ clean \in [Threads -> BOOLEAN]
  /\ quiet \in BOOLEAN

Init ==
  /\ Service!Init
  /\ waitItem = NoItem /\ callback = NoItem
  /\ signal = FALSE /\ mutex = Nobody
  /\ pc = [t \in Threads |-> "ready"]
  /\ setting = [t \in Threads |-> FALSE]
  /\ target = [t \in Threads |-> NoItem]
  /\ dpc = "idle" /\ cur = NoItem /\ copied = NoItem
  /\ dead = FALSE
  /\ setsLeft \in Uses
  /\ signalBy = NoItem /\ quiet = FALSE
  /\ clean = [t \in Threads |-> FALSE]

Goto(t, l) == pc' = [pc EXCEPT ![t] = l]
Aim(t, i) == target' = [target EXCEPT ![t] = i]

\* The dispatch thread makes calls from inside a callback only.
MayCall(t) ==
  /\ pc[t] = "ready" /\ ~dead
  /\ t = Dispatcher => dpc = "run" /\ copied # NoItem

NoSetInProgress == \A u \in Threads : ~setting[u]

-----------------------------------------------------------------------------
(* SetOnce, SetRepeating and Cancel.                                        *)

CallSet(t) ==
  /\ MayCall(t)
  /\ setsLeft[t] > 0 /\ \E i \in Items : phase[i] = "new"
  /\ setsLeft' = [setsLeft EXCEPT ![t] = @ - 1]
  /\ setting' = [setting EXCEPT ![t] = TRUE]
  /\ clean' = [u \in Threads |-> FALSE]
  /\ quiet' = FALSE
  /\ Goto(t, "cancel")
  /\ dpc' = IF t = Dispatcher THEN "called" ELSE dpc
  /\ UNCHANGED <<phase, waitItem, callback, signal, mutex, target, cur, copied, dead, signalBy>>

CallCancel(t) ==
  /\ MayCall(t)
  /\ t = Dispatcher => CallbackCancels
  /\ clean' = [clean EXCEPT ![t] = NoSetInProgress]
  /\ Goto(t, "cancel")
  /\ dpc' = IF t = Dispatcher THEN "called" ELSE dpc
  /\ UNCHANGED <<phase, waitItem, callback, signal, mutex, setting, target, cur, copied, dead,
                 setsLeft, signalBy, quiet>>

\* ~PosixCondition: nobody else uses the object any more.
Destroy(t) ==
  /\ t \in Setters
  /\ ~dead /\ \A u \in Setters : pc[u] = "ready"
  /\ dead' = TRUE
  /\ clean' = [clean EXCEPT ![t] = NoSetInProgress]
  /\ Goto(t, "cancel")
  /\ UNCHANGED <<phase, waitItem, callback, signal, mutex, setting, target, routineVars,
                 setsLeft, signalBy, quiet>>

AfterCancel(t) == IF setting[t] THEN "set" ELSE "return"

\* Cancel: wait_item_.lock(); an expired pointer has nothing to disarm.
Cancel(t) ==
  /\ pc[t] = "cancel"
  /\ Aim(t, waitItem)
  /\ Goto(t, IF waitItem = NoItem THEN AfterCancel(t) ELSE "disarm")
  /\ UNCHANGED <<phase, waitItem, callback, signal, mutex, setting, routineVars, dead, setsLeft,
                 signalBy, cancelVars>>

\* Mutants: Disarm() does not wait for a running callback; Disarm() does not
\* know that the callback itself is calling.
DisarmDoesNotWait(t) ==
  /\ pc[t] = "disarm"
  /\ \/ Service!Disarm(target[t])
     \/ phase[target[t]] # "armed" /\ phase' = phase
  /\ Goto(t, AfterCancel(t))
  /\ UNCHANGED <<waitItem, callback, signal, mutex, setting, target, routineVars, dead, setsLeft,
                 signalBy, cancelVars>>

DisarmBlindly(t) ==
  /\ pc[t] = "disarm"
  /\ \/ Service!Disarm(target[t])
     \/ phase[target[t]] = "off" /\ phase' = phase
  /\ Goto(t, AfterCancel(t))
  /\ UNCHANGED <<waitItem, callback, signal, mutex, setting, target, routineVars, dead, setsLeft,
                 signalBy, cancelVars>>

\* Disarm() returns once no callback runs, or marks the callback's own item.
Disarm(t) ==
  /\ pc[t] = "disarm"
  /\ \/ Service!Disarm(target[t])
     \/ phase[target[t]] = "off" /\ phase' = phase
     \/ t = Dispatcher /\ target[t] = cur /\ Service!DisarmSelf(cur)
  /\ Goto(t, AfterCancel(t))
  /\ UNCHANGED <<waitItem, callback, signal, mutex, setting, target, routineVars, dead, setsLeft,
                 signalBy, cancelVars>>

\* Mutant: the signal of the last activation is not cleared.
InstallKeepsSignal(t) ==
  /\ pc[t] = "set"
  /\ mutex = Nobody
  /\ mutex' = t
  /\ \E i \in Items : phase[i] = "new" /\ callback' = i /\ Aim(t, i)
  /\ Goto(t, "queue")
  /\ UNCHANGED <<phase, waitItem, signal, setting, routineVars, dead, setsLeft, signalBy,
                 cancelVars>>

\* lock_guard, callback_ = opt_callback, signal_ = false.
Install(t) ==
  /\ pc[t] = "set"
  /\ mutex = Nobody
  /\ mutex' = t
  /\ \E i \in Items : phase[i] = "new" /\ callback' = i /\ Aim(t, i)
  /\ signal' = FALSE
  /\ Goto(t, "queue")
  /\ UNCHANGED <<phase, waitItem, setting, routineVars, dead, setsLeft,
                 signalBy, cancelVars>>

Queue(t) ==
  /\ pc[t] = "queue"
  /\ Service!Arm(target[t])
  /\ Goto(t, "assign")
  /\ UNCHANGED <<waitItem, callback, signal, mutex, setting, target, routineVars, dead, setsLeft,
                 signalBy, cancelVars>>

Assign(t) ==
  /\ pc[t] = "assign"
  /\ waitItem' = target[t]
  /\ mutex' = Nobody
  /\ Goto(t, "return")
  /\ UNCHANGED <<phase, callback, signal, setting, target, routineVars, dead, setsLeft,
                 signalBy, cancelVars>>

Return(t) ==
  /\ pc[t] = "return"
  /\ Goto(t, "ready")
  /\ Aim(t, NoItem)
  /\ setting' = [setting EXCEPT ![t] = FALSE]
  /\ quiet' = (quiet \/ clean[t])
  /\ clean' = [clean EXCEPT ![t] = FALSE]
  /\ UNCHANGED <<phase, waitItem, callback, signal, mutex, routineVars, dead, setsLeft, signalBy>>

-----------------------------------------------------------------------------
(* The dispatch thread runs CompletionRoutine for an item that is due.      *)

Fire(i) ==
  /\ dpc = "idle"
  /\ Service!Fire(i)
  /\ cur' = i
  /\ dpc' = "signal"
  /\ UNCHANGED <<waitItem, callback, signal, mutex, callVars, copied, dead, setsLeft,
                 signalBy, cancelVars>>

Signal ==
  /\ dpc = "signal"
  /\ mutex = Nobody
  /\ signal' = TRUE
  /\ signalBy' = cur
  /\ dpc' = "copy"
  /\ UNCHANGED <<phase, waitItem, callback, mutex, callVars, cur, copied, dead, setsLeft, cancelVars>>

CopyCallback ==
  /\ dpc = "copy"
  /\ mutex = Nobody
  /\ copied' = callback
  /\ dpc' = "run"
  /\ UNCHANGED <<phase, waitItem, callback, signal, mutex, callVars, cur, dead, setsLeft,
                 signalBy, cancelVars>>

CallbackEnds ==
  /\ dpc \in {"run", "called"}
  /\ pc[Dispatcher] = "ready"
  /\ copied' = NoItem
  /\ dpc' = "done"
  /\ UNCHANGED <<phase, waitItem, callback, signal, mutex, callVars, cur, dead, setsLeft,
                 signalBy, cancelVars>>

Finish ==
  /\ dpc = "done"
  /\ Service!Rearm(cur) \/ Service!Retire(cur)
  /\ cur' = NoItem
  /\ dpc' = "idle"
  /\ UNCHANGED <<waitItem, callback, signal, mutex, callVars, copied, dead, setsLeft,
                 signalBy, cancelVars>>

\* A wait on the signalled timer; post_execution clears a synchronization timer.
WaitTakesSignal ==
  /\ signal /\ mutex = Nobody /\ ~dead
  /\ ~ManualReset
  /\ signal' = FALSE
  /\ UNCHANGED <<phase, waitItem, callback, mutex, callVars, routineVars, dead, setsLeft,
                 signalBy, cancelVars>>

CallStep(t) == Cancel(t) \/ Disarm(t) \/ Install(t) \/ Queue(t) \/ Assign(t) \/ Return(t)
RoutineStep == Signal \/ CopyCallback \/ CallbackEnds \/ Finish

Next ==
  \/ \E t \in Threads : CallSet(t) \/ CallCancel(t) \/ Destroy(t) \/ CallStep(t)
  \/ \E i \in Items : Fire(i)
  \/ RoutineStep
  \/ WaitTakesSignal

Spec == Init /\ [][Next]_vars

-----------------------------------------------------------------------------
(* Properties.                                                              *)

Live == {i \in Items : phase[i] \in {"armed", "running"}}

\* Cancel "stops the timer before it can be set to the signaled state and
\* cancels outstanding callbacks" (thread.h:377): once it has returned, and
\* until somebody sets the timer again, no wait item can fire or is firing.
CancelSilences == quiet => Live = {}

\* The callback that runs is the one given with the activation that came due,
\* never the one of a later SetOnce or SetRepeating.
CallbackIsOwn == dpc \in {"run", "called"} => copied = cur

\* A signal of an earlier activation does not survive a Set: when the timer is
\* signalled outside of calls, the activation in force signalled it.
SignalIsCurrent ==
  signal /\ (\A t \in Threads : ~setting[t]) => signalBy = callback

\* No call hangs: Cancel() waits for the completion routine, and the routine
\* takes the mutex that SetOnce and SetRepeating take.
CallsReturn == \A t \in Threads : pc[t] # "ready" ~> pc[t] = "ready"
=============================================================================
