----------------------------- MODULE GuestTimer -----------------------------
(***************************************************************************)
(* A guest timer (XTimer, src/src/system/xtimer.cpp) over the host timer.  *)
(* SetTimer stores the routine and its argument in the object and then     *)
(* sets the host timer; the host timer's callback reads them when it fires *)
(* and queues an APC with them.  Each store is named after the number of   *)
(* the SetTimer call that made it.                                         *)
(***************************************************************************)
EXTENDS PosixTimer

VARIABLES
  calls,         \* the SetTimer calls so far
  routine, arg,  \* callback_routine_, callback_routine_arg_
  stash,         \* how far each thread's SetTimer has come with storing them
  read,          \* the routine the callback has read, 0 before that
  apc,           \* the last APC that was queued: routine and argument
  given          \* history: the call each wait item was queued by

guestVars == <<calls, routine, arg, stash, read, apc, given>>
timerVars == <<vars, guestVars>>

NoApc == [routine |-> 0, arg |-> 0, item |-> NoItem]

GuestInit ==
  /\ Init
  /\ calls = 0 /\ routine = 0 /\ arg = 0
  /\ stash = [t \in Setters |-> "none"]
  /\ read = 0
  /\ apc = NoApc
  /\ given = [i \in Items |-> 0]

-----------------------------------------------------------------------------
(* SetTimer and Cancel.                                                     *)

StashRoutine(t) ==
  /\ pc[t] = "ready" /\ ~dead /\ stash[t] = "none" /\ setsLeft[t] > 0
  /\ calls' = calls + 1
  /\ routine' = calls + 1
  /\ stash' = [stash EXCEPT ![t] = "routine"]
  /\ UNCHANGED <<vars, arg, read, apc, given>>

StashArgument(t) ==
  /\ stash[t] = "routine"
  /\ arg' = calls
  /\ stash' = [stash EXCEPT ![t] = "both"]
  /\ UNCHANGED <<vars, calls, routine, read, apc, given>>

SetHostTimer(t) ==
  /\ stash[t] = "both"
  /\ CallSet(t)
  /\ stash' = [stash EXCEPT ![t] = "none"]
  /\ UNCHANGED <<calls, routine, arg, read, apc, given>>

CancelTimer(t) ==
  /\ stash[t] = "none"
  /\ CallCancel(t) \/ Destroy(t)
  /\ UNCHANGED guestVars

\* SetOnceAt, SetRepeatingAt and Cancel of the host timer.
HostCall(t) ==
  /\ CallStep(t)
  /\ given' = IF pc[t] = "set" THEN [given EXCEPT ![target'[t]] = calls] ELSE given
  /\ UNCHANGED <<calls, routine, arg, stash, read, apc>>

-----------------------------------------------------------------------------
(* The callback.                                                            *)

ReadRoutine ==
  /\ dpc = "run" /\ copied # NoItem /\ read = 0
  /\ read' = routine
  /\ UNCHANGED <<vars, calls, routine, arg, stash, apc, given>>

EnqueueApc ==
  /\ dpc = "run" /\ read # 0
  /\ apc' = [routine |-> read, arg |-> arg, item |-> cur]
  /\ read' = 0
  /\ dpc' = "called"
  /\ UNCHANGED <<phase, waitItem, callback, signal, mutex, callVars, cur, copied, dead, setsLeft,
                 signalBy, cancelVars, calls, routine, arg, stash, given>>

\* History: what was queued is of no interest when the routine has ended.
HostRoutine ==
  /\ dpc = "run" => copied = NoItem
  /\ RoutineStep
  /\ apc' = IF dpc = "done" THEN NoApc ELSE apc
  /\ UNCHANGED <<calls, routine, arg, stash, read, given>>

-----------------------------------------------------------------------------
GuestNext ==
  \/ \E t \in Setters : StashRoutine(t) \/ StashArgument(t) \/ SetHostTimer(t) \/ CancelTimer(t)
                          \/ HostCall(t)
  \/ \E i \in Items : Fire(i) /\ UNCHANGED guestVars
  \/ ReadRoutine \/ EnqueueApc \/ HostRoutine
  \/ WaitTakesSignal /\ UNCHANGED guestVars

GuestSpec == GuestInit /\ [][GuestNext]_timerVars

-----------------------------------------------------------------------------
(* Properties.                                                              *)

SetTimerInProgress == \E t \in Setters : stash[t] # "none" \/ setting[t]

\* The guest's routine is called for the activation it was given to: an APC
\* that is queued while no SetTimer is in progress has the routine and the
\* argument of the activation that fires, and no APC is queued once Cancel has
\* returned, until the next SetTimer.  During a SetTimer, which stores before it
\* cancels, either may be the new one already.
TimerQueuesItsOwnApc ==
  [][apc' \notin {apc, NoApc} =>
       /\ {apc'.routine, apc'.arg} \subseteq
            IF SetTimerInProgress THEN {given[cur], calls} ELSE {given[cur]}
       /\ ~quiet]_timerVars
=============================================================================
