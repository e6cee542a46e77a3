------------------------- MODULE DeferredCompletion -------------------------
(***************************************************************************)
(* Deferred completion of overlapped operations                            *)
(* (src/src/system/kernel_state.cpp): a guest thread queues one, the       *)
(* kernel's dispatch thread completes it and tells the guest by its event  *)
(* or by an APC on the thread that asked (GuestApc).                       *)
(***************************************************************************)
EXTENDS GuestApc

CONSTANTS
  Overlapped, \* XAM_OVERLAPPED structures; as routines, the ones they name
  Asks,       \* what each may ask for when it is submitted, see Notices
  Dispatcher, Peer,   \* the dispatch thread, a thread that queues other APCs
  Lasting,    \* bound: those the guest uses again even once they are in reused
  MaxHints    \* bound: APCs are asked for while no more hints than that wait

\* The guest stores an event, a completion routine, both or none.
Notices == SUBSET {"event", "routine"}

ASSUME DeferredCompletionAssumption ==
  /\ Overlapped \subseteq Routines /\ Lasting \subseteq Overlapped
  /\ Asks \in [Overlapped -> SUBSET Notices]
  /\ Senders = {Dispatcher, Peer} /\ Dispatcher # Peer
  /\ MaxHints \in Nat \ {0}

VARIABLES
  result,   \* of each structure: not in use, X_ERROR_IO_PENDING, or complete
  asks,     \* what is stored in it: an event, a routine
  event,    \* its event is set
  entries,  \* dispatch_queue_
  asked,    \* the structure the thread is queueing
  wpc, doing,  \* where the dispatch thread is, the entry it completes
  running,  \* dispatch_thread_running_
  dpc,      \* where ~KernelState is
  missed,   \* history: it notified between the worker's test and its wait
  reused    \* history: the structures that asked again before the worker had
            \* read from them whom to tell

structures == <<result, asks, event, reused>>
dispatchVars == <<structures, entries, asked, wpc, doing, running, dpc, missed>>
vars == <<apcVars, dispatchVars>>

TypeOK ==
  /\ queue \in Seq(Blocks \cup GuestApcs)
  /\ used \subseteq Blocks
  /\ routine \in [Blocks -> Routines \cup {NoRoutine}]
  /\ stage \in [Senders -> {"idle", "insert", "hint"}]
  /\ block \in [Senders -> Blocks \cup {NoApc}]
  /\ hints \in Nat /\ critical \in BOOLEAN
  /\ pc \in {"run", "push", "sleep", "deliver", "kernel", "normal", "rundown", "exited"}
  /\ result \in [Overlapped -> {"free", "pending", "done"}]
  /\ asks \in [Overlapped -> Notices] /\ event \in [Overlapped -> BOOLEAN]
  /\ reused \subseteq Overlapped
  /\ entries \in Seq(Overlapped)
  /\ wpc \in {"top", "lock", "cond", "woken", "take", "complete", "event", "routine", "apc", "exited"}
  /\ dpc \in {"up", "notify", "join", "joined"}

Init ==
  /\ ApcInit
  /\ result = [o \in Overlapped |-> "free"] /\ asks = [o \in Overlapped |-> {}]
  /\ event = [o \in Overlapped |-> FALSE] /\ reused = {}
  /\ entries = <<>> /\ asked = NoRoutine
  /\ wpc = "top" /\ doing = NoRoutine
  /\ running = TRUE /\ dpc = "up" /\ missed = FALSE

-----------------------------------------------------------------------------
(* The guest thread.                                                        *)

\* What the worker has yet to read of the structure it completes.
Unread(o) ==
  IF doing # o THEN {}
  ELSE CASE wpc = "event" -> {"event", "routine"}
         [] wpc = "routine" -> {"routine"}
         [] OTHER -> {}

\* The guest fills the structure in and clears its event; then
\* CompleteOverlappedDeferredEx marks it pending ...
Submit(o, n) ==
  /\ pc = "run" /\ result[o] = "free"
  /\ "routine" \in n => hints < MaxHints
  /\ asks' = [asks EXCEPT ![o] = n]
  /\ event' = [event EXCEPT ![o] = FALSE]
  /\ result' = [result EXCEPT ![o] = "pending"]
  /\ reused' = IF n \cap Unread(o) = {} THEN reused ELSE reused \cup {o}
  /\ asked' = o
  /\ pc' = "push"
  /\ UNCHANGED <<queue, ThreadOnly, hints, critical, after, current, scratch, silent,
                 entries, wpc, doing, running, dpc, missed>>

\* ... and queues it and notifies under the global lock.
\* Mutant: it does not notify.
PushSilently ==
  /\ pc = "push"
  /\ entries' = Append(entries, asked)
  /\ asked' = NoRoutine
  /\ pc' = "run"
  /\ UNCHANGED <<queue, ThreadOnly, hints, critical, after, current, scratch, silent,
                 structures, wpc, doing, running, dpc, missed>>

Push ==
  /\ pc = "push"
  /\ entries' = Append(entries, asked)
  /\ asked' = NoRoutine
  /\ wpc' = IF wpc = "cond" THEN "woken" ELSE wpc
  /\ pc' = "run"
  /\ UNCHANGED <<queue, ThreadOnly, hints, critical, after, current, scratch, silent,
                 structures, doing, running, dpc, missed>>

\* A guest that asked for no routine has called XamGetOverlappedResult, which
\* waits for the event only if it finds the result pending; the structure is
\* the guest's again.
GetOverlappedResult(o) ==
  /\ pc = "run" /\ result[o] = "done" /\ "routine" \notin asks[o]
  /\ result' = [result EXCEPT ![o] = "free"]
  /\ UNCHANGED <<apcVars, asks, event, reused, entries, asked, wpc, doing, running, dpc, missed>>

\* One that asked for a routine waits until it is called; a routine that finds
\* the result pending leaves the structure alone.
CompletionRoutine ==
  /\ NormalRoutine
  /\ result' = [o \in Overlapped |->
                  IF o = scratch /\ result[o] = "done" THEN "free" ELSE result[o]]
  /\ UNCHANGED <<asks, event, reused, entries, asked, wpc, doing, running, dpc, missed>>

-----------------------------------------------------------------------------
(* The dispatch thread.                                                     *)

DispatchOnly == <<asked, running, dpc, missed>>

TestRunning ==
  /\ wpc = "top"
  /\ wpc' = IF running THEN "lock" ELSE "exited"
  /\ UNCHANGED <<apcVars, structures, entries, doing, DispatchOnly>>

LockQueue ==
  /\ wpc = "lock"
  /\ wpc' = IF entries = <<>> THEN "cond" ELSE "take"
  /\ UNCHANGED <<apcVars, structures, entries, doing, DispatchOnly>>

\* It waits once, and tests the flag but not the queue again.
WakeUp ==
  /\ wpc = "woken"
  /\ wpc' = IF running THEN "take" ELSE "exited"
  /\ UNCHANGED <<apcVars, structures, entries, doing, DispatchOnly>>

TakeEntry ==
  /\ wpc = "take"
  /\ doing' = Head(entries)
  /\ entries' = Tail(entries)
  /\ wpc' = "complete"
  /\ UNCHANGED <<apcVars, structures, DispatchOnly>>

\* CompleteOverlappedEx: the result, then the event, then the APC.
\* Mutant: the result is not written.
SetNoResult ==
  /\ wpc = "complete"
  /\ wpc' = "event"
  /\ UNCHANGED <<apcVars, structures, entries, doing, DispatchOnly>>

SetResult ==
  /\ wpc = "complete"
  /\ result' = [result EXCEPT ![doing] = "done"]
  /\ wpc' = "event"
  /\ UNCHANGED <<apcVars, asks, event, reused, entries, doing, DispatchOnly>>

\* The event is read from the structure as it is now, which need not be as it
\* was submitted ...
SetEvent ==
  /\ wpc = "event"
  /\ event' = [event EXCEPT ![doing] = @ \/ "event" \in asks[doing]]
  /\ wpc' = "routine"
  /\ UNCHANGED <<apcVars, result, asks, reused, entries, doing, DispatchOnly>>

\* ... and so are the routine and the thread to call it on.
EnqueueRoutine ==
  /\ wpc = "routine" /\ "routine" \in asks[doing]
  /\ AllocateApc(Dispatcher, doing)
  /\ doing' = NoRoutine
  /\ wpc' = "apc"
  /\ UNCHANGED <<structures, entries, DispatchOnly>>

NoRoutineAsked ==
  /\ wpc = "routine" /\ "routine" \notin asks[doing]
  /\ doing' = NoRoutine
  /\ wpc' = "top"
  /\ UNCHANGED <<apcVars, structures, entries, DispatchOnly>>

RoutineEnqueued ==
  /\ wpc = "apc" /\ stage[Dispatcher] = "idle"
  /\ wpc' = "top"
  /\ UNCHANGED <<apcVars, structures, entries, doing, DispatchOnly>>

Dispatch ==
  \/ TestRunning \/ LockQueue \/ WakeUp \/ TakeEntry \/ SetResult \/ SetEvent \/ EnqueueRoutine
  \/ NoRoutineAsked \/ RoutineEnqueued
  \/ Send(Dispatcher) /\ UNCHANGED dispatchVars

-----------------------------------------------------------------------------
(* ~KernelState.                                                            *)

DestructorOnly == <<apcVars, structures, entries, asked, doing>>

StopDispatch ==
  /\ dpc = "up"
  /\ running' = FALSE
  /\ dpc' = "notify"
  /\ UNCHANGED <<DestructorOnly, wpc, missed>>

\* Mutant: nobody is notified.
StopSilently ==
  /\ dpc = "notify"
  /\ dpc' = "join"
  /\ UNCHANGED <<DestructorOnly, wpc, running, missed>>

\* Neither the flag nor the notification is under the worker's lock.
NotifyStop ==
  /\ dpc = "notify"
  /\ missed' = (wpc = "lock" /\ entries = <<>>)
  /\ wpc' = IF wpc = "cond" THEN "woken" ELSE wpc
  /\ dpc' = "join"
  /\ UNCHANGED <<DestructorOnly, running>>

JoinDispatch ==
  /\ dpc = "join" /\ wpc = "exited"
  /\ dpc' = "joined"
  /\ UNCHANGED <<DestructorOnly, wpc, running, missed>>

Destructor == NotifyStop \/ JoinDispatch

-----------------------------------------------------------------------------
\* Bound: one APC of the other thread is under way at a time, so that there is
\* a block for every completion.
PeerQueues ==
  /\ hints < MaxHints
  /\ \A a \in used : routine[a] # NoRoutine
  /\ AllocateApc(Peer, NoRoutine)

GuestThread ==
  \/ (Deliver \/ Alerted) /\ UNCHANGED dispatchVars
  \/ CompletionRoutine
  \/ Push

\* Bound: the guest begins nothing when the kernel state is being destroyed;
\* its threads were told to exit before (TerminateTitle).
Guest ==
  /\ running
  /\ \/ GuestChoice /\ UNCHANGED dispatchVars
     \/ \E o \in Overlapped : GetOverlappedResult(o)
     \/ \E o \in Lasting \cup (Overlapped \ reused) : \E n \in Asks[o] : Submit(o, n)
     \/ PeerQueues /\ UNCHANGED dispatchVars
     \/ \E a \in GuestApcs : (KeInsertQueueApc(a) \/ KeRemoveQueueApc(a)) /\ UNCHANGED dispatchVars

Next ==
  \/ Guest
  \/ GuestThread
  \/ Send(Peer) /\ UNCHANGED dispatchVars
  \/ Dispatch
  \/ StopDispatch \/ Destructor

Spec == Init /\ [][Next]_vars

Fairness ==
  /\ WF_vars(GuestThread)
  /\ WF_vars(Dispatch)
  /\ WF_vars(Send(Peer) /\ UNCHANGED dispatchVars)
  /\ WF_vars(Destructor)

FairSpec == Spec /\ Fairness

-----------------------------------------------------------------------------
(* Properties.                                                              *)

\* The guest is told of a completion when the result is there: the event is
\* not set for a structure that is pending, and the routine is queued or called
\* for one that is complete and not yet in use again.  The exception is reused:
\* the worker reads event and routine after it has stored the result, and a
\* guest that saw the result, or waited for the event, may have submitted the
\* structure again by then, with an event or a routine the worker now finds.
NoticeMeansComplete ==
  /\ \A o \in Overlapped \ reused : event[o] => result[o] # "pending"
  /\ \A i \in 1 .. Len(queue) :
       queue[i] \in Blocks /\ routine[queue[i]] \in Overlapped \ reused
         => result[routine[queue[i]]] = "done"
  /\ scratch \in Overlapped \ reused => result[scratch] = "done"

\* A structure that was marked pending is completed, unless the kernel state is
\* destroyed: no notification of an entry is lost.
RequestCompletes ==
  \A o \in Overlapped : result[o] = "pending" ~> result[o] # "pending" \/ ~running

\* The dispatch thread ends when it is told to, but for one order of the steps:
\* it has tested the flag, is notified, and only then begins to wait.
DispatchEnds == ~running ~> wpc = "exited" \/ missed
=============================================================================
