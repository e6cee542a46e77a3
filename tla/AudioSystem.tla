---------------------------- MODULE AudioSystem ----------------------------
(***************************************************************************)
(* The audio system (src/src/audio/audio_system.cpp) and its SDL driver    *)
(* (audio/sdl/sdl_audio_driver.cpp).  A client's semaphore counts the      *)
(* frames it may still submit: the worker takes a permit and calls the     *)
(* client's callback, the guest submits a frame for it, and the device     *)
(* releases a permit when it has played the frame.                         *)
(***************************************************************************)
EXTENDS AudioPermits, FiniteSetsExt

CONSTANT NoSlot

ASSUME AudioSystemAssumption ==
  /\ Slots \subseteq Nat
  /\ QueuedFrames \in Nat \ {0}
  /\ NoSlot \notin Slots

VARIABLES
  failed,   \* history: a registration of the slot failed, its permits are left
  running, paused, shutdownEvent, pauseFence, resumeEvent

clientVars == <<sem, inUse, owed, frames, lost, carried, failed>>
workerVars == <<workerPc, hand, called>>
controlVars == <<running, paused, shutdownEvent, pauseFence, resumeEvent, terminated, controlPc>>
vars == <<clientVars, workerVars, controlVars>>

TypeOK ==
  /\ sem \in [Slots -> 0 .. QueuedFrames]
  /\ {inUse, failed, carried} \subseteq [Slots -> BOOLEAN]
  /\ {owed, frames, lost} \subseteq [Slots -> 0 .. QueuedFrames + 1]
  /\ workerPc \in {"top", "wait", "sleep", "read", "call", "paused", "exited"}
  /\ hand \in Slots \cup {NoSlot}
  /\ called \in {"nobody", "current", "gone"}
  /\ {running, paused, shutdownEvent, pauseFence, resumeEvent, terminated} \subseteq BOOLEAN
  /\ controlPc \in {"run", "wake", "fence", "still", "resume", "stop", "terminate", "destroy", "done"}

Init ==
  /\ sem = [i \in Slots |-> 0]
  /\ inUse = [i \in Slots |-> FALSE] /\ failed = [i \in Slots |-> FALSE]
  /\ carried = [i \in Slots |-> FALSE]
  /\ owed = [i \in Slots |-> 0] /\ frames = [i \in Slots |-> 0] /\ lost = [i \in Slots |-> 0]
  /\ workerPc = "top" /\ hand = NoSlot /\ called = "nobody"
  /\ running = TRUE /\ paused = FALSE /\ terminated = FALSE
  /\ shutdownEvent = FALSE /\ pauseFence = FALSE /\ resumeEvent = FALSE
  /\ controlPc = "run"

-----------------------------------------------------------------------------
(* WorkerThreadMain.                                                        *)

Signalled == {i \in Slots : sem[i] > 0}

WorkerLoops ==
  /\ workerPc = "top"
  /\ workerPc' = IF running THEN "wait" ELSE "exited"
  /\ UNCHANGED <<clientVars, hand, called, controlVars>>

\* WaitAny takes the first handle that is signalled, the event being the last.
WorkerTakesPermit ==
  /\ workerPc = "wait" /\ Signalled # {}
  /\ hand' = Min(Signalled)
  /\ sem' = [sem EXCEPT ![Min(Signalled)] = @ - 1]
  /\ workerPc' = "read"
  /\ UNCHANGED <<inUse, owed, frames, lost, carried, failed, called, controlVars>>

WorkerTakesEvent ==
  /\ workerPc = "wait" /\ Signalled = {} /\ shutdownEvent
  /\ shutdownEvent' = FALSE
  /\ pauseFence' = (pauseFence \/ paused)
  /\ workerPc' = IF paused THEN "paused" ELSE "top"
  /\ UNCHANGED <<clientVars, hand, called, running, paused, resumeEvent, terminated, controlPc>>

\* The event is kept while the worker is paused.
\* Mutant: the worker signals the pause and does not wait for the resume event.
WorkerKeepsOn ==
  /\ workerPc = "paused"
  /\ workerPc' = "top"
  /\ UNCHANGED <<clientVars, hand, called, controlVars>>

WorkerResumes ==
  /\ workerPc = "paused" /\ resumeEvent
  /\ resumeEvent' = FALSE
  /\ workerPc' = "top"
  /\ UNCHANGED <<clientVars, hand, called, running, paused, shutdownEvent, pauseFence, terminated, controlPc>>

\* After half a second without a signal the worker sleeps as long again.
WorkerTimesOut ==
  /\ workerPc = "wait" /\ Signalled = {} /\ ~shutdownEvent
  /\ workerPc' = IF running THEN "sleep" ELSE "exited"
  /\ UNCHANGED <<clientVars, hand, called, controlVars>>

WorkerSleeps ==
  /\ workerPc = "sleep"
  /\ workerPc' = "top"
  /\ UNCHANGED <<clientVars, hand, called, controlVars>>

\* The callback is read under the global lock and called after it; a slot with
\* no client has callback 0, and the permit is dropped.
WorkerReads ==
  /\ workerPc = "read"
  /\ IF inUse[hand]
     THEN workerPc' = "call" /\ called' = "current" /\ UNCHANGED hand
     ELSE workerPc' = "top" /\ hand' = NoSlot /\ UNCHANGED called
  /\ UNCHANGED <<clientVars, controlVars>>

\* A client that was called is to submit a frame, on the worker or on a thread
\* of its own.  A callback of a client that is gone may do so too, when the slot
\* has a new client, or find that there is nothing to do.
CallbackReturns ==
  /\ workerPc = "call"
  /\ owed' \in IF called = "current" THEN {[owed EXCEPT ![hand] = @ + 1]}
               ELSE IF inUse[hand] THEN {owed, [owed EXCEPT ![hand] = @ + 1]} ELSE {owed}
  /\ workerPc' = IF running THEN "top" ELSE "exited"
  /\ hand' = NoSlot /\ called' = "nobody"
  /\ UNCHANGED <<sem, inUse, frames, lost, carried, failed, controlVars>>

\* Terminate(0) reaches the worker wherever it is.
WorkerTerminates ==
  /\ terminated /\ workerPc # "exited"
  /\ workerPc' = "exited" /\ hand' = NoSlot /\ called' = "nobody"
  /\ UNCHANGED <<clientVars, controlVars>>

Worker ==
  \/ WorkerLoops \/ WorkerTakesPermit \/ WorkerTakesEvent \/ WorkerResumes \/ WorkerTimesOut
  \/ WorkerSleeps \/ WorkerReads \/ CallbackReturns \/ WorkerTerminates

-----------------------------------------------------------------------------
(* The guest's calls and the device.                                        *)

\* RegisterClient, under the global lock: the free slot, Release(queued_frames_),
\* which a semaphore refuses whole when it would pass its maximum, the driver.
\* A driver that cannot be created leaves the permits in the semaphore.
RegisterClient ==
  LET free == {i \in Slots : ~inUse[i]}
      i == Min(free) IN
  /\ free # {}
  /\ sem' = [sem EXCEPT ![i] = IF @ = 0 THEN QueuedFrames ELSE @]
  /\ \/ /\ inUse' = [inUse EXCEPT ![i] = TRUE]
        /\ carried' = [carried EXCEPT ![i] = hand = i \/ (failed[i] /\ sem[i] > 0)]
        /\ failed' = [failed EXCEPT ![i] = FALSE]
     \/ failed' = [failed EXCEPT ![i] = TRUE] /\ UNCHANGED <<inUse, carried>>
  /\ UNCHANGED <<owed, frames, lost, workerVars, controlVars>>

\* What the worker calls may be the client that is removed.
Orphaned(S) == called' = IF workerPc = "call" /\ hand \in S THEN "gone" ELSE called

Removed(f, S) == [i \in Slots |-> IF i \in S THEN 0 ELSE f[i]]

\* The driver is destroyed with its frames, and the client cleared.
DestroyClients(S) ==
  /\ inUse' = [i \in Slots |-> inUse[i] /\ i \notin S]
  /\ owed' = Removed(owed, S) /\ frames' = Removed(frames, S) /\ lost' = Removed(lost, S)
  /\ UNCHANGED <<carried, failed>>
  /\ Orphaned(S)

\* Mutant: the semaphore keeps its count.
UnregisterKeepsPermits(i) ==
  /\ inUse[i]
  /\ DestroyClients({i})
  /\ UNCHANGED <<sem, workerPc, hand, controlVars>>

UnregisterClient(i) ==
  /\ inUse[i]
  /\ DestroyClients({i})
  /\ sem' = [sem EXCEPT ![i] = 0]
  /\ UNCHANGED <<workerPc, hand, controlVars>>

SubmitFrame(i) ==
  /\ inUse[i] /\ owed[i] > 0
  /\ owed' = [owed EXCEPT ![i] = @ - 1]
  /\ frames' = [frames EXCEPT ![i] = @ + 1]
  /\ UNCHANGED <<sem, inUse, lost, carried, failed, workerVars, controlVars>>

\* SDLCallback plays a frame and releases a permit, which a semaphore at its
\* maximum refuses; when the stream takes no data, the permit is not released.
SDLCallback(i) ==
  /\ inUse[i] /\ frames[i] > 0
  /\ frames' = [frames EXCEPT ![i] = @ - 1]
  /\ \/ /\ sem' = [sem EXCEPT ![i] = IF @ < QueuedFrames THEN @ + 1 ELSE @]
        /\ UNCHANGED lost
     \/ /\ lost' = [lost EXCEPT ![i] = @ + 1]
        /\ UNCHANGED sem
  /\ UNCHANGED <<inUse, owed, carried, failed, workerVars, controlVars>>

-----------------------------------------------------------------------------
(* Pause, Resume and Shutdown, by one thread.                               *)

ControlOnly == <<clientVars, workerVars>>

Pause ==
  /\ controlPc = "run"
  /\ paused' = TRUE
  /\ controlPc' = "wake"
  /\ UNCHANGED <<ControlOnly, running, shutdownEvent, pauseFence, resumeEvent, terminated>>

\* Mutant: the worker is told nothing.
SetsNoEvent ==
  /\ controlPc \in {"wake", "stop"}
  /\ controlPc' = IF controlPc = "wake" THEN "fence" ELSE "terminate"
  /\ UNCHANGED <<ControlOnly, running, paused, shutdownEvent, pauseFence, resumeEvent, terminated>>

SetShutdownEvent ==
  /\ controlPc \in {"wake", "stop"}
  /\ shutdownEvent' = TRUE
  /\ controlPc' = IF controlPc = "wake" THEN "fence" ELSE "terminate"
  /\ UNCHANGED <<ControlOnly, running, paused, pauseFence, resumeEvent, terminated>>

PauseReturns ==
  /\ controlPc = "fence" /\ pauseFence
  /\ pauseFence' = FALSE
  /\ controlPc' = "still"
  /\ UNCHANGED <<ControlOnly, running, paused, shutdownEvent, resumeEvent, terminated>>

Resume ==
  /\ controlPc = "still"
  /\ paused' = FALSE
  /\ controlPc' = "resume"
  /\ UNCHANGED <<ControlOnly, running, shutdownEvent, pauseFence, resumeEvent, terminated>>

SetResumeEvent ==
  /\ controlPc = "resume"
  /\ resumeEvent' = TRUE
  /\ controlPc' = "run"
  /\ UNCHANGED <<ControlOnly, running, paused, shutdownEvent, pauseFence, terminated>>

Shutdown ==
  /\ controlPc \in {"run", "still"}
  /\ running' = FALSE
  /\ controlPc' = "stop"
  /\ UNCHANGED <<ControlOnly, paused, shutdownEvent, pauseFence, resumeEvent, terminated>>

\* Mutant: the worker is left to see the flag by itself.
ShutdownDoesNotTerminate ==
  /\ controlPc = "terminate"
  /\ controlPc' = "destroy"
  /\ UNCHANGED <<ControlOnly, running, paused, shutdownEvent, pauseFence, resumeEvent, terminated>>

TerminateWorker ==
  /\ controlPc = "terminate"
  /\ terminated' = TRUE
  /\ controlPc' = "destroy"
  /\ UNCHANGED <<ControlOnly, running, paused, shutdownEvent, pauseFence, resumeEvent>>

\* The drivers of the clients that are left; the semaphores keep their counts.
DestroyDrivers ==
  /\ controlPc = "destroy"
  /\ DestroyClients(Slots)
  /\ controlPc' = "done"
  /\ UNCHANGED <<sem, workerPc, hand, running, paused, shutdownEvent, pauseFence, resumeEvent, terminated>>

\* A call of Pause, Resume or Shutdown under way goes on.
Control == SetShutdownEvent \/ PauseReturns \/ SetResumeEvent \/ TerminateWorker \/ DestroyDrivers

-----------------------------------------------------------------------------
Next ==
  \/ Worker
  \/ RegisterClient
  \/ \E i \in Slots : UnregisterClient(i) \/ SubmitFrame(i) \/ SDLCallback(i)
  \/ Pause \/ Resume \/ Shutdown \/ Control

Spec == Init /\ [][Next]_vars

\* The worker and a call under way go on while they can; the event, which the
\* worker may find and lose to a permit, is found in the end if it is found again
\* and again.
Fairness == WF_vars(Worker) /\ SF_vars(WorkerTakesEvent) /\ WF_vars(Control)

FairSpec == Spec /\ Fairness

-----------------------------------------------------------------------------
(* Properties.                                                              *)

Idle == workerPc = "wait" /\ Signalled = {}

\* As long as the worker runs out of permits now and then, Pause() returns; and
\* Shutdown() ends the worker in any case, a paused one or one in a callback.
PauseAndStopTakeEffect ==
  /\ []<>Idle => (controlPc = "fence" ~> controlPc = "still")
  /\ ~running ~> workerPc = "exited"
=============================================================================
