---------------------------- MODULE AudioPermits ----------------------------
(* The permits of the audio clients, each for one frame: in the semaphore,   *)
(* with the worker, with the guest or with the device.                       *)
EXTENDS Integers

CONSTANTS
  Slots,         \* the indices of clients_, below kMaximumClientCount
  QueuedFrames   \* queued_frames_

VARIABLES
  sem,      \* the count of each client's semaphore
  inUse,    \* the client has a driver and a callback
  owed,     \* callbacks of the client whose frame was not submitted yet
  frames,   \* frames_queued_ of its driver
  lost,     \* history: permits of this registration that nobody will release
  carried,  \* history: it began with permits of an earlier registration about
  hand,     \* the client whose permit the worker took
  called,   \* whether the client it calls is still registered
  workerPc, controlPc,  \* where the worker is, and the thread that pauses,
                        \* resumes and shuts down
  terminated

\* The permits of client i.
Permits(i) ==
  sem[i] + owed[i] + frames[i]
    + (IF hand = i /\ (workerPc = "read" \/ called = "current") THEN 1 ELSE 0)

\* A client has exactly queued_frames_ permits under way, over registrations,
\* removals and a worker that holds a permit across them, so that no Release() of
\* the device is refused (the assertion at sdl_audio_driver.cpp:263); less are only
\* those of a stream that failed.  Two registrations are excepted: one while the
\* worker still has a permit of the slot, which makes one too many, and one after
\* a registration that failed, whose permits make its Release() be refused (the
\* assertion at audio_system.cpp:230).  (The worker is terminated with its permit.)
PermitsInCirculation ==
  ~terminated =>
    \A i \in Slots : inUse[i] /\ ~carried[i] => Permits(i) + lost[i] = QueuedFrames

\* Between Pause() and Resume() no client is called.
PausedWorkerCallsNobody == controlPc = "still" => workerPc = "paused"
=============================================================================
