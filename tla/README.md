# Formal verification of the ReXGlue runtime

TLA+ models of the concurrency core of the ReXGlue runtime, the TLC
configurations that check them on small instances, and TLAPS proofs of what
matters most. ReXGlue recompiles Xbox 360 executables to C++ and gives the
result a runtime: host threads and timers, an emulation of the guest's kernel,
graphics, audio, input and files. Source paths are relative to the
repository; its SDK lives in `src/src` and `src/include` of a checkout that is
placed in `src/`.

Contents: [inventory](#inventory), [modules](#modules-and-how-they-correspond-to-the-code),
[runs](#runs), [bounds](#bounds), [fairness](#fairness), [proofs](#proofs),
[disagreements](#where-code-and-documentation-disagree),
[what the bounds keep out](#what-the-bounds-keep-out),
[not modelled](#what-is-not-modelled), [plan](#plan).

## Inventory

The interesting logic of the runtime is the part in which threads meet: guest
threads are host threads, the guest's kernel objects are wrappers over host
objects, and what the recompiled program believes about its events, locks and
timers is true only if the layers below are right under every interleaving.

```
 guest program (recompiled PowerPC code, one host thread per guest thread)
     | exports: Nt..., Ke..., Ex..., Ob...        kernel/xboxkrnl, kernel/xam
 guest kernel objects: XEvent, XMutant, XTimer, X_ERWLOCK, XThread with its APCs,
     |                completions of the kernel state   (system)
     | handles, reference counts, names            system/util/object_table.cpp
 host objects: Event, Semaphore, Mutant, Timer, Thread; Wait...
     |                                             core/threading_posix.cpp
 timer queue: one dispatch thread for all timers   core/timer_queue.cpp
 beside them: audio worker and XMA decoder, command processor, file system
```

| Component | State | Operations | Hard behaviours | Correct when |
| --- | --- | --- | --- | --- |
| timer queue (`core/timer_queue.cpp`) | atomic state of each wait item, disruptor ring of 512 slots, sorted wait queue of the dispatch thread, the item in its callback | `QueueTimer`, `Disarm` from any thread and from callbacks, dispatch loop, destructor | lock-free: compare-exchanges race with plain stores; several producers publish out of order; waits on atomics | no callback runs after `Disarm` returned; an armed item fires; `Disarm` and the destructor return |
| host timer (`PosixCondition<Timer>`, `core/threading_posix.cpp`) | current wait item, callback, signal | `SetOnce`, `SetRepeating`, `Cancel`, destructor, completion routine | `Cancel` waits for the routine, the routine needs the mutex; the callback sets its own timer again | one activation at a time, `Cancel` silences, calls return |
| host thread (`PosixCondition<Thread>`, same file) | state, suspend count, semaphore, pending real-time signals, signalled flag | create, `Resume`, `Suspend`, `Terminate`, exit, wait and join | suspension arrives as a signal in the middle of anything; counters in three places; `pthread_cancel` | suspended threads stop, resumed threads run, terminated threads end, waiters return |
| host waits (same file, `include/rex/thread.h`) | signal, count and owner per object; per-thread callbacks | `Set`, `Reset`, `Pulse`, `Release`, `Wait`, `SignalAndWait`, `WaitMultiple`, alertable waits, `QueueUserCallback` | polling several mutexes with `try_lock`; lost notifications; deadline against signal | a wait takes all or nothing in one step; no sleeper is missed; timeouts end waits |
| guest reader-writer lock (`X_ERWLOCK`, `kernel/xboxkrnl/xboxkrnl_threading.cpp`) | four unsigned counters, an event, a semaphore | acquire and try to acquire, shared and exclusive, release | the signal is given after the spin lock is released | readers or one writer; counters exact; nobody is forgotten |
| guest critical section (`X_RTL_CRITICAL_SECTION`, `kernel/xboxkrnl/xboxkrnl_rtl.cpp`) | one atomic count, owner and recursion, an auto-reset event | initialise, enter, try to enter, leave | leaving is three steps; the owner's recursion is in the same count as the waiters | a recursive lock; a waiter is let in |
| object table and names (`system/util/object_table.cpp`, `system/xobject.cpp`) | slots with objects and handle counts, name table, pointer counts | add, look up, retain, release, remove, name, open by name, duplicate, replace, close | two mutexes in both orders; handle read in one critical section and used in the next | counts exact, no use of a deleted object, handles stay open, names lead to objects of that name |
| guest threads (`system/xthread.cpp`) | guest suspend count, APC lists, TLS, exit status | create, suspend, resume, queue and deliver APCs, exit | an APC goes into a list in guest memory and its hint into a host queue, in two steps | no alertable wait sleeps over an APC; an APC block is freed once |
| deferred completions (`system/kernel_state.cpp`) | dispatch queue, worker thread, running flag | `CompleteOverlapped...`, worker loop, destructor | one condition variable, a flag changed without its lock, completions that tell a thread by an APC | every completion is made, and told after it was made; the worker ends |
| guest timer (`system/xtimer.cpp`) | routine, argument and thread, the host timer | `SetTimer`, `Cancel`, the callback | the callback reads what a `SetTimer` is overwriting | an APC belongs to the activation that came due |
| XMA decoder (`audio/xma_decoder.cpp`, `xma_context.cpp`, the `XMA...` exports) | bit map of contexts, two flags and a lock each, context data in guest memory | allocate, initialise, edit, kick, disable, clear, release, sweep, pause, resume, shut down | two threads decode, and the guest stores into the same data without a lock | one decoder per context; a decode takes back no buffer but those it consumed; no kick is forgotten; pauses hold and end |
| audio system (`audio/audio_system.cpp`, `audio/sdl`) | clients with semaphore, driver and callback; the worker | register, unregister, submit, play, pause, resume, shut down | a client goes while the worker holds its permit or is in its callback | a client has its permits, no fewer and no more; pauses hold and end |
| memory, modules, files, graphics, UI, recompiler | page tables, images, entries, GPU state | sequential, or the host's | little interleaving of their own | see [not modelled](#what-is-not-modelled) |

`PROJECT.json` lists every component with its sources, and under `hazards` each
place in this code that is hard to test, with the properties that watch it.

## Modules and how they correspond to the code

In every module one action is one atomic step of the code: one atomic operation
where the code is lock-free, one critical section where it locks, one call of a
host service otherwise. Program counters are named after the place in the
function. `PROJECT.json` maps each definition to its lines. Operators marked
`Mutant:` are plausible bugs of the definition they precede; no specification
uses them.

### `TimerQueue`, `TimerService`, `TimerQueueProofs`

`TimerQueue` is `core/timer_queue.cpp` with its header. Time is relative:
`left[i]` is `due_ - now`, and `Tick` is the clock. `ring` with `unpublished` is
the disruptor: `ClaimSlot` and `Publish` are apart, and `Consume` takes the prefix
that is published. The dispatch thread walks through `TestStop`, `Consume` or
`WaitTimesOut`, `StartCallback` or `DropItem`, `MergeRequeued`, the callback
with its own calls (`CallbackDisarms`, `CallbackQueues`), `CallbackReturns`,
`Rearm` or `Retire`, `NotifyAll`; the stores that leave a callback are plain
stores, as in the code. A client's `Disarm` is `DisarmReturn` (the compare-exchange
that wins), `DisarmBlocked` and `WaitSleeps`/`WaitReturns` (`state_.wait`).
`RequestStop` to `Join` are the destructor and its kick.

`TimerService` is what the header promises, one phase per item (`new`, `armed`,
`running`, `leaving`, `off`) and an atomic step between phases. `TimerQueue`
implements it (`ImplementsService`); `PosixTimer` is built on it.

### `PosixTimer`

`PosixCondition<Timer>` and its `CompletionRoutine`, on the wait items of
`TimerService`. A `SetOnce` is `CallSet`, `Cancel`, `Disarm` (which waits while the item
runs), `Install` (the mutex is taken, callback stored, signal cleared), `Queue`,
`Assign`, `Return`; the callback runs on the dispatch thread and may make the same
calls. `Signal` and `CopyCallback` are the two critical sections of the routine,
`Destroy` the destructor.

### `HostThread`, `ThreadSuspension`

`PosixCondition<Thread>`, `ThreadStartRoutine`, `signal_handler`,
`WaitSuspended`. The handler (`EnterHandler`, `LeaveHandler`) interrupts the thread
at any `tpc`; a critical section of the thread itself is two steps for that
reason, one of a controller is one; so is the one in which a thread created suspended sets its
count (`BeginHold`, `HoldCreated`). `Resume` and `Suspend` of a thread that has not started sleep
in `WaitStarted` (`sleepers`) until its start notifies them. `held` is the documented suspend count, a
history variable the properties compare the code's counters with. The counters
and what they are to agree on are in `ThreadSuspension`, which `HostThread` extends and
`HostWaitProofs`, whose last part has the proofs, extends too.

### `HostWait`, `DispatcherObjects`, `HostWaitProofs`

`HostWait` has the events, semaphores and mutants of `core/threading_posix.cpp`
and every kind of wait: `Wait` sleeps on a condition variable (`BeginSlice`,
`WaitSucceeds`, `WaitSleeps`, `TimeRunsOut`), `WaitMultiple` polls (`TryLock` one
mutex after the other, `TakeSignaled`, `PollAgain`), alertable waits are loops of
short slices with a dispatch of user callbacks between them. `Mutant::Release`
is three steps because it reads owner and count before it locks
(`ReadOwner`, `ReadCount`, `ReleaseMutant`). `DispatcherObjects` is the contract of
`thread.h`: a wait takes everything it asked for in one step, and only when it
is there.

### `ReadWriteLock`, `ReadersWriters`, `ReadWriteLockProofs`

The seven functions of `X_ERWLOCK`. A change of the counters under the spin
lock is one step, and the wait for or the signal of the event or semaphore,
which happens with the spin lock released, another. The counters wrap at
`Word`. `ReadersWriters` is the textbook lock: two sets of holders.

### `CriticalSection`, `RecursiveLock`, `CriticalSectionProofs`

The functions of `X_RTL_CRITICAL_SECTION`. One step is one access to `lock_count`, to
the event, or to `owning_thread` where another thread may read it; `recursion_count`
is the owner's alone. A thread that does not find the section free spins (`Spin`),
counts itself (`CountIn`) and waits for the event (`Wait`); who leaves clears the
owner (`CallLeave`), takes itself from the count (`Unlock`) and sets the event if
the count says that somebody waits (`Signal`). `RecursiveLock` is how often each
thread is inside, nobody while somebody else is.

### `ObjectTable`, `ObjectTableProofs`

`ObjectTable`, the reference counts and handles of `XObject`, and the guest calls
on top: create by name, open by name, use, duplicate, with
`DUPLICATE_CLOSE_SOURCE` (`CallReplace`) or without, close. One step is one
critical section of the global lock or of `name_mutex_`, or one of the reads of
`handles_[0]` that no lock protects. `RemoveHandle` takes `name_mutex_` inside the
global lock and is two steps (`globalLock` is set in between).

### `GuestTimer`, `GuestTimerProofs`

`XTimer` on top of `PosixTimer`, which it extends: `SetTimer` is `StashRoutine`, `StashArgument` and
then the calls of the host timer, whose callback reads the two fields again in two steps
(`ReadRoutine`, `EnqueueApc`). Each store is named after the `SetTimer` call that made it, so that
`TimerQueuesItsOwnApc` can say which call an APC belongs to. `GuestTimerProofs` has the proofs about
both timers. `MCGuestTimer` gives the timer one of two clients: a guest, or a thread that uses the
host timer itself and may set it from its callback.

### `GuestApc`, `DeferredCompletion`, `DeferredCompletionProofs`

`GuestApc` is the list of user APCs of one guest thread. A sender allocates a
block, inserts it under `apc_lock` (`InsertApc`) and then queues an empty
callback to the host thread (`QueueHint`): the hint ends an alertable wait
(`Alerted`), after which the thread takes the list apart one APC at a time
(`TakeApc`, `KernelRoutine`, `NormalRoutine`). In a critical region nothing is
delivered. `Exit` runs the list down. APCs of the guest's own
(`KeInsertQueueApc`) come without a hint. The host thread's queue of callbacks
is the count of `HostWait`.

`DeferredCompletion` extends it with the part of `kernel_state.cpp` that uses
it: `Submit` and `Push` are `CompleteOverlappedDeferredEx`, the dispatch thread is
`TestRunning`, `LockQueue`, the condition variable (`WakeUp`), `TakeEntry`,
`SetResult`, `SetEvent` and then `EnqueueRoutine` or `NoRoutineAsked`. Each of the last
three reads the structure as it is then: any structure may ask for an event, a routine,
both or none (`asks`), and a guest that polled the result or waited for the event may
have stored something else by then. `GetOverlappedResult` and the completion routine
give the structure back. `StopDispatch`, `NotifyStop` and `JoinDispatch` are the
destructor, whose notification is not under the worker's lock. Three variables are
history: `missed`, the one order of steps in which the worker misses that notification;
`silent`, the APCs for which no hint will come; `reused`, the structures that asked again
before the worker had read whom to tell.

### `XmaDecoder`, `AudioProofs`

A context is the bit in `context_bitmap_`, `is_allocated_`, `is_enabled_`, its lock
and its data: which input buffers and whether the output buffer are valid.
`Work` is the decode of one context, by the worker in its sweep or by the thread
that kicked: `Look` tests the flags without the lock, `BeginWork` takes the lock,
`Reread` and `StoreMerged` are the two halves of `StoreContextMerged`. The guest's
`ReadData` and `StoreEdit` are a read and a write of the data with no lock at all.
What a decode consumes is any subset of the valid buffers. `offered` and `late` are history:
every buffer the guest marked and no decode has consumed, and those among them that it marked
between `Reread` and `StoreMerged`.

### `AudioSystem`, `AudioPermits`, `AudioProofs`

A client's semaphore holds permits for frames. The worker takes one
(`WorkerTakesPermit`, the lowest signalled handle, as `WaitAny` does), reads the
client's callback (`WorkerReads`) and calls it with no lock held
(`CallbackReturns`); the guest owes a frame and submits it; the device plays it
and gives the permit back (`SDLCallback`). `RegisterClient` and `UnregisterClient`
fill and drain the semaphore. `carried` is history: the registrations that began with
permits of an earlier one about. `Pause` to `TerminateWorker` are the controlling
thread, step by step. `AudioPermits` is the state of the clients with the two invariants,
apart from the steps, for `AudioSystem` and for `AudioProofs`.

The `MC...` modules give the constants their values. `TypeOK` says in each module
what the variables range over; it is proved for each of them (`TypeCorrect`,
`ThreadTypeCorrect`, `AudioTypeCorrect`) and so is not an `INVARIANT` of the configurations.

## Runs

| Run | Properties | What it shows |
| --- | --- | --- |
| `timer_queue` | `NoCallbackAfterDisarm`, `NeverPopsRunningItem`, `ImplementsService`, `ArmedItemFires`, `CallsReturn` | after `Disarm` returned the callback is over for good, whoever won the compare-exchange; the assertion of `timer_queue.cpp:117` holds; each step is a step of one phase of one item; no item is lost between ring, wait queue and merge, with slots published out of order by two threads; no wait on an atomic misses its notification, and the destructor's kick gets through |
| `guest_timer` | `CancelSilences`, `CallbackIsOwn`, `SignalIsCurrent`, `TimerQueuesItsOwnApc`, `CallsReturn` | for both clients of a timer: the callback that runs belongs to the activation that came due, from whichever side the timer is set again; nothing is called or signalled after `Cancel`; the order of `Cancel` and mutex in `SetOnce` avoids a deadlock with the routine; an APC has the routine and argument of the activation that came due, and none is queued after `Cancel`, although the callback reads fields that `SetTimer` overwrites |
| `host_thread` | `NoCodeWhileSuspended`, `TokensMatchWaits`, `SuspensionTakesEffect`, `CallsComplete` | suspend count, signals under way and semaphore tokens agree at every step; a suspended thread stops and a resumed one runs; terminated threads end, in the signal handler too, and everybody who waits for them returns, but for two cases, given by name, in which the code blocks |
| `host_thread_lost_resume` | violates `CreatedThreadStarts` | a resume between the two critical sections of the thread's start is lost |
| `host_wait` | `SleepersAreNotMissed`, `ImplementsObjects`, `WaitsMoveOn` | polls in opposite lock order neither deadlock nor take half of what they wait for; every sleeper is woken by whatever can satisfy it; timeouts and user callbacks end alertable waits |
| `read_write_lock` | `CountsAgree`, `NoOvertaking`, `WaitersAreServed`, `LockImplemented` | exclusion and exact counters although signals are given outside the spin lock; nobody passes a waiting writer; a free lock with waiters is taken; a writer without rivals gets in |
| `critical_section` | `SectionImplemented`, `WaiterIsLetIn` | one thread is inside at any time, between the steps of entering and leaving too; if those inside leave, every time threads wait one of them is let in |
| `object_table` | `ReferencesCounted`, `AddedHandleStaysOpen`, `NamesLeadToNamed`, `SomebodyMoves` | pointer counts are exact, so no deleted object is used and none leaks; no call closes another owner's handle; no name outlives its object; the two mutexes never deadlock |
| `deferred_completion` | `SleeperIsHinted`, `BlocksInOnePlace`, `NoticeMeansComplete`, `RequestCompletes`, `DispatchEnds` | an alertable wait sleeps over an APC only in the cases the code gives no hint for; APC blocks are freed once; the guest is told of a completion when the result is there, unless it used the structure again before the worker had read whom to tell, and every request is completed; the dispatch thread ends but for one order of steps |
| `xma_decoder` | `FreshContextIsFree`, `OfferedBuffersStay`, `KickIsTaken`, `PausedWorkerIsStill`, `PauseAndStopTakeEffect` | allocation never hands out a context in use; buffers offered during a decode survive it, unless they are marked between the read and the write of the store that ends it; a kick during the worker's decode is not lost; pause and shutdown take effect and lose no wake-up |
| `xma_disabled_context` | violates `DisabledContextIsQuiet` | a worker between its test of `is_enabled_` and the lock decodes a context that has been disabled |
| `audio_system` | `PermitsInCirculation`, `PausedWorkerCallsNobody`, `PauseAndStopTakeEffect` | a client has exactly `queued_frames_` permits over registrations and removals, unless its registration began with permits of an earlier one; pause holds; shutdown ends the worker wherever it is |

Run one with, for example, `tlc -config TimerQueue.cfg MCTimerQueue`.

## Bounds

* **Timer queue.** Three items: a recurring one that one client queues, and two
  single-shot ones that another client queues before and after it, so that the two
  clients publish their slots in another order than they claimed them while an item waits
  in each; callbacks queue one of them too. One client and the callbacks disarm two of
  them, so that no two clients wait for the same item at once; `TimerQueueProofs` is for
  any number of clients. The ring has four slots, enough for the items and the kick; what a
  full ring does is below. `MaxLate` 0: the clock waits for an item that is due, which still
  lets one with a later time overtake it between ring and wait queue. `MaxSelfDisarm`
  bounds calls of one callback.
* **Timers.** Three activations are the least in which an owner sets a
  timer, sets it again and its callback sets it once more; two are recurring.
  A callback makes at most one call. `Uses` says who makes the calls: one thread sets
  the timer at a time, and another one cancels it. For the guest's timer three
  stores are the least in which a field can be overwritten twice before it is read.
* **Host thread.** One suspension in force at a time, one wait, two terminations;
  two controllers, so that each call overlaps with another one. A thread is
  suspended now and then and never ends, or is suspended once and may end by itself
  meanwhile, or is created suspended, resumed and ends (`ServedOrStarted`); what the
  other combinations show is below.
* **Host waits.** One object of each kind and two threads with two calls each.
  `OverlappingWaits` has polls for all of the same objects in opposite orders, a
  poll for any of two, sleepers on each object a poll takes, timed and alertable
  forms.
* **Reader-writer lock.** Five threads: a writer inside, a writer waiting, a
  reader inside with one waiting, and one that arrives. `Word` 8 stands for 2^32
  and is larger than any count of threads, as 2^32 is.
* **Deferred completions.** One structure, which asks each time for an event or for a
  routine, so that the worker can find another request in it than the one it completes; with
  two, whose events and routines do not meet, the state is four times as large. A structure
  used again like that (`reused`) is not used a third time (`Lasting` is empty), which would
  take a block for each time. One APC of another thread at a time, one APC of the guest's own,
  and at most one hint waiting when an APC is asked for (`MaxHints`): two APCs on the list at
  once, from two senders. Allocation does not fail. The guest clears the event of a structure
  before it submits it. The proofs are for any structures, requests and uses.
* **XMA decoder.** Two contexts, so that the worker's sweep leaves one and comes
  back, and one buffer of each kind. One guest edits, kicks, disables and
  releases; the other allocates and releases, which is what it takes to race for
  a context. The proofs are for any number. Disabling needs one of each.
* **Audio.** Two slots and two permits each: the worker prefers one client, and a
  client can have a permit with the worker and one with the device. Any registration may fail.
* **Critical section.** Three threads, so that two wait while one is inside; each
  enters up to twice, and looks once (`SpinCount`) before it counts itself.
* **Object table.** Three threads, three objects, three handles, one name;
  threads are symmetric. Slots are not used twice (`MaxCalls < Capacity`).

## Fairness

Fairness is that of a scheduler: a thread that can take a step for ever takes it
(weak fairness), for the dispatch thread, the clock, the thread in a call,
signal delivery, the wake-up of a waiter. Calls are never forced to begin.
Strong fairness is assumed in these places:

* `DisarmReturn` and `WaitReturns` of `TimerQueue`: for a recurring item the
  window between two callbacks opens again and again, as long as the interval is.
  `state_.wait` returns on any change, and the next attempt may find the item
  running again; nothing in the code excludes that this goes on for ever, but
  only a scheduler that always picks the same losing instant would do it.
* `RoutineGoesOn` and `CallGoesOn` of `MCGuestTimer`, `CallStep` of `HostThread`: the steps
  take a mutex others release again and again.
* `DeadlinePasses`, `TimeRunsOut` and `PollExpires` of `HostWait`: time passes
  however often the thread is woken before.
* `WorkerStep` and `CallGoesOn` of `XmaDecoder`: the steps take a context's lock,
  which a guest that kicks takes and releases again and again.
* `WorkerTakesEvent` of `AudioSystem`: the wait finds the event whenever no client
  has a permit; `PauseAndStopTakeEffect` supposes that this happens again and again.

`ReadWriteLock` has weak fairness of wake-ups, and of `Release`: a holder lets the lock go in the
end. `GuestThread`, `Dispatch` and the destructor of `DeferredCompletion` are weakly fair: a call or
a delivery that has begun goes on, and the worker works. `CriticalSection` has weak fairness of the
calls that have begun; that those inside leave is a premise of `WaiterIsLetIn`. `ObjectTable` is
checked for safety without fairness; it and `CriticalSection` are checked for the absence of
deadlock. `CHECK_DEADLOCK FALSE` is given where the system may rightly stop: the queue has been shut
down, the thread has ended, the calls a bound grants are made, threads wait that nobody signals, or
a writer abandoned the lock.

## Proofs

Each safety invariant and refinement that a passing run checks is a theorem here, for all values of
the constants its module's assumption admits, with one exception: `SomebodyMoves` is about `ENABLED`,
and `LocksDoNotDeadlock` proves what it says of the two locks. Each argument is an inductive invariant,
`IInv`, of named parts; TLC checked the parts on the run's instance before they were proved.

**`TimerQueueProofs`**, for any set of items, of clients and of delays, any
intervals and ring size (`TimerQueueAssumption`): `TypeCorrect`,
`DisarmStopsCallbacks` (`NoCallbackAfterDisarm`), `NoArmedItemIsLost`, `PopAssertionHolds`
(`NeverPopsRunningItem`), `DisarmedForever` (`DisarmIsFinal`) and
`ServiceImplemented` (`ImplementsService`: the queue implements `TimerService`
step by step).

None of these is inductive. The heart of `IInv` is `RunningIffInCallback`: an item is
in a running state exactly while it is the one whose callback the dispatch
thread is in. It follows that the dispatch thread's plain stores only ever
overwrite a running state, so a `kDisarmed` written by someone else survives.
`LeavesAsMarked` ties what the dispatch thread read after the callback to the state it is
about to overwrite; `ArmedItemsAreHeld`, the safety half of `ArmedItemFires`, says that an item that is
armed is in the hands of the thread that queues it, in a slot, in the wait queue or with the
dispatch thread, whatever the order of the slots; `HeldAreQueued`, `NewAreIdle`, `CallsAreAboutItems` and
`KickIsDisarmed` keep items that were never queued, and the kick, out of the
callbacks.

**`ReadWriteLockProofs`**, for any finite set of threads with
`Cardinality(Threads) + 1 < Word` (`ReadWriteLockAssumption`; the code has 2^32):
`TypeCorrect`, `Exclusion` (`ReadersOrOneWriter`), `CountersRight` (`CountsAgree`),
`WritersNotPassed` (`NoOvertaking`) and `ImplementsReadersWriters` (`LockImplemented`).

`IInv` is an accounting: every holder and waiter is in `lock_count`, every waiting
writer is in `writers_waiting_count` or has its signal in the event or on the
way, every reader let in and not yet inside has its token in the semaphore or in
the hand of the thread about to release it (`Balance`, `InUse`). The lock that a
writer abandoned (`readers_entry_count` wrapped to 2^32-1) breaks part of it, and is
the second case, `Lost`; exclusion holds in both. The first half of the module
is lemmas on counting threads by place when one of them moves.

**`CriticalSectionProofs`**, for any finite set of threads and any spin count
(`CriticalSectionAssumption`): `ImplementsRecursiveLock` (`SectionImplemented`),
`AssertionHolds` (the assertion at `xboxkrnl_rtl.cpp:405`) and `TypeCorrect`.

`IInv` follows a grant, the right to be inside: the owner has it, a thread between the
steps of entering or of leaving, or the event. There is one or none, none exactly if
`lock_count` is -1 (`OneGrant`); `Balance` says what `lock_count` counts, which is what
makes the test in `Leave` right about waiters. Neither is inductive without the other.

**`AudioProofs`** has two parts. The first is about `XmaDecoder`, for any number of contexts and any
sets of buffers and guests (`XmaDecoderAssumption`): `TypeCorrect`, `FreshContexts`
(`FreshContextIsFree`), `OffersKept` (`OfferedBuffersStay`), `KicksTaken` (`KickIsTaken`), `PauseHolds`
(`PausedWorkerIsStill`), and `OneDecoder`, that no two threads decode one context.

`IInv` has one part for each: `Ownership` ties the bit of a context, its flag and its
owner together over the two steps of allocation and of release; `Locks` says that who
decodes has the lock; `Offers` extends `OfferedBuffersStay` to every copy of the data that
is going to be written back, the guest's and the decoder's, which is why neither
write loses an offer that did not come too late; `Kicks` says that from `Enable` on the context
is enabled or has been read; `Handshake` follows the two fences through the controlling thread's places.

The second part is about `AudioSystem`, the instance `Audio`, for any set of slots and number of frames:
`AudioTypeCorrect`, `PermitsKept` (`PermitsInCirculation`) and `AudioPauseHolds`
(`PausedWorkerCallsNobody`). An instance does not bring its assumption with it, so
`AudioSystemAssumption` is a hypothesis of each. `PermitsInCirculation` is not inductive:
`EmptySlots` says that an empty slot has no permits but those of a failed registration, and
`Accounts` that a worker in the callback of a client that is gone can only meet a client whose
registration is in `carried`. For those it still bounds the permits by one more than
`queued_frames_`, which `AudioTypeCorrect` needs.

**`HostWaitProofs`**, for any sets of threads, events, semaphores and mutants, any
requests and semaphore limits (`HostWaitAssumption`, which also says that an object has
one type), as long as no thread releases a mutant it does not own (`~ForeignReleases`):
`TypeCorrect`, `NoSleeperMissed` (`SleepersAreNotMissed`), `OwnersAreRecorded`
(`Ownership`) and `ObjectsImplemented` (`ImplementsObjects`: the host's objects implement
`DispatcherObjects` step by step). The hypothesis is the one the configuration makes
(`ForeignReleases` FALSE): `Mutant::Release` reads owner and count outside the mutex.

`IInv` adds to the types where each thread is with which request (`Places`: only a wait
for one object sleeps) and `Ownership`: owner and count of a mutant are what its owner has
acquired, and who is about to release one has it. With that, no step of one thread takes an object away from
the owner who is between its read and its release, and `SleepersAreNotMissed` has only
the signalling steps to look at, each of which notifies in the critical section
in which it signals. The refinement maps the last step of a wait, and no earlier
one, to the abstract wait.

The last part is about `HostThread`, the instance `Thread`, for any finite set of controllers
(`HostThreadAssumption`): `ThreadTypeCorrect`, `SuspendedRunsNothing` (`NoCodeWhileSuspended`) and
`TokensAgree` (`TokensMatchWaits`). All three follow from counting `SemWaits`, the waits on
`suspend_sem_` that are under way or still to come: a call about to send the signal, a signal sent,
the handler, a thread that suspends itself. `ServedCounts` says that these are never fewer than the
tokens and the suspensions in force together; so with a suspension in force and no signal on its
way the thread is in one of these waits and runs nothing. It needs no bound on nesting: a nested
`Suspend` adds a wait, and a `Resume` that leaves the count above zero adds no token. What it needs is
that a thread created suspended is not suspended again (`CreatedNotSuspended`): the first resume
of such a thread posts a token that nobody waits for. For it, `CreatedHeld` shows that the documented
count is zero once the routine runs. The exact balance, `TokensKept`, needs in addition one suspension at
a time (`MaxNesting <= 1`, where nested ones leave waits without a token, see the hazard at
`threading_posix.cpp:837`) and that a thread which is suspended does not end by itself (`ServedForever`);
`TokensMatchWaits` excludes threads that have been terminated. The configuration `HostThread.cfg` meets
all three hypotheses.

**`GuestTimerProofs`**, about `PosixTimer` and `GuestTimer`, for any number of activations
and of threads: `TypeCorrect`, `CancelIsSilent` (`CancelSilences`), `CallbacksAreOwn`
(`CallbackIsOwn`), `SignalsAreCurrent` (`SignalIsCurrent`) and `TimerQueuesOwnApc`
(`TimerQueuesItsOwnApc`). Each says `Spec /\ []SetsDoNotOverlap => ...`: the calls that set one
timer are not made at the same time, which the code leaves to the caller (two that
overlap disarm the same item and queue two). Three theorems discharge that hypothesis for the clients of
`MCGuestTimer`: it holds when one thread sets the timer (`OneThreadSets`,
`OneGuestThreadSets`), and when one thread sets it once and its callback sets it again
(`CallbackSetsAgain`: `mutex_` keeps the callback from being called before that first
call is done).

The heart of `IInv` is `OneLive`: the only wait item that can fire is the one `callback_` was
installed with. A call that installs another has disarmed `wait_item_`, which
`CallsPlaced` says was the only one there was to disarm; `RoutinePlaced` keeps such calls out while
the item's routine runs, so that what it copies and signals is its own; `Cancels` follows a
`Cancel` that no set overlaps to the end of the silence it promises. The proofs take
the items from `TimerService`, and `TimerQueueProofs` shows that the queue provides
that service. For the guest's timer, `Stored` adds that the two fields of `XTimer` belong to
the same `SetTimer` whenever its item is armed or its routine runs.

**`ObjectTableProofs`**, for any finite sets of threads and objects, any names, and
the first `MaxCalls` calls that add a handle, which have a slot of their own each
(`ObjectTableAssumption`; once the cursor has come round, a late close releases another
object's handle, see the hazard at `object_table.cpp:115`): `TypeCorrect`, `ReferencesExact`
(`ReferencesCounted`), `DeletedStaysDeleted`, `AddedHandlesStayOpen`
(`AddedHandleStaysOpen`) and `NamesAreNotDangling` (`NamesLeadToNamed`). `DeletedStaysDeleted` is
an action property no run checks: no step retains an object whose count is zero.

The code reads a handle in one critical section, or in none, and uses it in the next. What makes
that right is `SlotsUsedOnce`: the slots up to some n have been used, each once, and neither a call
nor a name knows another one, so that a slot a call has read either still holds the object it held
or is empty (`KnownKept`). `CallsKnow` says which object that is, and `HandlesAgree` that an object
that is not duplicated has one slot and that `handles_[0]` reads it, even when the vector is empty.
`CountsKept` then follows step by step (`CountMoves`): the count of a slot is the number of calls
that will give one back, so that who finds a count of one is the only one that has it, and
`AddedHandleStaysOpen` follows (`OpenNotCleared`). Of a duplicated object neither holds, which is
why both leave it out. `NewIsPrivate` (nobody knows an object that has no name yet) serves
`NamesLeadToNamed`. `ReferencesCounted` too follows step by step: a step changes the count of an
object by as much as the slots and calls that have it (`RefsMove`), given `Places`, `HandlesAgree`
and what `CallsKnow` of the call that moves.

`LocksDoNotDeadlock` is about the order of the two locks: the calls under way never all wait for
them, whatever their number (`NotAllWait`). `RemoveHandle` waits for `name_mutex_` with the global
lock held; `MutexHeld` says that `name_mutex_` is held over a step only by the lookup of a name,
which does not wait for the global lock until it has let it go.

**`DeferredCompletionProofs`**, about `GuestApc` and `DeferredCompletion`, for any sets of blocks, of
APCs of the guest and of overlapped structures, and any number of hints (`GuestApcAssumption`,
`DeferredCompletionAssumption`; the APCs come from two senders, the dispatch thread and one other):
`TypeCorrect`, `SleeperIsTold` (`SleeperIsHinted`), `BlocksFreedOnce` (`BlocksInOnePlace`), `NoticesAreTrue`
(`NoticeMeansComplete`), `WorkerTakesAnEntry`, `RequestsKept` and `ResultsInOrder`. The last three no run
checks. `RequestsKept` is the safety half of `RequestCompletes`: a pending structure is being queued, on the
list or in the worker's hands, and a complete one has its event set or its routine on the way, unless
its thread is exiting; a structure in `reused` is no exception. `ResultsInOrder` is an action
property: a structure goes from free to
pending to complete to free and in no other order. `WorkerTakesAnEntry` is why `pop_front` never meets
an empty list although the worker waits once and not in a loop; it holds for a condition variable
without spurious wake-ups only.

Everything here is in one place at a time, and the list must hold nothing twice for that to survive
an insertion; so the proof begins with lemmas on what a list holds after each operation (`AfterAppend`,
`AfterTail`, `AfterRemoveFirst`). `BlocksAccounted` divides the allocated blocks between senders, list and
delivery. `PendingOnce` does so for structures on their way to the worker, `ToldOnce` on their way
back: a structure that no notice is out for may be told, no two blocks tell of the same one, and a free
block calls nothing, since its next sender overwrites it. `HintsComing` follows an APC's hint from
the sender through the host's queue into the wait that uses it up, where `silent` names the APCs that
the code gives none. `WorkerFinds` says that the worker past its test or its wait has an entry or
the stop flag. `NothingLost` is `RequestsKept` itself, inductive with the others.

What stays with TLC: the liveness properties, which need fairness; `SomebodyMoves`; and the absence of
deadlock in the runs that check it.

## Where code and documentation disagree

Two runs show the program doing what a comment says it does not; `PROJECT.json`
has the quotations. Assertions that fail in orders of steps which a property excepts by name are
in the next section: the two of the audio system, and the one of the object table.

1. `threading_posix.cpp:1327`: a thread created suspended can lose the resume
   that follows its creation (`host_thread_lost_resume`).
2. `xma_context.cpp:105`: `Work` tests `is_enabled_` without the lock and not again
   with it, so that a decode can begin after `XMADisableContext` has returned
   (`xma_disabled_context`).

## What the bounds keep out

The models show more when a bound is lifted or a property is stated without its
exception:

* A callback may disarm its item and return immediately, says `timer_queue.h:41`.
  The second `Disarm` of one callback blocks for ever (`MaxSelfDisarm` 2), as does
  `Timer::Cancel` followed by `SetOnce` in a callback.
* With the ring full at shutdown (`RingSize` 2) the dispatch thread sees the stop
  token and exits before the destructor's kick finds a slot: the destructor hangs.
  A callback that queues an item while the ring is full waits for a slot only
  its own thread can free.
* Two threads that set one timer at the same time can leave two activations. The
  timer's destructor (`threading_posix.cpp:501`) disarms one item; while the
  callback sets the timer again, the routine of the other item still runs.
* `Mutant::Release` reads the owner outside its mutex (`threading_posix.cpp:469`): with
  `ForeignReleases` TRUE a release by a former owner takes the mutant from the
  present one.
* While a `SetTimer` is under way the APC of the old activation may have the new
  routine and the old argument, or the other way round.
* Suspensions of one thread that nest, or a `Suspend` of a thread created
  suspended: `Suspend` adds tokens and waits in numbers that no longer agree.
* A `Suspend` whose signal arrives while the thread ends stops it with
  `state_mutex_` held, and `Resume` waits for that mutex (`SuspendedWithMutex`); or it finds
  `kFinished` stored, and a `Resume` then posts no token (`EndedWhileSuspended`).
* `Resume` and `Suspend` of a thread that has not started sleep on `state_signal_` until it has
  (lines 910 to 913). `Terminate` of such a thread stores `kFinished` (line 885), cancels it
  and notifies nobody: they sleep for ever (`NeverNotified`). `CallsComplete` and
  `SuspensionTakesEffect` name these three, and fail without them in the run's instance.
* A second wait on a thread joins it twice; `Terminate` may cancel a thread that
  a waiter has joined.
* Two rival pollers can fail each other's `try_lock` for ever without looking at their
  deadline; `TimedWaitReturns` and `CallbackIsDispatched` leave out the time in
  which another thread polls. A poll that names an object twice never succeeds.
* `Pulse` is missed by pollers and between the slices of alertable waits.
* A writer that leaves the reader-writer lock while another writer and no reader
  waits finds `readers_entry_count` zero and decrements it (line 1331): the lock is lost to
  everybody who waits. `LockMovesOn` and `LoneWriterServed` name this state, `Abandoned`.
* `NAME_EXISTS` returns `handles_[0]` of the moment. If the object was duplicated,
  that handle can be the duplicate's, and its owner closes it under the caller
  (`AddedHandleStaysOpen` excludes duplicated objects); it can also be a handle
  that has just been closed. Removing any handle removes the object's name. The
  lookup of a name and its creation are separate (`xboxkrnl_threading.cpp:502`), so
  that two threads can create two objects of one name.
* `DUPLICATE_CLOSE_SOURCE` removes the source handle whatever its count: the assertion
  at `object_table.cpp:207` fails in a build that has assertions, and a thread that
  got the same handle by `NAME_EXISTS` finds it closed.
* `~KernelState` clears the running flag and notifies without the lock of the
  dispatch thread, which tests the flag before it waits: notified in between, it
  sleeps on, and the destructor waits for it (`missed`).
* The dispatch thread waits once and not in a loop: after a spurious wake-up it would
  take an entry from an empty queue. `WakeUp` is by notification only.
* `KeInsertQueueApc` gives no hint, and a wait in a critical region uses the hint up:
  such APCs wait for the next delivery (`silent`). APCs queued after the rundown of
  a thread are never delivered nor freed.
* `CompleteOverlappedEx` stores the result, sets the event and reads the routine in this
  order (`kernel_state.cpp:1156` to `1162`), each from the structure as it is then. A guest that
  waited for the event, or found the result in `XamGetOverlappedResult`, and submits the
  structure again at once is told of the new request while that is pending, by its event or
  by an APC. `NoticeMeansComplete` names the structures so used (`reused`).
* XMA: the write of `StoreContextMerged` undoes what the guest stores after its read
  (`xma_context.cpp:418` to `438`). A buffer marked there is lost until it is marked again:
  `OfferedBuffersStay` names these buffers (`late`) and fails without the exception. A guest's
  read and write around a decode makes a consumed buffer valid again. Offsets are
  not merged at all.
* Audio: two registrations do not begin with `queued_frames_` permits, and each makes an assertion
  fail in a build that has assertions; `PermitsInCirculation` names them (`carried`) and fails
  without either. In the first the worker takes a client's permit from the semaphore
  (`audio_system.cpp:105`), the client is unregistered and the slot registered anew, and the
  worker reads the new client's callback (line 134) and calls it: there is one permit too many,
  and when the device gives it back to a full semaphore, the assertion at
  `sdl_audio_driver.cpp:263` fails. In the second `CreateDriver` fails (line 234) after the permits
  were released; the worker takes some of them and finds no callback, and the next
  registration's `Release` is refused (line 230).
* A stream that takes no data (`sdl_audio_driver.cpp:255` to `258`) loses a permit (`lost`); a
  callback may be called after its client is gone; `Pause` waits as long as permits do not
  run out.

## What is not modelled

* `XObject::Delete`, which nothing calls, recycled slots, growth, `Reset`,
  `PurgeAllObjects` and save states of the object table: sequential, or paths the
  runtime takes when nothing else runs.
* Spurious wake-ups of `state_signal_`. A suspend signal that arrives before the thread has set
  `current_thread_` is ignored by the handler; the model leaves it pending. Both matter only
  for a thread that is terminated before it starts.
* The recovery of a mutex whose owner was cancelled, and a lock that fails for another reason
  (`threading_posix.cpp:248` to `253`, `303`): in `HostWait` threads do not end within a call.
* `SetTimer` without a routine, which gives the host timer no callback (`xtimer.cpp:66`), and the
  thread the APC goes to (line 61), which is stored and read like the routine.
* `AudioSystem::Shutdown` destroys the drivers one by one without the lock (lines 207 to 215);
  `DestroyDrivers` is one step, which supposes that nobody registers, unregisters or submits then.
* Host thread names, priorities, affinity; user callbacks are a count in `HostWait`.
* The guest's own suspend count (`xthread.cpp:1068`), thread creation and TLS; kernel
  APCs, which the code only runs down; APCs that a routine under way delivers
  itself; allocation that fails. The test of `needs_freeing` in `DeliverAPCs`
  (line 749) is the opposite of the one in `RundownAPCs` (line 818): it frees
  the address of an APC that the guest owns, which the system heap does not know.
* The lock-free list of guest memory. Flushing it sets its sequence number back to zero
  (`xboxkrnl_threading.cpp:1399`), so that a pop that was under way may find header and sequence
  as it read them and take an entry that was freed.
* Title termination, notification listeners and start-up of `KernelState`.
* Samples, packets, offsets and loops of the XMA decoder; save states of both audio parts.
* Windows host threading: thin calls of system objects.
* Memory heaps, module loading, decompression, virtual file system, graphics, UI, input,
  configuration, recompiler, XAM: sequential transformations, host
  input and output, or large data with little interleaving of its own. See the
  notes of `PROJECT.json`.

## Plan

Order of the modules, most important first; those done are marked.

1. `TimerQueue` over `TimerService`, with proofs (done); `PosixTimer` on
   `TimerService` (done); `GuestTimer` on `PosixTimer`, with proofs of both (done).
2. `HostThread`; `HostWait` over `DispatcherObjects`; with proofs of both (done).
3. `ReadWriteLock` over `ReadersWriters`, with proofs (done).
4. `ObjectTable`, with proofs (done); then slot reuse.
5. `GuestApc` and, on it, `DeferredCompletion`, with proofs (done).
6. `XmaDecoder` and `AudioSystem`, with proofs (done).
7. `CriticalSection` over `RecursiveLock`, with proofs (done).
8. The guest's suspend count over `HostThread`; notification listeners; the lock-free list with
   its sequence number (`xboxkrnl_threading.cpp:1399`).

Questions that ask the same instance share a run, so that new modules replace weak properties
by strong ones.

Theorems worth proving next: what still holds of the counters of `HostThread` when suspensions nest
(`TokensAgree` supposes that they do not); that of `ObjectTable` with slots used again, where the
theorems on handles need a premise in place of `MaxCalls < Capacity`; several clients of one
`PosixTimer` whose calls a lock of their own keeps apart, a third way to discharge `SetsDoNotOverlap`.
