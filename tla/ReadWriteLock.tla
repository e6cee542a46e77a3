--------------------------- MODULE ReadWriteLock ---------------------------
(***************************************************************************)
(* The guest's reader-writer lock, X_ERWLOCK and the Ex...ReadWriteLock    *)
(* exports (src/src/kernel/xboxkrnl/xboxkrnl_threading.cpp).               *)
(*                                                                         *)
(* Every operation works on four counters under the lock's spin lock, one  *)
(* step here, and only then, with the spin lock released, waits for the    *)
(* writer event or the reader semaphore, or signals it: one more step,     *)
(* with steps of other threads in between.  A thread releases the lock     *)
(* only if it holds it.                                                    *)
(***************************************************************************)
EXTENDS Integers, FiniteSets

CONSTANTS
  Threads,   \* the guest threads that share the lock
  Word       \* the number of values of the unsigned counters, 2^32

ASSUME ReadWriteLockAssumption ==
  /\ IsFiniteSet(Threads)
  /\ Word \in Nat /\ Cardinality(Threads) + 1 < Word

VARIABLES
  lockCount,        \* lock_count: holders and waiters, less one
  writersWaiting,   \* writers_waiting_count
  readersWaiting,   \* readers_waiting_count
  readersEntry,     \* readers_entry_count: readers inside or let in
  writerEvent,      \* the signal state of writer_event, an auto-reset event
  readerSemaphore,  \* the count of reader_semaphore
  pc,               \* where every thread is
  letIn             \* the local readers_waiting_count of a release

counters == <<lockCount, writersWaiting, readersWaiting, readersEntry>>
signals == <<writerEvent, readerSemaphore>>
vars == <<counters, signals, pc, letIn>>

\* wantWrite, wantRead: waiting; write, read: holding the lock; wakeWriter,
\* wakeReaders: in ExReleaseReadWriteLock, about to signal.
ThreadPc == {"out", "wantWrite", "wantRead", "write", "read", "wakeWriter", "wakeReaders"}

Threads_at(l) == {t \in Threads : pc[t] = l}
Count(l) == Cardinality(Threads_at(l))

Counter == 0 .. Word - 1
Inc(n) == IF n = Word - 1 THEN 0 ELSE n + 1
Dec(n) == IF n = 0 THEN Word - 1 ELSE n - 1

TypeOK ==
  /\ lockCount \in -1 .. Cardinality(Threads) - 1
  /\ writersWaiting \in Counter /\ readersWaiting \in Counter /\ readersEntry \in Counter
  /\ writerEvent \in BOOLEAN
  /\ readerSemaphore \in Nat
  /\ pc \in [Threads -> ThreadPc]
  /\ letIn \in [Threads -> Counter]

\* ExInitializeReadWriteLock.
Init ==
  /\ lockCount = -1
  /\ writersWaiting = 0 /\ readersWaiting = 0 /\ readersEntry = 0
  /\ writerEvent = FALSE /\ readerSemaphore = 0
  /\ pc = [t \in Threads |-> "out"]
  /\ letIn = [t \in Threads |-> 0]

Move(t, from, to) == pc[t] = from /\ pc' = [pc EXCEPT ![t] = to]

-----------------------------------------------------------------------------
(* ExAcquireReadWriteLockExclusive and ExTryToAcquire...Exclusive.          *)

AcquireExclusive(t) ==
  /\ lockCount' = lockCount + 1
  /\ IF lockCount' = 0
     THEN Move(t, "out", "write") /\ UNCHANGED writersWaiting
     ELSE Move(t, "out", "wantWrite") /\ writersWaiting' = Inc(writersWaiting)
  /\ UNCHANGED <<readersWaiting, readersEntry, signals, letIn>>

\* A call that returns 0 changes nothing.
TryToAcquireExclusive(t) ==
  /\ lockCount < 0
  /\ lockCount' = 0
  /\ Move(t, "out", "write")
  /\ UNCHANGED <<writersWaiting, readersWaiting, readersEntry, signals, letIn>>

\* The writer event is an auto-reset event: one wait takes the signal.
WriterWakes(t) ==
  /\ writerEvent
  /\ writerEvent' = FALSE
  /\ Move(t, "wantWrite", "write")
  /\ UNCHANGED <<counters, readerSemaphore, letIn>>

-----------------------------------------------------------------------------
(* ExAcquireReadWriteLockShared and ExTryToAcquire...Shared.                *)

\* Mutant: readers pass the writers that wait.
SharedPastWriters(t) ==
  /\ lockCount' = lockCount + 1
  /\ IF lockCount' = 0 \/ readersEntry # 0
     THEN /\ Move(t, "out", "read")
          /\ readersEntry' = Inc(readersEntry) /\ UNCHANGED readersWaiting
     ELSE /\ Move(t, "out", "wantRead")
          /\ readersWaiting' = Inc(readersWaiting) /\ UNCHANGED readersEntry
  /\ UNCHANGED <<writersWaiting, signals, letIn>>

AcquireShared(t) ==
  /\ lockCount' = lockCount + 1
  /\ IF lockCount' = 0 \/ (readersEntry # 0 /\ writersWaiting = 0)
     THEN /\ Move(t, "out", "read")
          /\ readersEntry' = Inc(readersEntry) /\ UNCHANGED readersWaiting
     ELSE /\ Move(t, "out", "wantRead")
          /\ readersWaiting' = Inc(readersWaiting) /\ UNCHANGED readersEntry
  /\ UNCHANGED <<writersWaiting, signals, letIn>>

\* Mutant: a lock with one holder counts as free.
TrySharedAtZero(t) ==
  /\ lockCount <= 0
  /\ lockCount' = lockCount + 1
  /\ readersEntry' = Inc(readersEntry)
  /\ Move(t, "out", "read")
  /\ UNCHANGED <<writersWaiting, readersWaiting, signals, letIn>>

TryToAcquireShared(t) ==
  /\ lockCount < 0 \/ (readersEntry # 0 /\ writersWaiting = 0)
  /\ lockCount' = lockCount + 1
  /\ readersEntry' = Inc(readersEntry)
  /\ Move(t, "out", "read")
  /\ UNCHANGED <<writersWaiting, readersWaiting, signals, letIn>>

ReaderWakes(t) ==
  /\ readerSemaphore > 0
  /\ readerSemaphore' = readerSemaphore - 1
  /\ Move(t, "wantRead", "read")
  /\ UNCHANGED <<counters, writerEvent, letIn>>

-----------------------------------------------------------------------------
(* ExReleaseReadWriteLock, one action for each of its returns.              *)

Releases(t, to) ==
  /\ pc[t] \in {"read", "write"}
  /\ pc' = [pc EXCEPT ![t] = to]
  /\ lockCount' = lockCount - 1

ReleaseFree(t) ==
  /\ Releases(t, "out")
  /\ lockCount' < 0
  /\ readersEntry' = 0
  /\ UNCHANGED <<writersWaiting, readersWaiting, signals, letIn>>

ReleaseToReaders(t) ==
  /\ Releases(t, "wakeReaders")
  /\ lockCount' >= 0 /\ readersEntry = 0 /\ readersWaiting # 0
  /\ readersWaiting' = 0
  /\ readersEntry' = readersWaiting
  /\ letIn' = [letIn EXCEPT ![t] = readersWaiting]
  /\ UNCHANGED <<writersWaiting, signals>>

\* Neither the last reader nor a writer that readers wait for.
NotTheLast == lockCount' >= 0 /\ ~(readersEntry = 0 /\ readersWaiting # 0)

\* Readers remain inside; or a writer leaves, no reader waits, and the count
\* of readers inside goes below zero.
ReleaseToOthers(t) ==
  /\ Releases(t, "out")
  /\ NotTheLast
  /\ readersEntry' = Dec(readersEntry) /\ readersEntry' # 0
  /\ UNCHANGED <<writersWaiting, readersWaiting, signals, letIn>>

\* Mutant: the last reader leaves without a word to the writer.
ReleaseSilently(t) ==
  /\ Releases(t, "out")
  /\ NotTheLast
  /\ readersEntry' = Dec(readersEntry) /\ readersEntry' = 0
  /\ UNCHANGED <<writersWaiting, readersWaiting, signals, letIn>>

\* Mutant: the writer that is let in is still counted as waiting.
ReleaseToWriterUncounted(t) ==
  /\ Releases(t, "wakeWriter")
  /\ NotTheLast
  /\ readersEntry' = Dec(readersEntry) /\ readersEntry' = 0
  /\ UNCHANGED <<writersWaiting, readersWaiting, signals, letIn>>

ReleaseToWriter(t) ==
  /\ Releases(t, "wakeWriter")
  /\ NotTheLast
  /\ readersEntry' = Dec(readersEntry) /\ readersEntry' = 0
  /\ writersWaiting' = Dec(writersWaiting)
  /\ UNCHANGED <<readersWaiting, signals, letIn>>

\* xeKeReleaseSemaphore and xeKeSetEvent, outside of the spin lock.
WakeReaders(t) ==
  /\ Move(t, "wakeReaders", "out")
  /\ readerSemaphore' = readerSemaphore + letIn[t]
  /\ letIn' = [letIn EXCEPT ![t] = 0]
  /\ UNCHANGED <<counters, writerEvent>>

WakeWriter(t) ==
  /\ Move(t, "wakeWriter", "out")
  /\ writerEvent' = TRUE
  /\ UNCHANGED <<counters, readerSemaphore, letIn>>

-----------------------------------------------------------------------------
Release(t) ==
  ReleaseFree(t) \/ ReleaseToReaders(t) \/ ReleaseToOthers(t) \/ ReleaseToWriter(t)

Wake(t) == WriterWakes(t) \/ ReaderWakes(t) \/ WakeReaders(t) \/ WakeWriter(t)

Acquire(t) ==
  \/ AcquireExclusive(t) \/ TryToAcquireExclusive(t)
  \/ AcquireShared(t) \/ TryToAcquireShared(t)

Next == \E t \in Threads : Acquire(t) \/ Wake(t) \/ Release(t)

Spec == Init /\ [][Next]_vars

\* The host schedules every thread, and holders release the lock.  Nothing
\* says which of several waiters a signal goes to.
FairSpec == Spec /\ \A t \in Threads : WF_vars(Wake(t)) /\ WF_vars(Release(t))

-----------------------------------------------------------------------------
Holders == Threads_at("read") \cup Threads_at("write")
Waiters == Threads_at("wantRead") \cup Threads_at("wantWrite")

\* Many readers or one writer, whatever the order of acquisitions, releases
\* and signals that are still on their way.
ReadersOrOneWriter ==
  \A w \in Threads_at("write") : Holders = {w}

\* Nobody passes a waiting writer, and a writer passes nobody: a thread gets
\* the lock without waiting only if no writer waits, one that gets it for
\* itself only if nobody does.
NoOvertaking ==
  [][\A t \in Threads : pc[t] = "out" =>
       /\ pc'[t] = "read" => Threads_at("wantWrite") = {}
       /\ pc'[t] = "write" => Waiters = {}]_vars

\* The counters are right about the threads at any time: lock_count about
\* holders and waiters, and of the waiters those are no longer counted as
\* waiting for whom a signal is there or on its way.
Granted == Count("wakeWriter") + (IF writerEvent THEN 1 ELSE 0)
CountsAgree ==
  /\ lockCount + 1 = Count("read") + Count("write") + Count("wantRead") + Count("wantWrite")
  /\ writersWaiting + Granted = Count("wantWrite")
  /\ Granted = 1 => Holders = {} /\ readerSemaphore = 0

\* A writer left while another writer waited and no reader did: the count of
\* readers inside is below zero, and nobody is woken again.
Abandoned == readersEntry = Word - 1

LockMovesOn == (Holders = {} /\ Waiters # {}) ~> (Holders # {} \/ Abandoned)

LoneWriterServed ==
  \A t \in Threads :
    pc[t] = "wantWrite"
      ~> \/ pc[t] = "write"
         \/ \E u \in Threads \ {t} : pc[u] \in {"wantWrite", "write"}
         \/ Abandoned

\* Once everybody has left somebody who waits gets in; and a writer that waits
\* without rivals gets in however many readers come.  Both but for a lock that
\* the writer before abandoned.
WaitersAreServed == LockMovesOn /\ LoneWriterServed

\* The lock is a readers-writers lock.
RW == INSTANCE ReadersWriters
        WITH readers <- Threads_at("read"), writers <- Threads_at("write")
LockImplemented == RW!Spec
=============================================================================
