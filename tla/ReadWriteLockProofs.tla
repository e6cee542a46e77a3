------------------------ MODULE ReadWriteLockProofs ------------------------
(***************************************************************************)
(* Mutual exclusion of the reader-writer lock for any number of threads.   *)
(* The strengthening counts: every waiter, every holder and every signal   *)
(* that is there or on its way is in exactly one of the counters.  It has  *)
(* two cases, the lock as designed and the lock that a writer abandoned.   *)
(***************************************************************************)
EXTENDS ReadWriteLock, FiniteSetTheorems, TLAPS

WritersInside == Count("write") + Granted

\* Readers that were let in and still wait.
Tokens == readersEntry - Count("read")

\* The tokens are in the hand of the thread about to release the semaphore,
\* and then in the semaphore.
TokensAreSomewhere ==
  /\ \A t \in Threads : pc[t] = "wakeReaders" =>
       readerSemaphore = 0 /\ letIn[t] = Tokens /\ Tokens > 0
  /\ \A t, u \in Threads : pc[t] = "wakeReaders" /\ pc[u] = "wakeReaders" => t = u
  /\ (\A t \in Threads : pc[t] # "wakeReaders") => readerSemaphore = Tokens

InUse ==
  /\ Tokens >= 0
  /\ readersWaiting + Tokens = Count("wantRead")
  /\ TokensAreSomewhere
  /\ WritersInside = 1 => readersEntry = 0
  /\ WritersInside = 0 /\ readersEntry = 0 => lockCount = -1
  /\ readersEntry # 0 /\ writersWaiting = 0 => readersWaiting = 0

Lost ==
  /\ readersEntry = Word - 1
  /\ Count("read") = 0 /\ WritersInside = 0
  /\ readersWaiting = Count("wantRead")
  /\ writersWaiting > 0
  /\ readerSemaphore = 0
  /\ \A t \in Threads : pc[t] # "wakeReaders"

Balance ==
  /\ lockCount + 1 = Count("read") + Count("write") + Count("wantRead") + Count("wantWrite")
  /\ writersWaiting + Granted = Count("wantWrite")
  /\ WritersInside <= 1

IInv == TypeOK /\ Balance /\ (InUse \/ Lost)

-----------------------------------------------------------------------------
(* Counting threads.                                                        *)

\* How many threads a function h from threads to places puts at l.
Located(h, l) == {u \in Threads : h[u] = l}
Size(h, l) == Cardinality(Located(h, l))

\* The number of threads at a place is a number, zero when nobody is there.
LEMMA SizesAreNumbers ==
  \A f, l : /\ IsFiniteSet(Located(f, l))
            /\ Size(f, l) \in Nat
            /\ Size(f, l) = 0 <=> \A t \in Threads : f[t] # l
<1> SUFFICES ASSUME NEW f, NEW l
             PROVE  /\ IsFiniteSet(Located(f, l))
                    /\ Size(f, l) \in Nat
                    /\ Size(f, l) = 0 <=> \A t \in Threads : f[t] # l
  OBVIOUS
<1>1. IsFiniteSet(Located(f, l))
  BY FS_Subset, ReadWriteLockAssumption DEF Located
<1>2. Size(f, l) \in Nat
  BY <1>1, FS_CardinalityType DEF Size
<1>3. Size(f, l) = 0 <=> Located(f, l) = {}
  BY <1>1, FS_EmptySet DEF Size
<1> QED
  BY <1>1, <1>2, <1>3 DEF Located

\* Disjoint finite sets add up.
LEMMA DisjointUnion ==
  ASSUME NEW S, IsFiniteSet(S), NEW T, IsFiniteSet(T), S \cap T = {}
  PROVE  IsFiniteSet(S \cup T) /\ Cardinality(S \cup T) = Cardinality(S) + Cardinality(T)
<1>1. /\ IsFiniteSet(S \cup T)
      /\ Cardinality(S \cup T) = Cardinality(S) + Cardinality(T) - Cardinality(S \cap T)
  BY FS_Union
<1>2. Cardinality(S \cap T) = 0
  BY FS_EmptySet
<1>3. Cardinality(S) \in Nat /\ Cardinality(T) \in Nat
  BY FS_CardinalityType
<1> QED
  BY <1>1, <1>2, <1>3

\* Nobody is counted twice.
LEMMA SizesAreBounded ==
  \A f : Size(f, "read") + Size(f, "write") + Size(f, "wantRead") + Size(f, "wantWrite")
           <= Cardinality(Threads)
<1> SUFFICES ASSUME NEW f
             PROVE  Size(f, "read") + Size(f, "write") + Size(f, "wantRead") + Size(f, "wantWrite")
                      <= Cardinality(Threads)
  OBVIOUS
<1> DEFINE R == Located(f, "read")
           W == Located(f, "write")
           A == Located(f, "wantRead")
           B == Located(f, "wantWrite")
<1>1. IsFiniteSet(R) /\ IsFiniteSet(W) /\ IsFiniteSet(A) /\ IsFiniteSet(B)
  BY SizesAreNumbers
<1>2. R \cap W = {} /\ (R \cup W) \cap A = {} /\ (R \cup W \cup A) \cap B = {}
  BY DEF Located
<1>3. R \cup W \cup A \cup B \in SUBSET Threads
  BY DEF Located
<1> HIDE DEF R, W, A, B
<1>4. IsFiniteSet(R \cup W) /\ Cardinality(R \cup W) = Cardinality(R) + Cardinality(W)
  BY <1>1, <1>2, DisjointUnion
<1>5. /\ IsFiniteSet(R \cup W \cup A)
      /\ Cardinality(R \cup W \cup A) = Cardinality(R \cup W) + Cardinality(A)
  BY <1>1, <1>2, <1>4, DisjointUnion
<1>6. Cardinality(R \cup W \cup A \cup B) = Cardinality(R \cup W \cup A) + Cardinality(B)
  BY <1>1, <1>2, <1>5, DisjointUnion
<1>7. Cardinality(R \cup W \cup A \cup B) <= Cardinality(Threads)
  BY <1>3, FS_Subset, ReadWriteLockAssumption
<1> QED
  BY <1>4, <1>5, <1>6, <1>7 DEF Size, R, W, A, B

-----------------------------------------------------------------------------
(* The invariant.                                                           *)

\* The counts are sizes, before and after a step.
LEMMA CountIsSize == \A l : Count(l) = Size(pc, l) /\ Count(l)' = Size(pc', l)
  BY DEF Count, Size, Threads_at, Located

\* A thread that moves is counted where it arrives, no longer where it was.
LEMMA StepCounts ==
  ASSUME TypeOK, NEW t \in Threads, NEW from, NEW to,
         from # to, pc[t] = from, pc' = [pc EXCEPT ![t] = to]
  PROVE  /\ Count(from)' = Count(from) - 1
         /\ Count(to)' = Count(to) + 1
         /\ \A l : l \notin {from, to} => Count(l)' = Count(l)
<1> USE DEF TypeOK
<1>1. \A l : IsFiniteSet(Located(pc, l))
  BY SizesAreNumbers
<1>2. Located(pc', from) = Located(pc, from) \ {t} /\ t \in Located(pc, from)
  BY DEF Located
<1>3. Located(pc', to) = Located(pc, to) \cup {t} /\ t \notin Located(pc, to)
  BY DEF Located
<1>4. \A l : l \notin {from, to} => Located(pc', l) = Located(pc, l)
  BY DEF Located
<1>5. Size(pc', from) = Size(pc, from) - 1
  <2> DEFINE S == Located(pc, from)
  <2>1. IsFiniteSet(S) /\ t \in S
    BY <1>1, <1>2
  <2> HIDE DEF S, TypeOK
  <2>2. Cardinality(S \ {t}) = Cardinality(S) - 1
    BY <2>1, FS_RemoveElement
  <2> QED
    BY <1>2, <2>2 DEF Size, S
<1>6. Size(pc', to) = Size(pc, to) + 1
  <2> DEFINE S == Located(pc, to)
  <2>1. IsFiniteSet(S) /\ t \notin S
    BY <1>1, <1>3
  <2> HIDE DEF S, TypeOK
  <2>2. Cardinality(S \cup {t}) = Cardinality(S) + 1
    BY <2>1, FS_AddElement
  <2> QED
    BY <1>3, <2>2 DEF Size, S
<1>7. \A l : l \notin {from, to} => Size(pc', l) = Size(pc, l)
  BY <1>4 DEF Size
<1> QED
  BY <1>5, <1>6, <1>7, CountIsSize

\* The counts are numbers, and bounded by the number of threads.
LEMMA Numbers ==
  /\ \A l : Count(l) \in Nat /\ (Count(l) = 0 <=> \A t \in Threads : pc[t] # l)
  /\ \A l : Count(l)' \in Nat
  /\ Count("read") + Count("write") + Count("wantRead") + Count("wantWrite")
       <= Cardinality(Threads)
  /\ Count("read")' + Count("write")' + Count("wantRead")' + Count("wantWrite")'
       <= Cardinality(Threads)
  /\ Cardinality(Threads) \in Nat
<1>1. Cardinality(Threads) \in Nat
  BY FS_CardinalityType, ReadWriteLockAssumption
<1> QED
  BY <1>1, SizesAreNumbers, SizesAreBounded, CountIsSize

\* The same of the places that matter below.
LEMMA Naturals ==
  /\ Count("read") \in Nat /\ Count("write") \in Nat /\ Count("wantRead") \in Nat
  /\ Count("wantWrite") \in Nat /\ Count("wakeWriter") \in Nat
  /\ Count("read")' \in Nat /\ Count("write")' \in Nat /\ Count("wantRead")' \in Nat
  /\ Count("wantWrite")' \in Nat /\ Count("wakeWriter")' \in Nat
  BY Numbers

\* The semaphore's tokens stay where they are in a step that has nothing to do with them.
LEMMA TokensStay ==
  ASSUME TypeOK, TokensAreSomewhere, Tokens' = Tokens,
         UNCHANGED <<readerSemaphore, letIn>>,
         \A u \in Threads : pc'[u] = "wakeReaders" <=> pc[u] = "wakeReaders"
  PROVE  TokensAreSomewhere'
  BY DEF TokensAreSomewhere

\* What TypeOK says of the integers, for the steps below.
LEMMA Integral ==
  ASSUME TypeOK
  PROVE  /\ lockCount \in Int /\ readersEntry \in Nat /\ readersWaiting \in Nat
         /\ writersWaiting \in Nat /\ readerSemaphore \in Nat
         /\ Granted \in Nat /\ WritersInside \in Nat /\ Tokens \in Int
<1>1. Granted \in Nat
  BY Numbers DEF Granted
<1> QED
  BY <1>1, Numbers, ReadWriteLockAssumption DEF TypeOK, Counter, WritersInside, Tokens

\* lock_count is bounded by the number of threads.
LEMMA LockCountInRange ==
  ASSUME Balance', lockCount' \in Int
  PROVE  lockCount' \in -1 .. Cardinality(Threads) - 1
  BY Numbers DEF Balance

\* An empty lock is free: no reader and no writer was let in.
LEMMA EmptyIsFree ==
  ASSUME IInv, lockCount = -1
  PROVE  /\ Count("read") = 0 /\ Count("write") = 0
         /\ Count("wantRead") = 0 /\ Count("wantWrite") = 0
         /\ Granted = 0 /\ WritersInside = 0 /\ writersWaiting = 0
         /\ InUse /\ readersEntry = 0 /\ Tokens = 0 /\ readersWaiting = 0
<1>1. /\ Count("read") = 0 /\ Count("write") = 0
      /\ Count("wantRead") = 0 /\ Count("wantWrite") = 0
  BY Numbers DEF IInv, Balance
<1>2. Granted = 0 /\ writersWaiting = 0 /\ WritersInside = 0
  BY <1>1, Integral DEF IInv, Balance, WritersInside
<1>3. InUse
  BY <1>2 DEF IInv, Lost
<1>4. Tokens = 0 /\ readersWaiting = 0
  BY <1>1, <1>3, Integral DEF IInv, InUse
<1>5. readersEntry = 0
  BY <1>1, <1>4, Integral DEF IInv, Tokens
<1> QED
  BY <1>1, <1>2, <1>3, <1>4, <1>5

\* Taking the lock for itself, or queueing for it.
LEMMA AcquireExclusiveStep ==
  ASSUME IInv, NEW t \in Threads, AcquireExclusive(t)
  PROVE  IInv'
<1>0. /\ TypeOK
      /\ lockCount \in Int /\ readersEntry \in Nat /\ readersWaiting \in Nat
      /\ writersWaiting \in Nat /\ lockCount' = lockCount + 1
      /\ UNCHANGED <<readersWaiting, readersEntry, writerEvent, readerSemaphore, letIn>>
  BY Integral DEF IInv, AcquireExclusive, signals
<1>1. CASE lockCount' = 0
  <2>1. /\ pc[t] = "out" /\ pc' = [pc EXCEPT ![t] = "write"] /\ lockCount = -1
        /\ writersWaiting' = writersWaiting
    BY <1>0, <1>1 DEF AcquireExclusive, Move
  <2>2. /\ Count("write")' = Count("write") + 1
        /\ \A l : l \notin {"out", "write"} => Count(l)' = Count(l)
    BY <1>0, <2>1, StepCounts
  <2>3. /\ Count("read")' = Count("read")
        /\ Count("wantWrite")' = Count("wantWrite") /\ Count("wantRead")' = Count("wantRead")
        /\ Granted' = Granted
    BY <1>0, <2>2 DEF Granted
  <2>4. TypeOK'
    BY <1>0, <2>1, <1>1, <2>2, <2>3, Numbers, EmptyIsFree DEF TypeOK, ThreadPc, Counter
  <2>5. Balance'
    BY <1>0, <2>1, <2>2, <2>3, EmptyIsFree DEF Balance, WritersInside
  <2>6. InUse'
    <3>1. TokensAreSomewhere'
      BY <1>0, <2>1, <2>3, EmptyIsFree, TokensStay DEF TypeOK, InUse, Tokens
    <3> QED
      BY <3>1, <1>0, <2>1, <2>2, <2>3, EmptyIsFree DEF InUse, WritersInside, Tokens
  <2> QED
    BY <2>4, <2>5, <2>6 DEF IInv
<1>2. CASE lockCount' # 0
  <2>1. /\ pc[t] = "out" /\ pc' = [pc EXCEPT ![t] = "wantWrite"]
        /\ writersWaiting' = Inc(writersWaiting)
    BY <1>0, <1>2 DEF AcquireExclusive, Move
  <2>2. /\ Count("wantWrite")' = Count("wantWrite") + 1
        /\ \A l : l \notin {"out", "wantWrite"} => Count(l)' = Count(l)
    BY <1>0, <2>1, StepCounts
  <2>3. /\ Count("read")' = Count("read")
        /\ Count("write")' = Count("write") /\ Count("wantRead")' = Count("wantRead")
        /\ Granted' = Granted
    BY <1>0, <2>2 DEF Granted
  <2>4. writersWaiting' = writersWaiting + 1 /\ writersWaiting' < Word
    BY <1>0, <2>1, Integral, Numbers, ReadWriteLockAssumption DEF IInv, Balance, Inc
  <2>5. Balance'
    BY <1>0, <2>2, <2>3, <2>4, Integral, Numbers DEF IInv, Balance, WritersInside
  <2>6. TypeOK'
    BY <1>0, <2>1, <2>4, <2>5, LockCountInRange, ReadWriteLockAssumption
       DEF TypeOK, ThreadPc, Counter
  <2>7. (InUse \/ Lost)'
    <3>1. CASE InUse
      <4>1. TokensAreSomewhere'
        BY <3>1, <1>0, <2>1, <2>3, TokensStay DEF TypeOK, InUse, Tokens
      <4> QED
        BY <4>1, <3>1, <1>0, <1>2, <2>2, <2>3, <2>4, Integral DEF InUse, WritersInside, Tokens
    <3>2. CASE Lost
      BY <3>2, <1>0, <2>1, <2>2, <2>3, <2>4, Integral DEF TypeOK, Lost, WritersInside
    <3> QED
      BY <3>1, <3>2 DEF IInv
  <2> QED
    BY <2>5, <2>6, <2>7 DEF IInv
<1> QED
  BY <1>1, <1>2

\* A call that takes the lock without waiting does what the waiting call does.
LEMMA TryToAcquireExclusiveStep ==
  ASSUME IInv, NEW t \in Threads, TryToAcquireExclusive(t)
  PROVE  IInv'
<1>1. lockCount = -1
  BY Numbers DEF IInv, TypeOK, TryToAcquireExclusive
<1>2. AcquireExclusive(t)
  BY <1>1 DEF TryToAcquireExclusive, AcquireExclusive
<1> QED
  BY <1>2, AcquireExclusiveStep

\* The writer that the event wakes holds the lock.
LEMMA WriterWakesStep ==
  ASSUME IInv, NEW t \in Threads, WriterWakes(t)
  PROVE  IInv'
<1>1. /\ TypeOK /\ pc[t] = "wantWrite" /\ pc' = [pc EXCEPT ![t] = "write"]
      /\ writerEvent = TRUE /\ writerEvent' = FALSE
      /\ UNCHANGED <<lockCount, writersWaiting, readersWaiting, readersEntry, readerSemaphore, letIn>>
  BY DEF IInv, TypeOK, WriterWakes, Move, counters
<1>2. /\ Count("wantWrite")' = Count("wantWrite") - 1 /\ Count("write")' = Count("write") + 1
      /\ \A l : l \notin {"wantWrite", "write"} => Count(l)' = Count(l)
  BY <1>1, StepCounts
<1>3. /\ Count("read")' = Count("read") /\ Count("wantRead")' = Count("wantRead")
      /\ Granted' = Granted - 1 /\ Granted > 0
  BY <1>1, <1>2, Numbers DEF Granted
<1>4. WritersInside' = WritersInside
  BY <1>2, <1>3, Integral, <1>1, Numbers DEF WritersInside
<1>5. Balance'
  BY <1>1, <1>2, <1>3, <1>4, Integral, Numbers DEF IInv, Balance
<1>6. TypeOK'
  BY <1>1 DEF TypeOK, ThreadPc
<1>7. InUse
  BY <1>1, <1>3, Integral, Numbers DEF IInv, Lost, WritersInside
<1>8. TokensAreSomewhere'
  BY <1>1, <1>3, <1>7, TokensStay DEF TypeOK, InUse, Tokens
<1>9. InUse'
  BY <1>1, <1>3, <1>4, <1>7, <1>8 DEF InUse, Tokens
<1> QED
  BY <1>5, <1>6, <1>9 DEF IInv

\* readers_entry_count and readers_waiting_count count threads.
LEMMA ReadersAreThreads ==
  ASSUME IInv
  PROVE  /\ InUse => readersEntry <= Cardinality(Threads)
         /\ readersWaiting <= Cardinality(Threads)
<1>1. TypeOK
  BY DEF IInv
<1>2. readersWaiting <= Count("wantRead")
  BY <1>1, Integral, Numbers DEF IInv, InUse, Lost
<1>3. InUse => readersEntry <= Count("read") + Count("wantRead")
  BY <1>1, Integral, Numbers DEF InUse, Tokens
<1> QED
  BY <1>1, <1>2, <1>3, Integral, Numbers

\* Entering as a reader, or queueing for it.
LEMMA AcquireSharedStep ==
  ASSUME IInv, NEW t \in Threads, AcquireShared(t)
  PROVE  IInv'
<1>0. /\ TypeOK
      /\ lockCount \in Int /\ readersEntry \in Nat /\ readersWaiting \in Nat
      /\ writersWaiting \in Nat /\ lockCount' = lockCount + 1
      /\ UNCHANGED <<writersWaiting, writerEvent, readerSemaphore, letIn>>
  BY Integral DEF IInv, AcquireShared, signals
<1>1. CASE lockCount' = 0 \/ (readersEntry # 0 /\ writersWaiting = 0)
  <2>1. /\ pc[t] = "out" /\ pc' = [pc EXCEPT ![t] = "read"]
        /\ readersEntry' = Inc(readersEntry) /\ readersWaiting' = readersWaiting
    BY <1>0, <1>1 DEF AcquireShared, Move
  <2>2. /\ Count("read")' = Count("read") + 1
        /\ \A l : l \notin {"out", "read"} => Count(l)' = Count(l)
    BY <1>0, <2>1, StepCounts
  <2>3. /\ Count("write")' = Count("write")
        /\ Count("wantWrite")' = Count("wantWrite") /\ Count("wantRead")' = Count("wantRead")
        /\ Granted' = Granted
    BY <1>0, <2>2 DEF Granted
  <2>4. WritersInside' = WritersInside
    BY <2>3 DEF WritersInside
  <2>5. InUse /\ WritersInside = 0 /\ readersWaiting = 0
    <3>1. CASE lockCount' = 0
      BY <3>1, <1>0, EmptyIsFree
    <3>2. CASE readersEntry # 0 /\ writersWaiting = 0
      BY <3>2, <1>0, Integral DEF IInv, Balance, InUse, Lost
    <3> QED
      BY <1>1, <3>1, <3>2
  <2>6. readersEntry' = readersEntry + 1 /\ readersEntry' < Word
    BY <1>0, <2>1, <2>5, ReadersAreThreads, ReadWriteLockAssumption, Numbers DEF Inc
  <2>7. Balance'
    BY <1>0, <2>1, <2>2, <2>3, <2>4, Integral, Numbers DEF IInv, Balance
  <2>8. TypeOK'
    BY <1>0, <2>1, <2>6, <2>7, LockCountInRange, ReadWriteLockAssumption
       DEF TypeOK, ThreadPc, Counter
  <2>9. Tokens' = Tokens
    BY <1>0, <2>2, <2>6, Numbers DEF Tokens
  <2>10. TokensAreSomewhere'
    BY <1>0, <2>1, <2>5, <2>9, TokensStay DEF TypeOK, InUse
  <2>11. InUse'
    BY <1>0, <2>1, <2>3, <2>4, <2>5, <2>6, <2>9, <2>10 DEF InUse
  <2> QED
    BY <2>7, <2>8, <2>11 DEF IInv
<1>2. CASE ~(lockCount' = 0 \/ (readersEntry # 0 /\ writersWaiting = 0))
  <2>1. /\ pc[t] = "out" /\ pc' = [pc EXCEPT ![t] = "wantRead"]
        /\ readersWaiting' = Inc(readersWaiting) /\ readersEntry' = readersEntry
    BY <1>0, <1>2 DEF AcquireShared, Move
  <2>2. /\ Count("wantRead")' = Count("wantRead") + 1
        /\ \A l : l \notin {"out", "wantRead"} => Count(l)' = Count(l)
    BY <1>0, <2>1, StepCounts
  <2>3. /\ Count("read")' = Count("read") /\ Count("write")' = Count("write")
        /\ Count("wantWrite")' = Count("wantWrite") /\ Granted' = Granted
    BY <1>0, <2>2 DEF Granted
  <2>4. WritersInside' = WritersInside /\ Tokens' = Tokens
    BY <2>1, <2>3 DEF WritersInside, Tokens
  <2>5. readersWaiting' = readersWaiting + 1 /\ readersWaiting' < Word
    BY <1>0, <2>1, ReadersAreThreads, ReadWriteLockAssumption, Numbers DEF Inc
  <2>6. Balance'
    BY <1>0, <2>2, <2>3, <2>4, Integral, Numbers DEF IInv, Balance
  <2>7. TypeOK'
    BY <1>0, <2>1, <2>5, <2>6, LockCountInRange, ReadWriteLockAssumption
       DEF TypeOK, ThreadPc, Counter
  <2>8. CASE InUse
    <3>1. TokensAreSomewhere'
      BY <2>8, <1>0, <2>1, <2>4, TokensStay DEF TypeOK, InUse
    <3>2. ~(WritersInside = 0 /\ readersEntry = 0)
      BY <2>8, <1>0, <1>2 DEF InUse
    <3>3. InUse'
      BY <3>1, <3>2, <2>8, <1>0, <1>2, <2>1, <2>2, <2>4, <2>5, Integral, Numbers DEF InUse
    <3> QED
      BY <3>3, <2>6, <2>7 DEF IInv
  <2>9. CASE Lost
    <3>1. Lost'
      BY <2>9, <1>0, <2>1, <2>2, <2>3, <2>4, <2>5 DEF TypeOK, Lost
    <3> QED
      BY <3>1, <2>6, <2>7 DEF IInv
  <2> QED
    BY <2>8, <2>9 DEF IInv
<1> QED
  BY <1>1, <1>2

\* As for writers.
LEMMA TryToAcquireSharedStep ==
  ASSUME IInv, NEW t \in Threads, TryToAcquireShared(t)
  PROVE  IInv'
<1>1. lockCount < 0 => lockCount' = 0
  BY Numbers DEF IInv, TypeOK, TryToAcquireShared
<1>2. AcquireShared(t)
  BY <1>1 DEF TryToAcquireShared, AcquireShared
<1> QED
  BY <1>2, AcquireSharedStep

\* The reader that takes a token of the semaphore was let in before.
LEMMA ReaderWakesStep ==
  ASSUME IInv, NEW t \in Threads, ReaderWakes(t)
  PROVE  IInv'
<1>1. /\ TypeOK /\ pc[t] = "wantRead" /\ pc' = [pc EXCEPT ![t] = "read"]
      /\ readerSemaphore > 0 /\ readerSemaphore' = readerSemaphore - 1
      /\ UNCHANGED <<lockCount, writersWaiting, readersWaiting, readersEntry, writerEvent, letIn>>
  BY DEF IInv, ReaderWakes, Move, counters
<1>2. /\ Count("wantRead")' = Count("wantRead") - 1 /\ Count("read")' = Count("read") + 1
      /\ \A l : l \notin {"wantRead", "read"} => Count(l)' = Count(l)
  BY <1>1, StepCounts
<1>3. /\ Count("write")' = Count("write") /\ Count("wantWrite")' = Count("wantWrite")
      /\ Granted' = Granted /\ WritersInside' = WritersInside
  BY <1>1, <1>2 DEF Granted, WritersInside
<1>4. /\ InUse /\ readerSemaphore = Tokens
      /\ \A u \in Threads : pc[u] # "wakeReaders"
  BY <1>1 DEF IInv, Lost, InUse, TokensAreSomewhere
<1>5. Tokens' = Tokens - 1 /\ Tokens > 0
  BY <1>1, <1>2, <1>4, Integral, Numbers DEF Tokens
<1>6. Balance'
  BY <1>1, <1>2, <1>3, Integral, Numbers DEF IInv, Balance
<1>7. TypeOK'
  BY <1>1, Integral DEF TypeOK, ThreadPc
<1>8. \A u \in Threads : pc'[u] # "wakeReaders"
  BY <1>1, <1>4 DEF TypeOK
<1>9. TokensAreSomewhere'
  BY <1>1, <1>4, <1>5, <1>8 DEF TokensAreSomewhere
<1>10. InUse'
  BY <1>1, <1>2, <1>3, <1>4, <1>5, <1>9, Integral, Numbers DEF InUse
<1> QED
  BY <1>6, <1>7, <1>10 DEF IInv

\* A thread that releases is one of the holders, and of a lock in use.
LEMMA ReleaseCounts ==
  ASSUME IInv, NEW t \in Threads, NEW to \in {"out", "wakeReaders", "wakeWriter"}, Releases(t, to)
  PROVE  /\ InUse /\ Tokens \in Nat
         /\ \/ /\ pc[t] = "read" /\ Count("read") > 0 /\ WritersInside = 0
               /\ Count("read")' = Count("read") - 1 /\ Count("write")' = Count("write")
            \/ /\ pc[t] = "write" /\ Count("write") = 1 /\ Count("read") = 0
               /\ WritersInside = 1 /\ readersEntry = 0 /\ Tokens = 0
               /\ Count("read")' = 0 /\ Count("write")' = 0
         /\ Count("wantRead")' = Count("wantRead") /\ Count("wantWrite")' = Count("wantWrite")
         /\ to = "wakeWriter" => Count("wakeWriter")' = Count("wakeWriter") + 1
         /\ to # "wakeWriter" => Count("wakeWriter")' = Count("wakeWriter")
         /\ lockCount \in Nat /\ lockCount' = lockCount - 1
         /\ pc' = [pc EXCEPT ![t] = to]
         /\ \A u \in Threads \ {t} : pc'[u] = pc[u]
         /\ pc'[t] = to
<1>1. /\ TypeOK /\ pc[t] \in {"read", "write"} /\ pc' = [pc EXCEPT ![t] = to]
      /\ lockCount' = lockCount - 1
  BY DEF IInv, Releases
<1>2. /\ \A u \in Threads \ {t} : pc'[u] = pc[u]
      /\ pc'[t] = to
  BY <1>1 DEF TypeOK
<1>3. Count("read") + Count("write") > 0
  BY <1>1, Numbers
<1>4. InUse /\ lockCount \in Nat
  BY <1>1, <1>3, Integral, Numbers DEF IInv, Balance, Lost, WritersInside
<1>5. Tokens \in Nat
  BY <1>1, <1>4, Integral DEF InUse
<1>6. CASE pc[t] = "read"
  <2>1. /\ Count("read")' = Count("read") - 1 /\ Count(to)' = Count(to) + 1
        /\ \A l : l \notin {"read", to} => Count(l)' = Count(l)
    BY <1>1, <1>6, StepCounts
  <2>2. Count("read") > 0
    BY <1>6, Numbers
  <2>3. WritersInside = 0
    BY <2>2, <1>1, <1>4, <1>5, Integral, Numbers DEF IInv, Balance, InUse, Tokens
  <2> QED
    BY <1>1, <1>2, <1>4, <1>5, <1>6, <2>1, <2>2, <2>3, Numbers
<1>7. CASE pc[t] = "write"
  <2>1. /\ Count("write")' = Count("write") - 1 /\ Count(to)' = Count(to) + 1
        /\ \A l : l \notin {"write", to} => Count(l)' = Count(l)
    BY <1>1, <1>7, StepCounts
  <2>2. Count("write") > 0
    BY <1>7, Numbers
  <2>3. WritersInside = 1 /\ Count("write") = 1
    BY <2>2, <1>1, Integral, Numbers DEF IInv, Balance, WritersInside
  <2>4. readersEntry = 0 /\ Count("read") = 0 /\ Tokens = 0
    BY <2>3, <1>4, <1>5, Integral, Numbers DEF InUse, Tokens
  <2>5. /\ Count("write")' = 0 /\ Count("read")' = 0
        /\ Count("wantRead")' = Count("wantRead") /\ Count("wantWrite")' = Count("wantWrite")
    BY <2>1, <2>3, <2>4
  <2>6. /\ to = "wakeWriter" => Count("wakeWriter")' = Count("wakeWriter") + 1
        /\ to # "wakeWriter" => Count("wakeWriter")' = Count("wakeWriter")
    BY <2>1
  <2> QED
    BY <1>1, <1>2, <1>4, <1>5, <1>7, <2>3, <2>4, <2>5, <2>6
<1> QED
  BY <1>1, <1>6, <1>7

\* Leaving the lock to nobody.
LEMMA ReleaseFreeStep ==
  ASSUME IInv, NEW t \in Threads, ReleaseFree(t)
  PROVE  IInv'
<1>1. /\ TypeOK /\ Releases(t, "out") /\ lockCount' < 0 /\ readersEntry' = 0
      /\ UNCHANGED <<writersWaiting, readersWaiting, writerEvent, readerSemaphore, letIn>>
  BY DEF IInv, ReleaseFree, signals
<1>2. /\ lockCount \in Nat /\ lockCount' = lockCount - 1 /\ pc' = [pc EXCEPT ![t] = "out"]
      /\ Count("wakeWriter")' = Count("wakeWriter")
      /\ Count("wantRead")' = Count("wantRead") /\ Count("wantWrite")' = Count("wantWrite")
      /\ Count("read")' + Count("write")' = Count("read") + Count("write") - 1
      /\ InUse /\ Tokens \in Nat
      /\ \A u \in Threads : pc'[u] = "wakeReaders" <=> pc[u] = "wakeReaders"
  BY <1>1, ReleaseCounts, Numbers
<1>3. /\ lockCount = 0 /\ lockCount' = -1
      /\ Count("read")' = 0 /\ Count("write")' = 0
      /\ Count("wantRead") = 0 /\ Count("wantWrite") = 0
      /\ Count("wantRead")' = 0 /\ Count("wantWrite")' = 0
  <2>1. lockCount = 0 /\ lockCount' = -1
    BY <1>1, <1>2
  <2>2. Count("read") + Count("write") + Count("wantRead") + Count("wantWrite") = 1
    BY <2>1 DEF IInv, Balance
  <2>3. Count("wantRead") = 0 /\ Count("wantWrite") = 0 /\ Count("read") + Count("write") = 1
    BY <2>2, <1>2, Naturals
  <2>4. Count("read")' + Count("write")' = 0
    BY <2>3, <1>2, Naturals
  <2>5. Count("read")' = 0 /\ Count("write")' = 0
    BY <2>4, Naturals
  <2> QED
    BY <2>1, <2>3, <2>5, <1>2
<1>4. Granted' = 0 /\ writersWaiting = 0 /\ WritersInside' = 0
  <2>1. Granted' = Granted
    BY <1>1, <1>2 DEF Granted
  <2>2. writersWaiting + Granted = 0
    BY <1>3 DEF IInv, Balance
  <2>3. Granted = 0 /\ writersWaiting = 0
    BY <2>2, <1>1, Integral
  <2> QED
    BY <2>1, <2>3, <1>3 DEF WritersInside
<1>5. InUse /\ Tokens = 0 /\ readersWaiting = 0 /\ Tokens' = 0
  <2>1. readersWaiting + Tokens = 0 /\ Tokens >= 0
    BY <1>2, <1>3 DEF InUse
  <2>2. Tokens = 0 /\ readersWaiting = 0
    BY <2>1, <1>1, Integral
  <2> QED
    BY <2>2, <1>1, <1>2, <1>3 DEF Tokens
<1>6. TypeOK'
  BY <1>1, <1>2, Numbers, ReadWriteLockAssumption DEF TypeOK, ThreadPc, Counter
<1>7. Balance'
  BY <1>1, <1>2, <1>3, <1>4 DEF Balance
<1>8. TokensAreSomewhere'
  BY <1>1, <1>2, <1>5, TokensStay DEF InUse
<1>9. InUse'
  BY <1>1, <1>3, <1>4, <1>5, <1>8 DEF InUse
<1> QED
  BY <1>6, <1>7, <1>9 DEF IInv

\* A writer lets all readers in that wait.
LEMMA ReleaseToReadersStep ==
  ASSUME IInv, NEW t \in Threads, ReleaseToReaders(t)
  PROVE  IInv'
<1>1. /\ TypeOK /\ Releases(t, "wakeReaders") /\ readersEntry = 0 /\ readersWaiting # 0
      /\ readersWaiting' = 0 /\ readersEntry' = readersWaiting
      /\ letIn' = [letIn EXCEPT ![t] = readersWaiting]
      /\ UNCHANGED <<writersWaiting, writerEvent, readerSemaphore>>
  BY DEF IInv, ReleaseToReaders, signals
<1>2. /\ Count("write") = 1 /\ Count("read") = 0 /\ WritersInside = 1 /\ Tokens = 0 /\ InUse
      /\ Count("read")' = 0 /\ Count("write")' = 0
      /\ Count("wantRead")' = Count("wantRead") /\ Count("wantWrite")' = Count("wantWrite")
      /\ Count("wakeWriter")' = Count("wakeWriter")
      /\ lockCount \in Nat /\ lockCount' = lockCount - 1 /\ pc' = [pc EXCEPT ![t] = "wakeReaders"]
  BY <1>1, ReleaseCounts, Numbers DEF Tokens
<1>3. Granted' = Granted /\ Granted = 0 /\ WritersInside' = 0
  BY <1>1, <1>2, Integral, Naturals DEF Granted, WritersInside
<1>4. readersWaiting \in Nat \ {0} /\ Tokens' = readersWaiting
  BY <1>1, <1>2, Integral DEF Tokens
<1>5. readerSemaphore = 0 /\ \A u \in Threads : pc[u] # "wakeReaders"
  BY <1>2 DEF InUse, TokensAreSomewhere
<1>6. TokensAreSomewhere'
  BY <1>1, <1>2, <1>4, <1>5 DEF TypeOK, TokensAreSomewhere
<1>7. Balance'
  BY <1>1, <1>2, <1>3, Integral, Naturals DEF IInv, Balance
<1>8. TypeOK'
  BY <1>1, <1>2, <1>7, LockCountInRange, ReadWriteLockAssumption DEF TypeOK, ThreadPc, Counter
<1>9. InUse'
  BY <1>1, <1>2, <1>3, <1>4, <1>6, Integral, Naturals DEF InUse
<1> QED
  BY <1>7, <1>8, <1>9 DEF IInv

\* The last reader lets a writer in.
LEMMA ReleaseToWriterStep ==
  ASSUME IInv, NEW t \in Threads, ReleaseToWriter(t)
  PROVE  IInv'
<1>1. /\ TypeOK /\ Releases(t, "wakeWriter") /\ lockCount' >= 0 /\ readersEntry' = 0
      /\ readersEntry' = Dec(readersEntry) /\ writersWaiting' = Dec(writersWaiting)
      /\ UNCHANGED <<readersWaiting, writerEvent, readerSemaphore, letIn>>
  BY DEF IInv, ReleaseToWriter, NotTheLast, signals
<1>2. readersEntry = 1
  BY <1>1, Integral, ReadWriteLockAssumption, Numbers DEF Dec
<1>3. /\ Count("read") > 0 /\ WritersInside = 0 /\ InUse /\ Tokens \in Nat
      /\ Count("read")' = Count("read") - 1 /\ Count("write")' = Count("write")
      /\ Count("wantRead")' = Count("wantRead") /\ Count("wantWrite")' = Count("wantWrite")
      /\ Count("wakeWriter")' = Count("wakeWriter") + 1
      /\ lockCount \in Nat /\ lockCount' = lockCount - 1 /\ pc' = [pc EXCEPT ![t] = "wakeWriter"]
      /\ \A u \in Threads : pc'[u] = "wakeReaders" <=> pc[u] = "wakeReaders"
  BY <1>1, <1>2, ReleaseCounts
<1>4. Count("read") = 1 /\ Tokens = 0 /\ Tokens' = 0 /\ Count("read")' = 0
  BY <1>1, <1>2, <1>3, Naturals DEF Tokens
<1>5. Granted = 0 /\ Count("write") = 0 /\ Granted' = 1 /\ WritersInside' = 1
  <2>1. Granted = 0 /\ Count("write") = 0
    BY <1>1, <1>3, Integral, Naturals DEF WritersInside
  <2>2. Granted' = Granted + 1
    BY <1>1, <1>3, Naturals DEF Granted
  <2> QED
    BY <2>1, <2>2, <1>3 DEF WritersInside
<1>6. writersWaiting > 0
  <2>1. readersWaiting = Count("wantRead") /\ writersWaiting = Count("wantWrite")
    BY <1>1, <1>3, <1>4, <1>5, Integral, Naturals DEF InUse, IInv, Balance
  <2>2. Count("wantRead") + Count("wantWrite") > 0
    BY <1>1, <1>3, <1>4, <1>5, Naturals DEF IInv, Balance
  <2>3. writersWaiting = 0 => readersWaiting = 0
    BY <1>2, <1>3 DEF InUse
  <2> QED
    BY <2>1, <2>2, <2>3, <1>1, Integral
<1>7. writersWaiting' = writersWaiting - 1
  BY <1>1, <1>6 DEF Dec
<1>8. Balance'
  <2>1. lockCount' + 1 = Count("read")' + Count("write")' + Count("wantRead")' + Count("wantWrite")'
    <3>1. lockCount + 1 = 1 + 0 + Count("wantRead") + Count("wantWrite")
      BY <1>4, <1>5 DEF IInv, Balance
    <3>2. Count("write")' = 0 /\ lockCount' + 1 = lockCount
      BY <1>3, <1>5
    <3>3. lockCount = Count("wantRead") + Count("wantWrite")
      BY <3>1, <1>3, Naturals
    <3>4. Count("read")' + Count("write")' + Count("wantRead")' + Count("wantWrite")'
            = Count("wantRead") + Count("wantWrite")
      BY <3>2, <1>3, <1>4, Naturals
    <3> QED
      BY <3>2, <3>3, <3>4
  <2>2. writersWaiting' + Granted' = Count("wantWrite")'
    BY <1>1, <1>3, <1>5, <1>7, Integral, Naturals DEF IInv, Balance
  <2> QED
    BY <2>1, <2>2, <1>5 DEF Balance
<1>9. TypeOK'
  BY <1>1, <1>3, <1>6, <1>7, <1>8, Integral, LockCountInRange, ReadWriteLockAssumption
     DEF TypeOK, ThreadPc, Counter
<1>10. TokensAreSomewhere'
  BY <1>1, <1>3, <1>4, TokensStay DEF InUse
<1>11. InUse'
  BY <1>1, <1>3, <1>4, <1>5, <1>10 DEF InUse
<1> QED
  BY <1>8, <1>9, <1>11 DEF IInv

\* One of several readers leaves; or the lock is abandoned.
LEMMA ReleaseToOthersStep ==
  ASSUME IInv, NEW t \in Threads, ReleaseToOthers(t)
  PROVE  IInv'
<1>1. /\ TypeOK /\ Releases(t, "out") /\ lockCount' >= 0
      /\ ~(readersEntry = 0 /\ readersWaiting # 0)
      /\ readersEntry' = Dec(readersEntry) /\ readersEntry' # 0
      /\ UNCHANGED <<writersWaiting, readersWaiting, writerEvent, readerSemaphore, letIn>>
  BY DEF IInv, ReleaseToOthers, NotTheLast, signals
<1>2. /\ InUse /\ Tokens \in Nat
      /\ Count("wantRead")' = Count("wantRead") /\ Count("wantWrite")' = Count("wantWrite")
      /\ Count("read")' + Count("write")' = Count("read") + Count("write") - 1
      /\ lockCount \in Nat /\ lockCount' = lockCount - 1 /\ pc' = [pc EXCEPT ![t] = "out"]
      /\ \A u \in Threads : pc'[u] = "wakeReaders" <=> pc[u] = "wakeReaders"
      /\ Granted' = Granted
  BY <1>1, ReleaseCounts, Naturals DEF Granted
<1>3. WritersInside' <= 1 /\ WritersInside' = Count("write")' + Granted
  <2>1. CASE Count("write")' = Count("write")
    BY <2>1, <1>2 DEF WritersInside, IInv, Balance
  <2>2. CASE Count("write")' = 0
    BY <2>2, <1>1, <1>2, Integral, Naturals DEF WritersInside, IInv, Balance
  <2> QED
    BY <2>1, <2>2, <1>1, ReleaseCounts
<1>4. Balance'
  <2>1. lockCount' + 1 = Count("read")' + Count("write")' + Count("wantRead")' + Count("wantWrite")'
    BY <1>2, Naturals DEF IInv, Balance
  <2>2. writersWaiting' + Granted' = Count("wantWrite")'
    BY <1>1, <1>2 DEF IInv, Balance
  <2> QED
    BY <2>1, <2>2, <1>3 DEF Balance
<1>5. TypeOK'
  BY <1>1, <1>2, <1>4, Integral, LockCountInRange, ReadWriteLockAssumption
     DEF TypeOK, ThreadPc, Counter, Dec
<1>6. CASE readersEntry # 0
  <2>1. /\ Count("read")' = Count("read") - 1 /\ WritersInside' = 0
        /\ Count("write")' = Count("write") /\ WritersInside = 0
    BY <1>1, <1>2, <1>6, ReleaseCounts DEF WritersInside
  <2>2. readersEntry' = readersEntry - 1
    BY <1>1, <1>6 DEF Dec
  <2>3. Tokens' = Tokens
    BY <2>1, <2>2, <1>1, Integral, Naturals DEF Tokens
  <2>4. TokensAreSomewhere'
    BY <2>3, <1>1, <1>2, TokensStay DEF InUse
  <2>5. InUse'
    BY <1>1, <1>2, <1>6, <2>1, <2>2, <2>3, <2>4 DEF InUse
  <2> QED
    BY <2>5, <1>4, <1>5 DEF IInv
<1>7. CASE readersEntry = 0
  <2>1. readersEntry' = Word - 1
    BY <1>1, <1>7 DEF Dec
  <2>2. /\ Count("read")' = 0 /\ Count("write")' = 0 /\ Tokens = 0
        /\ Count("write") = 1 /\ WritersInside = 1
    <3>1. ~(Count("read") > 0)
      BY <1>2, <1>7, Naturals DEF Tokens
    <3> QED
      BY <3>1, <1>1, ReleaseCounts
  <2>3. Granted = 0 /\ WritersInside' = 0
    BY <2>2, <1>1, <1>2, <1>3, Integral, Naturals DEF WritersInside
  <2>4. readersWaiting = 0 /\ Count("wantRead") = 0
    BY <2>2, <1>1, <1>2, <1>7, Integral, Naturals DEF InUse
  <2>5. writersWaiting > 0
    BY <2>2, <2>3, <2>4, <1>1, <1>2, <1>4, Integral, Naturals DEF Balance
  <2>6. readerSemaphore = 0 /\ \A u \in Threads : pc[u] # "wakeReaders"
    BY <2>2, <1>2 DEF InUse, TokensAreSomewhere
  <2>7. Lost'
    BY <1>1, <1>2, <2>1, <2>2, <2>3, <2>4, <2>5, <2>6 DEF Lost
  <2> QED
    BY <2>7, <1>4, <1>5 DEF IInv
<1> QED
  BY <1>6, <1>7

\* The tokens reach the semaphore.
LEMMA WakeReadersStep ==
  ASSUME IInv, NEW t \in Threads, WakeReaders(t)
  PROVE  IInv'
<1>1. /\ TypeOK /\ pc[t] = "wakeReaders" /\ pc' = [pc EXCEPT ![t] = "out"]
      /\ readerSemaphore' = readerSemaphore + letIn[t]
      /\ letIn' = [letIn EXCEPT ![t] = 0]
      /\ UNCHANGED <<lockCount, writersWaiting, readersWaiting, readersEntry, writerEvent>>
  BY DEF IInv, WakeReaders, Move, counters
<1>2. /\ Count("read")' = Count("read") /\ Count("write")' = Count("write")
      /\ Count("wantRead")' = Count("wantRead") /\ Count("wantWrite")' = Count("wantWrite")
      /\ Granted' = Granted
  <2>1. \A l : l \notin {"wakeReaders", "out"} => Count(l)' = Count(l)
    BY <1>1, StepCounts
  <2> QED
    BY <1>1, <2>1 DEF Granted
<1>3. WritersInside' = WritersInside /\ Tokens' = Tokens
  BY <1>1, <1>2 DEF WritersInside, Tokens
<1>4. InUse
  BY <1>1 DEF IInv, Lost
<1>5. /\ readerSemaphore = 0 /\ letIn[t] = Tokens
      /\ \A u \in Threads : pc[u] = "wakeReaders" => u = t
  BY <1>1, <1>4 DEF InUse, TokensAreSomewhere
<1>6. readerSemaphore' = Tokens'
  BY <1>1, <1>3, <1>5, Integral
<1>7. \A u \in Threads : pc'[u] # "wakeReaders"
  BY <1>1, <1>5 DEF TypeOK
<1>8. TokensAreSomewhere'
  BY <1>6, <1>7 DEF TokensAreSomewhere
<1>9. InUse'
  BY <1>1, <1>2, <1>3, <1>4, <1>8 DEF InUse
<1>10. TypeOK'
  BY <1>1, ReadWriteLockAssumption, Numbers DEF TypeOK, ThreadPc, Counter
<1>11. Balance'
  BY <1>1, <1>2, <1>3 DEF IInv, Balance
<1> QED
  BY <1>9, <1>10, <1>11 DEF IInv

\* The signal reaches the event, which is not signaled before.
LEMMA WakeWriterStep ==
  ASSUME IInv, NEW t \in Threads, WakeWriter(t)
  PROVE  IInv'
<1>1. /\ TypeOK /\ pc[t] = "wakeWriter" /\ pc' = [pc EXCEPT ![t] = "out"]
      /\ writerEvent' = TRUE
      /\ UNCHANGED <<lockCount, writersWaiting, readersWaiting, readersEntry, readerSemaphore, letIn>>
  BY DEF IInv, WakeWriter, Move, counters
<1>2. /\ Count("read")' = Count("read") /\ Count("write")' = Count("write")
      /\ Count("wantRead")' = Count("wantRead") /\ Count("wantWrite")' = Count("wantWrite")
      /\ Count("wakeWriter")' = Count("wakeWriter") - 1 /\ Count("wakeWriter") > 0
  <2>1. /\ \A l : l \notin {"wakeWriter", "out"} => Count(l)' = Count(l)
        /\ Count("wakeWriter")' = Count("wakeWriter") - 1
    BY <1>1, StepCounts
  <2> QED
    BY <1>1, <2>1, Numbers
<1>3. writerEvent = FALSE
  <2>1. Count("write") + Granted <= 1
    BY DEF IInv, Balance, WritersInside
  <2>2. writerEvent => Granted = Count("wakeWriter") + 1
    BY DEF Granted
  <2>3. ~writerEvent
    BY <2>1, <2>2, <1>2, Naturals
  <2> QED
    BY <2>3, <1>1 DEF TypeOK
<1>4. Granted' = Granted
  BY <1>1, <1>2, <1>3, Naturals DEF Granted
<1>5. WritersInside' = WritersInside /\ Tokens' = Tokens
  BY <1>1, <1>2, <1>4 DEF WritersInside, Tokens
<1>6. \A u \in Threads : pc'[u] = "wakeReaders" <=> pc[u] = "wakeReaders"
  BY <1>1 DEF TypeOK
<1>7. WritersInside > 0
  BY <1>1, <1>2, <1>3, Naturals DEF WritersInside, Granted
<1>8. InUse
  BY <1>7 DEF IInv, Lost
<1>9. InUse'
  <2>1. TokensAreSomewhere'
    BY <1>1, <1>5, <1>6, <1>8, TokensStay DEF InUse
  <2> QED
    BY <2>1, <1>1, <1>2, <1>5, <1>8 DEF InUse
<1>10. TypeOK'
  BY <1>1 DEF TypeOK, ThreadPc
<1>11. Balance'
  BY <1>1, <1>2, <1>4, <1>5 DEF IInv, Balance
<1> QED
  BY <1>9, <1>10, <1>11 DEF IInv

-----------------------------------------------------------------------------
\* A new lock is in use by nobody.
LEMMA InitIInv == Init => IInv
<1> SUFFICES ASSUME Init PROVE IInv
  OBVIOUS
<1>1. \A t \in Threads : pc[t] = "out"
  BY DEF Init
<1>2. /\ Count("read") = 0 /\ Count("write") = 0 /\ Count("wantRead") = 0
      /\ Count("wantWrite") = 0 /\ Count("wakeWriter") = 0
  BY <1>1, Numbers
<1>3. Granted = 0 /\ WritersInside = 0 /\ Tokens = 0
  BY <1>2 DEF Init, Granted, WritersInside, Tokens
<1>4. TypeOK
  <2>1. 0 \in Counter
    BY Numbers, ReadWriteLockAssumption DEF Counter
  <2>2. -1 \in -1 .. Cardinality(Threads) - 1
    BY Numbers
  <2> QED
    BY <2>1, <2>2 DEF Init, TypeOK, ThreadPc
<1>5. Balance
  BY <1>2, <1>3 DEF Init, Balance
<1>6. InUse
  BY <1>1, <1>2, <1>3 DEF Init, InUse, TokensAreSomewhere
<1> QED
  BY <1>4, <1>5, <1>6 DEF IInv

\* The invariant does not look at anything but the variables.
LEMMA StutterIInv == IInv /\ UNCHANGED vars => IInv'
<1> SUFFICES ASSUME IInv, UNCHANGED vars PROVE IInv'
  OBVIOUS
<1>1. /\ UNCHANGED <<lockCount, writersWaiting, readersWaiting, readersEntry, writerEvent,
                      readerSemaphore, pc, letIn>>
  BY DEF vars, counters, signals
<1>2. \A l : Count(l)' = Count(l)
  BY <1>1 DEF Count, Threads_at
<1>3. Granted' = Granted /\ WritersInside' = WritersInside /\ Tokens' = Tokens
  BY <1>1, <1>2 DEF Granted, WritersInside, Tokens
<1>4. TypeOK'
  BY <1>1 DEF IInv, TypeOK
<1>5. Balance'
  BY <1>1, <1>2, <1>3 DEF IInv, Balance
<1>6. (InUse \/ Lost)'
  BY <1>1, <1>2, <1>3 DEF IInv, InUse, Lost, TokensAreSomewhere
<1> QED
  BY <1>4, <1>5, <1>6 DEF IInv

\* Every step preserves the invariant.
LEMMA NextIInv == IInv /\ [Next]_vars => IInv'
<1>1. ASSUME IInv, NEW t \in Threads, Acquire(t) PROVE IInv'
  BY <1>1, AcquireExclusiveStep, TryToAcquireExclusiveStep, AcquireSharedStep,
     TryToAcquireSharedStep DEF Acquire
<1>2. ASSUME IInv, NEW t \in Threads, Wake(t) PROVE IInv'
  BY <1>2, WriterWakesStep, ReaderWakesStep, WakeReadersStep, WakeWriterStep DEF Wake
<1>3. ASSUME IInv, NEW t \in Threads, Release(t) PROVE IInv'
  BY <1>3, ReleaseFreeStep, ReleaseToReadersStep, ReleaseToOthersStep, ReleaseToWriterStep
     DEF Release
<1> QED
  BY <1>1, <1>2, <1>3, StutterIInv DEF Next

\* Counting gives exclusion: one writer and nobody else.
LEMMA IInvExcludes == IInv => ReadersOrOneWriter /\ CountsAgree
<1> SUFFICES ASSUME IInv PROVE ReadersOrOneWriter /\ CountsAgree
  OBVIOUS
<1>0. TypeOK
  BY DEF IInv
<1>1. Count("write") + Granted <= 1 /\ Granted \in Nat /\ Tokens \in Int
  BY <1>0, Integral DEF IInv, Balance, WritersInside
<1>2. ASSUME NEW w \in Threads_at("write") PROVE Holders = {w}
  <2>1. w \in Threads /\ pc[w] = "write"
    BY DEF Threads_at
  <2>2. Count("write") = 1 /\ Granted = 0 /\ WritersInside = 1
    BY <1>1, <2>1, Numbers DEF WritersInside
  <2>3. \A v \in Threads_at("write") : v = w
    <3>1. IsFiniteSet(Threads_at("write")) /\ Cardinality(Threads_at("write")) = 1
      BY <2>2, SizesAreNumbers DEF Count, Threads_at, Located
    <3>2. PICK x : Threads_at("write") = {x}
      BY <3>1, FS_Singleton
    <3> QED
      BY <3>2, <1>2
  <2>4. Count("read") = 0
    BY <1>1, <2>2, <1>0, Integral, Naturals DEF IInv, InUse, Lost, Tokens
  <2>5. Threads_at("read") = {}
    BY <2>4, Numbers DEF Threads_at
  <2> QED
    BY <2>3, <2>5, <1>2 DEF Holders
<1>3. Granted = 1 => Holders = {} /\ readerSemaphore = 0
  <2> SUFFICES ASSUME Granted = 1 PROVE Holders = {} /\ readerSemaphore = 0
    OBVIOUS
  <2>1. Count("write") = 0 /\ WritersInside = 1
    BY <1>1, Naturals DEF WritersInside
  <2>2. InUse /\ readersEntry = 0 /\ Tokens >= 0
    BY <2>1 DEF IInv, InUse, Lost
  <2>3. Count("read") = 0 /\ Tokens = 0
    BY <2>2, Naturals DEF Tokens
  <2>4. readerSemaphore = 0
    BY <2>2, <2>3 DEF InUse, TokensAreSomewhere
  <2> QED
    BY <2>1, <2>3, <2>4, Numbers DEF Holders, Threads_at
<1> QED
  BY <1>2, <1>3 DEF ReadersOrOneWriter, CountsAgree, IInv, Balance

-----------------------------------------------------------------------------
\* The invariant holds in every behaviour of the lock.
LEMMA Invariance == Spec => []IInv
  BY InitIInv, NextIInv, PTL DEF Spec

\* Many readers or one writer (ExAcquireReadWriteLock*, ExReleaseReadWriteLock),
\* for any number of threads, the counter that wraps included.
THEOREM Exclusion == Spec => []ReadersOrOneWriter
  BY Invariance, IInvExcludes, PTL

\* The counters of X_ERWLOCK count the threads, at any time.
THEOREM CountersRight == Spec => []CountsAgree
  BY Invariance, IInvExcludes, PTL

\* Every variable keeps its type; lock_count is never more than the threads it counts.
THEOREM TypeCorrect == Spec => []TypeOK
<1>1. IInv => TypeOK
  BY DEF IInv
<1> QED
  BY <1>1, Invariance, PTL

-----------------------------------------------------------------------------
(* The order of entry, and the abstract lock.                               *)

\* A reader that does not wait enters a lock without writers, inside or waiting.
LEMMA SharedEntry ==
  ASSUME IInv, lockCount = -1 \/ (readersEntry # 0 /\ writersWaiting = 0)
  PROVE  Threads_at("write") = {} /\ Threads_at("wantWrite") = {}
<1>1. TypeOK /\ Balance
  BY DEF IInv
<1>2. WritersInside = 0 /\ writersWaiting = 0
  BY <1>1, EmptyIsFree, Integral DEF IInv, Balance, InUse, Lost
<1>3. Count("write") = 0 /\ Granted = 0
  BY <1>1, <1>2, Integral, Naturals DEF WritersInside
<1>4. Count("wantWrite") = 0
  BY <1>1, <1>2, <1>3 DEF Balance
<1> QED
  BY <1>3, <1>4, Numbers DEF Threads_at

\* A lock that is free is a lock nobody waits for.
LEMMA ExclusiveEntry ==
  ASSUME IInv, lockCount = -1
  PROVE  Holders = {} /\ Waiters = {}
  BY EmptyIsFree, Numbers DEF Holders, Waiters, Threads_at

\* Where a step of one thread leaves the sets of threads.
LEMMA StepSets ==
  ASSUME TypeOK, NEW t \in Threads, NEW to, pc' = [pc EXCEPT ![t] = to]
  PROVE  /\ \A l : Threads_at(l)' = IF l = to THEN Threads_at(l) \cup {t} ELSE Threads_at(l) \ {t}
         /\ pc'[t] = to
         /\ \A u \in Threads \ {t} : pc'[u] = pc[u]
  BY DEF TypeOK, Threads_at

\* Nobody passes a waiting writer, and no writer passes anybody.
LEMMA StepOvertakesNobody ==
  ASSUME IInv, [Next]_vars, NEW t \in Threads, pc[t] = "out"
  PROVE  /\ pc'[t] = "read" => Threads_at("wantWrite") = {}
         /\ pc'[t] = "write" => Waiters = {}
<1>0. TypeOK /\ lockCount \in Int /\ lockCount >= -1
  BY Numbers DEF IInv, TypeOK
<1>1. CASE UNCHANGED vars
  BY <1>1 DEF vars
<1>2. ASSUME NEW u \in Threads, NEW to, u # t, pc' = [pc EXCEPT ![u] = to]
      PROVE  pc'[t] = "out"
  BY <1>0, <1>2 DEF TypeOK
<1>3. ASSUME NEW u \in Threads, Acquire(u), u # t PROVE pc'[t] = "out"
  BY <1>2, <1>3 DEF Acquire, AcquireExclusive, TryToAcquireExclusive, AcquireShared,
                    TryToAcquireShared, Move
<1>4. ASSUME NEW u \in Threads, Wake(u) \/ Release(u) PROVE pc'[t] = "out"
  <2>1. CASE u = t
    BY <1>0, <2>1, <1>4 DEF TypeOK, Wake, WriterWakes, ReaderWakes, WakeReaders, WakeWriter, Move,
       Release, ReleaseFree, ReleaseToReaders, ReleaseToOthers, ReleaseToWriter, Releases
  <2>2. CASE u # t
    BY <1>2, <2>2, <1>4 DEF Wake, WriterWakes, ReaderWakes, WakeReaders, WakeWriter, Move,
       Release, ReleaseFree, ReleaseToReaders, ReleaseToOthers, ReleaseToWriter, Releases
  <2> QED
    BY <2>1, <2>2
<1>5. CASE Acquire(t)
  <2>1. CASE AcquireExclusive(t) \/ TryToAcquireExclusive(t)
    <3>1. pc'[t] # "read" /\ (pc'[t] = "write" => lockCount = -1)
      BY <1>0, <2>1 DEF TypeOK, AcquireExclusive, TryToAcquireExclusive, Move
    <3> QED
      BY <3>1, ExclusiveEntry
  <2>2. CASE AcquireShared(t) \/ TryToAcquireShared(t)
    <3>1. /\ pc'[t] # "write"
          /\ pc'[t] = "read" => lockCount = -1 \/ (readersEntry # 0 /\ writersWaiting = 0)
      BY <1>0, <2>2 DEF TypeOK, AcquireShared, TryToAcquireShared, Move
    <3> QED
      BY <3>1, SharedEntry
  <2> QED
    BY <1>5, <2>1, <2>2 DEF Acquire
<1> QED
  BY <1>1, <1>3, <1>4, <1>5 DEF Next

\* A step of the lock is a step of the abstract lock, or none.
LEMMA StepImplements ==
  ASSUME IInv, [Next]_vars
  PROVE  [RW!Next]_<<Threads_at("read"), Threads_at("write")>>
<1> DEFINE Goal == [RW!Next]_<<Threads_at("read"), Threads_at("write")>>
<1>0. TypeOK /\ lockCount \in Int /\ lockCount >= -1
  BY Numbers DEF IInv, TypeOK
<1>1. CASE UNCHANGED vars
  BY <1>1 DEF vars, Threads_at
<1>2. ASSUME NEW t \in Threads, NEW from, NEW to, from \notin {"read", "write"},
             to \notin {"read", "write"}, Move(t, from, to)
      PROVE  Goal
  <2>1. UNCHANGED <<Threads_at("read"), Threads_at("write")>>
    BY <1>0, <1>2 DEF TypeOK, Move, Threads_at
  <2> QED
    BY <2>1
<1>3. ASSUME NEW t \in Threads, NEW from, from \notin {"read", "write"}, Move(t, from, "write"),
             Holders = {}
      PROVE  Goal
  <2>1. Threads_at("read")' = {} /\ Threads_at("write")' = {t}
    BY <1>0, <1>3 DEF TypeOK, Move, Threads_at, Holders
  <2>2. RW!EnterExclusive(t)
    BY <2>1, <1>3 DEF RW!EnterExclusive, Holders
  <2> QED
    BY <2>2 DEF RW!Next
<1>4. ASSUME NEW t \in Threads, NEW from, from \notin {"read", "write"}, Move(t, from, "read"),
             Threads_at("write") = {}
      PROVE  Goal
  <2>1. /\ t \notin Threads_at("read") /\ Threads_at("read")' = Threads_at("read") \cup {t}
        /\ Threads_at("write")' = Threads_at("write")
    BY <1>0, <1>4 DEF TypeOK, Move, Threads_at
  <2>2. RW!EnterShared(t)
    BY <2>1, <1>4 DEF RW!EnterShared
  <2> QED
    BY <2>2 DEF RW!Next
<1>5. ASSUME NEW t \in Threads, NEW to, to \notin {"read", "write"}, Releases(t, to)
      PROVE  Goal
  <2>1. /\ t \in Threads_at("read") \cup Threads_at("write")
        /\ Threads_at("read")' = Threads_at("read") \ {t}
        /\ Threads_at("write")' = Threads_at("write") \ {t}
    BY <1>0, <1>5 DEF TypeOK, Releases, Threads_at
  <2>2. RW!Leave(t)
    BY <2>1 DEF RW!Leave
  <2> QED
    BY <2>2 DEF RW!Next
<1> HIDE DEF Goal
<1>6. ASSUME NEW t \in Threads, Acquire(t) PROVE Goal
  <2>1. CASE AcquireExclusive(t) \/ TryToAcquireExclusive(t)
    <3>1. Move(t, "out", "wantWrite") \/ (Move(t, "out", "write") /\ lockCount = -1)
      BY <1>0, <2>1 DEF AcquireExclusive, TryToAcquireExclusive
    <3> QED
      BY <3>1, <1>2, <1>3, ExclusiveEntry
  <2>2. CASE AcquireShared(t) \/ TryToAcquireShared(t)
    <3>1. \/ Move(t, "out", "wantRead")
          \/ /\ Move(t, "out", "read")
             /\ lockCount = -1 \/ (readersEntry # 0 /\ writersWaiting = 0)
      BY <1>0, <2>2 DEF AcquireShared, TryToAcquireShared
    <3> QED
      BY <3>1, <1>2, <1>4, SharedEntry
  <2> QED
    BY <1>6, <2>1, <2>2 DEF Acquire
<1>7. ASSUME NEW t \in Threads, Wake(t) PROVE Goal
  <2>1. CASE WriterWakes(t)
    <3>1. Granted = 1
      BY <2>1, <1>0, Integral, Naturals DEF WriterWakes, Granted, IInv, Balance, WritersInside
    <3> QED
      BY <3>1, <2>1, <1>3, IInvExcludes DEF WriterWakes, CountsAgree
  <2>2. CASE ReaderWakes(t)
    <3>1. InUse /\ Tokens > 0
      BY <2>2 DEF ReaderWakes, IInv, Lost, InUse, TokensAreSomewhere
    <3>2. readersEntry # 0 /\ WritersInside # 1
      BY <3>1, <1>0, Integral, Naturals DEF Tokens, InUse
    <3>3. Count("write") = 0
      BY <3>2, <1>0, Integral, Naturals DEF IInv, Balance, WritersInside
    <3> QED
      BY <3>3, <2>2, <1>4, Numbers DEF ReaderWakes, Threads_at
  <2>3. CASE WakeReaders(t) \/ WakeWriter(t)
    BY <2>3, <1>2 DEF WakeReaders, WakeWriter
  <2> QED
    BY <1>7, <2>1, <2>2, <2>3 DEF Wake
<1>8. ASSUME NEW t \in Threads, Release(t) PROVE Goal
  BY <1>8, <1>5 DEF Release, ReleaseFree, ReleaseToReaders, ReleaseToOthers, ReleaseToWriter
<1>9. Goal
  BY <1>1, <1>6, <1>7, <1>8 DEF Next, Goal
<1> QED
  BY <1>9 DEF Goal

\* Writers are not passed (ExAcquireReadWriteLockShared looks at
\* writers_waiting_count), and a writer passes nobody that waits.
THEOREM WritersNotPassed == Spec => NoOvertaking
<1>1. IInv /\ [Next]_vars =>
        [\A t \in Threads : pc[t] = "out" =>
           /\ pc'[t] = "read" => Threads_at("wantWrite") = {}
           /\ pc'[t] = "write" => Waiters = {}]_vars
  BY StepOvertakesNobody
<1> QED
  BY <1>1, Invariance, PTL DEF Spec, NoOvertaking

\* The lock implements ReadersWriters for any number of threads.
THEOREM ImplementsReadersWriters == Spec => LockImplemented
<1>1. Init => RW!Init
  BY DEF Init, RW!Init, Threads_at
<1> QED
  BY <1>1, StepImplements, Invariance, PTL DEF Spec, LockImplemented, RW!Spec
=============================================================================
