---------------------- MODULE DeferredCompletionProofs ----------------------
(***************************************************************************)
(* User APCs and deferred completions, for any numbers of blocks, senders, *)
(* APCs of the guest and overlapped structures, and any number of hints.   *)
(*                                                                         *)
(* The argument, by the parts of IInv.  A block is in the hand of a        *)
(* sender, on the list or in a delivery (BlocksAccounted), and a structure *)
(* goes round: it is being queued, on the dispatch thread's list or in its *)
(* hands (PendingOnce), and the guest is told of it in one way only        *)
(* (ToldOnce): by a block or by the copy of what an APC calls, unless it   *)
(* was submitted again before the dispatch thread was done with it.        *)
(* Both need that a list holds nothing twice, and ToldOnce needs that a    *)
(* free block calls nothing, as the next sender overwrites it.             *)
(* HintsComing follows the hints through the waits of the thread.          *)
(***************************************************************************)
EXTENDS DeferredCompletion, FiniteSetTheorems, TLAPS

\* No entry of a list twice.
Distinct(q) == \A i, j \in 1 .. Len(q) : q[i] = q[j] => i = j

-----------------------------------------------------------------------------
(* Lists: what is on them after each of the operations.                     *)

LEMMA ToSetOf ==
  ASSUME NEW S, NEW q \in Seq(S)
  PROVE  ToSet(q) = {q[i] : i \in 1 .. Len(q)} /\ ToSet(q) \subseteq S
BY DEF ToSet

LEMMA EmptyList == ToSet(<<>>) = {} /\ Distinct(<<>>)
BY DEF ToSet, Distinct

LEMMA NotEmptyList ==
  ASSUME NEW S, NEW q \in Seq(S), q # <<>>
  PROVE  Head(q) \in ToSet(q) /\ Head(q) = q[1] /\ Len(q) \in Nat \ {0}
<1>1. Len(q) \in Nat \ {0} /\ Head(q) = q[1]
  OBVIOUS
<1> QED
  BY <1>1, ToSetOf

LEMMA AfterAppend ==
  ASSUME NEW S, NEW q \in Seq(S), NEW e \in S, Distinct(q), e \notin ToSet(q)
  PROVE  /\ Append(q, e) \in Seq(S) /\ Append(q, e) # <<>>
         /\ ToSet(Append(q, e)) = ToSet(q) \cup {e}
         /\ Distinct(Append(q, e))
<1> DEFINE r == Append(q, e)
<1>1. /\ r \in Seq(S) /\ Len(r) = Len(q) + 1 /\ Len(q) \in Nat
      /\ \A i \in 1 .. Len(q) : r[i] = q[i]
      /\ r[Len(q) + 1] = e
  OBVIOUS
<1>2. ToSet(r) = {r[i] : i \in 1 .. Len(r)} /\ ToSet(q) = {q[i] : i \in 1 .. Len(q)}
  BY <1>1, ToSetOf
<1> HIDE DEF r
<1>3. ToSet(r) = ToSet(q) \cup {e}
  <2>1. \A x \in ToSet(r) : x \in ToSet(q) \cup {e}
    BY <1>1, <1>2
  <2>2. \A x \in ToSet(q) : x \in ToSet(r)
    BY <1>1, <1>2
  <2>3. e \in ToSet(r)
    BY <1>1, <1>2
  <2> QED
    BY <2>1, <2>2, <2>3
<1>4. Distinct(r)
  BY <1>1, <1>2 DEF Distinct
<1>5. r # <<>>
  BY <1>1
<1> QED
  BY <1>1, <1>3, <1>4, <1>5 DEF r

LEMMA AfterTail ==
  ASSUME NEW S, NEW q \in Seq(S), q # <<>>, Distinct(q)
  PROVE  /\ Tail(q) \in Seq(S)
         /\ ToSet(Tail(q)) = ToSet(q) \ {Head(q)}
         /\ Distinct(Tail(q))
<1> DEFINE r == Tail(q)
<1>1. /\ r \in Seq(S) /\ Len(r) = Len(q) - 1 /\ Len(q) \in Nat \ {0} /\ Head(q) = q[1]
      /\ \A i \in 1 .. Len(r) : r[i] = q[i + 1]
  OBVIOUS
<1>2. ToSet(r) = {r[i] : i \in 1 .. Len(r)} /\ ToSet(q) = {q[i] : i \in 1 .. Len(q)}
  BY <1>1, ToSetOf
<1> HIDE DEF r
<1>3. ToSet(r) = ToSet(q) \ {Head(q)}
  <2>1. \A x \in ToSet(r) : x \in ToSet(q) \ {q[1]}
    BY <1>1, <1>2 DEF Distinct
  <2>2. \A x \in ToSet(q) \ {q[1]} : x \in ToSet(r)
    <3> TAKE x \in ToSet(q) \ {q[1]}
    <3>1. PICK i \in 1 .. Len(q) : q[i] = x /\ i # 1
      BY <1>2
    <3>2. i - 1 \in 1 .. Len(r) /\ r[i - 1] = x
      BY <1>1, <3>1
    <3> QED
      BY <1>2, <3>2
  <2> QED
    BY <1>1, <2>1, <2>2
<1>4. Distinct(r)
  BY <1>1 DEF Distinct
<1> QED
  BY <1>1, <1>3, <1>4 DEF r

LEMMA AfterRemoveFirst ==
  ASSUME NEW S, NEW q \in Seq(S), NEW e, Contains(q, e), Distinct(q)
  PROVE  /\ RemoveFirst(q, e) \in Seq(S)
         /\ ToSet(RemoveFirst(q, e)) = ToSet(q) \ {e}
         /\ Distinct(RemoveFirst(q, e))
<1> DEFINE r == RemoveFirst(q, e)
<1>1. PICK i \in 1 .. Len(q) : q[i] = e
  BY DEF Contains
<1>2. r = SubSeq(q, 1, i - 1) \o SubSeq(q, i + 1, Len(q))
  <2>1. SelectInSeq(q, LAMBDA v : v = e) = i
    BY <1>1 DEF SelectInSeq, Min, Distinct
  <2> QED
    BY <1>1, <2>1 DEF RemoveFirst, RemoveAt, SelectInSeq, Min
<1> HIDE DEF r
<1>3. PICK a, b :
        /\ a \in Seq(S) /\ b \in Seq(S) /\ r = a \o b
        /\ Len(a) = i - 1 /\ Len(b) = Len(q) - i
        /\ \A k \in 1 .. i - 1 : a[k] = q[k]
        /\ \A k \in 1 .. Len(q) - i : b[k] = q[i + k]
  <2>1. /\ SubSeq(q, 1, i - 1) \in Seq(S) /\ SubSeq(q, i + 1, Len(q)) \in Seq(S)
        /\ Len(SubSeq(q, 1, i - 1)) = i - 1 /\ Len(SubSeq(q, i + 1, Len(q))) = Len(q) - i
        /\ \A k \in 1 .. i - 1 : SubSeq(q, 1, i - 1)[k] = q[k]
        /\ \A k \in 1 .. Len(q) - i : SubSeq(q, i + 1, Len(q))[k] = q[i + k]
    OBVIOUS
  <2> QED
    BY <1>2, <2>1
<1>4. r \in Seq(S) /\ Len(r) = Len(q) - 1
  <2>1. a \in Seq(S) /\ b \in Seq(S) /\ r = a \o b
    BY <1>3
  <2>2. r \in Seq(S) /\ Len(r) = Len(a) + Len(b)
    BY <2>1
  <2> QED
    BY <1>3, <2>2
<1>5. \A k \in 1 .. Len(r) : r[k] = q[IF k < i THEN k ELSE k + 1]
  <2> TAKE k \in 1 .. Len(r)
  <2>1. r[k] = IF k <= Len(a) THEN a[k] ELSE b[k - Len(a)]
    BY <1>3, <1>4
  <2>2. CASE k < i
    BY <1>3, <2>1, <2>2
  <2>3. CASE k >= i
    <3>1. k - (i - 1) \in 1 .. Len(q) - i /\ i + (k - (i - 1)) = k + 1
      BY <1>4, <2>3
    <3> QED
      BY <1>3, <2>1, <2>3, <3>1
  <2> QED
    BY <2>2, <2>3
<1>6. ToSet(r) = {r[k] : k \in 1 .. Len(r)} /\ ToSet(q) = {q[k] : k \in 1 .. Len(q)}
  BY <1>4, ToSetOf
<1>7. ToSet(r) = ToSet(q) \ {e}
  <2>1. \A x \in ToSet(r) : x \in ToSet(q) \ {e}
    <3> TAKE x \in ToSet(r)
    <3>1. PICK k \in 1 .. Len(r) : r[k] = x
      BY <1>6
    <3> DEFINE j == IF k < i THEN k ELSE k + 1
    <3>2. j \in 1 .. Len(q) /\ j # i /\ q[j] = x
      BY <1>1, <1>4, <1>5, <3>1
    <3> HIDE DEF j
    <3>3. x # e
      BY <1>1, <3>2 DEF Distinct
    <3> QED
      BY <1>6, <3>2, <3>3
  <2>2. \A x \in ToSet(q) \ {e} : x \in ToSet(r)
    <3> TAKE x \in ToSet(q) \ {e}
    <3>1. PICK j \in 1 .. Len(q) : q[j] = x /\ j # i
      BY <1>1, <1>6
    <3> DEFINE k == IF j < i THEN j ELSE j - 1
    <3>2. k \in 1 .. Len(r) /\ r[k] = x
      BY <1>1, <1>4, <1>5, <3>1
    <3> QED
      BY <1>6, <3>2
  <2> QED
    BY <2>1, <2>2
<1>8. Distinct(r)
  BY <1>4, <1>5 DEF Distinct
<1> QED
  BY <1>4, <1>7, <1>8 DEF r

LEMMA ListLength ==
  ASSUME NEW S, NEW q \in Seq(S), Distinct(q)
  PROVE  Cardinality(ToSet(q)) = Len(q)
<1> DEFINE f == [i \in 1 .. Len(q) |-> q[i]]
<1>1. Len(q) \in Nat /\ ToSet(q) = {q[i] : i \in 1 .. Len(q)}
  BY ToSetOf
<1>2. f \in Bijection(1 .. Len(q), ToSet(q))
  BY <1>1 DEF Bijection, Injection, IsInjective, Surjection, Distinct
<1>3. ExistsBijection(1 .. Len(q), ToSet(q))
  BY <1>2 DEF ExistsBijection
<1> QED
  BY <1>1, <1>3, FS_CountingElements

-----------------------------------------------------------------------------
(* The inductive invariant.                                                 *)

Types ==
  /\ TypeOK
  /\ after \in {"run", "sleep"}
  /\ current \in Blocks \cup GuestApcs \cup {NoApc}
  /\ scratch \in Routines \cup {NoRoutine}
  /\ asked \in Overlapped \cup {NoRoutine} /\ doing \in Overlapped \cup {NoRoutine}
  /\ running \in BOOLEAN

Held == {block[s] : s \in Senders} \ {NoApc}
Delivered == IF pc = "kernel" THEN {current} \cap Blocks ELSE {}

\* Where the blocks are, and that a free one calls nothing.
BlocksAccounted ==
  /\ Distinct(queue)
  /\ used = Held \cup (ToSet(queue) \cap Blocks) \cup Delivered
  /\ Held \cap ToSet(queue) = {} /\ Held \cap Delivered = {} /\ ToSet(queue) \cap Delivered = {}
  /\ \A s \in Senders : block[s] # NoApc <=> stage[s] = "insert"
  /\ \A s, t \in Senders : block[s] = block[t] /\ block[s] # NoApc => s = t
  /\ pc = "kernel" => current # NoApc
  /\ \A a \in Blocks \ used : routine[a] = NoRoutine

\* An APC no hint is coming for is silent, or under delivery or rundown.
HintsComing ==
  hints = 0 /\ (\A s \in Senders : stage[s] # "hint")
    => \/ ToSet(queue) \subseteq silent
       \/ pc \in {"deliver", "kernel", "normal"} /\ ~critical
       \/ pc \in {"rundown", "exited"}

\* The dispatch thread is woken for an entry or for the end.
WorkerFinds ==
  /\ wpc = "take" => entries # <<>>
  /\ wpc = "woken" => entries # <<>> \/ ~running
  /\ dpc # "up" => ~running

\* A pending structure is being queued, on the list once, or being completed.
PendingOnce ==
  /\ asked # NoRoutine <=> pc = "push"
  /\ doing # NoRoutine <=> wpc \in {"complete", "event", "routine"}
  /\ Distinct(entries)
  /\ asked # NoRoutine => result[asked] = "pending" /\ asked \notin ToSet(entries)
  /\ wpc = "complete" => result[doing] = "pending" /\ doing # asked /\ doing \notin ToSet(entries)
  /\ \A o \in ToSet(entries) : result[o] = "pending"

\* Of a structure that is not in reused the guest is told while it is complete,
\* and by one block or one copy of what an APC calls; the worker finds no event
\* and no routine in it if it is pending again.
ToldOnce ==
  /\ \A o \in Overlapped \ reused : event[o] => result[o] # "pending"
  /\ \A a \in Blocks : routine[a] # NoRoutine
       => /\ routine[a] \in Overlapped
          /\ routine[a] \notin reused => /\ result[routine[a]] = "done" /\ scratch # routine[a]
                                         /\ "routine" \in asks[routine[a]]
  /\ scratch # NoRoutine
       => /\ pc = "normal" /\ scratch \in Overlapped
          /\ scratch \notin reused => result[scratch] = "done" /\ "routine" \in asks[scratch]
  /\ wpc \in {"event", "routine"} /\ doing \notin reused
       => /\ result[doing] = "pending" => asks[doing] \cap Unread(doing) = {}
          /\ "routine" \in asks[doing]
               => /\ result[doing] = "done" /\ scratch # doing
                  /\ \A a \in Blocks : routine[a] # doing
  /\ \A a, b \in Blocks :
       routine[a] = routine[b] /\ routine[a] \notin reused \cup {NoRoutine} => a = b

\* A pending structure is on its way to the dispatch thread or in its hands; for
\* a complete one the event is set and the routine on its way, or the thread is
\* about to see to it, unless the one that asked is exiting.
NothingLost ==
  /\ \A o \in Overlapped : result[o] = "pending"
       => o = asked \/ o \in ToSet(entries) \/ (wpc = "complete" /\ o = doing)
  /\ \A o \in Overlapped : result[o] = "done"
       => /\ "event" \in asks[o] => event[o] \/ (wpc = "event" /\ o = doing)
          /\ "routine" \in asks[o]
               => \/ wpc \in {"event", "routine"} /\ o = doing
                  \/ o = scratch \/ \E a \in used : routine[a] = o
                  \/ pc \in {"rundown", "exited"}

IInv ==
  /\ Types /\ BlocksAccounted /\ HintsComing /\ WorkerFinds /\ PendingOnce /\ ToldOnce
  /\ NothingLost

-----------------------------------------------------------------------------
(* The steps.                                                               *)

\* Steps of the APC list and of its thread, without Submit, Push and
\* CompletionRoutine.
ListStep ==
  \/ \E s \in Senders : InsertApc(s) \/ QueueHint(s)
  \/ AllocateApc(Peer, NoRoutine)
  \/ \E a \in GuestApcs : KeInsertQueueApc(a) \/ KeRemoveQueueApc(a)
  \/ TakeApc \/ KernelRoutine \/ Rundown

PcStep ==
  \/ KeDelay \/ AlertableWait \/ ChangeCriticalRegion \/ Exit \/ WaitEnds
  \/ Alerted \/ DeliveryEnds \/ RundownEnds

WorkerStep == TestRunning \/ LockQueue \/ WakeUp \/ RoutineEnqueued

LEMMA StepCases ==
  ASSUME Next
  PROVE  \/ (ListStep \/ PcStep) /\ UNCHANGED dispatchVars
         \/ \E o \in Overlapped : GetOverlappedResult(o) \/ \E n \in Notices : Submit(o, n)
         \/ Push \/ CompletionRoutine
         \/ WorkerStep
         \/ TakeEntry \/ SetResult \/ SetEvent \/ EnqueueRoutine \/ NoRoutineAsked
         \/ StopDispatch \/ NotifyStop \/ JoinDispatch
<1>1. Dispatcher \in Senders /\ Peer \in Senders
  BY DeferredCompletionAssumption
<1>2. ASSUME NEW o \in Overlapped PROVE Asks[o] \subseteq Notices
  BY DeferredCompletionAssumption
<1>3. Lasting \cup (Overlapped \ reused) \subseteq Overlapped
  BY DeferredCompletionAssumption
<1> QED
  BY <1>1, <1>2, <1>3 DEF Next, Guest, GuestChoice, GuestThread, Deliver, Send, Dispatch, Destructor,
              PeerQueues, ListStep, PcStep, WorkerStep

LEMMA FreeBlockIsFree ==
  ASSUME used \subseteq Blocks, Blocks # used
  PROVE  FreeBlock \in Blocks \ used
BY DEF FreeBlock

LEMMA Structures ==
  /\ NoRoutine \notin Overlapped /\ Overlapped \subseteq Routines
  /\ NoApc \notin Blocks \cup GuestApcs /\ Blocks \cap GuestApcs = {}
  /\ Dispatcher \in Senders /\ Peer \in Senders
BY GuestApcAssumption, DeferredCompletionAssumption

-----------------------------------------------------------------------------
(* Types.                                                                   *)

LEMMA TypesInit == Init => Types
<1> SUFFICES ASSUME Init PROVE Types
  OBVIOUS
<1> USE DEF Init, ApcInit
<1>1. queue \in Seq(Blocks \cup GuestApcs) /\ entries \in Seq(Overlapped)
  OBVIOUS
<1>2. TypeOK
  BY <1>1 DEF TypeOK, Notices
<1> QED
  BY <1>2 DEF Types

LEMMA AllocateTypes ==
  ASSUME Types, NEW s \in Senders, NEW r \in Routines \cup {NoRoutine}, AllocateApc(s, r)
  PROVE  /\ used' \subseteq Blocks /\ routine' \in [Blocks -> Routines \cup {NoRoutine}]
         /\ stage' \in [Senders -> {"idle", "insert", "hint"}]
         /\ block' \in [Senders -> Blocks \cup {NoApc}]
         /\ UNCHANGED <<queue, threadVars, silent>>
<1>1. FreeBlock \in Blocks \ used
  BY FreeBlockIsFree DEF AllocateApc, Types, TypeOK
<1> QED
  BY <1>1 DEF AllocateApc, Types, TypeOK

LEMMA FreeTypes ==
  ASSUME Types, NEW a, FreeApc(a)
  PROVE  used' \subseteq Blocks /\ routine' \in [Blocks -> Routines \cup {NoRoutine}]
BY DEF FreeApc, Types, TypeOK

LEMMA TypesStep ==
  ASSUME IInv, [Next]_vars
  PROVE  Types'
<1> USE DEF IInv, Types
<1>1. CASE ListStep /\ UNCHANGED dispatchVars
  <2> USE <1>1 DEF dispatchVars, structures
  <2>1. CASE \E s \in Senders : InsertApc(s)
    <3>1. PICK s \in Senders : InsertApc(s)
      BY <2>1
    <3>2. block[s] \in Blocks
      BY <3>1 DEF InsertApc, BlocksAccounted, TypeOK
    <3>3. queue' \in Seq(Blocks \cup GuestApcs)
      BY <3>1, <3>2 DEF InsertApc, TypeOK
    <3> QED
      BY <3>1, <3>3 DEF InsertApc, TypeOK, threadVars
  <2>2. CASE \E s \in Senders : QueueHint(s)
    BY <2>2 DEF QueueHint, TypeOK
  <2>3. CASE AllocateApc(Peer, NoRoutine)
    BY <2>3, AllocateTypes, Structures DEF TypeOK, threadVars
  <2>4. CASE \E a \in GuestApcs : KeInsertQueueApc(a)
    <3>1. PICK a \in GuestApcs : KeInsertQueueApc(a)
      BY <2>4
    <3>2. queue' \in Seq(Blocks \cup GuestApcs)
      BY <3>1 DEF KeInsertQueueApc, TypeOK
    <3> QED
      BY <3>1, <3>2 DEF KeInsertQueueApc, TypeOK, threadVars, sendVars
  <2>5. CASE \E a \in GuestApcs : KeRemoveQueueApc(a)
    <3>1. PICK a \in GuestApcs : KeRemoveQueueApc(a)
      BY <2>5
    <3>2. queue' \in Seq(Blocks \cup GuestApcs)
      BY <3>1, AfterRemoveFirst DEF KeRemoveQueueApc, TypeOK, BlocksAccounted
    <3> QED
      BY <3>1, <3>2 DEF KeRemoveQueueApc, TypeOK, threadVars, sendVars
  <2>6. CASE TakeApc
    <3>1. queue' \in Seq(Blocks \cup GuestApcs) /\ current' \in Blocks \cup GuestApcs
      BY <2>6 DEF TakeApc, TypeOK
    <3> QED
      BY <2>6, <3>1 DEF TakeApc, TypeOK, ThreadOnly, sendVars
  <2>7. CASE KernelRoutine
    <3>1. used' \subseteq Blocks /\ routine' \in [Blocks -> Routines \cup {NoRoutine}]
      BY <2>7, FreeTypes DEF KernelRoutine
    <3>2. scratch' \in Routines \cup {NoRoutine}
      BY <2>7 DEF KernelRoutine, TypeOK
    <3> QED
      BY <2>7, <3>1, <3>2 DEF KernelRoutine, TypeOK, sendVars
  <2>8. CASE Rundown
    <3>1. used' \subseteq Blocks /\ routine' \in [Blocks -> Routines \cup {NoRoutine}]
      BY <2>8, FreeTypes DEF Rundown
    <3>2. queue' \in Seq(Blocks \cup GuestApcs)
      BY <2>8 DEF Rundown, TypeOK
    <3> QED
      BY <2>8, <3>1, <3>2 DEF Rundown, TypeOK, sendVars, threadVars
  <2> QED
    BY <2>1, <2>2, <2>3, <2>4, <2>5, <2>6, <2>7, <2>8 DEF ListStep
<1>2. CASE PcStep /\ UNCHANGED dispatchVars
  <2> USE <1>2 DEF dispatchVars, structures
  <2>1. /\ UNCHANGED <<queue, used, routine, stage, block, current, scratch>>
        /\ critical' \in BOOLEAN
    BY DEF PcStep, KeDelay, AlertableWait, ChangeCriticalRegion, Exit, WaitEnds, Alerted,
           DeliveryEnds, RundownEnds, ThreadOnly, sendVars, TypeOK
  <2>2. hints' \in Nat
    BY DEF PcStep, KeDelay, AlertableWait, ChangeCriticalRegion, Exit, WaitEnds, Alerted,
           DeliveryEnds, RundownEnds, TypeOK
  <2>3. pc' \in {"run", "sleep", "deliver", "rundown", "exited"} \cup {pc} /\ after' \in {"run", "sleep"}
    BY DEF PcStep, KeDelay, AlertableWait, ChangeCriticalRegion, Exit, WaitEnds, Alerted,
           DeliveryEnds, RundownEnds
  <2> QED
    BY <2>1, <2>2, <2>3 DEF TypeOK
<1>3. CASE \E o \in Overlapped, n \in Notices : Submit(o, n)
  BY <1>3 DEF Submit, ThreadOnly, sendVars, TypeOK
<1>4. CASE \E o \in Overlapped : GetOverlappedResult(o)
  BY <1>4 DEF GetOverlappedResult, apcVars, sendVars, threadVars, TypeOK
<1>5. CASE Push
  <2>1. asked \in Overlapped
    BY <1>5 DEF Push, PendingOnce
  <2>2. entries' \in Seq(Overlapped)
    BY <1>5, <2>1 DEF Push, TypeOK
  <2> QED
    BY <1>5, <2>2 DEF Push, structures, ThreadOnly, sendVars, TypeOK
<1>6. CASE CompletionRoutine
  <2>1. result' \in [Overlapped -> {"free", "pending", "done"}]
    BY <1>6 DEF CompletionRoutine, TypeOK
  <2> QED
    BY <1>6, <2>1 DEF CompletionRoutine, NormalRoutine, ThreadOnly, sendVars, TypeOK
<1>7. CASE WorkerStep
  BY <1>7 DEF WorkerStep, TestRunning, LockQueue, WakeUp, RoutineEnqueued, DispatchOnly, structures, apcVars,
              sendVars, threadVars, TypeOK
<1>8. CASE TakeEntry
  <2>1. entries # <<>>
    BY <1>8 DEF TakeEntry, WorkerFinds
  <2>2. entries' \in Seq(Overlapped) /\ doing' \in Overlapped
    BY <1>8, <2>1 DEF TakeEntry, TypeOK
  <2> QED
    BY <1>8, <2>2 DEF TakeEntry, DispatchOnly, structures, apcVars, sendVars, threadVars, TypeOK
<1>9. CASE SetResult
  <2>1. doing \in Overlapped
    BY <1>9 DEF SetResult, PendingOnce
  <2>2. result' \in [Overlapped -> {"free", "pending", "done"}]
    BY <1>9, <2>1 DEF SetResult, TypeOK
  <2> QED
    BY <1>9, <2>2 DEF SetResult, DispatchOnly, structures, apcVars, sendVars, threadVars, TypeOK
<1>10. CASE SetEvent
  <2>1. doing \in Overlapped
    BY <1>10 DEF SetEvent, PendingOnce
  <2>2. event' \in [Overlapped -> BOOLEAN]
    BY <1>10, <2>1 DEF SetEvent, TypeOK
  <2> QED
    BY <1>10, <2>2 DEF SetEvent, DispatchOnly, structures, apcVars, sendVars, threadVars, TypeOK
<1>11. CASE EnqueueRoutine
  <2>1. doing \in Routines \cup {NoRoutine} /\ Dispatcher \in Senders
    BY <1>11, Structures DEF EnqueueRoutine
  <2>2. AllocateApc(Dispatcher, doing)
    BY <1>11 DEF EnqueueRoutine
  <2> QED
    BY <1>11, <2>1, <2>2, AllocateTypes DEF EnqueueRoutine, DispatchOnly, structures, threadVars, TypeOK
<1>12. CASE StopDispatch \/ NotifyStop \/ JoinDispatch
  BY <1>12 DEF StopDispatch, NotifyStop, JoinDispatch, DestructorOnly, structures, apcVars, sendVars,
               threadVars, TypeOK
<1>13. CASE NoRoutineAsked
  BY <1>13 DEF NoRoutineAsked, DispatchOnly, structures, apcVars, sendVars, threadVars, TypeOK
<1>14. CASE UNCHANGED vars
  BY <1>14 DEF vars, apcVars, dispatchVars, structures, sendVars, threadVars, TypeOK
<1> QED
  BY <1>1, <1>2, <1>3, <1>4, <1>5, <1>6, <1>7, <1>8, <1>9, <1>10, <1>11, <1>12, <1>13, <1>14, StepCases

-----------------------------------------------------------------------------
(* The blocks.                                                              *)

LEMMA BlocksInit == Init => BlocksAccounted
BY EmptyList DEF Init, ApcInit, BlocksAccounted, Held, Delivered

LEMMA BlocksFrame ==
  ASSUME BlocksAccounted, UNCHANGED <<queue, used, routine, stage, block>>,
         UNCHANGED <<pc, current>> \/ (pc # "kernel" /\ pc' # "kernel")
  PROVE  BlocksAccounted'
BY DEF BlocksAccounted, Held, Delivered

LEMMA AllocateBlocks ==
  ASSUME Types, BlocksAccounted, NEW s \in Senders, NEW r, AllocateApc(s, r)
  PROVE  BlocksAccounted'
<1> DEFINE b == FreeBlock
<1>1. b \in Blocks /\ b \notin used /\ b # NoApc
  BY FreeBlockIsFree, Structures DEF AllocateApc, Types, TypeOK
<1>2. /\ used' = used \cup {b} /\ routine' = [routine EXCEPT ![b] = r]
      /\ block' = [block EXCEPT ![s] = b] /\ stage' = [stage EXCEPT ![s] = "insert"]
      /\ stage[s] = "idle" /\ UNCHANGED <<queue, pc, current>>
  BY DEF AllocateApc, threadVars
<1> HIDE DEF b
<1>3. b \notin Held /\ b \notin ToSet(queue) /\ b \notin Delivered
  BY <1>1 DEF BlocksAccounted
<1>4. block[s] = NoApc /\ \A t \in Senders : block[t] # b
  BY <1>1, <1>2, <1>3 DEF BlocksAccounted, Held
<1>5. \A t \in Senders : block'[t] = (IF t = s THEN b ELSE block[t])
                         /\ stage'[t] = (IF t = s THEN "insert" ELSE stage[t])
  BY <1>2 DEF Types, TypeOK
<1>6. Held' = Held \cup {b} /\ Delivered' = Delivered
  BY <1>1, <1>2, <1>4, <1>5 DEF Held, Delivered
<1>7. \A a \in Blocks \ used' : routine'[a] = NoRoutine
  BY <1>2 DEF Types, TypeOK, BlocksAccounted
<1> QED
  BY <1>1, <1>2, <1>3, <1>4, <1>5, <1>6, <1>7 DEF BlocksAccounted

LEMMA InsertBlocks ==
  ASSUME Types, BlocksAccounted, NEW s \in Senders, InsertApc(s)
  PROVE  BlocksAccounted'
<1> DEFINE b == block[s]
<1>1. b \in Blocks /\ b \in Held /\ b \notin ToSet(queue) /\ b \notin Delivered
  BY DEF InsertApc, BlocksAccounted, Held, Types, TypeOK
<1>2. /\ queue' = Append(queue, b)
      /\ block' = [block EXCEPT ![s] = NoApc] /\ stage' = [stage EXCEPT ![s] = "hint"]
      /\ UNCHANGED <<used, routine, pc, current>>
  BY DEF InsertApc, threadVars
<1>3. ToSet(queue') = ToSet(queue) \cup {b} /\ Distinct(queue')
  BY <1>1, <1>2, AfterAppend DEF Types, TypeOK, BlocksAccounted
<1>4. \A t \in Senders : block'[t] = (IF t = s THEN NoApc ELSE block[t])
                         /\ stage'[t] = (IF t = s THEN "hint" ELSE stage[t])
  BY <1>2 DEF Types, TypeOK
<1>5. Held' = Held \ {b} /\ Delivered' = Delivered
  BY <1>1, <1>2, <1>4 DEF Held, Delivered, BlocksAccounted
<1> QED
  BY <1>1, <1>2, <1>3, <1>4, <1>5 DEF BlocksAccounted

LEMMA FreeBlocks ==
  ASSUME Types, NEW a \in Blocks \cup GuestApcs, FreeApc(a),
         \A b \in Blocks \ used : routine[b] = NoRoutine
  PROVE  used' = used \ {a} /\ \A b \in Blocks \ used' : routine'[b] = NoRoutine
BY Structures DEF FreeApc, Types, TypeOK

LEMMA ListBlocks ==
  ASSUME Types, BlocksAccounted, ListStep
  PROVE  BlocksAccounted'
<1> USE DEF Types
<1>1. CASE \E s \in Senders : InsertApc(s)
  BY <1>1, InsertBlocks
<1>2. CASE \E s \in Senders : QueueHint(s)
  BY <1>2 DEF QueueHint, TypeOK, BlocksAccounted, Held, Delivered
<1>3. CASE AllocateApc(Peer, NoRoutine)
  BY <1>3, AllocateBlocks, Structures
<1>4. CASE \E a \in GuestApcs : KeInsertQueueApc(a)
  <2>1. PICK a \in GuestApcs : KeInsertQueueApc(a)
    BY <1>4
  <2>2. a \notin ToSet(queue) /\ a \notin Blocks
    BY <2>1, ToSetOf, Structures DEF KeInsertQueueApc, Contains, TypeOK
  <2>3. ToSet(queue') = ToSet(queue) \cup {a} /\ Distinct(queue')
    BY <2>1, <2>2, AfterAppend DEF KeInsertQueueApc, TypeOK, BlocksAccounted
  <2>4. UNCHANGED <<used, routine, stage, block, pc, current>>
    BY <2>1 DEF KeInsertQueueApc, sendVars, threadVars
  <2>5. Held \subseteq Blocks /\ Delivered \subseteq Blocks /\ Held' = Held /\ Delivered' = Delivered
    BY <2>4 DEF Held, Delivered, TypeOK
  <2> QED
    BY <2>2, <2>3, <2>4, <2>5 DEF BlocksAccounted
<1>5. CASE \E a \in GuestApcs : KeRemoveQueueApc(a)
  <2>1. PICK a \in GuestApcs : KeRemoveQueueApc(a)
    BY <1>5
  <2>2. ToSet(queue') = ToSet(queue) \ {a} /\ Distinct(queue')
    BY <2>1, AfterRemoveFirst DEF KeRemoveQueueApc, TypeOK, BlocksAccounted
  <2>3. UNCHANGED <<used, routine, stage, block, pc, current>> /\ a \notin Blocks
    BY <2>1, Structures DEF KeRemoveQueueApc, sendVars, threadVars
  <2>4. Held' = Held /\ Delivered' = Delivered
    BY <2>3 DEF Held, Delivered
  <2> QED
    BY <2>2, <2>3, <2>4 DEF BlocksAccounted
<1>6. CASE TakeApc
  <2> DEFINE h == Head(queue)
  <2>1. /\ h \in ToSet(queue) /\ h \in Blocks \cup GuestApcs /\ h # NoApc
        /\ ToSet(queue') = ToSet(queue) \ {h} /\ Distinct(queue')
    BY <1>6, NotEmptyList, AfterTail, ToSetOf, Structures DEF TakeApc, TypeOK, BlocksAccounted
  <2>2. UNCHANGED <<used, routine, stage, block>> /\ pc # "kernel" /\ pc' = "kernel" /\ current' = h
    BY <1>6 DEF TakeApc, ThreadOnly, sendVars
  <2> HIDE DEF h
  <2>3. Held' = Held /\ Delivered = {} /\ Delivered' = {h} \cap Blocks
    BY <2>2 DEF Held, Delivered
  <2> QED
    BY <2>1, <2>2, <2>3 DEF BlocksAccounted
<1>7. CASE KernelRoutine
  <2>1. /\ current \in Blocks \cup GuestApcs /\ pc = "kernel" /\ pc' = "normal" /\ FreeApc(current)
        /\ UNCHANGED <<queue, stage, block>>
    BY <1>7 DEF KernelRoutine, sendVars, BlocksAccounted
  <2>2. used' = used \ {current} /\ \A b \in Blocks \ used' : routine'[b] = NoRoutine
    BY <2>1, FreeBlocks DEF BlocksAccounted
  <2>3. Held' = Held /\ Delivered = {current} \cap Blocks /\ Delivered' = {} /\ used \subseteq Blocks
    BY <2>1 DEF Held, Delivered, TypeOK
  <2> QED
    BY <2>1, <2>2, <2>3 DEF BlocksAccounted
<1>8. CASE Rundown
  <2> DEFINE h == Head(queue)
  <2>1. /\ h \in ToSet(queue) /\ h \in Blocks \cup GuestApcs
        /\ ToSet(queue') = ToSet(queue) \ {h} /\ Distinct(queue')
    BY <1>8, NotEmptyList, AfterTail, ToSetOf DEF Rundown, TypeOK, BlocksAccounted
  <2>2. FreeApc(h) /\ UNCHANGED <<stage, block, pc, current>>
    BY <1>8 DEF Rundown, sendVars, threadVars
  <2> HIDE DEF h
  <2>3. used' = used \ {h} /\ \A b \in Blocks \ used' : routine'[b] = NoRoutine
    BY <2>1, <2>2, FreeBlocks DEF BlocksAccounted
  <2>4. Held' = Held /\ Delivered' = Delivered
    BY <2>2 DEF Held, Delivered
  <2> QED
    BY <2>1, <2>2, <2>3, <2>4 DEF BlocksAccounted
<1> QED
  BY <1>1, <1>2, <1>3, <1>4, <1>5, <1>6, <1>7, <1>8 DEF ListStep

LEMMA BlocksStep ==
  ASSUME IInv, [Next]_vars
  PROVE  BlocksAccounted'
<1> USE DEF IInv
<1>1. CASE ListStep
  BY <1>1, ListBlocks
<1>2. CASE EnqueueRoutine
  BY <1>2, AllocateBlocks, Structures DEF EnqueueRoutine
<1>3. CASE PcStep
  BY <1>3, BlocksFrame DEF PcStep, KeDelay, AlertableWait, ChangeCriticalRegion, Exit, WaitEnds,
              Alerted, DeliveryEnds, RundownEnds, ThreadOnly, sendVars, Types
<1>4. CASE (\E o \in Overlapped, n \in Notices : Submit(o, n)) \/ Push \/ CompletionRoutine
  BY <1>4, BlocksFrame DEF Submit, Push, CompletionRoutine, NormalRoutine, ThreadOnly, sendVars
<1>5. CASE UNCHANGED apcVars
  BY <1>5, BlocksFrame DEF apcVars, sendVars, threadVars
<1>6. CASE \/ \E o \in Overlapped : GetOverlappedResult(o)
           \/ WorkerStep \/ TakeEntry \/ SetResult \/ SetEvent \/ NoRoutineAsked
           \/ StopDispatch \/ NotifyStop \/ JoinDispatch \/ UNCHANGED vars
  BY <1>5, <1>6 DEF GetOverlappedResult, WorkerStep, TestRunning, LockQueue, WakeUp, RoutineEnqueued,
              TakeEntry, SetResult, SetEvent, NoRoutineAsked, StopDispatch, NotifyStop, JoinDispatch,
              DestructorOnly, structures, vars
<1> QED
  BY <1>1, <1>2, <1>3, <1>4, <1>6, StepCases

-----------------------------------------------------------------------------
(* The hints.                                                               *)

LEMMA HintsInit == Init => HintsComing
BY EmptyList DEF Init, ApcInit, HintsComing

LEMMA ListHints ==
  ASSUME Types, BlocksAccounted, HintsComing, ListStep
  PROVE  HintsComing'
<1> USE DEF Types
<1>1. CASE \E s \in Senders : InsertApc(s)
  <2>1. PICK s \in Senders : InsertApc(s)
    BY <1>1
  <2>2. stage'[s] = "hint"
    BY <2>1 DEF InsertApc, TypeOK
  <2> QED
    BY <2>2 DEF HintsComing
<1>2. CASE \E s \in Senders : QueueHint(s)
  BY <1>2 DEF QueueHint, TypeOK, HintsComing
<1>3. CASE AllocateApc(Peer, NoRoutine)
  <2>1. \A s \in Senders : stage[s] = "hint" => stage'[s] = "hint"
    BY <1>3 DEF AllocateApc, TypeOK
  <2> QED
    BY <1>3, <2>1 DEF AllocateApc, threadVars, HintsComing
<1>4. CASE \E a \in GuestApcs : KeInsertQueueApc(a)
  <2>1. PICK a \in GuestApcs : KeInsertQueueApc(a)
    BY <1>4
  <2>2. a \notin ToSet(queue)
    BY <2>1, ToSetOf DEF KeInsertQueueApc, Contains, TypeOK
  <2>3. ToSet(queue') = ToSet(queue) \cup {a} /\ silent' = silent \cup {a}
    BY <2>1, <2>2, AfterAppend DEF KeInsertQueueApc, TypeOK, BlocksAccounted
  <2> QED
    BY <2>1, <2>3 DEF KeInsertQueueApc, sendVars, threadVars, HintsComing
<1>5. CASE \E a \in GuestApcs : KeRemoveQueueApc(a)
  <2>1. PICK a \in GuestApcs : KeRemoveQueueApc(a)
    BY <1>5
  <2>2. ToSet(queue') = ToSet(queue) \ {a} /\ silent' = silent \ {a}
    BY <2>1, AfterRemoveFirst DEF KeRemoveQueueApc, TypeOK, BlocksAccounted
  <2> QED
    BY <2>1, <2>2 DEF KeRemoveQueueApc, sendVars, threadVars, HintsComing
<1>6. CASE TakeApc \/ KernelRoutine \/ Rundown
  BY <1>6 DEF TakeApc, KernelRoutine, Rundown, ThreadOnly, sendVars, threadVars, HintsComing
<1> QED
  BY <1>1, <1>2, <1>3, <1>4, <1>5, <1>6 DEF ListStep

LEMMA HintsStep ==
  ASSUME IInv, [Next]_vars
  PROVE  HintsComing'
<1> USE DEF IInv
<1>1. CASE ListStep
  BY <1>1, ListHints
<1>2. CASE PcStep
  <2>1. CASE KeDelay \/ AlertableWait \/ ChangeCriticalRegion \/ WaitEnds
    BY <1>2, <2>1 DEF KeDelay, AlertableWait, ChangeCriticalRegion, WaitEnds, ThreadOnly, sendVars,
                      HintsComing
  <2>2. CASE Exit \/ RundownEnds
    BY <2>2 DEF Exit, RundownEnds, HintsComing
  <2>3. CASE Alerted
    BY <2>3 DEF Alerted, HintsComing
  <2>4. CASE DeliveryEnds
    BY <2>4, EmptyList DEF DeliveryEnds, ThreadOnly, sendVars, HintsComing
  <2> QED
    BY <1>2, <2>1, <2>2, <2>3, <2>4 DEF PcStep
<1>3. CASE (\E o \in Overlapped, n \in Notices : Submit(o, n)) \/ Push \/ CompletionRoutine
  BY <1>3 DEF Submit, Push, CompletionRoutine, NormalRoutine, ThreadOnly, sendVars, HintsComing
<1>4. CASE EnqueueRoutine
  <2>1. \A s \in Senders : stage[s] = "hint" => stage'[s] = "hint"
    BY <1>4 DEF EnqueueRoutine, AllocateApc, Types, TypeOK
  <2> QED
    BY <1>4, <2>1 DEF EnqueueRoutine, AllocateApc, threadVars, HintsComing
<1>5. CASE UNCHANGED apcVars
  BY <1>5 DEF apcVars, sendVars, threadVars, HintsComing
<1>6. CASE \/ \E o \in Overlapped : GetOverlappedResult(o)
           \/ WorkerStep \/ TakeEntry \/ SetResult \/ SetEvent \/ NoRoutineAsked
           \/ StopDispatch \/ NotifyStop \/ JoinDispatch \/ UNCHANGED vars
  BY <1>5, <1>6 DEF GetOverlappedResult, WorkerStep, TestRunning, LockQueue, WakeUp, RoutineEnqueued,
              TakeEntry, SetResult, SetEvent, NoRoutineAsked, StopDispatch, NotifyStop, JoinDispatch,
              DestructorOnly, structures, vars
<1> QED
  BY <1>1, <1>2, <1>3, <1>4, <1>6, StepCases

-----------------------------------------------------------------------------
(* The dispatch thread and its list.                                        *)

LEMMA WorkerInit == Init => WorkerFinds
BY DEF Init, WorkerFinds

LEMMA WorkerFindsStep ==
  ASSUME IInv, [Next]_vars
  PROVE  WorkerFinds'
<1> USE DEF IInv
<1>1. CASE \/ (ListStep \/ PcStep) /\ UNCHANGED dispatchVars
           \/ CompletionRoutine \/ UNCHANGED vars
           \/ \E o \in Overlapped : GetOverlappedResult(o) \/ \E n \in Notices : Submit(o, n)
  BY <1>1 DEF CompletionRoutine, Submit, GetOverlappedResult, dispatchVars, structures, vars, WorkerFinds
<1>2. CASE Push
  <2>1. entries' # <<>>
    BY <1>2, Structures DEF Push, Types, TypeOK, PendingOnce
  <2> QED
    BY <1>2, <2>1 DEF Push, WorkerFinds
<1>3. CASE WorkerStep
  BY <1>3 DEF WorkerStep, TestRunning, LockQueue, WakeUp, RoutineEnqueued, DispatchOnly, structures, WorkerFinds
<1>4. CASE TakeEntry \/ SetResult \/ SetEvent \/ EnqueueRoutine \/ NoRoutineAsked
  BY <1>4 DEF TakeEntry, SetResult, SetEvent, EnqueueRoutine, NoRoutineAsked, DispatchOnly, structures, WorkerFinds
<1>5. CASE StopDispatch \/ NotifyStop \/ JoinDispatch
  BY <1>5 DEF StopDispatch, NotifyStop, JoinDispatch, DestructorOnly, structures, WorkerFinds
<1> QED
  BY <1>1, <1>2, <1>3, <1>4, <1>5, StepCases

-----------------------------------------------------------------------------
(* The structures.                                                          *)

LEMMA PendingInit == Init => PendingOnce
BY EmptyList DEF Init, ApcInit, PendingOnce

\* Steps that neither queue nor complete a structure.
LEMMA PendingFrame ==
  ASSUME Types, PendingOnce, UNCHANGED <<entries, asked, doing>>,
         pc = "push" <=> pc' = "push",
         UNCHANGED wpc \/ {wpc, wpc'} \cap {"complete", "event", "routine"} = {},
         \A o \in Overlapped : result[o] = "pending" => result'[o] = "pending"
  PROVE  PendingOnce'
<1>1. ToSet(entries) \subseteq Overlapped
  BY ToSetOf DEF Types, TypeOK
<1> QED
  BY <1>1 DEF PendingOnce, Types

LEMMA PendingStep ==
  ASSUME IInv, [Next]_vars
  PROVE  PendingOnce'
<1> USE DEF IInv
<1>1. CASE ListStep /\ UNCHANGED dispatchVars
  <2>1. pc = "push" <=> pc' = "push"
    BY <1>1 DEF ListStep, InsertApc, QueueHint, AllocateApc, KeInsertQueueApc, KeRemoveQueueApc,
                TakeApc, KernelRoutine, Rundown, threadVars
  <2> QED
    BY <1>1, <2>1, PendingFrame DEF dispatchVars, structures
<1>2. CASE PcStep /\ UNCHANGED dispatchVars
  <2>1. pc = "push" <=> pc' = "push"
    BY <1>2 DEF PcStep, KeDelay, AlertableWait, ChangeCriticalRegion, Exit, WaitEnds, Alerted,
                DeliveryEnds, RundownEnds, Types
  <2> QED
    BY <1>2, <2>1, PendingFrame DEF dispatchVars, structures
<1>3. CASE \E o \in Overlapped, n \in Notices : Submit(o, n)
  <2>1. PICK o \in Overlapped, n \in Notices : Submit(o, n)
    BY <1>3
  <2>2. /\ result[o] = "free" /\ result' = [result EXCEPT ![o] = "pending"] /\ asked' = o
        /\ pc' = "push" /\ UNCHANGED <<entries, wpc, doing>>
    BY <2>1 DEF Submit
  <2>3. ToSet(entries) \subseteq Overlapped /\ o \notin ToSet(entries) /\ o # NoRoutine
    BY <2>2, ToSetOf, Structures DEF Types, TypeOK, PendingOnce
  <2>4. \A x \in Overlapped : result'[x] = IF x = o THEN "pending" ELSE result[x]
    BY <2>2 DEF Types, TypeOK
  <2>5. wpc = "complete" => doing \in Overlapped /\ doing # o
    BY <2>2 DEF PendingOnce, Types
  <2> QED
    BY <2>2, <2>3, <2>4, <2>5 DEF PendingOnce
<1>4. CASE \E o \in Overlapped : GetOverlappedResult(o)
  <2>1. PICK o \in Overlapped : GetOverlappedResult(o)
    BY <1>4
  <2>2. result[o] = "done"
    BY <2>1 DEF GetOverlappedResult
  <2>3. \A x \in Overlapped : result[x] = "pending" => result'[x] = "pending"
    BY <2>1, <2>2 DEF GetOverlappedResult, Types, TypeOK
  <2> QED
    BY <2>1, <2>3, PendingFrame DEF GetOverlappedResult, apcVars, threadVars
<1>5. CASE Push
  <2>1. asked \in Overlapped /\ asked \notin ToSet(entries) /\ result[asked] = "pending"
    BY <1>5 DEF Push, PendingOnce, Types
  <2>2. ToSet(entries') = ToSet(entries) \cup {asked} /\ Distinct(entries')
    BY <1>5, <2>1, AfterAppend DEF Push, Types, TypeOK, PendingOnce
  <2>3. /\ asked' = NoRoutine /\ pc' # "push" /\ UNCHANGED <<result, doing>>
        /\ wpc' = wpc \/ {wpc, wpc'} \cap {"complete", "event", "routine"} = {}
    BY <1>5 DEF Push, structures
  <2>4. wpc = "complete" => doing # asked
    BY DEF PendingOnce
  <2> QED
    BY <2>1, <2>2, <2>3, <2>4 DEF PendingOnce
<1>6. CASE CompletionRoutine
  <2>1. \A x \in Overlapped : result[x] = "pending" => result'[x] = "pending"
    BY <1>6 DEF CompletionRoutine
  <2> QED
    BY <1>6, <2>1, PendingFrame DEF CompletionRoutine, NormalRoutine
<1>7. CASE WorkerStep
  BY <1>7, PendingFrame DEF WorkerStep, TestRunning, LockQueue, WakeUp, RoutineEnqueued,
              DispatchOnly, structures, apcVars, threadVars
<1>8. CASE TakeEntry
  <2> DEFINE h == Head(entries)
  <2>1. entries # <<>>
    BY <1>8 DEF TakeEntry, WorkerFinds
  <2>2. /\ h \in ToSet(entries) /\ h \in Overlapped
        /\ ToSet(entries') = ToSet(entries) \ {h} /\ Distinct(entries')
    BY <1>8, <2>1, NotEmptyList, AfterTail, ToSetOf DEF TakeEntry, Types, TypeOK, PendingOnce
  <2>3. doing' = h /\ wpc = "take" /\ wpc' = "complete" /\ UNCHANGED <<result, asked, pc>>
    BY <1>8 DEF TakeEntry, DispatchOnly, structures, apcVars, threadVars
  <2>4. h # NoRoutine /\ h # asked
    BY <2>2, Structures DEF PendingOnce
  <2> HIDE DEF h
  <2> QED
    BY <2>2, <2>3, <2>4 DEF PendingOnce
<1>9. CASE SetResult
  <2>1. /\ doing \in Overlapped /\ wpc = "complete" /\ wpc' = "event"
        /\ UNCHANGED <<asked, entries, doing, pc>>
        /\ result' = [result EXCEPT ![doing] = "done"]
    BY <1>9 DEF SetResult, PendingOnce, Types, DispatchOnly, structures, apcVars, threadVars
  <2>2. \A x \in Overlapped \ {doing} : result'[x] = result[x]
    BY <2>1 DEF Types, TypeOK
  <2>3. ToSet(entries) \subseteq Overlapped
    BY ToSetOf DEF Types, TypeOK
  <2> QED
    BY <2>1, <2>2, <2>3 DEF PendingOnce, Types
<1>10. CASE SetEvent \/ NoRoutineAsked
  BY <1>10 DEF SetEvent, NoRoutineAsked, DispatchOnly, structures, apcVars, threadVars, PendingOnce
<1>11. CASE EnqueueRoutine
  BY <1>11 DEF EnqueueRoutine, AllocateApc, DispatchOnly, structures, threadVars, PendingOnce
<1>12. CASE StopDispatch \/ NotifyStop \/ JoinDispatch
  BY <1>12, PendingFrame DEF StopDispatch, NotifyStop, JoinDispatch, DestructorOnly, structures, apcVars,
               threadVars
<1>13. CASE UNCHANGED vars
  BY <1>13, PendingFrame DEF vars, apcVars, threadVars, dispatchVars, structures
<1> QED
  BY <1>1, <1>2, <1>3, <1>4, <1>5, <1>6, <1>7, <1>8, <1>9, <1>10, <1>11, <1>12, <1>13, StepCases

-----------------------------------------------------------------------------
(* The notices.                                                             *)

LEMMA ToldInit == Init => ToldOnce
<1> SUFFICES ASSUME Init PROVE ToldOnce
  OBVIOUS
<1>1. /\ \A o \in Overlapped : ~event[o]
      /\ \A a \in Blocks : routine[a] = NoRoutine
      /\ scratch = NoRoutine /\ wpc = "top"
  BY DEF Init, ApcInit
<1> QED
  BY <1>1 DEF ToldOnce

\* Steps that tell nobody and take no structure back.
LEMMA ToldFrame ==
  ASSUME Types, PendingOnce, ToldOnce, UNCHANGED <<structures, routine, scratch, doing>>,
         scratch # NoRoutine => pc' = "normal",
         UNCHANGED wpc \/ {wpc, wpc'} \cap {"event", "routine"} = {}
  PROVE  ToldOnce'
BY DEF ToldOnce, Unread, structures

\* Freeing a block tells nobody.
LEMMA ToldFree ==
  ASSUME Types, PendingOnce, ToldOnce, NEW a, FreeApc(a),
         UNCHANGED <<structures, scratch, doing, pc, wpc>>
  PROVE  ToldOnce'
<1>1. \A b \in Blocks : routine'[b] = routine[b] \/ routine'[b] = NoRoutine
  BY DEF FreeApc, Types, TypeOK
<1>2. wpc \in {"event", "routine"} => doing # NoRoutine
  BY DEF PendingOnce
<1> QED
  BY <1>1, <1>2 DEF ToldOnce, Unread, structures

\* A structure that is complete, not of interest to an APC and not being told of
\* is taken back.
LEMMA ToldTaken ==
  ASSUME Types, PendingOnce, ToldOnce, NEW o \in Overlapped, result[o] = "done",
         result' = [result EXCEPT ![o] = "free"],
         UNCHANGED <<asks, event, reused, routine, wpc, doing>>,
         \/ scratch' = NoRoutine /\ (o = scratch \/ "routine" \notin asks[o])
         \/ UNCHANGED <<scratch, pc>> /\ "routine" \notin asks[o]
  PROVE  ToldOnce'
<1>1. \A x \in Overlapped : result'[x] = IF x = o THEN "free" ELSE result[x]
  BY DEF Types, TypeOK
<1>2. wpc \in {"event", "routine"} => doing \in Overlapped
  BY DEF PendingOnce, Types
<1>3. o \notin reused => \A a \in Blocks : routine[a] # o
  BY Structures DEF ToldOnce
<1>4. o \notin reused => o # scratch'
  BY Structures DEF ToldOnce
<1>5. wpc \in {"event", "routine"} /\ doing \notin reused /\ "routine" \in asks[doing] => doing # o
  BY DEF ToldOnce
<1> QED
  BY <1>1, <1>2, <1>3, <1>4, <1>5, Structures DEF ToldOnce, Unread

LEMMA ToldSubmit ==
  ASSUME Types, PendingOnce, ToldOnce, NEW o \in Overlapped, NEW n \in Notices, Submit(o, n)
  PROVE  ToldOnce'
<1>1. /\ result[o] = "free" /\ pc = "run" /\ scratch = NoRoutine
      /\ UNCHANGED <<routine, scratch, wpc, doing>>
      /\ reused \subseteq reused' /\ reused' \subseteq reused \cup {o}
      /\ o \notin reused' => n \cap Unread(o) = {}
  BY DEF Submit, ThreadOnly, ToldOnce
<1>2. /\ \A x \in Overlapped : result'[x] = IF x = o THEN "pending" ELSE result[x]
      /\ \A x \in Overlapped : asks'[x] = IF x = o THEN n ELSE asks[x]
      /\ \A x \in Overlapped : event'[x] = IF x = o THEN FALSE ELSE event[x]
  BY DEF Submit, Types, TypeOK
<1>3. wpc \in {"event", "routine"} => doing \in Overlapped
  BY DEF PendingOnce, Types
<1>4. wpc \in {"event", "routine"} /\ doing = o /\ o \notin reused' => "routine" \notin n
  BY <1>1 DEF Unread
<1>5. \A x : Unread(x)' = Unread(x)
  BY <1>1 DEF Unread
<1>6. \A x \in Overlapped \ reused' : event'[x] => result'[x] # "pending"
  <2> TAKE x \in Overlapped \ reused'
  <2>1. CASE x = o
    BY <1>2, <2>1
  <2>2. CASE x # o
    <3>1. event'[x] = event[x] /\ result'[x] = result[x] /\ x \notin reused
      BY <1>1, <1>2, <2>2
    <3> QED
      BY <3>1 DEF ToldOnce
  <2> QED
    BY <2>1, <2>2
<1>7. \A a \in Blocks : routine'[a] # NoRoutine
        => /\ routine'[a] \in Overlapped
           /\ routine'[a] \notin reused'
                => /\ result'[routine'[a]] = "done" /\ scratch' # routine'[a]
                   /\ "routine" \in asks'[routine'[a]]
  BY <1>1, <1>2 DEF ToldOnce
<1>8. wpc' \in {"event", "routine"} /\ doing' \notin reused'
        => /\ result'[doing'] = "pending" => asks'[doing'] \cap Unread(doing)' = {}
           /\ "routine" \in asks'[doing']
                => /\ result'[doing'] = "done" /\ scratch' # doing'
                   /\ \A a \in Blocks : routine'[a] # doing'
  <2> SUFFICES ASSUME wpc \in {"event", "routine"}, doing \notin reused'
               PROVE  /\ result'[doing] = "pending" => asks'[doing] \cap Unread(doing) = {}
                      /\ "routine" \in asks'[doing]
                           => /\ result'[doing] = "done" /\ scratch # doing
                              /\ \A a \in Blocks : routine[a] # doing
    BY <1>1, <1>5
  <2>1. CASE doing = o
    BY <1>1, <1>2, <1>4, <2>1
  <2>2. CASE doing # o
    BY <1>1, <1>2, <1>3, <2>2 DEF ToldOnce
  <2> QED
    BY <2>1, <2>2
<1> QED
  BY <1>1, <1>6, <1>7, <1>8 DEF ToldOnce

LEMMA ToldStep ==
  ASSUME IInv, [Next]_vars
  PROVE  ToldOnce'
<1> USE DEF IInv
<1>1. CASE ListStep /\ UNCHANGED dispatchVars
  <2> USE <1>1 DEF dispatchVars, structures
  <2>1. CASE \/ \E s \in Senders : InsertApc(s) \/ QueueHint(s)
             \/ \E a \in GuestApcs : KeInsertQueueApc(a) \/ KeRemoveQueueApc(a)
    BY <2>1, ToldFrame DEF InsertApc, QueueHint, KeInsertQueueApc, KeRemoveQueueApc, threadVars,
                           ToldOnce
  <2>2. CASE TakeApc
    BY <2>2, ToldFrame DEF TakeApc, ThreadOnly, ToldOnce
  <2>3. CASE AllocateApc(Peer, NoRoutine)
    <3>1. FreeBlock \in Blocks \ used
      BY <2>3, FreeBlockIsFree DEF AllocateApc, Types, TypeOK
    <3>2. routine' = routine
      BY <2>3, <3>1 DEF AllocateApc, BlocksAccounted, Types, TypeOK
    <3> QED
      BY <2>3, <3>2, ToldFrame DEF AllocateApc, threadVars, ToldOnce
  <2>4. CASE KernelRoutine
    <3>1. /\ pc = "kernel" /\ pc' = "normal" /\ FreeApc(current) /\ scratch = NoRoutine
          /\ scratch' = IF current \in Blocks THEN routine[current] ELSE NoRoutine
      BY <2>4 DEF KernelRoutine, ToldOnce
    <3>2. CASE current \in Blocks
      <4>1. \A b \in Blocks : routine'[b] = IF b = current THEN NoRoutine ELSE routine[b]
        BY <3>1, <3>2 DEF FreeApc, Types, TypeOK
      <4>2. scratch' = routine[current]
        BY <3>1, <3>2
      <4>3. UNCHANGED <<structures, wpc, doing>>
        BY DEF structures
      <4>4. wpc \in {"event", "routine"} => doing # NoRoutine
        BY DEF PendingOnce
      <4>5. \A x : Unread(x)' = Unread(x)
        BY <4>3 DEF Unread
      <4> QED
        BY <3>1, <3>2, <4>1, <4>2, <4>3, <4>4, <4>5 DEF ToldOnce, structures
    <3>3. CASE current \notin Blocks
      BY <3>1, <3>3, ToldFrame DEF FreeApc
    <3> QED
      BY <3>2, <3>3
  <2>5. CASE Rundown
    BY <2>5, ToldFree DEF Rundown, threadVars
  <2> QED
    BY <2>1, <2>2, <2>3, <2>4, <2>5 DEF ListStep
<1>2. CASE PcStep /\ UNCHANGED dispatchVars
  <2>1. UNCHANGED <<routine, scratch>> /\ pc # "normal"
    BY <1>2 DEF PcStep, KeDelay, AlertableWait, ChangeCriticalRegion, Exit, WaitEnds, Alerted,
                DeliveryEnds, RundownEnds, ThreadOnly
  <2> QED
    BY <1>2, <2>1, ToldFrame DEF dispatchVars, structures, ToldOnce
<1>3. CASE \E o \in Overlapped, n \in Notices : Submit(o, n)
  BY <1>3, ToldSubmit
<1>4. CASE \E o \in Overlapped : GetOverlappedResult(o)
  BY <1>4, ToldTaken DEF GetOverlappedResult, apcVars, threadVars
<1>5. CASE Push
  BY <1>5, ToldFrame DEF Push, ThreadOnly, ToldOnce
<1>6. CASE CompletionRoutine
  <2>1. /\ UNCHANGED <<routine, asks, event, reused, wpc, doing>> /\ scratch' = NoRoutine
        /\ result' = [o \in Overlapped |->
                        IF o = scratch /\ result[o] = "done" THEN "free" ELSE result[o]]
    BY <1>6 DEF CompletionRoutine, NormalRoutine, ThreadOnly
  <2>2. CASE scratch \in Overlapped /\ result[scratch] = "done"
    <3>1. result' = [result EXCEPT ![scratch] = "free"]
      BY <2>1, <2>2 DEF Types, TypeOK
    <3> QED
      BY <2>1, <2>2, <3>1, ToldTaken
  <2>3. CASE ~(scratch \in Overlapped /\ result[scratch] = "done")
    <3>1. result' = result
      BY <2>1, <2>3 DEF Types, TypeOK
    <3>2. \A x : Unread(x)' = Unread(x)
      BY <2>1 DEF Unread
    <3>3. wpc \in {"event", "routine"} => doing # NoRoutine
      BY DEF PendingOnce
    <3> QED
      BY <2>1, <3>1, <3>2, <3>3 DEF ToldOnce
  <2> QED
    BY <2>2, <2>3
<1>7. CASE WorkerStep
  BY <1>7, ToldFrame DEF WorkerStep, TestRunning, LockQueue, WakeUp, RoutineEnqueued,
              DispatchOnly, structures, apcVars, threadVars, ToldOnce
<1>8. CASE TakeEntry
  BY <1>8 DEF TakeEntry, DispatchOnly, structures, apcVars, threadVars, ToldOnce
<1>9. CASE SetResult
  <2>1. /\ doing \in Overlapped /\ result[doing] = "pending" /\ doing # NoRoutine
        /\ result' = [result EXCEPT ![doing] = "done"]
        /\ UNCHANGED <<asks, event, reused, routine, scratch, pc, doing>>
    BY <1>9, Structures DEF SetResult, PendingOnce, Types, apcVars, threadVars
  <2>2. \A x \in Overlapped : result'[x] = IF x = doing THEN "done" ELSE result[x]
    BY <2>1 DEF Types, TypeOK
  <2>3. doing \notin reused => scratch # doing /\ \A a \in Blocks : routine[a] # doing
    BY <2>1 DEF ToldOnce
  <2> QED
    BY <2>1, <2>2, <2>3, Structures DEF ToldOnce
<1>10. CASE SetEvent
  <2>1. /\ doing \in Overlapped /\ wpc = "event" /\ wpc' = "routine"
        /\ UNCHANGED <<asks, reused, result, routine, scratch, pc, doing>>
    BY <1>10 DEF SetEvent, PendingOnce, Types, DispatchOnly, apcVars, threadVars
  <2>2. \A x \in Overlapped :
          event'[x] = IF x = doing THEN event[x] \/ "event" \in asks[x] ELSE event[x]
    BY <1>10 DEF SetEvent, Types, TypeOK
  <2>3. Unread(doing) = {"event", "routine"} /\ Unread(doing)' = {"routine"}
    BY <2>1 DEF Unread
  <2> QED
    BY <2>1, <2>2, <2>3 DEF ToldOnce
<1>11. CASE EnqueueRoutine
  <2>1. /\ doing \in Overlapped /\ wpc = "routine" /\ wpc' = "apc" /\ "routine" \in asks[doing]
        /\ routine' = [routine EXCEPT ![FreeBlock] = doing]
        /\ UNCHANGED <<asks, event, reused, result, scratch, pc>>
    BY <1>11 DEF EnqueueRoutine, AllocateApc, threadVars, structures, PendingOnce, Types
  <2>2. FreeBlock \in Blocks
    BY <1>11, FreeBlockIsFree DEF EnqueueRoutine, AllocateApc, Types, TypeOK
  <2>3. \A a \in Blocks : routine'[a] = IF a = FreeBlock THEN doing ELSE routine[a]
    BY <2>1, <2>2 DEF Types, TypeOK
  <2>4. doing \notin reused
          => result[doing] = "done" /\ scratch # doing /\ \A a \in Blocks : routine[a] # doing
    BY <2>1 DEF ToldOnce
  <2> QED
    BY <2>1, <2>2, <2>3, <2>4 DEF ToldOnce
<1>12. CASE NoRoutineAsked
  BY <1>12 DEF NoRoutineAsked, structures, DispatchOnly, apcVars, threadVars, ToldOnce
<1>13. CASE StopDispatch \/ NotifyStop \/ JoinDispatch
  BY <1>13, ToldFrame DEF StopDispatch, NotifyStop, JoinDispatch, DestructorOnly, apcVars,
               threadVars, ToldOnce
<1>14. CASE UNCHANGED vars
  BY <1>14, ToldFrame DEF vars, apcVars, threadVars, dispatchVars, ToldOnce
<1> QED
  BY <1>1, <1>2, <1>3, <1>4, <1>5, <1>6, <1>7, <1>8, <1>9, <1>10, <1>11, <1>12, <1>13, <1>14, StepCases

-----------------------------------------------------------------------------
(* Nothing is lost.                                                         *)

LEMMA LostInit == Init => NothingLost
BY DEF Init, ApcInit, NothingLost

\* Steps that only move the threads.
LEMMA LostFrame ==
  ASSUME NothingLost, UNCHANGED <<asked, entries, doing, structures, scratch, used, routine>>,
         UNCHANGED wpc \/ {wpc, wpc'} \cap {"complete", "event", "routine"} = {},
         pc \in {"rundown", "exited"} => pc' \in {"rundown", "exited"}
  PROVE  NothingLost'
BY DEF NothingLost, structures

LEMMA LostAllocate ==
  ASSUME Types, BlocksAccounted, NEW s \in Senders, NEW r, AllocateApc(s, r)
  PROVE  /\ \A o \in Overlapped :
              (\E a \in used : routine[a] = o) => \E a \in used' : routine'[a] = o
         /\ \E a \in used' : routine'[a] = r
         /\ UNCHANGED <<scratch, pc>>
<1>1. FreeBlock \in Blocks \ used
  BY FreeBlockIsFree DEF AllocateApc, Types, TypeOK
<1>2. /\ used' = used \cup {FreeBlock} /\ routine'[FreeBlock] = r
      /\ \A a \in used : routine'[a] = routine[a]
  BY <1>1 DEF AllocateApc, Types, TypeOK
<1> QED
  BY <1>2 DEF AllocateApc, threadVars

LEMMA LostStep ==
  ASSUME IInv, [Next]_vars
  PROVE  NothingLost'
<1> USE DEF IInv
<1>1. CASE ListStep /\ UNCHANGED dispatchVars
  <2> USE <1>1 DEF dispatchVars, structures
  <2>1. CASE \/ \E s \in Senders : InsertApc(s) \/ QueueHint(s)
             \/ \E a \in GuestApcs : KeInsertQueueApc(a) \/ KeRemoveQueueApc(a)
    BY <2>1, LostFrame DEF InsertApc, QueueHint, KeInsertQueueApc, KeRemoveQueueApc, threadVars
  <2>2. CASE TakeApc
    BY <2>2, LostFrame DEF TakeApc, ThreadOnly
  <2>3. CASE AllocateApc(Peer, NoRoutine)
    <3>1. \A o \in Overlapped :
            (\E a \in used : routine[a] = o) => \E a \in used' : routine'[a] = o
      BY <2>3, LostAllocate, Structures
    <3> QED
      BY <2>3, <3>1 DEF AllocateApc, threadVars, NothingLost
  <2>4. CASE KernelRoutine
    <3>1. /\ current \in Blocks \cup GuestApcs /\ pc = "kernel" /\ scratch = NoRoutine
          /\ FreeApc(current)
          /\ scratch' = IF current \in Blocks THEN routine[current] ELSE NoRoutine
      BY <2>4 DEF KernelRoutine, ToldOnce, BlocksAccounted, Types
    <3>2. \A a \in used : a = current \/ (a \in used' /\ routine'[a] = routine[a])
      BY <3>1 DEF FreeApc, Types, TypeOK
    <3>3. \A o \in Overlapped :
            (\E a \in used : routine[a] = o) => o = scratch' \/ \E a \in used' : routine'[a] = o
      BY <3>1, <3>2 DEF Types, TypeOK
    <3> QED
      BY <3>1, <3>3, Structures DEF NothingLost
  <2>5. CASE Rundown
    BY <2>5 DEF Rundown, threadVars, NothingLost
  <2> QED
    BY <2>1, <2>2, <2>3, <2>4, <2>5 DEF ListStep
<1>2. CASE PcStep /\ UNCHANGED dispatchVars
  <2>1. UNCHANGED <<used, routine, scratch>>
        /\ (pc \in {"rundown", "exited"} => pc' \in {"rundown", "exited"})
    BY <1>2 DEF PcStep, KeDelay, AlertableWait, ChangeCriticalRegion, Exit, WaitEnds, Alerted,
                DeliveryEnds, RundownEnds, ThreadOnly
  <2> QED
    BY <1>2, <2>1, LostFrame DEF dispatchVars, structures
<1>3. CASE \E o \in Overlapped, n \in Notices : Submit(o, n)
  <2>1. PICK o \in Overlapped, n \in Notices : Submit(o, n)
    BY <1>3
  <2>2. /\ pc = "run" /\ asked = NoRoutine /\ asked' = o
        /\ UNCHANGED <<entries, wpc, doing, scratch, used, routine>>
    BY <2>1 DEF Submit, PendingOnce, ThreadOnly
  <2>3. \A x \in Overlapped : /\ result'[x] = IF x = o THEN "pending" ELSE result[x]
                              /\ x # o => asks'[x] = asks[x] /\ event'[x] = event[x]
    BY <2>1 DEF Submit, Types, TypeOK
  <2> QED
    BY <2>2, <2>3, Structures DEF NothingLost
<1>4. CASE \E o \in Overlapped : GetOverlappedResult(o)
  <2>1. PICK o \in Overlapped : GetOverlappedResult(o)
    BY <1>4
  <2>2. UNCHANGED <<pc, asks, event, asked, entries, wpc, doing, scratch, used, routine>>
    BY <2>1 DEF GetOverlappedResult, apcVars, threadVars
  <2>3. \A x \in Overlapped : result'[x] = IF x = o THEN "free" ELSE result[x]
    BY <2>1 DEF GetOverlappedResult, Types, TypeOK
  <2> QED
    BY <2>2, <2>3 DEF NothingLost
<1>5. CASE Push
  <2>1. asked \in Overlapped /\ asked \notin ToSet(entries)
    BY <1>5 DEF Push, PendingOnce, Types
  <2>2. ToSet(entries') = ToSet(entries) \cup {asked}
    BY <1>5, <2>1, AfterAppend DEF Push, Types, TypeOK, PendingOnce
  <2>3. /\ pc \notin {"rundown", "exited"}
        /\ UNCHANGED <<result, asks, event, doing, scratch, used, routine>>
        /\ UNCHANGED wpc \/ {wpc, wpc'} \cap {"complete", "event", "routine"} = {}
    BY <1>5 DEF Push, ThreadOnly, structures
  <2> QED
    BY <2>2, <2>3 DEF NothingLost
<1>6. CASE CompletionRoutine
  <2>1. /\ UNCHANGED <<routine, used, asks, event, wpc, doing, asked, entries>> /\ pc = "normal"
        /\ result' = [o \in Overlapped |->
                        IF o = scratch /\ result[o] = "done" THEN "free" ELSE result[o]]
    BY <1>6 DEF CompletionRoutine, NormalRoutine, ThreadOnly
  <2>2. \A x \in Overlapped :
          result'[x] = IF x = scratch /\ result[x] = "done" THEN "free" ELSE result[x]
    BY <2>1
  <2> QED
    BY <2>1, <2>2 DEF NothingLost
<1>7. CASE WorkerStep
  BY <1>7, LostFrame DEF WorkerStep, TestRunning, LockQueue, WakeUp, RoutineEnqueued,
              DispatchOnly, structures, apcVars, threadVars
<1>8. CASE TakeEntry
  <2> DEFINE h == Head(entries)
  <2>1. entries # <<>>
    BY <1>8 DEF TakeEntry, WorkerFinds
  <2>2. h \in ToSet(entries) /\ ToSet(entries') = ToSet(entries) \ {h}
    BY <1>8, <2>1, NotEmptyList, AfterTail DEF TakeEntry, Types, TypeOK, PendingOnce
  <2>3. /\ doing' = h /\ wpc = "take" /\ wpc' = "complete"
        /\ UNCHANGED <<result, asks, asked, pc, event, scratch, used, routine>>
    BY <1>8 DEF TakeEntry, DispatchOnly, structures, apcVars, threadVars
  <2> HIDE DEF h
  <2> QED
    BY <2>2, <2>3 DEF NothingLost
<1>9. CASE SetResult
  <2>1. /\ doing \in Overlapped /\ wpc = "complete" /\ wpc' = "event"
        /\ UNCHANGED <<asks, asked, entries, doing, pc, event, scratch, used, routine>>
        /\ result' = [result EXCEPT ![doing] = "done"]
    BY <1>9 DEF SetResult, PendingOnce, Types, DispatchOnly, structures, apcVars, threadVars
  <2>2. \A x \in Overlapped : result'[x] = IF x = doing THEN "done" ELSE result[x]
    BY <2>1 DEF Types, TypeOK
  <2> QED
    BY <2>1, <2>2 DEF NothingLost
<1>10. CASE SetEvent
  <2>1. /\ wpc = "event" /\ wpc' = "routine"
        /\ UNCHANGED <<asks, asked, entries, doing, result, pc, scratch, used, routine>>
    BY <1>10 DEF SetEvent, DispatchOnly, structures, apcVars, threadVars
  <2>2. \A x \in Overlapped :
          event'[x] = IF x = doing THEN event[x] \/ "event" \in asks[x] ELSE event[x]
    BY <1>10 DEF SetEvent, Types, TypeOK
  <2> QED
    BY <2>1, <2>2 DEF NothingLost
<1>11. CASE EnqueueRoutine
  <2>1. /\ \A o \in Overlapped :
             (\E a \in used : routine[a] = o) => \E a \in used' : routine'[a] = o
        /\ \E a \in used' : routine'[a] = doing
        /\ UNCHANGED <<scratch, pc>>
    BY <1>11, LostAllocate, Structures DEF EnqueueRoutine
  <2> QED
    BY <1>11, <2>1 DEF EnqueueRoutine, DispatchOnly, structures, NothingLost
<1>12. CASE NoRoutineAsked
  BY <1>12 DEF NoRoutineAsked, structures, DispatchOnly, apcVars, threadVars, NothingLost
<1>13. CASE StopDispatch \/ NotifyStop \/ JoinDispatch
  BY <1>13, LostFrame DEF StopDispatch, NotifyStop, JoinDispatch, DestructorOnly, structures, apcVars,
               threadVars
<1>14. CASE UNCHANGED vars
  BY <1>14, LostFrame DEF vars, apcVars, threadVars, dispatchVars, structures
<1> QED
  BY <1>1, <1>2, <1>3, <1>4, <1>5, <1>6, <1>7, <1>8, <1>9, <1>10, <1>11, <1>12, <1>13, <1>14, StepCases

-----------------------------------------------------------------------------
(* The theorems.                                                            *)

LEMMA Inductive == Spec => []IInv
<1>1. Init => IInv
  BY TypesInit, BlocksInit, HintsInit, WorkerInit, PendingInit, ToldInit,
     LostInit DEF IInv
<1>2. IInv /\ [Next]_vars => IInv'
  BY TypesStep, BlocksStep, HintsStep, WorkerFindsStep, PendingStep, ToldStep,
     LostStep DEF IInv
<1> QED
  BY <1>1, <1>2, PTL DEF Spec

\* The variables have their types.
THEOREM TypeCorrect == Spec => []TypeOK
<1>1. IInv => TypeOK
  BY DEF IInv, Types
<1> QED
  BY <1>1, Inductive, PTL

\* An alertable wait outside a critical region does not sleep over an APC that
\* EnqueueApc has queued, whatever the number of senders and of blocks.
THEOREM SleeperIsTold == Spec => []SleeperIsHinted
<1>1. IInv => SleeperIsHinted
  BY DEF IInv, HintsComing, SleeperIsHinted
<1> QED
  BY <1>1, Inductive, PTL

\* A block of the heap is freed once: what is allocated is in the hand of one
\* sender, on the list once, or in the delivery.
THEOREM BlocksFreedOnce == Spec => []BlocksInOnePlace
<1>1. ASSUME IInv PROVE BlocksInOnePlace
  <2>1. Cardinality(ToSet(queue)) = Len(queue)
    BY <1>1, ListLength DEF IInv, BlocksAccounted, Types, TypeOK
  <2>2. /\ used = Held \cup (ToSet(queue) \cap Blocks) \cup Delivered
        /\ (ToSet(queue) \cap Blocks) \cap Delivered = {}
    BY <1>1 DEF IInv, BlocksAccounted
  <2> QED
    BY <2>1, <2>2 DEF BlocksInOnePlace, Held, Delivered
<1> QED
  BY <1>1, Inductive, PTL

\* Whatever the guest asks for and however often it uses a structure: its event
\* is not set while it is pending, and its routine is queued or about to be called
\* only while it is complete, unless the structure had been submitted again, with
\* an event or a routine, before the dispatch thread read them from it.
THEOREM NoticesAreTrue == Spec => []NoticeMeansComplete
<1>1. IInv => NoticeMeansComplete
  BY Structures DEF IInv, ToldOnce, NoticeMeansComplete
<1> QED
  BY <1>1, Inductive, PTL

\* The dispatch thread tests its list before it waits but not after: it takes
\* an entry only when there is one, and that one is pending.
TakesWhatIsPending == wpc = "take" => entries # <<>> /\ result[Head(entries)] = "pending"

THEOREM WorkerTakesAnEntry == Spec => []TakesWhatIsPending
<1>1. ASSUME IInv PROVE TakesWhatIsPending
  BY <1>1, NotEmptyList DEF IInv, WorkerFinds, PendingOnce, Types, TypeOK, TakesWhatIsPending
<1> QED
  BY <1>1, Inductive, PTL

\* A request is answered or on its way: a pending structure is being queued, on
\* the dispatch thread's list or in its hands; for a complete one the event that
\* was asked for is set, or about to be, and the routine on its way in an APC block
\* or about to be called, unless the thread that asked is running its APCs down.
\* This holds of the structures in reused too.
THEOREM RequestsKept == Spec => []NothingLost
<1>1. IInv => NothingLost
  BY DEF IInv
<1> QED
  BY <1>1, Inductive, PTL

\* A structure goes from its submission to its completion to the guest and round
\* again: nothing is completed twice, nor taken back before it is complete.
NextResult(r) == CASE r = "free" -> "pending" [] r = "pending" -> "done" [] r = "done" -> "free"
ResultsGoRound == \A o \in Overlapped : result'[o] \in {result[o], NextResult(result[o])}

THEOREM ResultsInOrder == Spec => [][ResultsGoRound]_vars
<1>1. ASSUME IInv, Next PROVE ResultsGoRound
  <2> USE <1>1 DEF IInv
  <2>1. CASE UNCHANGED result
    BY <2>1 DEF ResultsGoRound
  <2>2. CASE \E o \in Overlapped, n \in Notices : Submit(o, n)
    BY <2>2 DEF Submit, ResultsGoRound, NextResult, Types, TypeOK
  <2>3. CASE \E o \in Overlapped : GetOverlappedResult(o)
    BY <2>3 DEF GetOverlappedResult, ResultsGoRound, NextResult, Types, TypeOK
  <2>4. CASE CompletionRoutine
    BY <2>4 DEF CompletionRoutine, ResultsGoRound, NextResult
  <2>5. CASE SetResult
    <3>1. doing \in Overlapped /\ result[doing] = "pending" /\ result' = [result EXCEPT ![doing] = "done"]
      BY <2>5 DEF SetResult, PendingOnce, Types
    <3> QED
      BY <3>1 DEF ResultsGoRound, NextResult, Types, TypeOK
  <2>6. CASE \/ (ListStep \/ PcStep) /\ UNCHANGED dispatchVars
             \/ Push \/ WorkerStep \/ TakeEntry \/ SetEvent \/ EnqueueRoutine \/ NoRoutineAsked
             \/ StopDispatch \/ NotifyStop \/ JoinDispatch
    BY <2>1, <2>6 DEF dispatchVars, structures, Push, WorkerStep, TestRunning, LockQueue, WakeUp,
           RoutineEnqueued, TakeEntry, SetEvent, EnqueueRoutine, NoRoutineAsked, StopDispatch, NotifyStop,
           JoinDispatch, DestructorOnly, structures
  <2> QED
    BY <2>2, <2>3, <2>4, <2>5, <2>6, StepCases
<1> QED
  BY <1>1, Inductive, PTL DEF Spec

=============================================================================
