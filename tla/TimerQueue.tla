----------------------------- MODULE TimerQueue -----------------------------
(***************************************************************************)
(* The timer queue of rex::thread (src/src/core/timer_queue.cpp): wait     *)
(* items with an atomic state, a disruptor ring through which any thread   *)
(* queues an item, and one dispatch thread that moves items to a wait      *)
(* queue sorted by due time and runs their callbacks.  Disarm() may be     *)
(* called by any thread, the callback included.                            *)
(*                                                                         *)
(* Time is relative: left[i] is due_ - clock::now().  wait_queue_ is a     *)
(* set whose front is an item with the least left, so the order of items   *)
(* that are due at the same instant is left open.  A spurious failure of   *)
(* compare_exchange_weak only repeats the loop and is a stuttering step.   *)
(***************************************************************************)
EXTENDS Integers, Sequences

CONSTANTS
  Items,          \* the wait items the clients may queue
  Kick,           \* the disarmed item ~TimerQueue queues to wake the dispatcher
  Clients,        \* threads that call QueueTimer and Disarm
  Callback,       \* the dispatch thread, when a callback makes such a call
  Queues,         \* the items each of these threads may queue
  Disarms,        \* the items each of them may disarm
  Interval,       \* interval_ of each item, zero if it is not recurring
  Delays,         \* how far in the future due_ of each item may be when queued
  RingSize,       \* kWaitCount, the slots of buffer_
  MaxLate,        \* bound: the clock waits for an item this late
  MaxSelfDisarm   \* bound: Disarm() calls of a callback on its own item

ASSUME TimerQueueAssumption ==
  /\ Kick \notin Items
  /\ Interval \in [Items -> Nat]
  /\ Delays \in [Items -> SUBSET Int]
  /\ {Queues, Disarms} \subseteq [Clients \cup {Callback} -> SUBSET Items]
  /\ RingSize \in Nat \ {0}
  /\ MaxLate \in Nat
  /\ MaxSelfDisarm \in Nat

VARIABLES
  state,        \* TimerQueueWaitItem::state_ of every item
  left,         \* due_ - now of every item
  queued,       \* items handed to QueueTimer so far
  ring,         \* items in claimed slots of buffer_ that are not consumed
  unpublished,  \* those of them whose slot is not published yet
  waitQueue,    \* wait_queue_
  requeue,      \* wait_items of the dispatch loop: recurring items to merge
  dpc,          \* program counter of the dispatch thread
  cur,          \* the item the dispatch thread holds
  selfDisarms,  \* calls of Disarm() the running callback made on its item
  cpc,          \* program counter of every client
  arg,          \* the item a client's call is about (Kick: no call)
  seen,         \* the state a client in Disarm() waits to see change
  stopper,      \* program counter of ~TimerQueue
  disarmed      \* history: items some thread's Disarm() returned for

dispatchVars == <<waitQueue, requeue, dpc, cur, selfDisarms>>
ringVars == <<ring, unpublished, queued>>
clientVars == <<cpc, arg, seen, disarmed>>
vars == <<state, left, ringVars, dispatchVars, clientVars, stopper>>

AllItems == Items \cup {Kick}
States == {"Idle", "InCallback", "InCallbackSelfDisarmed", "Disarmed"}
Running == {"InCallback", "InCallbackSelfDisarmed"}

DispatchPc == {"top", "wait", "check", "callback", "cbClaim",
               "selfWait", "rearm", "retire", "notify", "exited"}
\* From the CAS to InCallback up to the store that leaves it.
CallbackPc == {"callback", "cbClaim", "selfWait", "rearm", "retire"}
ClientPc == {"ready", "claim", "publish", "disarm", "wait", "asleep"}
StopperPc == {"running", "claim", "publish", "join", "joined"}

TypeOK ==
  /\ state \in [AllItems -> States]
  /\ left \in [AllItems -> Int]
  /\ queued \subseteq Items
  /\ ring \in Seq(AllItems) /\ Len(ring) <= RingSize
  /\ unpublished \subseteq AllItems
  /\ waitQueue \subseteq AllItems
  /\ requeue \subseteq AllItems
  /\ dpc \in DispatchPc
  /\ cur \in AllItems
  /\ selfDisarms \in Nat
  /\ cpc \in [Clients -> ClientPc]
  /\ arg \in [Clients -> AllItems]
  /\ seen \in [Clients -> States]
  /\ stopper \in StopperPc
  /\ disarmed \subseteq Items

Init ==
  /\ state = [i \in AllItems |-> IF i = Kick THEN "Disarmed" ELSE "Idle"]
  /\ left = [i \in AllItems |-> 0]
  /\ queued = {} /\ ring = <<>> /\ unpublished = {}
  /\ waitQueue = {} /\ requeue = {}
  /\ dpc = "top" /\ cur = Kick /\ selfDisarms = 0
  /\ cpc = [c \in Clients |-> "ready"]
  /\ arg = [c \in Clients |-> Kick]
  /\ seen = [c \in Clients |-> "Idle"]
  /\ stopper = "running"
  /\ disarmed = {}

Larger(a, b) == IF a >= b THEN a ELSE b
StopRequested == stopper # "running"

-----------------------------------------------------------------------------
(* QueueTimer: due_ is brought forward to at most one interval in the past, *)
(* a slot is claimed (waiting while the ring is full), then published.      *)

Claim(i) ==
  /\ Len(ring) < RingSize
  /\ ring' = Append(ring, i)
  /\ unpublished' = unpublished \cup {i}

SetDue(i, d) == left' = [left EXCEPT ![i] = Larger(-Interval[i], d)]

QueueTimer(c) ==
  /\ cpc[c] = "ready" /\ ~StopRequested
  /\ \E i \in Queues[c] \ queued :
       /\ queued' = queued \cup {i}
       /\ \E d \in Delays[i] : SetDue(i, d)
       /\ arg' = [arg EXCEPT ![c] = i]
  /\ cpc' = [cpc EXCEPT ![c] = "claim"]
  /\ UNCHANGED <<state, ring, unpublished, dispatchVars, seen, disarmed, stopper>>

ClaimSlot(c) ==
  /\ cpc[c] = "claim"
  /\ Claim(arg[c])
  /\ cpc' = [cpc EXCEPT ![c] = "publish"]
  /\ UNCHANGED <<state, left, queued, dispatchVars, arg, seen, disarmed, stopper>>

Publish(c) ==
  /\ cpc[c] = "publish"
  /\ unpublished' = unpublished \ {arg[c]}
  /\ cpc' = [cpc EXCEPT ![c] = "ready"]
  /\ arg' = [arg EXCEPT ![c] = Kick]
  /\ UNCHANGED <<state, left, queued, ring, dispatchVars, seen, disarmed, stopper>>

-----------------------------------------------------------------------------
(* TimerQueueWaitItem::Disarm called by a thread other than the dispatcher. *)

\* The items somebody can disarm: QueueTimer has returned their weak_ptr.
Handles == queued \ {arg[c] : c \in {d \in Clients : cpc[d] \in {"claim", "publish"}}}

Disarm(c) ==
  /\ cpc[c] = "ready" /\ ~StopRequested
  /\ \E i \in Handles \cap Disarms[c] : arg' = [arg EXCEPT ![c] = i]
  /\ cpc' = [cpc EXCEPT ![c] = "disarm"]
  /\ UNCHANGED <<state, left, ringVars, dispatchVars, seen, disarmed, stopper>>

\* Mutant: Disarm() does not wait for a callback that disarmed itself.
EndsWhenSelfDisarmed == {"Idle", "Disarmed", "InCallbackSelfDisarmed"}

\* The states from which the compare-exchange loop ends: a successful CAS
\* from kIdle, or the break on kDisarmed.
DisarmEndsIn == {"Idle", "Disarmed"}

DisarmReturn(c) ==
  /\ cpc[c] = "disarm"
  /\ state[arg[c]] \in DisarmEndsIn
  /\ state' = [state EXCEPT ![arg[c]] = "Disarmed"]
  /\ cpc' = [cpc EXCEPT ![c] = "ready"]
  /\ disarmed' = disarmed \cup {arg[c]}
  /\ arg' = [arg EXCEPT ![c] = Kick]
  /\ UNCHANGED <<left, ringVars, dispatchVars, seen, stopper>>

DisarmBlocked(c) ==
  /\ cpc[c] = "disarm"
  /\ state[arg[c]] \notin DisarmEndsIn
  /\ seen' = [seen EXCEPT ![c] = state[arg[c]]]
  /\ cpc' = [cpc EXCEPT ![c] = "wait"]
  /\ UNCHANGED <<state, left, ringVars, dispatchVars, arg, disarmed, stopper>>

\* state_.wait(seen): return if the value changed, else sleep until notified.
WaitReturns(c) ==
  /\ cpc[c] = "wait"
  /\ state[arg[c]] # seen[c]
  /\ cpc' = [cpc EXCEPT ![c] = "disarm"]
  /\ seen' = [seen EXCEPT ![c] = "Idle"]
  /\ UNCHANGED <<state, left, ringVars, dispatchVars, arg, disarmed, stopper>>

WaitSleeps(c) ==
  /\ cpc[c] = "wait"
  /\ state[arg[c]] = seen[c]
  /\ cpc' = [cpc EXCEPT ![c] = "asleep"]
  /\ UNCHANGED <<state, left, ringVars, dispatchVars, arg, seen, disarmed, stopper>>

-----------------------------------------------------------------------------
(* TimerThreadMain.                                                         *)

TestStop ==
  /\ dpc = "top"
  /\ dpc' = IF StopRequested THEN "exited" ELSE "wait"
  /\ UNCHANGED <<state, left, ringVars, waitQueue, requeue, cur, selfDisarms,
                 clientVars, stopper>>

\* What wait_until_published reports: the n slots before the first that is not
\* published yet.
Available(n) ==
  /\ \A k \in 1..n : ring[k] \notin unpublished
  /\ n < Len(ring) => ring[n + 1] \in unpublished

\* Mutant: the dispatcher goes up to the last published slot, past the others.
ConsumePastTheGap ==
  /\ dpc = "wait"
  /\ \E n \in 1..Len(ring) :
       /\ ring[n] \notin unpublished
       /\ \A k \in n + 1 .. Len(ring) : ring[k] \in unpublished
       /\ waitQueue' = waitQueue \cup ({ring[k] : k \in 1..n} \ unpublished)
       /\ ring' = SubSeq(ring, n + 1, Len(ring))
  /\ dpc' = "check"
  /\ UNCHANGED <<state, left, unpublished, queued, requeue, cur, selfDisarms,
                 clientVars, stopper>>

Consume ==
  /\ dpc = "wait"
  /\ \E n \in 1..Len(ring) :
       /\ Available(n)
       /\ waitQueue' = waitQueue \cup {ring[k] : k \in 1..n}
       /\ ring' = SubSeq(ring, n + 1, Len(ring))
  /\ dpc' = "check"
  /\ UNCHANGED <<state, left, unpublished, queued, requeue, cur, selfDisarms,
                 clientVars, stopper>>

\* The items that may be wait_queue_.front() with due_ <= clock::now().
DueFront == {i \in waitQueue : left[i] <= 0 /\ \A j \in waitQueue : left[i] <= left[j]}

WaitTimesOut ==
  /\ dpc = "wait"
  /\ Available(0)
  /\ DueFront # {}
  /\ dpc' = "check"
  /\ UNCHANGED <<state, left, ringVars, waitQueue, requeue, cur, selfDisarms,
                 clientVars, stopper>>

StartCallback(i) ==
  /\ dpc = "check"
  /\ i \in DueFront
  /\ state[i] = "Idle"
  /\ state' = [state EXCEPT ![i] = "InCallback"]
  /\ waitQueue' = waitQueue \ {i}
  /\ cur' = i
  /\ selfDisarms' = 0
  /\ dpc' = "callback"
  /\ UNCHANGED <<left, ringVars, requeue, clientVars, stopper>>

DropItem(i) ==
  /\ dpc = "check"
  /\ i \in DueFront
  /\ state[i] # "Idle"
  /\ waitQueue' = waitQueue \ {i}
  /\ UNCHANGED <<state, left, ringVars, requeue, dpc, cur, selfDisarms, clientVars, stopper>>

\* Mutant: the recurring items are not merged back.
MergeForgotten ==
  /\ dpc = "check"
  /\ DueFront = {}
  /\ requeue' = {}
  /\ dpc' = "top"
  /\ UNCHANGED <<state, left, ringVars, waitQueue, cur, selfDisarms, clientVars, stopper>>

MergeRequeued ==
  /\ dpc = "check"
  /\ DueFront = {}
  /\ waitQueue' = waitQueue \cup requeue
  /\ requeue' = {}
  /\ dpc' = "top"
  /\ UNCHANGED <<state, left, ringVars, cur, selfDisarms, clientVars, stopper>>

-----------------------------------------------------------------------------
(* What a callback may call on the dispatch thread.                         *)

\* Disarm() of its own item: the special case marks it and returns; a second
\* call finds kInCallbackSelfDisarmed, takes the normal case and waits.
CallbackDisarmsItself ==
  /\ dpc = "callback"
  /\ cur \in Handles
  /\ selfDisarms < MaxSelfDisarm
  /\ selfDisarms' = selfDisarms + 1
  /\ IF state[cur] = "InCallback"
     THEN /\ state' = [state EXCEPT ![cur] = "InCallbackSelfDisarmed"]
          /\ dpc' = dpc
     ELSE /\ dpc' = "selfWait"
          /\ state' = state
  /\ UNCHANGED <<left, ringVars, waitQueue, requeue, cur, clientVars, stopper>>

\* Disarm() of another item, which cannot be running: it returns at once.
CallbackDisarms(i) ==
  /\ dpc = "callback"
  /\ i \in Handles \ {cur}
  /\ state[i] \in DisarmEndsIn
  /\ state' = [state EXCEPT ![i] = "Disarmed"]
  /\ disarmed' = disarmed \cup {i}
  /\ UNCHANGED <<left, ringVars, dispatchVars, cpc, arg, seen, stopper>>

\* QueueTimer from the callback.  The dispatcher is the only consumer of the
\* ring: when it is full, claim_one() waits for a slot that nobody will free.
CallbackQueues(i) ==
  /\ dpc = "callback"
  /\ i \in Items \ queued
  /\ queued' = queued \cup {i}
  /\ \E d \in Delays[i] : SetDue(i, d)
  /\ IF Len(ring) < RingSize
     THEN ring' = Append(ring, i) /\ dpc' = dpc
     ELSE ring' = ring /\ dpc' = "cbClaim"
  /\ UNCHANGED <<state, unpublished, waitQueue, requeue, cur, selfDisarms,
                 clientVars, stopper>>

\* Mutant: an item that disarmed itself is armed again.
ReturnsIgnoringMark ==
  /\ dpc = "callback"
  /\ dpc' = IF Interval[cur] # 0 THEN "rearm" ELSE "retire"
  /\ UNCHANGED <<state, left, ringVars, waitQueue, requeue, cur, selfDisarms,
                 clientVars, stopper>>

CallbackReturns ==
  /\ dpc = "callback"
  /\ dpc' = IF Interval[cur] # 0 /\ state[cur] # "InCallbackSelfDisarmed"
            THEN "rearm" ELSE "retire"
  /\ UNCHANGED <<state, left, ringVars, waitQueue, requeue, cur, selfDisarms,
                 clientVars, stopper>>

\* Mutant: the state of a recurring item is not reset.
RearmWithoutReset ==
  /\ dpc = "rearm"
  /\ left' = [left EXCEPT ![cur] = @ + Interval[cur]]
  /\ requeue' = requeue \cup {cur}
  /\ dpc' = "notify"
  /\ UNCHANGED <<state, ringVars, waitQueue, cur, selfDisarms, clientVars, stopper>>

\* A recurring item: due_ += interval_, store kIdle, keep it for the merge.
Rearm ==
  /\ dpc = "rearm"
  /\ left' = [left EXCEPT ![cur] = @ + Interval[cur]]
  /\ state' = [state EXCEPT ![cur] = "Idle"]
  /\ requeue' = requeue \cup {cur}
  /\ dpc' = "notify"
  /\ UNCHANGED <<ringVars, waitQueue, cur, selfDisarms, clientVars, stopper>>

Retire ==
  /\ dpc = "retire"
  /\ state' = [state EXCEPT ![cur] = "Disarmed"]
  /\ dpc' = "notify"
  /\ UNCHANGED <<left, ringVars, waitQueue, requeue, cur, selfDisarms, clientVars, stopper>>

\* Mutant: the waiters are not notified.
NotifyNobody ==
  /\ dpc = "notify"
  /\ dpc' = "check"
  /\ UNCHANGED <<state, left, ringVars, waitQueue, requeue, cur, selfDisarms,
                 clientVars, stopper>>

NotifyAll ==
  /\ dpc = "notify"
  /\ cpc' = [c \in Clients |-> IF cpc[c] = "asleep" /\ arg[c] = cur THEN "wait" ELSE cpc[c]]
  /\ dpc' = "check"
  /\ UNCHANGED <<state, left, ringVars, waitQueue, requeue, cur, selfDisarms,
                 arg, seen, disarmed, stopper>>

-----------------------------------------------------------------------------
(* ~TimerQueue: request_stop, queue the disarmed kick item, join.           *)

RequestStop ==
  /\ stopper = "running"
  /\ stopper' = "claim"
  /\ left' = [left EXCEPT ![Kick] = 0]
  /\ UNCHANGED <<state, ringVars, dispatchVars, clientVars>>

StopperClaims ==
  /\ stopper = "claim"
  /\ Claim(Kick)
  /\ stopper' = "publish"
  /\ UNCHANGED <<state, left, queued, dispatchVars, clientVars>>

StopperPublishes ==
  /\ stopper = "publish"
  /\ unpublished' = unpublished \ {Kick}
  /\ stopper' = "join"
  /\ UNCHANGED <<state, left, ring, queued, dispatchVars, clientVars>>

Join ==
  /\ stopper = "join"
  /\ dpc = "exited"
  /\ stopper' = "joined"
  /\ UNCHANGED <<state, left, ringVars, dispatchVars, clientVars>>

-----------------------------------------------------------------------------
\* The clock moves for the items in the queue's hands.
InHands == {i \in Items : \/ i \in waitQueue \cup requeue
                          \/ dpc \in CallbackPc /\ cur = i
                          \/ \E k \in 1..Len(ring) : ring[k] = i}

Tick ==
  /\ InHands # {}
  /\ \A i \in InHands : left[i] > -MaxLate
  /\ left' = [i \in AllItems |-> IF i \in InHands THEN left[i] - 1 ELSE left[i]]
  /\ UNCHANGED <<state, ringVars, dispatchVars, clientVars, stopper>>

\* The dispatch thread outside the calls a callback chooses to make.
DispatchStep ==
  \/ TestStop \/ Consume \/ WaitTimesOut \/ MergeRequeued
  \/ \E i \in AllItems : StartCallback(i) \/ DropItem(i)
  \/ CallbackReturns \/ Rearm \/ Retire \/ NotifyAll

CallbackCalls ==
  \/ CallbackDisarmsItself
  \/ \E i \in Disarms[Callback] : CallbackDisarms(i)
  \/ \E i \in Queues[Callback] : CallbackQueues(i)

ClientStep(c) ==
  \/ QueueTimer(c) \/ ClaimSlot(c) \/ Publish(c)
  \/ Disarm(c) \/ DisarmReturn(c) \/ DisarmBlocked(c) \/ WaitReturns(c) \/ WaitSleeps(c)

Shutdown == RequestStop \/ StopperClaims \/ StopperPublishes \/ Join

Next ==
  \/ DispatchStep \/ CallbackCalls \/ Shutdown \/ Tick
  \/ \E c \in Clients : ClientStep(c)

Spec == Init /\ [][Next]_vars

\* Every thread that can take a step takes it.  A client in Disarm() on a
\* recurring item competes with the next callback of that item, so the steps
\* that find the item between two callbacks need strong fairness: interval_
\* leaves the client a window again and again.
Fairness ==
  /\ WF_vars(DispatchStep)
  /\ WF_vars(Tick)
  /\ WF_vars(StopperClaims) /\ WF_vars(StopperPublishes) /\ WF_vars(Join)
  /\ \A c \in Clients :
       /\ WF_vars(ClaimSlot(c)) /\ WF_vars(Publish(c))
       /\ WF_vars(DisarmBlocked(c)) /\ WF_vars(WaitSleeps(c))
       /\ SF_vars(DisarmReturn(c)) /\ SF_vars(WaitReturns(c))

FairSpec == Spec /\ Fairness

-----------------------------------------------------------------------------
(* Properties.                                                              *)

\* "No callbacks will be running after this call" (timer_queue.h:38): once a
\* thread's Disarm() of an item has returned, the dispatch thread is not in
\* the item's callback, and will not enter it.
NoCallbackAfterDisarm ==
  \A i \in disarmed : state[i] = "Disarmed" /\ ~(dpc \in CallbackPc /\ cur = i)

\* The assertion of timer_queue.cpp:117: an item the dispatcher takes from the
\* wait queue is idle or disarmed, "kInCallback is illegal here".
NeverPopsRunningItem ==
  dpc = "check" => \A i \in waitQueue \cup requeue : state[i] \notin Running

\* Disarming is final: no store of the dispatch thread, which writes state_
\* without a compare-exchange, ever revives an item somebody disarmed.
DisarmIsFinal == [][\A i \in AllItems : state[i] = "Disarmed" => state'[i] = "Disarmed"]_vars

DisarmReturns == \A c \in Clients : cpc[c] = "disarm" ~> cpc[c] = "ready"

\* An armed item is not forgotten on its way through the ring, the wait queue
\* and the merge: its callback runs, unless it is disarmed or the queue stops.
\* It may sit in the ring behind a slot that another thread has claimed and not
\* published yet, or sit there unpublished while later slots are published.
ArmedItemFires ==
  \A i \in Items : (i \in queued /\ state[i] = "Idle")
                     ~> (state[i] # "Idle" \/ StopRequested)

StopJoins == StopRequested ~> (stopper = "joined" \/ dpc = "cbClaim")

\* Nobody waits for ever.  Disarm() blocks only for as long as a callback runs;
\* and the destructor's kick wakes the dispatch thread, which sees the stop
\* token and exits: "std::jthread auto-joins on destruction"
\* (timer_queue.cpp:55).  A callback that itself waits for a slot of a full
\* ring is left out.
CallsReturn == DisarmReturns /\ StopJoins

\* What the callers see of an item.
PhaseOfState(s) ==
  CASE s = "Idle" -> "armed"
    [] s = "InCallback" -> "running"
    [] s = "InCallbackSelfDisarmed" -> "leaving"
    [] s = "Disarmed" -> "off"

Phase == [i \in Items |-> IF i \in queued THEN PhaseOfState(state[i]) ELSE "new"]

Service == INSTANCE TimerService
             WITH phase <- Phase, Recurring <- {i \in Items : Interval[i] # 0}

\* The queue implements its header's contract: ring, wait queue, compare and
\* swap loops and plain stores together behave as one atomic state per item.
ImplementsService == Service!Spec
=============================================================================
