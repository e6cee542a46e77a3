-------------------------- MODULE TimerQueueProofs --------------------------
(***************************************************************************)
(* Safety of the Disarm protocol for any number of items and clients.  The *)
(* strengthening ties the running states of an item to the dispatcher: an  *)
(* item is kInCallback or kInCallbackSelfDisarmed exactly while it is the  *)
(* item whose callback the dispatch thread is in.  The plain stores of the *)
(* dispatch thread therefore only ever overwrite a running state, never a  *)
(* kDisarmed that some other thread wrote.                                 *)
(***************************************************************************)
EXTENDS TimerQueue, SequenceTheorems, TLAPS

RunningIffInCallback ==
  \A i \in AllItems : state[i] \in Running <=> dpc \in CallbackPc /\ cur = i

DisarmedStays == \A i \in disarmed : state[i] = "Disarmed"

KickIsDisarmed == state[Kick] = "Disarmed"

CallsAreAboutItems == \A c \in Clients : cpc[c] # "ready" => arg[c] \in queued

\* Only items that were queued, and the kick, are in the queue's hands.
HeldAreQueued ==
  /\ waitQueue \cup requeue \subseteq queued \cup {Kick}
  /\ \A k \in 1..Len(ring) : ring[k] \in queued \cup {Kick}

\* After the callback the dispatch thread acts on what it read of the item.
LeavesAsMarked ==
  /\ dpc = "rearm" => Interval[cur] # 0 /\ state[cur] = "InCallback"
  /\ dpc = "retire" => Interval[cur] = 0 \/ state[cur] = "InCallbackSelfDisarmed"

NewAreIdle == \A i \in Items \ queued : state[i] = "Idle"

IInv ==
  /\ TypeOK
  /\ RunningIffInCallback
  /\ DisarmedStays
  /\ KickIsDisarmed
  /\ CallsAreAboutItems
  /\ HeldAreQueued
  /\ NewAreIdle
  /\ LeavesAsMarked

-----------------------------------------------------------------------------
\* The calls of a callback are about the clients' items.
LEMMA CallbackCallsOfItems ==
  CallbackCalls => \/ CallbackDisarmsItself
                   \/ \E i \in Items : CallbackDisarms(i) \/ CallbackQueues(i)
BY TimerQueueAssumption DEF CallbackCalls

\* What is left of the ring when the dispatcher has taken its first n slots.
LEMMA RestOfRing ==
  ASSUME TypeOK, NEW n \in 1..Len(ring)
  PROVE  /\ SubSeq(ring, n + 1, Len(ring)) \in Seq(AllItems)
         /\ Len(SubSeq(ring, n + 1, Len(ring))) = Len(ring) - n
         /\ Len(ring) - n <= RingSize
         /\ \A k \in 1..Len(ring) - n : SubSeq(ring, n + 1, Len(ring))[k] = ring[n + k]
<1>1. Len(ring) \in Nat /\ Len(ring) <= RingSize
  BY DEF TypeOK
<1>2. \A k \in n + 1 .. Len(ring) : ring[k] \in AllItems
  BY <1>1 DEF TypeOK
<1>3. /\ SubSeq(ring, n + 1, Len(ring)) \in Seq(AllItems)
      /\ Len(SubSeq(ring, n + 1, Len(ring)))
           = IF n + 1 <= Len(ring) THEN Len(ring) - (n + 1) + 1 ELSE 0
      /\ \A k \in 1..Len(ring) - (n + 1) + 1 :
           SubSeq(ring, n + 1, Len(ring))[k] = ring[n + 1 + k - 1]
  BY <1>1, <1>2, SubSeqProperties
<1> QED
  BY <1>1, <1>3, TimerQueueAssumption

\* The initial state satisfies the invariant.
LEMMA InitIInv == Init => IInv
<1> SUFFICES ASSUME Init PROVE IInv
  OBVIOUS
<1>1. TypeOK
  BY TimerQueueAssumption
     DEF Init, TypeOK, AllItems, States, DispatchPc, ClientPc, StopperPc
<1>2. RunningIffInCallback /\ DisarmedStays /\ KickIsDisarmed
  BY DEF Init, RunningIffInCallback, DisarmedStays, KickIsDisarmed, AllItems, Running, CallbackPc
<1>3. CallsAreAboutItems /\ HeldAreQueued /\ NewAreIdle /\ LeavesAsMarked
  BY TimerQueueAssumption DEF Init, CallsAreAboutItems, HeldAreQueued, NewAreIdle, LeavesAsMarked,
                              AllItems
<1> QED
  BY <1>1, <1>2, <1>3 DEF IInv

\* The item whose callback runs is one of the clients' items, not the kick.
LEMMA CurIsAnItem ==
  ASSUME IInv, dpc \in CallbackPc
  PROVE  cur \in Items /\ state[cur] \in Running
BY DEF IInv, TypeOK, RunningIffInCallback, KickIsDisarmed, AllItems, Running

-----------------------------------------------------------------------------
\* Types are preserved by every step.
LEMMA TypePreserved == IInv /\ [Next]_vars => TypeOK'
<1> SUFFICES ASSUME IInv, [Next]_vars PROVE TypeOK'
  OBVIOUS
<1> USE DEF dispatchVars, ringVars, clientVars
<1>t. TypeOK
  BY DEF IInv
<1>d. ASSUME NEW i \in Items, NEW d \in Delays[i], SetDue(i, d)
      PROVE  left' \in [AllItems -> Int]
  <2>1. Larger(-Interval[i], d) \in Int
    BY <1>d, TimerQueueAssumption DEF Larger
  <2> QED
    BY <1>t, <1>d, <2>1 DEF SetDue, TypeOK, AllItems
<1>a. ASSUME NEW i \in AllItems, Claim(i)
      PROVE  /\ ring' \in Seq(AllItems) /\ Len(ring') <= RingSize
             /\ unpublished' \subseteq AllItems
  <2>1. Append(ring, i) \in Seq(AllItems) /\ Len(Append(ring, i)) = Len(ring) + 1
    BY <1>t, AppendProperties DEF TypeOK
  <2>2. Len(ring) \in Nat
    BY <1>t DEF TypeOK
  <2> QED
    BY <1>t, <1>a, <2>1, <2>2, TimerQueueAssumption DEF Claim, TypeOK
<1>1. CASE \E c \in Clients : ClientStep(c)
  <2> PICK c \in Clients : ClientStep(c)
    BY <1>1
  <2>1. CASE QueueTimer(c)
    <3> PICK i \in Items : /\ queued' = queued \cup {i} /\ arg' = [arg EXCEPT ![c] = i]
                           /\ \E d \in Delays[i] : SetDue(i, d)
      BY <2>1, TimerQueueAssumption DEF QueueTimer
    <3> QED
      BY <1>t, <1>d, <2>1 DEF QueueTimer, TypeOK, ClientPc, AllItems
  <2>2. CASE ClaimSlot(c)
    BY <1>t, <1>a, <2>2 DEF ClaimSlot, TypeOK, ClientPc
  <2>3. CASE Publish(c)
    BY <1>t, <2>3 DEF Publish, TypeOK, ClientPc, AllItems
  <2>4. CASE Disarm(c)
    BY <1>t, <2>4 DEF Disarm, Handles, TypeOK, ClientPc, AllItems
  <2>5. CASE DisarmReturn(c)
    <3>1. arg[c] \in Items
      BY <1>t, <2>5 DEF DisarmReturn, IInv, CallsAreAboutItems, TypeOK
    <3> QED
      BY <1>t, <2>5, <3>1 DEF DisarmReturn, TypeOK, ClientPc, AllItems, States
  <2>6. CASE DisarmBlocked(c)
    BY <1>t, <2>6 DEF DisarmBlocked, TypeOK, ClientPc
  <2>7. CASE WaitReturns(c)
    BY <1>t, <2>7 DEF WaitReturns, TypeOK, ClientPc, States
  <2>8. CASE WaitSleeps(c)
    BY <1>t, <2>8 DEF WaitSleeps, TypeOK, ClientPc
  <2> QED
    BY <2>1, <2>2, <2>3, <2>4, <2>5, <2>6, <2>7, <2>8 DEF ClientStep
<1>2. CASE DispatchStep
  <2>1. CASE TestStop
    BY <1>t, <2>1 DEF TestStop, TypeOK, DispatchPc
  <2>2. CASE Consume
    <3> PICK n \in 1..Len(ring) : /\ waitQueue' = waitQueue \cup {ring[k] : k \in 1..n}
                                 /\ ring' = SubSeq(ring, n + 1, Len(ring))
      BY <2>2 DEF Consume
    <3>1. {ring[k] : k \in 1..n} \subseteq AllItems
      BY <1>t DEF TypeOK
    <3>2. ring' \in Seq(AllItems) /\ Len(ring') <= RingSize
      BY <1>t, RestOfRing
    <3> QED
      BY <1>t, <2>2, <3>1, <3>2 DEF Consume, TypeOK, DispatchPc
  <2>3. CASE WaitTimesOut
    BY <1>t, <2>3 DEF WaitTimesOut, TypeOK, DispatchPc
  <2>4. CASE MergeRequeued
    BY <1>t, <2>4 DEF MergeRequeued, TypeOK, DispatchPc
  <2>5. ASSUME NEW i \in AllItems, StartCallback(i) PROVE TypeOK'
    <3>1. state' \in [AllItems -> States]
      BY <1>t, <2>5 DEF StartCallback, TypeOK, States
    <3> QED
      BY <1>t, <2>5, <3>1 DEF StartCallback, TypeOK, DispatchPc
  <2>10. ASSUME NEW i \in AllItems, DropItem(i) PROVE TypeOK'
    BY <1>t, <2>10 DEF DropItem, TypeOK
  <2>6. CASE CallbackReturns
    BY <1>t, <2>6 DEF CallbackReturns, TypeOK, DispatchPc
  <2>7. CASE Rearm
    <3>1. cur \in Items
      BY <2>7, CurIsAnItem DEF Rearm, CallbackPc
    <3>2. left[cur] + Interval[cur] \in Int
      BY <1>t, <3>1, TimerQueueAssumption DEF TypeOK, AllItems
    <3> QED
      BY <1>t, <2>7, <3>2 DEF Rearm, TypeOK, DispatchPc, States
  <2>8. CASE Retire
    BY <1>t, <2>8 DEF Retire, TypeOK, DispatchPc, States
  <2>9. CASE NotifyAll
    BY <1>t, <2>9 DEF NotifyAll, TypeOK, DispatchPc, ClientPc
  <2> QED
    BY <1>2, <2>1, <2>2, <2>3, <2>4, <2>5, <2>6, <2>7, <2>8, <2>9, <2>10 DEF DispatchStep
<1>3. CASE CallbackCalls
  <2>1. CASE CallbackDisarmsItself
    <3>1. state' \in [AllItems -> States] /\ dpc' \in DispatchPc
      BY <1>t, <2>1 DEF CallbackDisarmsItself, TypeOK, DispatchPc, States
    <3> QED
      BY <1>t, <2>1, <3>1 DEF CallbackDisarmsItself, TypeOK
  <2>2. ASSUME NEW i \in Items, CallbackDisarms(i) PROVE TypeOK'
    BY <1>t, <2>2 DEF CallbackDisarms, TypeOK, States
  <2>3. ASSUME NEW i \in Items, CallbackQueues(i) PROVE TypeOK'
    <3>1. left' \in [AllItems -> Int]
      BY <1>d, <2>3 DEF CallbackQueues
    <3>2. ring' \in Seq(AllItems) /\ Len(ring') <= RingSize
      <4>1. i \in AllItems /\ ring \in Seq(AllItems)
        BY <1>t DEF AllItems, TypeOK
      <4>2. Append(ring, i) \in Seq(AllItems) /\ Len(Append(ring, i)) = Len(ring) + 1
        BY <4>1, AppendProperties
      <4>3. Len(ring) \in Nat /\ Len(ring) <= RingSize /\ RingSize \in Nat
        BY <1>t, TimerQueueAssumption DEF TypeOK
      <4> QED
        BY <2>3, <4>1, <4>2, <4>3 DEF CallbackQueues
    <3> QED
      BY <1>t, <2>3, <3>1, <3>2 DEF CallbackQueues, TypeOK, DispatchPc
  <2> QED
    BY <1>3, <2>1, <2>2, <2>3, CallbackCallsOfItems
<1>4. CASE Shutdown
  <2>1. CASE RequestStop
    BY <1>t, <2>1 DEF RequestStop, TypeOK, StopperPc, AllItems
  <2>2. CASE StopperClaims
    BY <1>t, <1>a, <2>2 DEF StopperClaims, TypeOK, StopperPc, AllItems
  <2>3. CASE StopperPublishes
    BY <1>t, <2>3 DEF StopperPublishes, TypeOK, StopperPc
  <2>4. CASE Join
    BY <1>t, <2>4 DEF Join, TypeOK, StopperPc
  <2> QED
    BY <1>4, <2>1, <2>2, <2>3, <2>4 DEF Shutdown
<1>5. CASE Tick
  BY <1>t, <1>5 DEF Tick, TypeOK
<1>6. CASE UNCHANGED vars
  BY <1>t, <1>6 DEF vars, TypeOK
<1> QED
  BY <1>1, <1>2, <1>3, <1>4, <1>5, <1>6 DEF Next

-----------------------------------------------------------------------------
\* No step leaves kDisarmed: the dispatcher's stores hit a running item only.
LEMMA DisarmIsFinalStep ==
  ASSUME IInv, [Next]_vars, NEW i \in AllItems, state[i] = "Disarmed"
  PROVE  state'[i] = "Disarmed"
<1> USE DEF dispatchVars, ringVars, clientVars
<1>t. state \in [AllItems -> States] /\ cur \in AllItems
  BY DEF IInv, TypeOK
<1>n. dpc \in CallbackPc => cur # i
  BY CurIsAnItem DEF Running
<1>1. CASE \E c \in Clients : ClientStep(c)
  BY <1>t, <1>1 DEF ClientStep, QueueTimer, ClaimSlot, Publish, Disarm, DisarmReturn,
                    DisarmBlocked, WaitReturns, WaitSleeps
<1>2. CASE DispatchStep
  <2>1. CASE Rearm \/ Retire
    BY <1>t, <1>n, <2>1 DEF Rearm, Retire, CallbackPc
  <2>2. CASE \E j \in AllItems : StartCallback(j) \/ DropItem(j)
    BY <1>t, <2>2 DEF StartCallback, DropItem
  <2>3. CASE TestStop \/ Consume \/ WaitTimesOut \/ MergeRequeued \/ CallbackReturns \/ NotifyAll
    BY <2>3 DEF TestStop, Consume, WaitTimesOut, MergeRequeued, CallbackReturns, NotifyAll
  <2> QED
    BY <1>2, <2>1, <2>2, <2>3 DEF DispatchStep
<1>3. CASE CallbackCalls
  BY <1>t, <1>3 DEF CallbackCalls, CallbackDisarmsItself, CallbackDisarms, CallbackQueues
<1>4. CASE Shutdown
  BY <1>4 DEF Shutdown, RequestStop, StopperClaims, StopperPublishes, Join
<1>5. CASE Tick \/ UNCHANGED vars
  BY <1>5 DEF Tick, vars
<1> QED
  BY <1>1, <1>2, <1>3, <1>4, <1>5 DEF Next

\* Every step keeps the running states and the dispatcher's place in step.
LEMMA RunningPreserved == IInv /\ [Next]_vars => RunningIffInCallback'
<1> SUFFICES ASSUME IInv, [Next]_vars PROVE RunningIffInCallback'
  OBVIOUS
<1> USE DEF dispatchVars, ringVars, clientVars
<1>t. /\ state \in [AllItems -> States]
      /\ cur \in AllItems
      /\ arg \in [Clients -> AllItems]
  BY DEF IInv, TypeOK
<1>r. RunningIffInCallback
  BY DEF IInv
<1>1. CASE \E c \in Clients : ClientStep(c)
  <2> PICK c \in Clients : ClientStep(c)
    BY <1>1
  <2>1. CASE DisarmReturn(c)
    BY <1>t, <1>r, <2>1 DEF DisarmReturn, DisarmEndsIn, RunningIffInCallback, Running
  <2>2. CASE QueueTimer(c) \/ ClaimSlot(c) \/ Publish(c) \/ Disarm(c)
             \/ DisarmBlocked(c) \/ WaitReturns(c) \/ WaitSleeps(c)
    BY <1>r, <2>2 DEF QueueTimer, ClaimSlot, Publish, Disarm, DisarmBlocked, WaitReturns,
                      WaitSleeps, RunningIffInCallback
  <2> QED
    BY <2>1, <2>2 DEF ClientStep
<1>2. CASE DispatchStep
  <2>1. CASE \E i \in AllItems : StartCallback(i)
    <3> PICK i \in AllItems : StartCallback(i)
      BY <2>1
    <3>1. \A j \in AllItems : state[j] \notin Running
      BY <1>r DEF StartCallback, RunningIffInCallback, CallbackPc
    <3> QED
      BY <1>t, <3>1 DEF StartCallback, RunningIffInCallback, CallbackPc, Running
  <2>2. CASE \E i \in AllItems : DropItem(i)
    BY <1>r, <2>2 DEF DropItem, RunningIffInCallback
  <2>3. CASE CallbackReturns
    BY <1>r, <2>3 DEF CallbackReturns, RunningIffInCallback, CallbackPc
  <2>4. CASE Rearm \/ Retire
    BY <1>t, <1>r, <2>4 DEF Rearm, Retire, RunningIffInCallback, CallbackPc, Running
  <2>5. CASE TestStop \/ Consume \/ WaitTimesOut \/ MergeRequeued \/ NotifyAll
    BY <1>r, <2>5 DEF TestStop, Consume, WaitTimesOut, MergeRequeued, NotifyAll,
                      RunningIffInCallback, CallbackPc
  <2> QED
    BY <1>2, <2>1, <2>2, <2>3, <2>4, <2>5 DEF DispatchStep
<1>3. CASE CallbackCalls
  <2>1. CASE CallbackDisarmsItself
    BY <1>t, <1>r, <2>1 DEF CallbackDisarmsItself, RunningIffInCallback, CallbackPc, Running
  <2>2. ASSUME NEW i \in Items, CallbackDisarms(i) PROVE RunningIffInCallback'
    BY <1>t, <1>r, <2>2 DEF CallbackDisarms, DisarmEndsIn, RunningIffInCallback, Running
  <2>3. ASSUME NEW i \in Items, CallbackQueues(i) PROVE RunningIffInCallback'
    BY <1>r, <2>3 DEF CallbackQueues, RunningIffInCallback, CallbackPc
  <2> QED
    BY <1>3, <2>1, <2>2, <2>3, CallbackCallsOfItems
<1>4. CASE Shutdown
  BY <1>r, <1>4 DEF Shutdown, RequestStop, StopperClaims, StopperPublishes, Join,
                    RunningIffInCallback
<1>5. CASE Tick \/ UNCHANGED vars
  BY <1>r, <1>5 DEF Tick, vars, RunningIffInCallback
<1> QED
  BY <1>1, <1>2, <1>3, <1>4, <1>5 DEF Next

\* An item enters the history only as kDisarmed and then stays so.
LEMMA DisarmedPreserved == IInv /\ [Next]_vars => DisarmedStays'
<1> SUFFICES ASSUME IInv, [Next]_vars, NEW i \in disarmed'
             PROVE  state'[i] = "Disarmed"
  BY DEF DisarmedStays
<1> USE DEF dispatchVars, ringVars, clientVars
<1>t. /\ state \in [AllItems -> States]
      /\ arg \in [Clients -> AllItems]
      /\ disarmed \subseteq AllItems
  BY DEF IInv, TypeOK, AllItems
<1>1. CASE i \in disarmed
  BY <1>t, <1>1, DisarmIsFinalStep DEF IInv, DisarmedStays
<1>2. CASE i \notin disarmed
  <2>1. \/ \E c \in Clients : DisarmReturn(c)
        \/ \E j \in Items : CallbackDisarms(j)
    BY <1>2, CallbackCallsOfItems
       DEF Next, vars, ClientStep, QueueTimer, ClaimSlot, Publish, Disarm, DisarmBlocked,
                WaitReturns, WaitSleeps, DispatchStep, TestStop, Consume, WaitTimesOut,
                MergeRequeued, StartCallback, DropItem, CallbackReturns, Rearm, Retire,
                NotifyAll, CallbackDisarmsItself, CallbackQueues, Shutdown,
                RequestStop, StopperClaims, StopperPublishes, Join, Tick
  <2>2. ASSUME NEW c \in Clients, DisarmReturn(c) PROVE state'[i] = "Disarmed"
    BY <1>t, <1>2, <2>2 DEF DisarmReturn
  <2>3. ASSUME NEW j \in Items, CallbackDisarms(j) PROVE state'[i] = "Disarmed"
    BY <1>t, <1>2, <2>3 DEF CallbackDisarms, AllItems
  <2> QED
    BY <2>1, <2>2, <2>3
<1> QED
  BY <1>1, <1>2

\* A call is about one of the clients' items from its first step to its last.
LEMMA CallsPreserved == IInv /\ [Next]_vars => CallsAreAboutItems'
<1> SUFFICES ASSUME IInv, [Next]_vars, NEW e \in Clients, cpc'[e] # "ready"
             PROVE  arg'[e] \in queued'
  BY DEF CallsAreAboutItems
<1> USE DEF dispatchVars, ringVars, clientVars
<1>t. /\ cpc \in [Clients -> ClientPc]
      /\ arg \in [Clients -> AllItems]
      /\ queued \subseteq Items
      /\ CallsAreAboutItems
  BY DEF IInv, TypeOK
<1>1. CASE \E c \in Clients : ClientStep(c)
  <2> PICK c \in Clients : ClientStep(c)
    BY <1>1
  <2>1. CASE QueueTimer(c) \/ Disarm(c)
    BY <1>t, <2>1 DEF QueueTimer, Disarm, Handles, CallsAreAboutItems
  <2>2. CASE Publish(c) \/ DisarmReturn(c)
    BY <1>t, <2>2 DEF Publish, DisarmReturn, CallsAreAboutItems
  <2>3. CASE ClaimSlot(c) \/ DisarmBlocked(c) \/ WaitReturns(c) \/ WaitSleeps(c)
    BY <1>t, <2>3 DEF ClaimSlot, DisarmBlocked, WaitReturns, WaitSleeps, CallsAreAboutItems
  <2> QED
    BY <2>1, <2>2, <2>3 DEF ClientStep
<1>2. CASE NotifyAll
  BY <1>t, <1>2 DEF NotifyAll, CallsAreAboutItems
<1>3. CASE DispatchStep /\ ~NotifyAll
  BY <1>t, <1>3 DEF DispatchStep, TestStop, Consume, WaitTimesOut, MergeRequeued, StartCallback,
                    DropItem, CallbackReturns, Rearm, Retire, CallsAreAboutItems
<1>4. CASE CallbackCalls \/ Shutdown \/ Tick \/ UNCHANGED vars
  BY <1>t, <1>4 DEF CallbackCalls, CallbackDisarmsItself, CallbackDisarms, CallbackQueues,
                    Shutdown, RequestStop, StopperClaims, StopperPublishes, Join, Tick, vars,
                    CallsAreAboutItems
<1> QED
  BY <1>1, <1>2, <1>3, <1>4 DEF Next

\* An item comes into the queue's hands only through QueueTimer.
LEMMA HeldPreserved == IInv /\ [Next]_vars => HeldAreQueued'
<1> SUFFICES ASSUME IInv, [Next]_vars PROVE HeldAreQueued'
  OBVIOUS
<1> USE DEF dispatchVars, ringVars, clientVars
<1>t. /\ queued \subseteq Items
      /\ ring \in Seq(AllItems)
      /\ Len(ring) \in Nat
      /\ HeldAreQueued
      /\ CallsAreAboutItems
  BY DEF IInv, TypeOK
<1>a. ASSUME NEW i \in AllItems, i \in queued' \cup {Kick}, queued \subseteq queued',
             ring' = Append(ring, i)
      PROVE  \A k \in 1..Len(ring') : ring'[k] \in queued' \cup {Kick}
  <2>1. /\ Len(ring') = Len(ring) + 1
        /\ \A k \in 1..Len(ring) : ring'[k] = ring[k]
        /\ ring'[Len(ring) + 1] = i
    BY <1>t, <1>a, AppendProperties
  <2> QED
    BY <1>t, <1>a, <2>1 DEF HeldAreQueued
<1>1. CASE \E c \in Clients : ClientStep(c)
  <2> PICK c \in Clients : ClientStep(c)
    BY <1>1
  <2>1. CASE ClaimSlot(c)
    <3>1. arg[c] \in AllItems /\ arg[c] \in queued
      BY <1>t, <2>1 DEF ClaimSlot, CallsAreAboutItems, AllItems
    <3> QED
      BY <1>t, <1>a, <2>1, <3>1 DEF ClaimSlot, Claim, HeldAreQueued
  <2>2. CASE QueueTimer(c)
    BY <1>t, <2>2 DEF QueueTimer, HeldAreQueued
  <2>3. CASE Publish(c) \/ Disarm(c) \/ DisarmReturn(c) \/ DisarmBlocked(c)
             \/ WaitReturns(c) \/ WaitSleeps(c)
    BY <1>t, <2>3 DEF Publish, Disarm, DisarmReturn, DisarmBlocked, WaitReturns, WaitSleeps,
                      HeldAreQueued
  <2> QED
    BY <2>1, <2>2, <2>3 DEF ClientStep
<1>2. CASE DispatchStep
  <2>1. CASE Consume
    <3> PICK n \in 1..Len(ring) : /\ waitQueue' = waitQueue \cup {ring[k] : k \in 1..n}
                                 /\ ring' = SubSeq(ring, n + 1, Len(ring))
      BY <2>1 DEF Consume
    <3>1. {ring[k] : k \in 1..n} \subseteq queued \cup {Kick}
      BY <1>t DEF HeldAreQueued
    <3>2. \A k \in 1..Len(ring') : ring'[k] \in queued \cup {Kick}
      BY <1>t, RestOfRing DEF HeldAreQueued
    <3> QED
      BY <1>t, <2>1, <3>1, <3>2 DEF Consume, HeldAreQueued
  <2>2. CASE Rearm
    <3>1. cur \in queued
      BY <2>2, CurIsAnItem DEF IInv, NewAreIdle, Rearm, CallbackPc, Running
    <3> QED
      BY <1>t, <2>2, <3>1 DEF Rearm, HeldAreQueued
  <2>3. CASE DispatchStep /\ ~Consume /\ ~Rearm
    BY <1>t, <2>3 DEF DispatchStep, TestStop, WaitTimesOut, MergeRequeued, StartCallback,
                      DropItem, CallbackReturns, Retire, NotifyAll, HeldAreQueued
  <2> QED
    BY <1>2, <2>1, <2>2, <2>3
<1>3. CASE CallbackCalls
  <2>1. ASSUME NEW i \in Items, CallbackQueues(i) PROVE HeldAreQueued'
    <3>1. ring' = ring \/ ring' = Append(ring, i)
      BY <2>1 DEF CallbackQueues
    <3> QED
      BY <1>t, <1>a, <2>1, <3>1 DEF CallbackQueues, HeldAreQueued, AllItems
  <2> QED
    BY <1>t, <1>3, <2>1, CallbackCallsOfItems DEF CallbackDisarmsItself, CallbackDisarms, HeldAreQueued
<1>4. CASE Shutdown
  <2>1. CASE StopperClaims
    BY <1>t, <1>a, <2>1 DEF StopperClaims, Claim, HeldAreQueued, AllItems
  <2> QED
    BY <1>t, <1>4, <2>1 DEF Shutdown, RequestStop, StopperPublishes, Join, HeldAreQueued
<1>5. CASE Tick \/ UNCHANGED vars
  BY <1>t, <1>5 DEF Tick, vars, HeldAreQueued
<1> QED
  BY <1>1, <1>2, <1>3, <1>4, <1>5 DEF Next

\* The state of an item that was never queued is the constructor's kIdle.
LEMMA NewPreserved == IInv /\ [Next]_vars => NewAreIdle'
<1> SUFFICES ASSUME IInv, [Next]_vars, NEW i \in Items \ queued'
             PROVE  state'[i] = "Idle"
  BY DEF NewAreIdle
<1> USE DEF dispatchVars, ringVars, clientVars
<1>t. /\ state \in [AllItems -> States]
      /\ i \in AllItems
      /\ Kick \notin Items
      /\ NewAreIdle /\ HeldAreQueued /\ CallsAreAboutItems
      /\ dpc \in CallbackPc => cur \in queued
  BY TimerQueueAssumption, CurIsAnItem DEF IInv, TypeOK, AllItems, NewAreIdle, Running
<1>q. i \notin queued /\ state[i] = "Idle"
  <2>1. queued \subseteq queued'
    BY DEF Next, vars, ClientStep, QueueTimer, ClaimSlot, Publish, Disarm, DisarmReturn,
           DisarmBlocked, WaitReturns, WaitSleeps, DispatchStep, TestStop, Consume, WaitTimesOut,
           MergeRequeued, StartCallback, DropItem, CallbackReturns, Rearm, Retire, NotifyAll,
           CallbackCalls, CallbackDisarmsItself, CallbackDisarms, CallbackQueues, Shutdown,
           RequestStop, StopperClaims, StopperPublishes, Join, Tick
  <2> QED
    BY <1>t, <2>1 DEF NewAreIdle
<1>1. CASE \E c \in Clients : ClientStep(c)
  BY <1>t, <1>q, <1>1 DEF ClientStep, QueueTimer, ClaimSlot, Publish, Disarm, DisarmReturn,
                          DisarmBlocked, WaitReturns, WaitSleeps, CallsAreAboutItems
<1>2. CASE DispatchStep
  <2>1. CASE \E j \in AllItems : StartCallback(j) \/ DropItem(j)
    <3> PICK j \in AllItems : StartCallback(j) \/ DropItem(j)
      BY <2>1
    <3>1. j # i
      BY <1>t, <1>q DEF StartCallback, DropItem, DueFront, HeldAreQueued
    <3> QED
      BY <1>t, <1>q, <3>1 DEF StartCallback, DropItem
  <2>2. CASE Rearm \/ Retire
    BY <1>t, <1>q, <2>2 DEF Rearm, Retire, CallbackPc
  <2>3. CASE TestStop \/ Consume \/ WaitTimesOut \/ MergeRequeued \/ CallbackReturns \/ NotifyAll
    BY <1>q, <2>3 DEF TestStop, Consume, WaitTimesOut, MergeRequeued, CallbackReturns, NotifyAll
  <2> QED
    BY <1>2, <2>1, <2>2, <2>3 DEF DispatchStep
<1>3. CASE CallbackCalls
  BY <1>t, <1>q, <1>3 DEF CallbackCalls, CallbackDisarmsItself, CallbackDisarms, CallbackQueues,
                          Handles, CallbackPc
<1>4. CASE Shutdown \/ Tick \/ UNCHANGED vars
  BY <1>q, <1>4 DEF Shutdown, RequestStop, StopperClaims, StopperPublishes, Join, Tick, vars
<1> QED
  BY <1>1, <1>2, <1>3, <1>4 DEF Next

\* Nobody changes the item between the dispatcher's read and its store.
LEMMA LeavesPreserved == IInv /\ [Next]_vars => LeavesAsMarked'
<1> SUFFICES ASSUME IInv, [Next]_vars PROVE LeavesAsMarked'
  OBVIOUS
<1> USE DEF dispatchVars, ringVars, clientVars
<1>t. /\ TypeOK
      /\ LeavesAsMarked
      /\ dpc \in CallbackPc => state[cur] \in Running
  BY CurIsAnItem DEF IInv
<1>1. CASE \E c \in Clients : ClientStep(c)
  <2> PICK c \in Clients : ClientStep(c)
    BY <1>1
  <2>1. CASE DisarmReturn(c)
    BY <1>t, <2>1 DEF DisarmReturn, DisarmEndsIn, LeavesAsMarked, CallbackPc, Running, TypeOK
  <2>2. CASE ~DisarmReturn(c)
    BY <1>t, <2>2 DEF ClientStep, QueueTimer, ClaimSlot, Publish, Disarm, DisarmBlocked,
                      WaitReturns, WaitSleeps, LeavesAsMarked
  <2> QED
    BY <2>1, <2>2
<1>2. CASE CallbackReturns
  BY <1>t, <1>2 DEF CallbackReturns, LeavesAsMarked, CallbackPc, Running
<1>3. CASE DispatchStep /\ ~CallbackReturns
  BY <1>t, <1>3 DEF DispatchStep, TestStop, Consume, WaitTimesOut, MergeRequeued, StartCallback,
                    DropItem, Rearm, Retire, NotifyAll, LeavesAsMarked
<1>4. CASE CallbackCalls
  BY <1>t, <1>4 DEF CallbackCalls, CallbackDisarmsItself, CallbackDisarms, CallbackQueues,
                    LeavesAsMarked
<1>5. CASE Shutdown \/ Tick \/ UNCHANGED vars
  BY <1>t, <1>5 DEF Shutdown, RequestStop, StopperClaims, StopperPublishes, Join, Tick, vars,
                    LeavesAsMarked
<1> QED
  BY <1>1, <1>2, <1>3, <1>4, <1>5 DEF Next

LEMMA IInvPreserved == IInv /\ [Next]_vars => IInv'
<1>1. ASSUME IInv, [Next]_vars PROVE KickIsDisarmed'
  BY <1>1, DisarmIsFinalStep DEF IInv, KickIsDisarmed, AllItems
<1> QED
  BY <1>1, TypePreserved, RunningPreserved, DisarmedPreserved, CallsPreserved, HeldPreserved,
     NewPreserved, LeavesPreserved DEF IInv

-----------------------------------------------------------------------------
\* Every variable keeps its type, whatever the number of items and clients.
THEOREM TypeCorrect == Spec => []TypeOK
<1>1. IInv => TypeOK
  BY DEF IInv
<1> QED
  BY <1>1, InitIInv, IInvPreserved, PTL DEF Spec

\* The promise of timer_queue.h:38: once Disarm() has returned to a thread,
\* the item's callback is not running and never runs again.
THEOREM DisarmStopsCallbacks == Spec => []NoCallbackAfterDisarm
<1>1. IInv => NoCallbackAfterDisarm
  BY DEF IInv, TypeOK, AllItems, RunningIffInCallback, DisarmedStays, NoCallbackAfterDisarm, Running
<1> QED
  BY <1>1, InitIInv, IInvPreserved, PTL DEF Spec

\* The assertion of timer_queue.cpp:117 cannot fail.
THEOREM PopAssertionHolds == Spec => []NeverPopsRunningItem
<1>1. IInv => NeverPopsRunningItem
  BY DEF IInv, TypeOK, RunningIffInCallback, NeverPopsRunningItem, CallbackPc
<1> QED
  BY <1>1, InitIInv, IInvPreserved, PTL DEF Spec

\* No step of any thread revives a disarmed item.
THEOREM DisarmedForever == Spec => DisarmIsFinal
<1>1. IInv /\ [Next]_vars
        => [\A i \in AllItems : state[i] = "Disarmed" => state'[i] = "Disarmed"]_vars
  BY DisarmIsFinalStep
<1> QED
  BY <1>1, InitIInv, IInvPreserved, PTL DEF Spec, DisarmIsFinal

-----------------------------------------------------------------------------
(* No armed item is lost.                                                   *)

\* Between QueueTimer and its callback an item is about to get a slot, in the
\* ring, in the wait queue or among the recurring items that are to be merged.
Held(i) ==
  \/ \E c \in Clients : cpc[c] = "claim" /\ arg[c] = i
  \/ \E k \in 1..Len(ring) : ring[k] = i
  \/ i \in waitQueue \cup requeue

\* The exception is an item that a callback queues while the ring is full: the
\* dispatch thread never comes back from claim_one().
ArmedItemsAreHeld == dpc # "cbClaim" => \A i \in queued : state[i] = "Idle" => Held(i)

\* Every step keeps hold of the armed items, whichever slots are published.
LEMMA ArmedItemsPreserved == IInv /\ ArmedItemsAreHeld /\ [Next]_vars => ArmedItemsAreHeld'
<1> SUFFICES ASSUME IInv, ArmedItemsAreHeld, [Next]_vars, dpc' # "cbClaim",
                    NEW i \in queued', state'[i] = "Idle"
             PROVE  Held(i)'
  BY DEF ArmedItemsAreHeld
<1> USE DEF dispatchVars, ringVars, clientVars
<1>t. /\ TypeOK /\ i \in Items /\ i \in AllItems
      /\ ring \in Seq(AllItems) /\ Len(ring) \in Nat
      /\ cpc \in [Clients -> ClientPc] /\ arg \in [Clients -> AllItems]
      /\ state \in [AllItems -> States]
  <2>1. queued' \subseteq Items
    BY TypePreserved DEF TypeOK
  <2> QED
    BY <2>1 DEF IInv, TypeOK, AllItems
<1>d. dpc # "cbClaim"
  BY DEF Next, vars, ClientStep, QueueTimer, ClaimSlot, Publish, Disarm, DisarmReturn,
         DisarmBlocked, WaitReturns, WaitSleeps, DispatchStep, TestStop, Consume, WaitTimesOut,
         MergeRequeued, StartCallback, DropItem, CallbackReturns, Rearm, Retire, NotifyAll,
         CallbackCalls, CallbackDisarmsItself, CallbackDisarms, CallbackQueues, Shutdown,
         RequestStop, StopperClaims, StopperPublishes, Join, Tick
<1>h. ASSUME i \in queued, state[i] = "Idle" PROVE Held(i)
  BY <1>d, <1>h DEF ArmedItemsAreHeld
<1>a. ASSUME NEW j \in AllItems, ring' = Append(ring, j)
      PROVE  /\ \E k \in 1..Len(ring') : ring'[k] = j
             /\ (\E k \in 1..Len(ring) : ring[k] = i) => \E k \in 1..Len(ring') : ring'[k] = i
  <2>1. /\ Len(ring') = Len(ring) + 1
        /\ \A k \in 1..Len(ring) : ring'[k] = ring[k]
        /\ ring'[Len(ring) + 1] = j
    BY <1>t, <1>a, AppendProperties
  <2>2. 1..Len(ring) \subseteq 1..Len(ring') /\ Len(ring) + 1 \in 1..Len(ring')
    BY <1>t, <2>1
  <2> QED
    BY <2>1, <2>2
<1>1. CASE \E c \in Clients : ClientStep(c)
  <2> PICK c \in Clients : ClientStep(c)
    BY <1>1
  <2>1. CASE QueueTimer(c)
    <3>1. CASE i \in queued
      BY <1>t, <1>h, <2>1, <3>1 DEF QueueTimer, Held
    <3>2. CASE i \notin queued
      BY <1>t, <2>1, <3>2 DEF QueueTimer, Held
    <3> QED
      BY <3>1, <3>2
  <2>2. CASE ClaimSlot(c)
    BY <1>t, <1>a, <1>h, <2>2 DEF ClaimSlot, Claim, Held
  <2>3. CASE DisarmReturn(c)
    <3>1. arg[c] # i /\ state[i] = "Idle" /\ i \in queued
      BY <1>t, <2>3 DEF DisarmReturn
    <3> QED
      BY <1>t, <1>h, <2>3, <3>1 DEF DisarmReturn, Held
  <2>4. CASE Publish(c) \/ Disarm(c) \/ DisarmBlocked(c) \/ WaitReturns(c) \/ WaitSleeps(c)
    BY <1>t, <1>h, <2>4 DEF Publish, Disarm, DisarmBlocked, WaitReturns, WaitSleeps, Held
  <2> QED
    BY <2>1, <2>2, <2>3, <2>4 DEF ClientStep
<1>2. CASE DispatchStep
  <2>1. CASE Consume
    <3> PICK n \in 1..Len(ring) : /\ waitQueue' = waitQueue \cup {ring[k] : k \in 1..n}
                                 /\ ring' = SubSeq(ring, n + 1, Len(ring))
      BY <2>1 DEF Consume
    <3>1. Held(i)
      BY <1>h, <2>1 DEF Consume
    <3>2. ASSUME NEW k \in 1..Len(ring), ring[k] = i PROVE Held(i)'
      <4>1. CASE k \in 1..n
        BY <3>2, <4>1 DEF Held
      <4>2. CASE k \notin 1..n
        <5>1. k - n \in 1..Len(ring) - n /\ n + (k - n) = k
          BY <1>t, <4>2
        <5>2. Len(ring') = Len(ring) - n /\ ring'[k - n] = ring[n + (k - n)]
          BY <1>t, <5>1, RestOfRing
        <5> QED
          BY <3>2, <5>1, <5>2 DEF Held
      <4> QED
        BY <4>1, <4>2
    <3> QED
      BY <2>1, <3>1, <3>2 DEF Consume, Held
  <2>2. CASE Rearm
    <3>1. CASE i = cur
      BY <2>2, <3>1 DEF Rearm, Held
    <3>2. CASE i # cur
      BY <1>t, <1>h, <2>2, <3>2 DEF Rearm, Held
    <3> QED
      BY <3>1, <3>2
  <2>3. CASE Retire \/ \E j \in AllItems : StartCallback(j) \/ DropItem(j)
    BY <1>t, <1>h, <2>3 DEF Retire, StartCallback, DropItem, Held
  <2>4. CASE TestStop \/ WaitTimesOut \/ MergeRequeued \/ CallbackReturns
    BY <1>h, <2>4 DEF TestStop, WaitTimesOut, MergeRequeued, CallbackReturns, Held
  <2>5. CASE NotifyAll
    BY <1>t, <1>h, <2>5 DEF NotifyAll, Held
  <2> QED
    BY <1>2, <2>1, <2>2, <2>3, <2>4, <2>5 DEF DispatchStep
<1>3. CASE CallbackCalls
  <2>1. ASSUME NEW j \in Items, CallbackQueues(j) PROVE Held(i)'
    <3>1. ring' = Append(ring, j)
      BY <2>1 DEF CallbackQueues
    <3>2. i = j \/ (i \in queued /\ state[i] = "Idle")
      BY <2>1 DEF CallbackQueues
    <3> QED
      BY <1>t, <1>a, <1>h, <2>1, <3>1, <3>2 DEF CallbackQueues, Held, AllItems
  <2>2. ASSUME NEW j \in Items, CallbackDisarms(j) PROVE Held(i)'
    BY <1>t, <1>h, <2>2 DEF CallbackDisarms, Held
  <2>3. CASE CallbackDisarmsItself
    BY <1>t, <1>h, <2>3 DEF CallbackDisarmsItself, Held
  <2> QED
    BY <1>3, <2>1, <2>2, <2>3, CallbackCallsOfItems
<1>4. CASE Shutdown
  <2>1. CASE StopperClaims
    BY <1>t, <1>a, <1>h, <2>1 DEF StopperClaims, Claim, Held, AllItems
  <2> QED
    BY <1>h, <1>4, <2>1 DEF Shutdown, RequestStop, StopperPublishes, Join, Held
<1>5. CASE Tick \/ UNCHANGED vars
  BY <1>h, <1>5 DEF Tick, vars, Held
<1> QED
  BY <1>1, <1>2, <1>3, <1>4, <1>5 DEF Next

\* However many threads claim slots, and in whatever order they publish them, an
\* armed item is never lost between QueueTimer, ring, wait queue and merge.
THEOREM NoArmedItemIsLost == Spec => []ArmedItemsAreHeld
<1>1. Init => ArmedItemsAreHeld
  BY DEF Init, ArmedItemsAreHeld
<1> QED
  BY <1>1, InitIInv, IInvPreserved, ArmedItemsPreserved, PTL DEF Spec

-----------------------------------------------------------------------------
(* The queue implements TimerService.                                       *)

USE DEF PhaseOfState

\* A step that keeps the state of every item and queues none is a stutter.
LEMMA SamePhase ==
  ASSUME state' = state, queued' = queued
  PROVE  Phase' = Phase
BY DEF Phase

\* A step that moves one queued item to another state changes its phase only.
LEMMA MovePhase ==
  ASSUME IInv, NEW i \in queued, NEW s \in States,
         state' = [state EXCEPT ![i] = s], queued' = queued
  PROVE  Phase' = [Phase EXCEPT ![i] = PhaseOfState(s)]
<1>1. i \in Items /\ i \in AllItems /\ Items \subseteq AllItems
  BY DEF IInv, TypeOK, AllItems
<1>2. \A j \in Items : state'[j] = IF j = i THEN s ELSE state[j]
  BY <1>1 DEF IInv, TypeOK
<1>3. Phase' = [j \in Items |-> IF j \in queued THEN PhaseOfState(state'[j]) ELSE "new"]
  BY DEF Phase
<1>4. \A j \in Items : (IF j \in queued THEN PhaseOfState(state'[j]) ELSE "new")
                          = (IF j = i THEN PhaseOfState(s) ELSE Phase[j])
  <2> HIDE DEF PhaseOfState
  <2> QED
    BY <1>2 DEF Phase
<1>5. DOMAIN Phase = Items
  BY DEF Phase
<1>6. [Phase EXCEPT ![i] = PhaseOfState(s)]
        = [j \in Items |-> IF j = i THEN PhaseOfState(s) ELSE Phase[j]]
  <2> HIDE DEF PhaseOfState
  <2> QED
    BY <1>5
<1> QED
  BY <1>3, <1>4, <1>6

\* Queueing an item arms it.
LEMMA QueuePhase ==
  ASSUME IInv, NEW i \in Items \ queued, state' = state, queued' = queued \cup {i}
  PROVE  Phase' = [Phase EXCEPT ![i] = "armed"] /\ Phase[i] = "new"
<1>1. i \notin queued /\ state[i] = "Idle"
  BY DEF IInv, NewAreIdle
<1>2. Phase' = [j \in Items |-> IF j \in queued \cup {i} THEN PhaseOfState(state[j]) ELSE "new"]
  BY DEF Phase
<1>3. PhaseOfState(state[i]) = "armed"
  BY <1>1
<1>4. \A j \in Items : (IF j \in queued \cup {i} THEN PhaseOfState(state[j]) ELSE "new")
                          = (IF j = i THEN "armed" ELSE Phase[j])
  <2> HIDE DEF PhaseOfState
  <2> QED
    BY <1>1, <1>3 DEF Phase
<1>5. DOMAIN Phase = Items
  BY DEF Phase
<1>7. [Phase EXCEPT ![i] = "armed"] = [j \in Items |-> IF j = i THEN "armed" ELSE Phase[j]]
  BY <1>5
<1>6. Phase[i] = "new"
  BY <1>1 DEF Phase
<1> QED
  BY <1>2, <1>4, <1>6, <1>7

\* Every step of the queue is a step of the service or leaves it unchanged.
LEMMA StepImplements == IInv /\ [Next]_vars => [Service!Next]_Phase
<1> SUFFICES ASSUME IInv, [Next]_vars PROVE Service!Next \/ Phase' = Phase
  BY DEF Service!Next
<1> USE DEF dispatchVars, ringVars, clientVars
<1>t. /\ TypeOK /\ HeldAreQueued /\ CallsAreAboutItems
      /\ queued \subseteq Items
      /\ dpc \in CallbackPc => cur \in queued /\ state[cur] \in Running
      /\ \A i \in queued : Phase[i] = PhaseOfState(state[i])
  BY CurIsAnItem DEF IInv, TypeOK, NewAreIdle, Running, Phase
<1>a. ASSUME NEW i \in Items \ queued, state' = state, queued' = queued \cup {i}
      PROVE  Service!Next
  BY <1>a, QueuePhase DEF Service!Next, Service!Arm, Service!Enter
<1>o. ASSUME NEW i \in queued, state[i] \in DisarmEndsIn,
             state' = [state EXCEPT ![i] = "Disarmed"], queued' = queued
      PROVE  Service!Next \/ Phase' = Phase
  <2>1. Phase' = [Phase EXCEPT ![i] = "off"]
    BY <1>o, MovePhase DEF States
  <2>2. CASE state[i] = "Idle"
    BY <1>t, <2>1, <2>2 DEF Service!Next, Service!Disarm, Service!Enter
  <2>3. CASE state[i] = "Disarmed"
    BY <1>t, <2>1, <2>3 DEF Phase
  <2> QED
    BY <1>o, <2>2, <2>3 DEF DisarmEndsIn
<1>1. CASE \E c \in Clients : ClientStep(c)
  <2> PICK c \in Clients : ClientStep(c)
    BY <1>1
  <2>1. CASE QueueTimer(c)
    <3> PICK i \in Items \ queued : queued' = queued \cup {i}
      BY <2>1, TimerQueueAssumption DEF QueueTimer
    <3> QED
      BY <1>a, <2>1 DEF QueueTimer
  <2>2. CASE DisarmReturn(c)
    BY <1>t, <1>o, <2>2 DEF DisarmReturn, CallsAreAboutItems
  <2>3. CASE ClaimSlot(c) \/ Publish(c) \/ Disarm(c) \/ DisarmBlocked(c) \/ WaitReturns(c)
             \/ WaitSleeps(c)
    BY <2>3, SamePhase DEF ClaimSlot, Publish, Disarm, DisarmBlocked, WaitReturns, WaitSleeps
  <2> QED
    BY <2>1, <2>2, <2>3 DEF ClientStep
<1>2. CASE DispatchStep
  <2>1. ASSUME NEW i \in AllItems, StartCallback(i) PROVE Service!Next
    <3>1. i \in queued
      BY <1>t, <2>1 DEF IInv, KickIsDisarmed, StartCallback, DueFront, HeldAreQueued
    <3>2. Phase' = [Phase EXCEPT ![i] = "running"] /\ Phase[i] = "armed"
      BY <1>t, <2>1, <3>1, MovePhase DEF StartCallback, States
    <3>3. \A j \in Items : ~Service!InCallback(j)
      <4>1. \A j \in Items : state[j] \in {"Idle", "Disarmed"}
        BY <1>t, <2>1 DEF IInv, RunningIffInCallback, StartCallback, CallbackPc, Running, TypeOK,
                          AllItems, States
      <4> QED
        BY <4>1 DEF Service!InCallback, Phase
    <3> QED
      BY <1>t, <3>1, <3>2, <3>3 DEF Service!Next, Service!Fire, Service!Enter
  <2>2. CASE Rearm
    <3>1. cur \in queued /\ state[cur] \in Running
      BY <1>t, <2>2 DEF Rearm, CallbackPc
    <3>2. Phase' = [Phase EXCEPT ![cur] = "armed"]
      BY <2>2, <3>1, MovePhase DEF Rearm, States
    <3>3. Interval[cur] # 0 /\ state[cur] = "InCallback"
      BY <2>2 DEF IInv, LeavesAsMarked, Rearm
    <3> QED
      BY <1>t, <3>1, <3>2, <3>3 DEF Service!Next, Service!Rearm, Service!Enter
  <2>3. CASE Retire
    <3>1. cur \in queued /\ state[cur] \in Running
      BY <1>t, <2>3 DEF Retire, CallbackPc
    <3>2. Phase' = [Phase EXCEPT ![cur] = "off"]
      BY <2>3, <3>1, MovePhase DEF Retire, States
    <3>3. Interval[cur] = 0 \/ state[cur] = "InCallbackSelfDisarmed"
      BY <2>3 DEF IInv, LeavesAsMarked, Retire
    <3> QED
      BY <1>t, <3>1, <3>2, <3>3 DEF Service!Next, Service!Retire, Service!Enter, Running
  <2>4. CASE TestStop \/ Consume \/ WaitTimesOut \/ MergeRequeued \/ CallbackReturns \/ NotifyAll
             \/ \E i \in AllItems : DropItem(i)
    BY <2>4, SamePhase DEF TestStop, Consume, WaitTimesOut, MergeRequeued, CallbackReturns,
                           NotifyAll, DropItem
  <2> QED
    BY <1>2, <2>1, <2>2, <2>3, <2>4 DEF DispatchStep
<1>3. CASE CallbackCalls
  <2>1. CASE CallbackDisarmsItself
    <3>1. cur \in queued
      BY <1>t, <2>1 DEF CallbackDisarmsItself, CallbackPc
    <3>2. CASE state[cur] = "InCallback"
      <4>1. Phase' = [Phase EXCEPT ![cur] = "leaving"]
        BY <2>1, <3>1, <3>2, MovePhase DEF CallbackDisarmsItself, States
      <4> QED
        BY <1>t, <3>1, <3>2, <4>1 DEF Service!Next, Service!DisarmSelf, Service!Enter
    <3>3. CASE state[cur] # "InCallback"
      BY <2>1, <3>3, SamePhase DEF CallbackDisarmsItself
    <3> QED
      BY <3>2, <3>3
  <2>2. ASSUME NEW i \in Items, CallbackDisarms(i) PROVE Service!Next \/ Phase' = Phase
    BY <1>o, <2>2 DEF CallbackDisarms, Handles
  <2>3. ASSUME NEW i \in Items, CallbackQueues(i) PROVE Service!Next
    BY <1>a, <2>3 DEF CallbackQueues
  <2> QED
    BY <1>3, <2>1, <2>2, <2>3, CallbackCallsOfItems
<1>4. CASE Shutdown \/ Tick \/ UNCHANGED vars
  BY <1>4, SamePhase DEF Shutdown, RequestStop, StopperClaims, StopperPublishes, Join, Tick, vars
<1> QED
  BY <1>1, <1>2, <1>3, <1>4 DEF Next

\* The contract of timer_queue.h holds for any number of items and threads.
THEOREM ServiceImplemented == Spec => ImplementsService
<1>1. Init => Service!Init
  BY DEF Init, Service!Init, Phase
<1> QED
  BY <1>1, InitIInv, IInvPreserved, StepImplements, PTL DEF Spec, ImplementsService, Service!Spec
=============================================================================
