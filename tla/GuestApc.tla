------------------------------ MODULE GuestApc ------------------------------
(***************************************************************************)
(* The user APCs of one guest thread (src/src/system/xthread.cpp,          *)
(* src/src/kernel/xboxkrnl/xboxkrnl_threading.cpp).  An APC is put on the  *)
(* thread's list under apc_lock, and after that a hint, an empty callback, *)
(* is queued to the host thread: it ends an alertable wait, and the thread *)
(* delivers its list when a wait has ended so.  The host's waits and       *)
(* callbacks are those of HostWait; here a hint is a count.                *)
(***************************************************************************)
EXTENDS Naturals, Sequences, FiniteSets, SequencesExt

CONSTANTS
  Blocks,     \* XAPC blocks of the system heap, for EnqueueApc
  GuestApcs,  \* XAPC objects of the guest's own, for KeInsertQueueApc
  Senders,    \* threads that queue APCs by EnqueueApc and NtQueueApcThread
  Routines,   \* what they are queued for
  NoRoutine, NoApc

ASSUME GuestApcAssumption ==
  /\ IsFiniteSet(Blocks) /\ IsFiniteSet(GuestApcs)
  /\ Blocks \cap GuestApcs = {}
  /\ NoApc \notin Blocks \cup GuestApcs /\ NoRoutine \notin Routines

VARIABLES
  queue,     \* apc_lists[1]
  used,      \* the blocks that are allocated
  routine,   \* normal_routine of a block
  stage,     \* where each sender is
  block,     \* the block it queues
  hints,     \* user_callbacks_ of the host thread
  critical,  \* apc_disable_count # 0
  pc, after, \* where the thread is, where it goes on after a delivery
  current, scratch, \* the APC it delivers, the copy of what that one calls
  silent     \* history: queued APCs for which no hint will come

sendVars == <<stage, block>>
threadVars == <<hints, critical, pc, after, current, scratch>>
apcVars == <<queue, used, routine, sendVars, threadVars, silent>>

ApcInit ==
  /\ queue = <<>>
  /\ used = {} /\ routine = [a \in Blocks |-> NoRoutine]
  /\ stage = [s \in Senders |-> "idle"] /\ block = [s \in Senders |-> NoApc]
  /\ hints = 0 /\ critical = FALSE
  /\ pc = "run" /\ after = "run" /\ current = NoApc /\ scratch = NoRoutine
  /\ silent = {}

-----------------------------------------------------------------------------
(* EnqueueApc and NtQueueApcThread; KeInsertQueueApc and KeRemoveQueueApc.  *)

\* Which of the free blocks it is makes no difference.
FreeBlock == CHOOSE a \in Blocks : a \notin used

AllocateApc(s, r) ==
  /\ stage[s] = "idle" /\ Blocks # used
  /\ used' = used \cup {FreeBlock}
  /\ routine' = [routine EXCEPT ![FreeBlock] = r]
  /\ block' = [block EXCEPT ![s] = FreeBlock]
  /\ stage' = [stage EXCEPT ![s] = "insert"]
  /\ UNCHANGED <<queue, threadVars, silent>>

\* Mutant: the APC is queued and the thread is not told.
InsertWithoutHint(s) ==
  /\ stage[s] = "insert"
  /\ queue' = Append(queue, block[s])
  /\ stage' = [stage EXCEPT ![s] = "idle"]
  /\ block' = [block EXCEPT ![s] = NoApc]
  /\ UNCHANGED <<used, routine, threadVars, silent>>

\* xeKeInsertQueueApc: may_queue_apcs is never cleared, so that a thread that
\* has exited takes APCs like any other.
InsertApc(s) ==
  /\ stage[s] = "insert"
  /\ queue' = Append(queue, block[s])
  /\ stage' = [stage EXCEPT ![s] = "hint"]
  /\ block' = [block EXCEPT ![s] = NoApc]
  /\ UNCHANGED <<used, routine, threadVars, silent>>

QueueHint(s) ==
  /\ stage[s] = "hint"
  /\ hints' = hints + 1
  /\ stage' = [stage EXCEPT ![s] = "idle"]
  /\ UNCHANGED <<queue, used, routine, block, critical, pc, after, current, scratch, silent>>

Send(s) == InsertApc(s) \/ QueueHint(s)

\* An APC of the guest's own is queued once at a time, and with no hint.
KeInsertQueueApc(a) ==
  /\ ~Contains(queue, a)
  /\ queue' = Append(queue, a)
  /\ silent' = silent \cup {a}
  /\ UNCHANGED <<used, routine, sendVars, threadVars>>

KeRemoveQueueApc(a) ==
  /\ Contains(queue, a)
  /\ queue' = RemoveFirst(queue, a)
  /\ silent' = silent \ {a}
  /\ UNCHANGED <<used, routine, sendVars, threadVars>>

-----------------------------------------------------------------------------
(* The thread.                                                              *)

ThreadOnly == <<used, routine, sendVars>>

\* KeDelayExecutionThread delivers before it sleeps, the waits do not.
KeDelay ==
  /\ pc = "run"
  /\ pc' = "deliver" /\ after' = "sleep"
  /\ UNCHANGED <<ThreadOnly, queue, hints, critical, current, scratch, silent>>

AlertableWait ==
  /\ pc = "run"
  /\ pc' = "sleep"
  /\ UNCHANGED <<ThreadOnly, queue, hints, critical, after, current, scratch, silent>>

\* The host runs one callback and the wait returns X_STATUS_USER_APC.  In a
\* critical region nothing is delivered, and the hint is used up.
Alerted ==
  /\ pc = "sleep" /\ hints > 0
  /\ hints' = hints - 1
  /\ pc' = "deliver" /\ after' = "run"
  /\ silent' = IF critical THEN silent \cup ToSet(queue) ELSE silent
  /\ UNCHANGED <<ThreadOnly, queue, critical, current, scratch>>

\* What was waited for, or a timeout, ends the wait; nothing is delivered.
WaitEnds ==
  /\ pc = "sleep"
  /\ pc' = "run"
  /\ UNCHANGED <<ThreadOnly, queue, hints, critical, after, current, scratch, silent>>

ChangeCriticalRegion ==
  /\ pc = "run"
  /\ critical' = ~critical
  /\ UNCHANGED <<ThreadOnly, queue, hints, pc, after, current, scratch, silent>>

FreeApc(a) ==
  /\ used' = used \ {a}
  /\ routine' = IF a \in Blocks THEN [routine EXCEPT ![a] = NoRoutine] ELSE routine

\* DeliverAPCs: one APC at a time is taken from the list under apc_lock.
TakeApc ==
  /\ pc = "deliver" /\ queue # <<>> /\ ~critical
  /\ current' = Head(queue)
  /\ queue' = Tail(queue)
  /\ silent' = silent \ {Head(queue)}
  /\ pc' = "kernel"
  /\ UNCHANGED <<ThreadOnly, hints, critical, after, scratch>>

DeliveryEnds ==
  /\ pc = "deliver" /\ (queue = <<>> \/ critical)
  /\ pc' = after /\ after' = "run"
  /\ UNCHANGED <<ThreadOnly, queue, hints, critical, current, scratch, silent>>

\* What the APC calls is copied; then its kernel routine runs, or, for the
\* dummy one, its block is freed.
KernelRoutine ==
  /\ pc = "kernel"
  /\ scratch' = IF current \in Blocks THEN routine[current] ELSE NoRoutine
  /\ FreeApc(current)
  /\ pc' = "normal"
  /\ UNCHANGED <<queue, sendVars, hints, critical, after, current, silent>>

\* Mutant: needs_freeing is not taken back when the block has been freed.
NormalRoutineFreesAgain ==
  /\ pc = "normal"
  /\ FreeApc(current)
  /\ current' = NoApc /\ scratch' = NoRoutine
  /\ pc' = "deliver"
  /\ UNCHANGED <<queue, sendVars, hints, critical, after, silent>>

\* The normal routine.  needs_freeing is set for the APCs that have a kernel
\* routine of their own, which are the guest's: no block is freed here.
NormalRoutine ==
  /\ pc = "normal"
  /\ current' = NoApc /\ scratch' = NoRoutine
  /\ pc' = "deliver"
  /\ UNCHANGED <<ThreadOnly, queue, hints, critical, after, silent>>

\* Exit: RundownAPCs empties the list, and frees the blocks.
Exit ==
  /\ pc = "run"
  /\ pc' = "rundown"
  /\ UNCHANGED <<ThreadOnly, queue, hints, critical, after, current, scratch, silent>>

Rundown ==
  /\ pc = "rundown" /\ queue # <<>>
  /\ queue' = Tail(queue)
  /\ FreeApc(Head(queue))
  /\ silent' = silent \ {Head(queue)}
  /\ UNCHANGED <<sendVars, threadVars>>

RundownEnds ==
  /\ pc = "rundown" /\ queue = <<>>
  /\ pc' = "exited"
  /\ UNCHANGED <<ThreadOnly, queue, hints, critical, after, current, scratch, silent>>

\* What a call under way does; to wait, to change the region and to exit are
\* the guest's choices.
Deliver == TakeApc \/ DeliveryEnds \/ KernelRoutine \/ Rundown \/ RundownEnds

GuestChoice == KeDelay \/ AlertableWait \/ ChangeCriticalRegion \/ Exit \/ WaitEnds

-----------------------------------------------------------------------------
(* Properties.                                                              *)

\* An alertable wait outside a critical region does not sleep over an APC: a
\* hint is there or its sender is about to give one.  APCs that KeInsertQueueApc
\* queued, and those whose hint a wait in a critical region has used up, are
\* delivered by a later wait or delay.
SleeperIsHinted ==
  pc = "sleep" /\ ~critical /\ hints = 0 /\ (\A s \in Senders : stage[s] # "hint")
    => ToSet(queue) \subseteq silent

\* A block is freed once, by the delivery or by the rundown: what is allocated is
\* in a sender's hand, on the list or in a delivery, and in one of them only.
BlocksInOnePlace ==
  LET held == {block[s] : s \in Senders} \ {NoApc}
      listed == ToSet(queue) \cap Blocks
      delivered == IF pc = "kernel" THEN {current} \cap Blocks ELSE {} IN
  /\ used = held \cup listed \cup delivered
  /\ Cardinality(ToSet(queue)) = Len(queue)
  /\ listed \cap delivered = {}
=============================================================================
