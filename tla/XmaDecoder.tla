----------------------------- MODULE XmaDecoder -----------------------------
(***************************************************************************)
(* The XMA decoder (src/src/audio/xma_decoder.cpp, xma_context.cpp): a set *)
(* of hardware contexts in guest memory, decoded by a worker that sweeps   *)
(* over all of them and by the guest thread that kicks one.  Guests create *)
(* contexts, edit their data without a lock, kick, disable, clear and      *)
(* release them (src/src/kernel/xboxkrnl/xboxkrnl_audio_xma.cpp); another  *)
(* thread pauses, resumes and shuts the decoder down.                      *)
(***************************************************************************)
EXTENDS Integers, FiniteSets, FiniteSetsExt

CONSTANTS
  ContextCount,  \* kContextCount
  Buffers,       \* the input buffers of a context, two in the code
  Guests,        \* guest threads, each with a context of its own at a time
  Players,       \* bound: those that use it; the others create and release
  Worker,
  Nobody,
  NoContext

ASSUME XmaDecoderAssumption ==
  /\ ContextCount \in Nat \ {0}
  /\ IsFiniteSet(Buffers)
  /\ Players \subseteq Guests
  /\ Worker \notin Guests
  /\ Nobody \notin Guests \cup {Worker}
  /\ NoContext \notin Nat

VARIABLES
  free,        \* the bits set in context_bitmap_
  allocated, enabled, lock,  \* is_allocated_, is_enabled_, lock_ of each context
  data,        \* its XMA_CONTEXT_DATA: the valid bits of its buffers
  pc,          \* where each thread is
  sweep,       \* the context the worker's sweep has come to
  taken, outDone,  \* what the decode under way consumes: input, output buffer
  copy,        \* the context data a thread has read and is to write back
  didWork,     \* did_work of the sweep
  running, paused, pauseFence, resumeFence, workEvent,
  cpc,         \* where the thread is that pauses and shuts down
  own,         \* the context each guest has created
  offered,     \* history: buffers the guest marked valid, not yet consumed
  late,        \* history: those it marked while a decode was writing the data back
  unseen,      \* history: data stored by the guest since a decode read it
  still        \* history: XMADisableContext returned, and no kick since

contextVars == <<free, allocated, enabled, lock, data>>
decodeVars == <<taken, outDone, copy>>
controlVars == <<running, paused, pauseFence, resumeFence, cpc>>
historyVars == <<offered, late, unseen, still>>
vars == <<contextVars, pc, decodeVars, sweep, didWork, controlVars, workEvent, own, historyVars>>

Contexts == 0 .. ContextCount - 1
Threads == Guests \cup {Worker}
Data == [valid : SUBSET Buffers, out : BOOLEAN]
Blank == [valid |-> {}, out |-> FALSE]

WorkPc == {"look", "lock", "decode", "store"}
GuestPc == {"ready", "mark", "edit", "clear", "enable", "wake", "disable", "block", "unmark"}
WorkerPc == {"top", "next", "swept", "paused", "wait", "exited"}

TypeOK ==
  /\ free \subseteq Contexts
  /\ allocated \in [Contexts -> BOOLEAN] /\ enabled \in [Contexts -> BOOLEAN]
  /\ lock \in [Contexts -> Threads \cup {Nobody}]
  /\ data \in [Contexts -> Data]
  /\ pc \in [Threads -> WorkPc \cup GuestPc \cup WorkerPc]
  /\ sweep \in Contexts
  /\ taken \in [Threads -> SUBSET Buffers] /\ outDone \in [Threads -> BOOLEAN]
  /\ copy \in [Threads -> Data]
  /\ {didWork, running, paused, pauseFence, resumeFence, workEvent} \subseteq BOOLEAN
  /\ cpc \in {"run", "wake", "fence", "still", "resume", "unpause", "join", "done"}
  /\ own \in [Guests -> Contexts \cup {NoContext}]
  /\ offered \in [Contexts -> SUBSET Buffers] /\ late \in [Contexts -> SUBSET Buffers]
  /\ unseen \in [Contexts -> BOOLEAN] /\ still \in [Contexts -> BOOLEAN]

Init ==
  /\ free = Contexts
  /\ allocated = [c \in Contexts |-> FALSE]
  /\ enabled = [c \in Contexts |-> FALSE]
  /\ lock = [c \in Contexts |-> Nobody]
  /\ data = [c \in Contexts |-> Blank]
  /\ pc = [t \in Threads |-> IF t = Worker THEN "top" ELSE "ready"]
  /\ sweep = 0
  /\ taken = [t \in Threads |-> {}]
  /\ outDone = [t \in Threads |-> FALSE]
  /\ copy = [t \in Threads |-> Blank]
  /\ didWork = FALSE
  /\ running = TRUE /\ paused = FALSE
  /\ pauseFence = FALSE /\ resumeFence = FALSE /\ workEvent = FALSE
  /\ cpc = "run"
  /\ own = [g \in Guests |-> NoContext]
  /\ offered = [c \in Contexts |-> {}] /\ late = [c \in Contexts |-> {}]
  /\ unseen = [c \in Contexts |-> FALSE]
  /\ still = [c \in Contexts |-> FALSE]

Goto(t, l) == pc' = [pc EXCEPT ![t] = l]

\* The context a thread works on.
At(t) == IF t = Worker THEN sweep ELSE own[t]

-----------------------------------------------------------------------------
(* XmaContext::Work, by the worker or by the thread that kicks.             *)

\* What follows: the sweep goes on, the kick wakes the worker.
AfterWork(t) == IF t = Worker THEN "next" ELSE "wake"
Worked(t) == didWork' = (didWork \/ t = Worker)

\* Mutant: test and clear is_enabled_, then wait for the lock.
LookAndDisable(t) ==
  /\ pc[t] = "look"
  /\ Goto(t, IF allocated[At(t)] /\ enabled[At(t)] THEN "lock" ELSE AfterWork(t))
  /\ enabled' = [enabled EXCEPT ![At(t)] = FALSE]
  /\ UNCHANGED <<free, allocated, lock, data, decodeVars, sweep, didWork, controlVars, workEvent, own,
                 historyVars>>

Look(t) ==
  /\ pc[t] = "look"
  /\ Goto(t, IF allocated[At(t)] /\ enabled[At(t)] THEN "lock" ELSE AfterWork(t))
  /\ UNCHANGED <<contextVars, decodeVars, sweep, didWork, controlVars, workEvent, own, historyVars>>

\* With the lock: clear is_enabled_, copy the data.  Without an output buffer, or
\* with nothing left to drain in a context without input, it returns at once;
\* otherwise decode, which consumes any of the valid input buffers and may fill
\* the output buffer.
BeginWork(t) ==
  LET c == At(t) IN
  /\ pc[t] = "lock"
  /\ lock[c] = Nobody
  /\ enabled' = [enabled EXCEPT ![c] = FALSE]
  /\ unseen' = [unseen EXCEPT ![c] = FALSE]
  /\ \/ /\ Goto(t, AfterWork(t))
        /\ Worked(t)
        /\ UNCHANGED <<lock, taken, outDone>>
     \/ /\ data[c].out
        /\ lock' = [lock EXCEPT ![c] = t]
        /\ \E S \in SUBSET data[c].valid, full \in BOOLEAN :
             taken' = [taken EXCEPT ![t] = S] /\ outDone' = [outDone EXCEPT ![t] = full]
        /\ Goto(t, "decode")
        /\ UNCHANGED didWork
  /\ UNCHANGED <<free, allocated, data, sweep, copy, controlVars, workEvent, own, offered, late, still>>

\* StoreContextMerged reads the data again ...
Reread(t) ==
  /\ pc[t] = "decode"
  /\ copy' = [copy EXCEPT ![t] = data[At(t)]]
  /\ Goto(t, "store")
  /\ UNCHANGED <<contextVars, sweep, taken, outDone, didWork, controlVars, workEvent, own, historyVars>>

\* ... and clears the valid bits this decode consumed, and no others.
\* Mutant: the bits are cleared that the decode did not see.
MergedBlindly(t) == [valid |-> {}, out |-> copy[t].out /\ ~outDone[t]]
Merged(t) == [valid |-> copy[t].valid \ taken[t], out |-> copy[t].out /\ ~outDone[t]]

StoreMerged(t) ==
  LET c == At(t) IN
  /\ pc[t] = "store"
  /\ data' = [data EXCEPT ![c] = Merged(t)]
  /\ lock' = [lock EXCEPT ![c] = Nobody]
  /\ offered' = [offered EXCEPT ![c] = @ \ taken[t]]
  /\ late' = [late EXCEPT ![c] = @ \ taken[t]]
  /\ taken' = [taken EXCEPT ![t] = {}]
  /\ outDone' = [outDone EXCEPT ![t] = FALSE]
  /\ copy' = [copy EXCEPT ![t] = Blank]
  /\ Goto(t, AfterWork(t))
  /\ Worked(t)
  /\ UNCHANGED <<free, allocated, enabled, sweep, controlVars, workEvent, own, unseen, still>>

Work(t) == Look(t) \/ BeginWork(t) \/ Reread(t) \/ StoreMerged(t)

-----------------------------------------------------------------------------
(* WorkerThreadMain.                                                        *)

WorkerOnly == <<contextVars, decodeVars, running, paused, cpc, own, historyVars>>

SweepBegins ==
  /\ pc[Worker] = "top"
  /\ Goto(Worker, IF running THEN "look" ELSE "exited")
  /\ sweep' = 0
  /\ didWork' = FALSE
  /\ UNCHANGED <<WorkerOnly, pauseFence, resumeFence, workEvent>>

NextContext ==
  /\ pc[Worker] = "next"
  /\ IF sweep + 1 < ContextCount /\ running
     THEN Goto(Worker, "look") /\ sweep' = sweep + 1
     ELSE Goto(Worker, "swept") /\ UNCHANGED sweep
  /\ UNCHANGED <<WorkerOnly, didWork, pauseFence, resumeFence, workEvent>>

AfterSweep == IF didWork THEN "top" ELSE "wait"

SweepEnds ==
  /\ pc[Worker] = "swept"
  /\ Goto(Worker, IF paused THEN "paused" ELSE AfterSweep)
  /\ pauseFence' = (pauseFence \/ paused)
  /\ UNCHANGED <<WorkerOnly, sweep, didWork, resumeFence, workEvent>>

\* Mutant: the worker signals the pause and goes on.
WorkerDoesNotPause ==
  /\ pc[Worker] = "paused"
  /\ Goto(Worker, AfterSweep)
  /\ UNCHANGED <<WorkerOnly, sweep, didWork, pauseFence, resumeFence, workEvent>>

WorkerResumes ==
  /\ pc[Worker] = "paused"
  /\ resumeFence
  /\ resumeFence' = FALSE
  /\ Goto(Worker, AfterSweep)
  /\ UNCHANGED <<WorkerOnly, sweep, didWork, pauseFence, workEvent>>

\* work_event_ is an auto-reset event.
WorkerWakes ==
  /\ pc[Worker] = "wait"
  /\ workEvent
  /\ workEvent' = FALSE
  /\ Goto(Worker, "top")
  /\ UNCHANGED <<WorkerOnly, sweep, didWork, pauseFence, resumeFence>>

WorkerStep ==
  SweepBegins \/ NextContext \/ SweepEnds \/ WorkerResumes \/ WorkerWakes \/ Work(Worker)

-----------------------------------------------------------------------------
(* The guest's calls.                                                       *)

GuestOnly == <<sweep, didWork, controlVars, taken, outDone>>

\* AllocateContext: BitMap::Acquire takes the first free bit by compare and
\* swap; is_allocated_ is set after that.
Acquire(g) ==
  /\ pc[g] = "ready" /\ own[g] = NoContext
  /\ free # {}
  /\ free' = free \ {Min(free)}
  /\ own' = [own EXCEPT ![g] = Min(free)]
  /\ Goto(g, "mark")
  /\ UNCHANGED <<GuestOnly, allocated, enabled, lock, data, copy, workEvent, historyVars>>

MarkAllocated(g) ==
  /\ pc[g] = "mark"
  /\ allocated' = [allocated EXCEPT ![own[g]] = TRUE]
  /\ Goto(g, "ready")
  /\ UNCHANGED <<GuestOnly, free, enabled, lock, data, copy, workEvent, own, historyVars>>

\* XMAInitializeContext writes the data and the clear register, XMASetInput...
\* and XMASetOutputBufferValid read the data and write it back, with no lock.
Initialize(g) ==
  /\ pc[g] = "ready" /\ own[g] # NoContext
  /\ data' = [data EXCEPT ![own[g]] = Blank]
  /\ offered' = [offered EXCEPT ![own[g]] = {}] /\ late' = [late EXCEPT ![own[g]] = {}]
  /\ Goto(g, "clear")
  /\ UNCHANGED <<GuestOnly, free, allocated, enabled, lock, copy, workEvent, own, unseen, still>>

Clear(g) ==
  /\ pc[g] = "clear"
  /\ lock[own[g]] = Nobody
  /\ data' = [data EXCEPT ![own[g]] = Blank]
  /\ offered' = [offered EXCEPT ![own[g]] = {}] /\ late' = [late EXCEPT ![own[g]] = {}]
  /\ Goto(g, "ready")
  /\ UNCHANGED <<GuestOnly, free, allocated, enabled, lock, copy, workEvent, own, unseen, still>>

ReadData(g) ==
  /\ pc[g] = "ready" /\ own[g] # NoContext
  /\ copy' = [copy EXCEPT ![g] = data[own[g]]]
  /\ Goto(g, "edit")
  /\ UNCHANGED <<GuestOnly, contextVars, workEvent, own, historyVars>>

\* StoreContextMerged is between its read and its write.
BeingStored(c) == \E t \in Threads : pc[t] = "store" /\ At(t) = c

StoreEdit(g) ==
  LET c == own[g] IN
  /\ pc[g] = "edit"
  /\ \/ \E b \in Buffers :
          /\ data' = [data EXCEPT ![c] = [copy[g] EXCEPT !.valid = @ \cup {b}]]
          /\ offered' = [offered EXCEPT ![c] = @ \cup {b}]
          /\ late' = [late EXCEPT ![c] = IF BeingStored(c) THEN @ \cup ({b} \ offered[c]) ELSE @ \ {b}]
     \/ /\ data' = [data EXCEPT ![c] = [copy[g] EXCEPT !.out = TRUE]]
        /\ UNCHANGED <<offered, late>>
  /\ unseen' = [unseen EXCEPT ![c] = TRUE]
  /\ copy' = [copy EXCEPT ![g] = Blank]
  /\ Goto(g, "ready")
  /\ UNCHANGED <<GuestOnly, free, allocated, enabled, lock, workEvent, own, still>>

\* The kick register: Enable, Work, work_event_->Set().
Kick(g) ==
  /\ pc[g] = "ready" /\ own[g] # NoContext
  /\ still' = [still EXCEPT ![own[g]] = FALSE]
  /\ Goto(g, "enable")
  /\ UNCHANGED <<GuestOnly, contextVars, copy, workEvent, own, offered, late, unseen>>

Enable(g) ==
  /\ pc[g] = "enable"
  /\ lock[own[g]] = Nobody
  /\ enabled' = [enabled EXCEPT ![own[g]] = TRUE]
  /\ Goto(g, "look")
  /\ UNCHANGED <<GuestOnly, free, allocated, lock, data, copy, workEvent, own, historyVars>>

WakeWorker(g) ==
  /\ pc[g] = "wake"
  /\ workEvent' = TRUE
  /\ Goto(g, "ready")
  /\ UNCHANGED <<GuestOnly, contextVars, copy, own, historyVars>>

\* XMADisableContext: the lock register, then BlockOnContext, which finds what
\* Block(false) has just waited for.
CallDisable(g) ==
  /\ pc[g] = "ready" /\ own[g] # NoContext
  /\ Goto(g, "disable")
  /\ UNCHANGED <<GuestOnly, contextVars, copy, workEvent, own, historyVars>>

Disable(g) ==
  /\ pc[g] = "disable"
  /\ lock[own[g]] = Nobody
  /\ enabled' = [enabled EXCEPT ![own[g]] = FALSE]
  /\ Goto(g, "block")
  /\ UNCHANGED <<GuestOnly, free, allocated, lock, data, copy, workEvent, own, historyVars>>

Block(g) ==
  /\ pc[g] = "block"
  /\ lock[own[g]] = Nobody
  /\ still' = [still EXCEPT ![own[g]] = TRUE]
  /\ Goto(g, "ready")
  /\ UNCHANGED <<GuestOnly, contextVars, copy, workEvent, own, offered, late, unseen>>

\* Mutant: is_allocated_ is not cleared.
ReleaseKeepsMark(g) ==
  LET c == own[g] IN
  /\ pc[g] = "ready" /\ c # NoContext
  /\ lock[c] = Nobody
  /\ data' = [data EXCEPT ![c] = Blank]
  /\ offered' = [offered EXCEPT ![c] = {}] /\ late' = [late EXCEPT ![c] = {}]
  /\ unseen' = [unseen EXCEPT ![c] = FALSE]
  /\ still' = [still EXCEPT ![c] = FALSE]
  /\ Goto(g, "unmark")
  /\ UNCHANGED <<GuestOnly, free, allocated, enabled, lock, copy, workEvent, own>>

\* ReleaseContext: XmaContext::Release under the lock, then the bit.
Release(g) ==
  LET c == own[g] IN
  /\ pc[g] = "ready" /\ c # NoContext
  /\ lock[c] = Nobody
  /\ allocated' = [allocated EXCEPT ![c] = FALSE]
  /\ data' = [data EXCEPT ![c] = Blank]
  /\ offered' = [offered EXCEPT ![c] = {}] /\ late' = [late EXCEPT ![c] = {}]
  /\ unseen' = [unseen EXCEPT ![c] = FALSE]
  /\ still' = [still EXCEPT ![c] = FALSE]
  /\ Goto(g, "unmark")
  /\ UNCHANGED <<GuestOnly, free, enabled, lock, copy, workEvent, own>>

ReleaseBit(g) ==
  /\ pc[g] = "unmark"
  /\ free' = free \cup {own[g]}
  /\ own' = [own EXCEPT ![g] = NoContext]
  /\ Goto(g, "ready")
  /\ UNCHANGED <<GuestOnly, allocated, enabled, lock, data, copy, workEvent, historyVars>>

\* A call under way goes on; whether to make one is the guest's choice.
CallGoesOn(g) ==
  \/ MarkAllocated(g) \/ Clear(g) \/ StoreEdit(g) \/ Enable(g) \/ Work(g) \/ WakeWorker(g)
  \/ Disable(g) \/ Block(g) \/ ReleaseBit(g)

GuestStep(g) ==
  \/ Acquire(g) \/ Release(g) \/ CallGoesOn(g)
  \/ g \in Players /\ (Initialize(g) \/ ReadData(g) \/ Kick(g) \/ CallDisable(g))

-----------------------------------------------------------------------------
(* Pause, Resume and Shutdown, by one thread.                               *)

ControlOnly == <<contextVars, pc, decodeVars, sweep, didWork, own, historyVars>>

Pause ==
  /\ cpc = "run"
  /\ paused' = TRUE
  /\ cpc' = "wake"
  /\ UNCHANGED <<ControlOnly, running, pauseFence, resumeFence, workEvent>>

\* Mutant: the worker is not woken.
PauseWakesNobody ==
  /\ cpc = "wake"
  /\ cpc' = IF running THEN "fence" ELSE "unpause"
  /\ UNCHANGED <<ControlOnly, running, paused, pauseFence, resumeFence, workEvent>>

SetWorkEvent ==
  /\ cpc = "wake"
  /\ workEvent' = TRUE
  /\ cpc' = IF running THEN "fence" ELSE "unpause"
  /\ UNCHANGED <<ControlOnly, running, paused, pauseFence, resumeFence>>

PauseReturns ==
  /\ cpc = "fence"
  /\ pauseFence
  /\ pauseFence' = FALSE
  /\ cpc' = "still"
  /\ UNCHANGED <<ControlOnly, running, paused, resumeFence, workEvent>>

Resume ==
  /\ cpc = "still" \/ (cpc = "unpause" /\ paused)
  /\ paused' = FALSE
  /\ cpc' = "resume"
  /\ UNCHANGED <<ControlOnly, running, pauseFence, resumeFence, workEvent>>

SignalResume ==
  /\ cpc = "resume"
  /\ resumeFence' = TRUE
  /\ cpc' = IF running THEN "run" ELSE "join"
  /\ UNCHANGED <<ControlOnly, running, paused, pauseFence, workEvent>>

Shutdown ==
  /\ cpc \in {"run", "still"}
  /\ running' = FALSE
  /\ cpc' = "wake"
  /\ UNCHANGED <<ControlOnly, paused, pauseFence, resumeFence, workEvent>>

\* Shutdown waits two seconds for the worker, then abandons it.
Join ==
  /\ cpc = "join" \/ (cpc = "unpause" /\ ~paused)
  /\ cpc' = "done"
  /\ UNCHANGED <<ControlOnly, running, paused, pauseFence, resumeFence, workEvent>>

ControlStep == SetWorkEvent \/ PauseReturns \/ SignalResume \/ Join \/ (Resume /\ ~running)

-----------------------------------------------------------------------------
Next ==
  \/ WorkerStep
  \/ \E g \in Guests : GuestStep(g)
  \/ Pause \/ Resume \/ Shutdown \/ ControlStep

Spec == Init /\ [][Next]_vars

\* The worker, a thread in a call and the controlling thread go on while they
\* can.  A lock is released and taken again and again by a guest that kicks, so
\* the steps that take it need strong fairness.
Fairness ==
  /\ SF_vars(WorkerStep)
  /\ \A g \in Guests : SF_vars(CallGoesOn(g))
  /\ WF_vars(ControlStep)

FairSpec == Spec /\ Fairness

-----------------------------------------------------------------------------
(* Properties.                                                              *)

\* The assertion of AllocateContext (xma_decoder.cpp:217): the context behind
\* the bit a guest has taken is not allocated, and no two guests have one
\* context, whatever races between ReleaseContext and AllocateContext.
FreshContextIsFree ==
  /\ \A g \in Guests : pc[g] = "mark" => ~allocated[own[g]]
  /\ \A g, h \in Guests : own[g] = own[h] /\ own[g] # NoContext => g = h

\* An input buffer the guest marked valid, even while the context is being
\* decoded, stays valid until a decode has consumed it or the context is cleared:
\* StoreContextMerged gives back only what its decode took.  The exception is the
\* gap between its read and its write (xma_context.cpp:418-438): the write undoes
\* what the guest stores in it, so a buffer marked there may be lost until the
\* guest marks it again.
OfferedBuffersStay == \A c \in Contexts : offered[c] \ late[c] \subseteq data[c].valid

\* A kick is not lost to a decode under way: when the Work of a kick is over,
\* what the guest stored before the kick has been read by some decode.
KickIsTaken == \A g \in Guests : pc[g] = "wake" => ~unseen[own[g]]

\* Between Pause() and Resume() the worker decodes nothing.
PausedWorkerIsStill == cpc = "still" => pc[Worker] = "paused"

\* Pause() returns, and the worker exits once Shutdown() has told it to: the
\* event, the flags and the two fences lose no wake-up.
PauseAndStopTakeEffect ==
  /\ cpc = "fence" ~> cpc = "still"
  /\ ~running ~> pc[Worker] = "exited"

\* After XMADisableContext the game may modify the context: "Block() waits for
\* the context mutex to be free" (xma_decoder.cpp:324), no decode is in progress.
DisabledContextIsQuiet ==
  \A c \in Contexts : still[c] => ~\E t \in Threads : pc[t] \in {"decode", "store"} /\ At(t) = c
=============================================================================
