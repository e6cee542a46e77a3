----------------------------- MODULE AudioProofs -----------------------------
(***************************************************************************)
(* The XMA decoder for any number of contexts, buffers and guests: who has *)
(* a context and its lock, what the guest has offered and what a kick has  *)
(* taken, and the pause of the worker.                                     *)
(*                                                                         *)
(* The last part is about the audio system, which is an instance here (the *)
(* prefix is Audio): the permits of its clients and its pause handshake,   *)
(* for any number of slots and of frames.  Permits change hands between    *)
(* the semaphore, the worker, the guest and the device, while clients come *)
(* and go; the strengthening says what the worker may bring along from an  *)
(* earlier client of the slot.  Pausing is a hand-over of two events, one  *)
(* phase for each place of the controlling thread.                         *)
(***************************************************************************)
EXTENDS XmaDecoder, AudioPermits, WellFoundedInduction, TLAPS

Flags ==
  /\ allocated \in [Contexts -> BOOLEAN] /\ enabled \in [Contexts -> BOOLEAN]
  /\ unseen \in [Contexts -> BOOLEAN] /\ still \in [Contexts -> BOOLEAN]
  /\ outDone \in [Threads -> BOOLEAN]
  /\ didWork \in BOOLEAN /\ running \in BOOLEAN /\ paused \in BOOLEAN
  /\ pauseFence \in BOOLEAN /\ resumeFence \in BOOLEAN /\ workEvent \in BOOLEAN

Owners ==
  /\ free \subseteq Contexts
  /\ lock \in [Contexts -> Threads \cup {Nobody}]
  /\ sweep \in Contexts
  /\ own \in [Guests -> Contexts \cup {NoContext}]

Buffered ==
  /\ data \in [Contexts -> Data]
  /\ taken \in [Threads -> SUBSET Buffers]
  /\ copy \in [Threads -> Data]
  /\ offered \in [Contexts -> SUBSET Buffers] /\ late \in [Contexts -> SUBSET Buffers]

Places ==
  /\ pc \in [Threads -> WorkPc \cup GuestPc \cup WorkerPc]
  /\ pc[Worker] \in WorkPc \cup WorkerPc
  /\ \A g \in Guests : pc[g] \in WorkPc \cup GuestPc
  /\ cpc \in {"run", "wake", "fence", "still", "resume", "unpause", "join", "done"}

Types == Flags /\ Owners /\ Buffered /\ Places

\* A guest in a call has a context; a context has one owner, and its bit is
\* taken while it has one.  is_allocated_ is set a little later than the bit is
\* taken, and cleared a little earlier than it is given back.
Ownership ==
  /\ \A g \in Guests : pc[g] # "ready" => own[g] \in Contexts
  /\ \A g \in Guests : own[g] \in Contexts => own[g] \notin free
  /\ \A g, h \in Guests : own[g] = own[h] /\ own[g] \in Contexts => g = h
  /\ \A c \in free : ~allocated[c]
  /\ \A g \in Guests : own[g] \in Contexts => (allocated[own[g]] <=> pc[g] \notin {"mark", "unmark"})

\* The lock of a context is held by the thread that decodes it.
Locks ==
  /\ \A t \in Threads : pc[t] \in {"decode", "store"} => lock[At(t)] = t
  /\ \A c \in Contexts : lock[c] # Nobody => pc[lock[c]] \in {"decode", "store"} /\ At(lock[c]) = c

\* What the guest offers, but for what came too late, is valid in the context, and
\* in every copy of it that is going to be written back.
Kept(c) == offered[c] \ late[c]

Offers ==
  /\ \A c \in Contexts : Kept(c) \subseteq data[c].valid
  /\ \A t \in Threads : pc[t] \in {"edit", "store"} => Kept(At(t)) \subseteq copy[t].valid

\* From Enable() on, the context is enabled or somebody has read the data.
Kicks ==
  \A g \in Guests :
    /\ pc[g] = "look" => enabled[own[g]] \/ ~unseen[own[g]]
    /\ pc[g] \in {"decode", "store", "wake"} => ~unseen[own[g]]

\* While the decoder runs, one Pause() gives one signal of pause_fence_, and one
\* Resume() one of resume_fence_.
Handshake ==
  /\ running => cpc \in {"run", "wake", "fence", "still", "resume"}
  /\ ~running => cpc \notin {"run", "fence", "still"}
  /\ running => (paused <=> cpc \in {"wake", "fence", "still"})
  /\ cpc = "run" => ~pauseFence /\ (resumeFence <=> pc[Worker] = "paused")
  /\ running /\ cpc \in {"wake", "fence"} =>
       \/ ~pauseFence /\ (resumeFence <=> pc[Worker] = "paused")
       \/ pauseFence /\ ~resumeFence /\ pc[Worker] = "paused"
  /\ running /\ cpc \in {"still", "resume"} =>
       ~pauseFence /\ ~resumeFence /\ pc[Worker] = "paused"

IInv == Types /\ Ownership /\ Locks /\ Offers /\ Kicks /\ Handshake

-----------------------------------------------------------------------------
\* BitMap::Acquire finds a context that is free.
LEMMA LeastContext ==
  ASSUME NEW S \in SUBSET Contexts, S # {}
  PROVE  Min(S) \in S
<1> DEFINE R == OpToRel(<, Nat)
<1>1. IsWellFoundedOn(R, Nat)
  BY NatLessThanWellFounded
<1>2. S \subseteq Nat
  BY XmaDecoderAssumption DEF Contexts
<1>3. \E x \in S : \A y \in S : ~ (<<y, x>> \in R)
  <2> HIDE DEF R
  <2> QED
    BY <1>1, <1>2, WFMin
<1>4. \E x \in S : \A y \in S : ~ (y < x)
  BY <1>2, <1>3 DEF OpToRel
<1>5. \E x \in S : \A y \in S : x =< y
  BY <1>2, <1>4
<1> QED
  BY <1>5 DEF Min

\* The context a guest takes is a free one.
LEMMA FreeTaken ==
  ASSUME NEW g \in Guests, Acquire(g), free \subseteq Contexts
  PROVE  \E c \in free : free' = free \ {c} /\ own' = [own EXCEPT ![g] = c]
<1>1. Min(free) \in free
  BY LeastContext DEF Acquire
<1>2. PICK c \in free : c = Min(free)
  BY <1>1
<1> QED
  BY <1>2, Zenon DEF Acquire

\* A guest works on its own context, the worker on that of the sweep.
LEMMA WhereTheyAre ==
  /\ At(Worker) = sweep
  /\ \A g \in Guests : At(g) = own[g] /\ g # Worker
BY XmaDecoderAssumption DEF At

LEMMA NoContextIsNone == NoContext \notin Contexts
BY XmaDecoderAssumption DEF Contexts

\* The initial state satisfies the invariant.
LEMMA InitIInv == Init => IInv
<1> SUFFICES ASSUME Init PROVE IInv
  OBVIOUS
<1> USE XmaDecoderAssumption DEF Init
<1>1. Flags
  BY DEF Flags
<1>2. Owners /\ Buffered
  BY DEF Owners, Buffered, Threads, Contexts, Data, Blank
<1>3. Places
  BY DEF Places, Threads, WorkPc, GuestPc, WorkerPc
<1>4. Ownership
  BY DEF Ownership, Threads, Contexts
<1>5. Locks /\ Offers /\ Kicks
  BY DEF Locks, Offers, Kept, Kicks, Threads, Contexts, Blank
<1>6. Handshake
  BY DEF Handshake, Threads
<1> QED
  BY <1>1, <1>2, <1>3, <1>4, <1>5, <1>6 DEF IInv, Types

-----------------------------------------------------------------------------
(* The calls of a guest.                                                    *)

\* Those that change no data and no owner, but mark the context.
Call(g) ==
  \/ MarkAllocated(g) \/ Kick(g) \/ Enable(g) \/ WakeWorker(g) \/ CallDisable(g) \/ Disable(g) \/ Block(g)

LEMMA CallKeepsIInv == ASSUME NEW g \in Guests PROVE IInv /\ Call(g) => IInv'
<1> SUFFICES ASSUME IInv, Call(g) PROVE IInv'
  OBVIOUS
<1> USE XmaDecoderAssumption DEF Call, MarkAllocated, Kick, Enable, WakeWorker, CallDisable, Disable,
        Block, Goto, Threads, IInv, Types, GuestOnly
<1>1. Flags'
  BY DEF Flags, contextVars, controlVars, historyVars
<1>2. Owners' /\ Buffered'
  BY DEF Owners, Buffered, contextVars, controlVars, historyVars
<1>3. Places'
  BY DEF Places, WorkPc, GuestPc, WorkerPc, controlVars
<1>4. Ownership'
  <2>1. CASE MarkAllocated(g)
    BY <2>1 DEF Ownership, Flags, Owners, Places
  <2> QED
    BY <2>1 DEF Ownership, Owners, Places, contextVars
<1>5. Locks'
  BY DEF Locks, Owners, Places, At, contextVars, historyVars
<1>6. Offers'
  BY DEF Offers, Kept, Places, At, contextVars, historyVars
<1>7. Kicks'
  <2>1. CASE Enable(g)
    BY <2>1 DEF Kicks, Flags, Ownership, Owners, Places, historyVars
  <2>2. CASE Disable(g)
    BY <2>2 DEF Kicks, Flags, Ownership, Owners, Places, historyVars
  <2> QED
    BY <2>1, <2>2 DEF Kicks, Places, contextVars, historyVars
<1>8. Handshake'
  BY DEF Handshake, Places, controlVars
<1> QED
  BY <1>1, <1>2, <1>3, <1>4, <1>5, <1>6, <1>7, <1>8

\* XMAInitializeContext and the clear register empty the context, Release() does
\* so before it gives it back.
LEMMA EmptyKeepsIInv ==
  ASSUME NEW g \in Guests
  PROVE  IInv /\ (Initialize(g) \/ Clear(g) \/ Release(g)) => IInv'
<1> SUFFICES ASSUME IInv, Initialize(g) \/ Clear(g) \/ Release(g) PROVE IInv'
  OBVIOUS
<1> USE XmaDecoderAssumption DEF Initialize, Clear, Release, Goto, Threads, IInv, Types, GuestOnly
<1>1. PICK c \in Contexts : /\ c = own[g]
                            /\ data' = [data EXCEPT ![c] = Blank]
                            /\ offered' = [offered EXCEPT ![c] = {}]
                            /\ late' = [late EXCEPT ![c] = {}]
  BY DEF Owners, Places, Ownership
<1>2. Flags'
  BY ZenonT(30) DEF Flags, controlVars
<1>3. Owners' /\ Buffered'
  BY <1>1 DEF Owners, Buffered, Data, Blank
<1>4. Places'
  BY DEF Places, WorkPc, GuestPc, WorkerPc, controlVars
<1>5. Ownership'
  <2>1. CASE Release(g)
    BY <2>1 DEF Ownership, Flags, Owners, Places
  <2> QED
    BY <2>1 DEF Ownership, Owners, Places
<1>6. Locks'
  BY DEF Locks, Owners, Places, At
<1>7. Offers'
  <2>1. \A k \in Contexts : Kept(k)' \subseteq Kept(k) /\ Kept(k)' \subseteq data'[k].valid
    BY <1>1 DEF Offers, Kept, Buffered, Data, Blank
  <2> QED
    BY <2>1 DEF Offers, Kept, Ownership, Owners, Places, At
<1>8. Kicks'
  BY DEF Kicks, Flags, Ownership, Owners, Places
<1>9. Handshake'
  BY DEF Handshake, Places, controlVars
<1> QED
  BY <1>2, <1>3, <1>4, <1>5, <1>6, <1>7, <1>8, <1>9

\* A context changes hands.
LEMMA HandOverKeepsIInv ==
  ASSUME NEW g \in Guests
  PROVE  IInv /\ (Acquire(g) \/ ReleaseBit(g)) => IInv'
<1> SUFFICES ASSUME IInv, Acquire(g) \/ ReleaseBit(g) PROVE IInv'
  OBVIOUS
<1> USE XmaDecoderAssumption DEF Goto, Threads, IInv, Types, GuestOnly
<1>1. PICK c \in Contexts :
        \/ /\ c \in free /\ free' = free \ {c} /\ own' = [own EXCEPT ![g] = c]
           /\ pc[g] = "ready" /\ own[g] = NoContext /\ pc' = [pc EXCEPT ![g] = "mark"]
        \/ /\ c = own[g] /\ free' = free \cup {c} /\ own' = [own EXCEPT ![g] = NoContext]
           /\ pc[g] = "unmark" /\ pc' = [pc EXCEPT ![g] = "ready"]
  <2>1. CASE Acquire(g)
    BY <2>1, FreeTaken DEF Owners, Acquire
  <2>2. CASE ReleaseBit(g)
    BY <2>2 DEF ReleaseBit, Ownership
  <2> QED
    BY <2>1, <2>2
<1>2. UNCHANGED <<GuestOnly, allocated, enabled, lock, data, copy, workEvent, historyVars>>
  BY DEF Acquire, ReleaseBit
<1>3. Flags'
  BY <1>2, ZenonT(30) DEF Flags, controlVars, historyVars
<1>4. Owners' /\ Buffered'
  BY <1>1, <1>2 DEF Owners, Buffered, historyVars
<1>5. Places'
  BY <1>1, <1>2 DEF Places, WorkPc, GuestPc, WorkerPc, controlVars
<1>6. Ownership'
  BY <1>1, <1>2, NoContextIsNone DEF Ownership, Owners, Places
<1>7. Locks'
  BY <1>1, <1>2 DEF Locks, Owners, Places, At
<1>8. Offers'
  BY <1>1, <1>2 DEF Offers, Kept, Owners, Places, At, historyVars
<1>9. Kicks'
  BY <1>1, <1>2 DEF Kicks, Owners, Places, historyVars
<1>10. Handshake'
  BY <1>1, <1>2 DEF Handshake, Places, controlVars
<1> QED
  BY <1>3, <1>4, <1>5, <1>6, <1>7, <1>8, <1>9, <1>10

LEMMA ReadKeepsIInv == ASSUME NEW g \in Guests PROVE IInv /\ ReadData(g) => IInv'
<1> SUFFICES ASSUME IInv, ReadData(g) PROVE IInv'
  OBVIOUS
<1> USE XmaDecoderAssumption DEF ReadData, Goto, Threads, IInv, Types, GuestOnly, contextVars,
        historyVars
<1>1. Flags'
  BY ZenonT(30) DEF Flags, controlVars
<1>2. Owners' /\ Buffered'
  BY DEF Owners, Buffered
<1>3. Places'
  BY DEF Places, WorkPc, GuestPc, WorkerPc, controlVars
<1>4. Ownership' /\ Locks'
  BY DEF Ownership, Locks, Owners, Places, At
<1>5. Offers'
  BY DEF Offers, Kept, Owners, Buffered, Places, At
<1>6. Kicks'
  BY DEF Kicks, Places
<1>7. Handshake'
  BY DEF Handshake, Places, controlVars
<1> QED
  BY <1>1, <1>2, <1>3, <1>4, <1>5, <1>6, <1>7

\* What the guest writes back covers what it has offered, for only it offers; what
\* it offers while a decode is between its read and its write comes too late.
LEMMA StoreEditKeepsOffers ==
  ASSUME NEW g \in Guests, IInv, StoreEdit(g)
  PROVE  Offers'
<1> USE XmaDecoderAssumption DEF IInv, Types, Threads
<1>1. PICK c \in Contexts : c = own[g] /\ pc[g] = "edit"
  BY DEF StoreEdit, Ownership, Places
<1>2. Kept(c) \subseteq copy[g].valid /\ copy[g] \in Data /\ copy[g].valid \subseteq Buffers
  BY <1>1, WhereTheyAre DEF Offers, Buffered, Data
<1>3. PICK N \in SUBSET Buffers, d \in Data :
        /\ data' = [data EXCEPT ![c] = d]
        /\ copy[g].valid \cup N \subseteq d.valid
        /\ \A k \in Contexts : Kept(k)' \subseteq Kept(k) \cup (IF k = c /\ ~BeingStored(c) THEN N ELSE {})
  <2>1. CASE \E b \in Buffers :
               /\ data' = [data EXCEPT ![c] = [copy[g] EXCEPT !.valid = @ \cup {b}]]
               /\ offered' = [offered EXCEPT ![c] = @ \cup {b}]
               /\ late' = [late EXCEPT ![c] = IF BeingStored(c) THEN @ \cup ({b} \ offered[c])
                                               ELSE @ \ {b}]
    <3>1. PICK b \in Buffers :
               /\ data' = [data EXCEPT ![c] = [copy[g] EXCEPT !.valid = @ \cup {b}]]
               /\ offered' = [offered EXCEPT ![c] = @ \cup {b}]
               /\ late' = [late EXCEPT ![c] = IF BeingStored(c) THEN @ \cup ({b} \ offered[c])
                                               ELSE @ \ {b}]
      BY <2>1
    <3>2. [copy[g] EXCEPT !.valid = @ \cup {b}] \in Data
      BY <1>2 DEF Data
    <3>3. copy[g].valid \cup {b} \subseteq [copy[g] EXCEPT !.valid = @ \cup {b}].valid
      BY <1>2 DEF Data
    <3>4. \A k \in Contexts :
            Kept(k)' \subseteq Kept(k) \cup (IF k = c /\ ~BeingStored(c) THEN {b} ELSE {})
      BY <3>1 DEF Kept, Buffered
    <3> QED
      BY <3>1, <3>2, <3>3, <3>4
  <2>2. CASE data' = [data EXCEPT ![c] = [copy[g] EXCEPT !.out = TRUE]] /\ UNCHANGED <<offered, late>>
    <3>1. [copy[g] EXCEPT !.out = TRUE] \in Data
      BY <1>2 DEF Data
    <3>2. copy[g].valid \cup {} \subseteq [copy[g] EXCEPT !.out = TRUE].valid
      BY <1>2 DEF Data
    <3>3. \A k \in Contexts : Kept(k)' = Kept(k)
      BY <2>2 DEF Kept
    <3> QED
      BY <2>2, <3>1, <3>2, <3>3
  <2> QED
    BY <1>1, <2>1, <2>2 DEF StoreEdit
<1>4. \A k \in Contexts : Kept(k)' \subseteq data'[k].valid
  BY <1>2, <1>3 DEF Offers, Buffered, Data
<1>5. ASSUME NEW t \in Threads, pc'[t] \in {"edit", "store"}
      PROVE  Kept(At(t))' \subseteq copy'[t].valid
  <2>1. t # g /\ pc[t] = pc'[t] /\ At(t)' = At(t) /\ copy'[t] = copy[t] /\ At(t) \in Contexts
    BY <1>5 DEF StoreEdit, Goto, Places, Buffered, At, GuestOnly, Owners, Ownership
  <2>2. Kept(At(t)) \subseteq copy[t].valid
    BY <2>1, <1>5 DEF Offers
  <2>3. At(t) = c => BeingStored(c)
    BY <1>1, <1>5, <2>1 DEF BeingStored, At, Ownership, Places, WorkPc, WorkerPc
  <2>4. \A k \in Contexts : k = At(t) => Kept(k)' \subseteq Kept(k)
    BY <1>3, <2>3
  <2>5. Kept(At(t))' = (offered'[At(t)] \ late'[At(t)])
    BY <2>1 DEF Kept
  <2> QED
    BY <2>1, <2>2, <2>4, <2>5 DEF Kept
<1> QED
  BY <1>4, <1>5 DEF Offers

LEMMA StoreEditKeepsIInv == ASSUME NEW g \in Guests PROVE IInv /\ StoreEdit(g) => IInv'
<1> SUFFICES ASSUME IInv, StoreEdit(g) PROVE IInv'
  OBVIOUS
<1> USE XmaDecoderAssumption DEF Goto, Threads, IInv, Types, GuestOnly
<1>1. /\ pc[g] = "edit" /\ pc' = [pc EXCEPT ![g] = "ready"]
      /\ unseen' = [unseen EXCEPT ![own[g]] = TRUE]
      /\ copy' = [copy EXCEPT ![g] = Blank]
      /\ UNCHANGED <<GuestOnly, free, allocated, enabled, lock, workEvent, own, still>>
  BY DEF StoreEdit
<1>2. Flags'
  BY <1>1, ZenonT(30) DEF Flags, controlVars
<1>3. Owners'
  BY <1>1 DEF Owners
<1>4. Buffered'
  <2>1. own[g] \in Contexts /\ copy[g] \in Data
    BY <1>1 DEF Ownership, Buffered
  <2>2. \A b \in Buffers : [copy[g] EXCEPT !.valid = @ \cup {b}] \in Data
    BY <2>1 DEF Data
  <2>3. [copy[g] EXCEPT !.out = TRUE] \in Data /\ Blank \in Data
    BY <2>1 DEF Data, Blank
  <2>4. data' \in [Contexts -> Data]
    <3>1. \E d \in Data : data' = [data EXCEPT ![own[g]] = d]
      BY <2>2, <2>3, Zenon DEF StoreEdit
    <3> QED
      BY <2>1, <3>1 DEF Buffered
  <2>5. offered' \in [Contexts -> SUBSET Buffers] /\ late' \in [Contexts -> SUBSET Buffers]
    <3>1. CASE UNCHANGED <<offered, late>>
      BY <3>1 DEF Buffered
    <3>2. CASE \E b \in Buffers :
                 /\ offered' = [offered EXCEPT ![own[g]] = @ \cup {b}]
                 /\ late' = [late EXCEPT ![own[g]] = IF BeingStored(own[g])
                                                       THEN @ \cup ({b} \ offered[own[g]]) ELSE @ \ {b}]
      BY <2>1, <3>2 DEF Buffered
    <3> QED
      BY <3>1, <3>2, Zenon DEF StoreEdit
  <2> QED
    BY <1>1, <2>3, <2>4, <2>5 DEF Buffered
<1>5. Places'
  BY <1>1 DEF Places, WorkPc, GuestPc, WorkerPc, controlVars
<1>6. Ownership' /\ Locks'
  BY <1>1 DEF Ownership, Locks, Owners, Places, At
<1>7. Offers'
  BY StoreEditKeepsOffers
<1>8. Kicks'
  BY <1>1 DEF Kicks, Flags, Ownership, Owners, Places
<1>9. Handshake'
  BY <1>1 DEF Handshake, Places, controlVars
<1> QED
  BY <1>2, <1>3, <1>4, <1>5, <1>6, <1>7, <1>8, <1>9

-----------------------------------------------------------------------------
(* Work(), on the worker or on the thread that kicks.                       *)

LEMMA LookKeepsIInv == ASSUME NEW t \in Threads PROVE IInv /\ Look(t) => IInv'
<1> SUFFICES ASSUME IInv, Look(t) PROVE IInv'
  OBVIOUS
<1> USE XmaDecoderAssumption DEF Look, AfterWork, Goto, Threads, IInv, Types, contextVars, decodeVars,
        historyVars
<1>1. Flags'
  BY ZenonT(30) DEF Flags, controlVars
<1>2. Owners' /\ Buffered'
  BY DEF Owners, Buffered
<1>3. Places'
  BY DEF Places, WorkPc, GuestPc, WorkerPc, controlVars
<1>4. Ownership' /\ Locks' /\ Offers'
  BY DEF Ownership, Locks, Offers, Kept, Owners, Places, At
<1>5. Kicks'
  BY DEF Kicks, Ownership, Places, At
<1>6. Handshake'
  BY DEF Handshake, Places, controlVars
<1> QED
  BY <1>1, <1>2, <1>3, <1>4, <1>5, <1>6

LEMMA BeginKeepsIInv == ASSUME NEW t \in Threads PROVE IInv /\ BeginWork(t) => IInv'
<1> SUFFICES ASSUME IInv, BeginWork(t) PROVE IInv'
  OBVIOUS
<1> USE XmaDecoderAssumption DEF AfterWork, Worked, Goto, Threads, IInv, Types
<1>1. PICK c \in Contexts : c = At(t) /\ lock[c] = Nobody
  BY DEF BeginWork, Owners, Places, Ownership, At
<1>2. /\ pc[t] = "lock"
      /\ enabled' = [enabled EXCEPT ![c] = FALSE]
      /\ unseen' = [unseen EXCEPT ![c] = FALSE]
      /\ UNCHANGED <<free, allocated, data, sweep, copy, controlVars, workEvent, own, offered, late, still>>
  BY <1>1 DEF BeginWork
<1>3. \/ pc' = [pc EXCEPT ![t] = AfterWork(t)] /\ UNCHANGED lock
      \/ pc' = [pc EXCEPT ![t] = "decode"] /\ lock' = [lock EXCEPT ![c] = t]
  BY <1>1 DEF BeginWork
<1>4. Flags'
  <2>1. outDone' \in [Threads -> BOOLEAN]
    <3>1. outDone' = outDone \/ \E full \in BOOLEAN : outDone' = [outDone EXCEPT ![t] = full]
      BY <1>1 DEF BeginWork
    <3> QED
      BY <3>1, Zenon DEF Flags
  <2>3. didWork' \in BOOLEAN
    BY DEF BeginWork, Flags
  <2>2. enabled' \in [Contexts -> BOOLEAN] /\ unseen' \in [Contexts -> BOOLEAN]
    BY <1>2, Zenon DEF Flags
  <2> QED
    BY <1>2, <2>1, <2>2, <2>3, ZenonT(30) DEF Flags, controlVars
<1>5. Owners'
  BY <1>2, <1>3 DEF Owners
<1>6. Buffered'
  <2>1. taken' \in [Threads -> SUBSET Buffers]
    <3>1. data[c].valid \subseteq Buffers
      BY DEF Buffered, Data
    <3>2. CASE UNCHANGED taken
      BY <3>2 DEF Buffered
    <3>3. CASE \E S \in SUBSET data[c].valid : taken' = [taken EXCEPT ![t] = S]
      BY <3>1, <3>3 DEF Buffered
    <3> QED
      BY <1>1, <3>2, <3>3, Zenon DEF BeginWork
  <2> QED
    BY <1>2, <2>1 DEF Buffered
<1>7. Places'
  BY <1>2, <1>3 DEF Places, WorkPc, GuestPc, WorkerPc, controlVars
<1>8. Ownership'
  BY <1>2, <1>3 DEF Ownership, Owners, Places
<1>9. Locks'
  <2>1. At(t)' = At(t) /\ \A u \in Threads : At(u)' = At(u)
    BY <1>2 DEF At
  <2>2. \A u \in Threads : u # t => pc'[u] = pc[u]
    BY <1>3 DEF Places
  <2>3. CASE pc' = [pc EXCEPT ![t] = AfterWork(t)] /\ UNCHANGED lock
    BY <1>2, <2>1, <2>2, <2>3 DEF Locks, Owners, Places
  <2>4. CASE pc' = [pc EXCEPT ![t] = "decode"] /\ lock' = [lock EXCEPT ![c] = t]
    <3>1. \A u \in Threads : pc[u] \in {"decode", "store"} => At(u) # c
      BY <1>1 DEF Locks
    <3>2. pc'[t] = "decode" /\ lock'[c] = t /\ \A k \in Contexts : k # c => lock'[k] = lock[k]
      BY <2>4 DEF Places, Owners
    <3>3. ASSUME NEW u \in Threads, pc'[u] \in {"decode", "store"} PROVE lock'[At(u)'] = u
      <4>1. CASE u = t
        BY <1>1, <2>1, <3>2, <4>1
      <4>2. CASE u # t
        <5>1. At(u) \in Contexts /\ pc[u] \in {"decode", "store"}
          BY <3>3, <2>2, <4>2 DEF At, Owners, Ownership, Places
        <5> QED
          BY <2>1, <3>1, <3>2, <5>1 DEF Locks
      <4> QED
        BY <4>1, <4>2
    <3>4. ASSUME NEW k \in Contexts, NEW u \in Threads, lock'[k] = u
          PROVE  pc'[u] \in {"decode", "store"} /\ At(u)' = k
      <4>1. CASE k = c
        BY <1>1, <2>1, <3>2, <3>4, <4>1
      <4>2. CASE k # c
        <5>1. pc[u] \in {"decode", "store"} /\ At(u) = k /\ u # t
          BY <1>2, <3>2, <3>4, <4>2 DEF Locks
        <5> QED
          BY <2>1, <2>2, <5>1
      <4> QED
        BY <4>1, <4>2
    <3>5. \A k \in Contexts : lock'[k] \in Threads \cup {Nobody}
      BY <1>5 DEF Owners
    <3>6. \A k \in Contexts : lock'[k] # Nobody => (pc[lock[k]] \in {"decode", "store"} /\ At(lock[k]) = k)'
      BY <3>4, <3>5 DEF At
    <3> QED
      BY <3>3, <3>6 DEF Locks
  <2> QED
    BY <1>3, <2>3, <2>4
<1>10. Offers'
  BY <1>2, <1>3 DEF Offers, Kept, Places, At
<1>11. Kicks'
  <2>1. ~unseen'[c]
    BY <1>2, Zenon DEF Flags
  <2>2. \A k \in Contexts : k # c => enabled'[k] = enabled[k] /\ unseen'[k] = unseen[k]
    BY <1>2, Zenon DEF Flags
  <2>3. ASSUME NEW g \in Guests, pc'[g] \in {"look", "decode", "store", "wake"}
        PROVE  own'[g] = own[g] /\ own[g] \in Contexts /\ (own[g] # c => pc'[g] = pc[g])
    BY <1>1, <1>2, <1>3, <2>3 DEF Ownership, Places, At
  <2> QED
    BY <2>1, <2>2, <2>3 DEF Kicks
<1>12. Handshake'
  BY <1>2, <1>3 DEF Handshake, Places, controlVars
<1> QED
  BY <1>4, <1>5, <1>6, <1>7, <1>8, <1>9, <1>10, <1>11, <1>12

LEMMA RereadKeepsIInv == ASSUME NEW t \in Threads PROVE IInv /\ Reread(t) => IInv'
<1> SUFFICES ASSUME IInv, Reread(t) PROVE IInv'
  OBVIOUS
<1> USE XmaDecoderAssumption DEF Reread, Goto, Threads, IInv, Types, contextVars, historyVars
<1>1. At(t) \in Contexts
  BY DEF Owners, Places, Ownership, At
<1>2. Flags'
  BY ZenonT(30) DEF Flags, controlVars
<1>3. Owners' /\ Buffered'
  BY <1>1 DEF Owners, Buffered
<1>4. Places'
  BY DEF Places, WorkPc, GuestPc, WorkerPc, controlVars
<1>5. Ownership' /\ Locks'
  BY DEF Ownership, Locks, Owners, Places, At
<1>6. Offers'
  BY <1>1 DEF Offers, Kept, Owners, Buffered, Places, At
<1>7. Kicks'
  BY DEF Kicks, Places
<1>8. Handshake'
  BY DEF Handshake, Places, controlVars
<1> QED
  BY <1>2, <1>3, <1>4, <1>5, <1>6, <1>7, <1>8

\* The decode gives back what it copied, without what it took: everything that is
\* still on offer, because its copy covered it.  Nobody else is about to write.
LEMMA StoreMergedKeepsIInv == ASSUME NEW t \in Threads PROVE IInv /\ StoreMerged(t) => IInv'
<1> SUFFICES ASSUME IInv, StoreMerged(t) PROVE IInv'
  OBVIOUS
<1> USE XmaDecoderAssumption DEF AfterWork, Worked, Goto, Threads, IInv, Types
<1>1. PICK c \in Contexts : c = At(t) /\ pc[t] = "store"
  BY DEF StoreMerged, Owners, Places, Ownership, At
<1>2. /\ data' = [data EXCEPT ![c] = Merged(t)]
      /\ lock' = [lock EXCEPT ![c] = Nobody]
      /\ offered' = [offered EXCEPT ![c] = @ \ taken[t]]
      /\ late' = [late EXCEPT ![c] = @ \ taken[t]]
      /\ taken' = [taken EXCEPT ![t] = {}]
      /\ outDone' = [outDone EXCEPT ![t] = FALSE]
      /\ copy' = [copy EXCEPT ![t] = Blank]
      /\ pc' = [pc EXCEPT ![t] = AfterWork(t)]
      /\ UNCHANGED <<free, allocated, enabled, sweep, controlVars, workEvent, own, unseen, still>>
  BY <1>1 DEF StoreMerged
<1>3. /\ Merged(t) \in Data /\ Merged(t).valid = copy[t].valid \ taken[t]
      /\ Kept(c) \subseteq copy[t].valid
  <2>1. copy[t] \in Data /\ outDone[t] \in BOOLEAN
    BY DEF Buffered, Flags
  <2>2. copy[t].out \in BOOLEAN /\ copy[t].valid \subseteq Buffers
    BY <2>1 DEF Data
  <2>3. (copy[t].out /\ ~outDone[t]) \in BOOLEAN
    BY <2>1, <2>2, Zenon
  <2> QED
    BY <1>1, <2>2, <2>3 DEF Merged, Data, Offers
<1>4. Flags'
  <2>1. didWork' \in BOOLEAN
    BY ZenonT(30) DEF StoreMerged, Flags
  <2> QED
    BY <1>2, <2>1, ZenonT(30) DEF Flags, controlVars
<1>5. Owners' /\ Buffered'
  BY <1>2, <1>3 DEF Owners, Buffered, Data, Blank
<1>6. Places'
  BY <1>2 DEF Places, WorkPc, GuestPc, WorkerPc, controlVars
<1>7. Ownership'
  BY <1>1, <1>2 DEF Ownership, Owners, Places
<1>8. Locks'
  BY <1>1, <1>2 DEF Locks, Owners, Places, At
<1>9. Offers'
  <2>1. \A k \in Contexts : Kept(k)' \subseteq data'[k].valid /\ Kept(k)' \subseteq Kept(k)
    BY <1>2, <1>3 DEF Offers, Kept, Buffered, Data
  <2>2. ASSUME NEW u \in Threads, pc'[u] \in {"edit", "store"}
        PROVE  Kept(At(u))' \subseteq copy'[u].valid
    <3>1. u # t /\ pc'[u] = pc[u] /\ At(u)' = At(u) /\ copy'[u] = copy[u] /\ At(u) \in Contexts
      BY <1>2, <2>2 DEF Places, Buffered, At, Owners, Ownership
    <3> QED
      BY <2>1, <2>2, <3>1 DEF Offers
  <2> QED
    BY <2>1, <2>2 DEF Offers
<1>10. Kicks'
  BY <1>1, <1>2 DEF Kicks, Places, At
<1>11. Handshake'
  BY <1>1, <1>2 DEF Handshake, Places, controlVars
<1> QED
  BY <1>4, <1>5, <1>6, <1>7, <1>8, <1>9, <1>10, <1>11

-----------------------------------------------------------------------------
\* The worker between two contexts, and its pauses.
Between == SweepBegins \/ NextContext \/ SweepEnds \/ WorkerResumes \/ WorkerWakes

LEMMA BetweenKeepsIInv == IInv /\ Between => IInv'
<1> SUFFICES ASSUME IInv, Between PROVE IInv'
  OBVIOUS
<1> USE XmaDecoderAssumption DEF Between, SweepBegins, NextContext, SweepEnds, WorkerResumes,
        WorkerWakes, AfterSweep, Goto, Threads, IInv, Types
<1>1. /\ UNCHANGED WorkerOnly
      /\ pc[Worker] \in WorkerPc /\ pc[Worker] \notin WorkPc
      /\ \E l \in {"look"} \cup WorkerPc : pc' = [pc EXCEPT ![Worker] = l]
  BY DEF WorkerPc, WorkPc
<1>2. Flags'
  BY ZenonT(60) DEF Flags, WorkerOnly, contextVars, decodeVars, historyVars
<1>3. Owners' /\ Buffered'
  <2>1. sweep' = sweep \/ sweep' = 0 \/ (sweep' = sweep + 1 /\ sweep + 1 < ContextCount)
    OBVIOUS
  <2>2. sweep \in 0 .. ContextCount - 1
    BY DEF Owners, Contexts
  <2>3. sweep' \in Contexts
    BY <2>1, <2>2 DEF Contexts
  <2> QED
    BY <1>1, <2>3 DEF Owners, Buffered, WorkerOnly, contextVars, decodeVars, historyVars
<1>4. Places'
  BY <1>1 DEF Places, WorkPc, GuestPc, WorkerPc, WorkerOnly
<1>5. Ownership'
  BY <1>1 DEF Ownership, Places, WorkerOnly, contextVars
<1>6. Locks'
  BY <1>1 DEF Locks, Owners, Places, At, WorkerOnly, contextVars, WorkerPc, WorkPc
<1>7. Offers'
  BY <1>1 DEF Offers, Kept, Owners, Places, At, WorkerOnly, contextVars, decodeVars, historyVars, WorkerPc,
     WorkPc
<1>8. Kicks'
  BY <1>1 DEF Kicks, Places, WorkerOnly, contextVars, historyVars
<1>9. Handshake'
  BY DEF Handshake, Flags, Places, WorkerOnly
<1> QED
  BY <1>2, <1>3, <1>4, <1>5, <1>6, <1>7, <1>8, <1>9

\* The thread that pauses, resumes and shuts down.
Controls == Pause \/ Resume \/ Shutdown \/ ControlStep

LEMMA ControlKeepsIInv == IInv /\ Controls => IInv'
<1> SUFFICES ASSUME IInv, Controls PROVE IInv'
  OBVIOUS
<1> USE DEF Controls, Pause, Resume, Shutdown, ControlStep, SetWorkEvent, PauseReturns,
        SignalResume, Join, IInv, Types
<1>1. UNCHANGED <<contextVars, pc, decodeVars, sweep, didWork, own, historyVars>>
  BY DEF ControlOnly
<1>2. Flags'
  BY <1>1, ZenonT(60) DEF Flags, contextVars, decodeVars, historyVars
<1>3. Owners' /\ Buffered'
  BY <1>1 DEF Owners, Buffered, contextVars, decodeVars, historyVars
<1>4. Places'
  BY <1>1 DEF Places
<1>5. Ownership' /\ Locks' /\ Offers' /\ Kicks'
  BY <1>1 DEF Ownership, Locks, Offers, Kept, Kicks, At, contextVars, decodeVars, historyVars
<1>6. Handshake'
  BY <1>1 DEF Handshake, Flags
<1> QED
  BY <1>2, <1>3, <1>4, <1>5, <1>6

LEMMA StutterKeepsIInv == IInv /\ UNCHANGED vars => IInv'
BY DEF IInv, Types, Flags, Owners, Buffered, Places, Ownership, Locks, Offers, Kept, Kicks, Handshake, At,
       vars, contextVars, decodeVars, controlVars, historyVars

LEMMA NextKeepsIInv == IInv /\ [Next]_vars => IInv'
<1>1. ASSUME IInv, WorkerStep PROVE IInv'
  BY <1>1, BetweenKeepsIInv, LookKeepsIInv, BeginKeepsIInv, RereadKeepsIInv, StoreMergedKeepsIInv
     DEF WorkerStep, Between, Work, Threads
<1>2. ASSUME IInv, NEW g \in Guests, GuestStep(g) PROVE IInv'
  BY <1>2, CallKeepsIInv, EmptyKeepsIInv, HandOverKeepsIInv, ReadKeepsIInv, StoreEditKeepsIInv,
     LookKeepsIInv, BeginKeepsIInv, RereadKeepsIInv, StoreMergedKeepsIInv
     DEF GuestStep, CallGoesOn, Call, Work, Threads
<1> QED
  BY <1>1, <1>2, ControlKeepsIInv, StutterKeepsIInv DEF Next, Controls

LEMMA InductiveInvariant == Spec => []IInv
<1>1. Init => IInv
  BY InitIInv
<1>2. IInv /\ [Next]_vars => IInv'
  BY NextKeepsIInv
<1> QED
  BY <1>1, <1>2, PTL DEF Spec

-----------------------------------------------------------------------------
(* Results.                                                                 *)

\* Every variable of the decoder has its type.
THEOREM TypeCorrect == Spec => []TypeOK
<1>1. IInv => TypeOK
  <2> SUFFICES ASSUME IInv PROVE TypeOK
    OBVIOUS
  <2>1. {didWork, running, paused, pauseFence, resumeFence, workEvent} \subseteq BOOLEAN
    BY DEF IInv, Types, Flags
  <2> QED
    BY <2>1 DEF IInv, Types, Flags, Owners, Buffered, Places, TypeOK
<1> QED
  BY <1>1, InductiveInvariant, PTL

\* The assertion of AllocateContext holds: a context that is handed out is not
\* allocated, and nobody else has it.
THEOREM FreshContexts == Spec => []FreshContextIsFree
<1>1. IInv => FreshContextIsFree
  <2> SUFFICES ASSUME IInv PROVE FreshContextIsFree
    OBVIOUS
  <2>1. \A g \in Guests : pc[g] = "mark" => ~allocated[own[g]]
    BY DEF IInv, Ownership
  <2>2. \A g, h \in Guests : own[g] = own[h] /\ own[g] # NoContext => g = h
    BY DEF IInv, Types, Owners, Ownership
  <2> QED
    BY <2>1, <2>2 DEF FreshContextIsFree
<1> QED
  BY <1>1, InductiveInvariant, PTL

\* What the guest has offered stays valid until a decode has consumed it, unless it
\* was offered between the read and the write of StoreContextMerged, which undoes it.
THEOREM OffersKept == Spec => []OfferedBuffersStay
<1>1. IInv => OfferedBuffersStay
  BY DEF IInv, Offers, Kept, OfferedBuffersStay
<1> QED
  BY <1>1, InductiveInvariant, PTL

\* When a kick is over, a decode has read what was stored before it.
THEOREM KicksTaken == Spec => []KickIsTaken
<1>1. IInv => KickIsTaken
  BY DEF IInv, Kicks, KickIsTaken
<1> QED
  BY <1>1, InductiveInvariant, PTL

\* Once Pause() has returned the worker decodes nothing until Resume().
THEOREM PauseHolds == Spec => []PausedWorkerIsStill
<1>1. IInv => PausedWorkerIsStill
  BY DEF IInv, Handshake, PausedWorkerIsStill
<1> QED
  BY <1>1, InductiveInvariant, PTL

\* Two threads never decode one context at the same time.
DecodedByOne ==
  \A t, u \in Threads :
    pc[t] \in {"decode", "store"} /\ pc[u] \in {"decode", "store"} /\ At(t) = At(u) => t = u

THEOREM OneDecoder == Spec => []DecodedByOne
<1>1. IInv => DecodedByOne
  BY DEF IInv, Locks, DecodedByOne
<1> QED
  BY <1>1, InductiveInvariant, PTL

-----------------------------------------------------------------------------
(* The audio system.                                                        *)

CONSTANT NoSlot

VARIABLES failed, shutdownEvent, resumeEvent, audioRunning, audioPaused, audioFence

Audio == INSTANCE AudioSystem
           WITH running <- audioRunning, paused <- audioPaused, pauseFence <- audioFence

\* TypeOK without the bounds, which follow from Accounts.
Counts ==
  /\ sem \in [Slots -> 0 .. QueuedFrames]
  /\ owed \in [Slots -> Nat] /\ frames \in [Slots -> Nat] /\ lost \in [Slots -> Nat]

AudioFlags ==
  /\ inUse \in [Slots -> BOOLEAN] /\ failed \in [Slots -> BOOLEAN]
  /\ carried \in [Slots -> BOOLEAN]
  /\ audioRunning \in BOOLEAN /\ audioPaused \in BOOLEAN /\ terminated \in BOOLEAN
  /\ shutdownEvent \in BOOLEAN /\ audioFence \in BOOLEAN /\ resumeEvent \in BOOLEAN

AudioPlaces ==
  /\ workerPc \in {"top", "wait", "sleep", "read", "call", "paused", "exited"}
  /\ hand \in Slots \cup {NoSlot}
  /\ called \in {"nobody", "current", "gone"}
  /\ controlPc \in {"run", "wake", "fence", "still", "resume", "stop", "terminate", "destroy", "done"}

AudioTypes == Counts /\ AudioFlags /\ AudioPlaces

\* The worker has a client's permit from WaitAny to the end of the callback.
HandInUse ==
  /\ workerPc \in {"read", "call"} <=> hand \in Slots
  /\ workerPc = "call" <=> called # "nobody"
  /\ called = "current" => inUse[hand]

\* A slot without a client owes nothing, and has permits only after a
\* registration that failed.
EmptySlots ==
  \A i \in Slots : ~inUse[i] =>
    /\ owed[i] = 0 /\ frames[i] = 0 /\ lost[i] = 0
    /\ ~failed[i] /\ ~terminated => sem[i] = 0

\* What the worker has in hand for an earlier client is the one permit too many.
Accounts ==
  \A i \in Slots : inUse[i] =>
    /\ Permits(i) + lost[i] <= QueuedFrames + 1
    /\ called = "gone" /\ hand = i => carried[i] /\ Permits(i) + lost[i] <= QueuedFrames
    /\ ~carried[i] /\ ~terminated => Permits(i) + lost[i] = QueuedFrames

\* While the audio system runs, each Pause() sets the event once, and the worker,
\* which finds it paused, takes it once; Resume() is the same with the other event.
AudioHandshake ==
  /\ audioRunning <=> controlPc \in {"run", "wake", "fence", "still", "resume"}
  /\ terminated <=> controlPc \in {"destroy", "done"}
  /\ controlPc \in {"wake", "fence", "still"} => audioPaused
  /\ controlPc \in {"run", "wake"} =>
       ~shutdownEvent /\ ~audioFence /\ (resumeEvent <=> workerPc = "paused")
  /\ controlPc = "fence" =>
       \/ shutdownEvent /\ ~audioFence /\ (resumeEvent <=> workerPc = "paused")
       \/ ~shutdownEvent /\ audioFence /\ ~resumeEvent /\ workerPc = "paused"
  /\ controlPc \in {"still", "resume"} =>
       ~shutdownEvent /\ ~audioFence /\ ~resumeEvent /\ workerPc = "paused"

AudioInv == AudioTypes /\ HandInUse /\ EmptySlots /\ Accounts /\ AudioHandshake

-----------------------------------------------------------------------------
\* A set of slots that is not empty has a least one.
LEMMA LeastSlot ==
  ASSUME Audio!AudioSystemAssumption, NEW S \in SUBSET Slots, S # {}
  PROVE  Audio!Min(S) \in S
<1> DEFINE R == OpToRel(<, Nat)
<1>1. IsWellFoundedOn(R, Nat)
  BY NatLessThanWellFounded
<1>2. S \subseteq Nat
  BY DEF Audio!AudioSystemAssumption
<1>3. \E x \in S : \A y \in S : ~ (<<y, x>> \in R)
  <2> HIDE DEF R
  <2> QED
    BY <1>1, <1>2, WFMin
<1>4. \E x \in S : \A y \in S : ~ (y < x)
  BY <1>2, <1>3 DEF OpToRel
<1>5. \E x \in S : \A y \in S : x =< y
  BY <1>2, <1>4
<1> QED
  BY <1>5 DEF Audio!Min

\* Every number of permits is a natural number.
LEMMA PermitsType ==
  ASSUME Audio!AudioSystemAssumption, AudioTypes, NEW i \in Slots
  PROVE  Permits(i) \in Nat
BY DEF Audio!AudioSystemAssumption, AudioTypes, Counts, Permits

\* The initial state satisfies the invariant.
LEMMA InitAudio ==
  ASSUME Audio!AudioSystemAssumption
  PROVE  Audio!Init => AudioInv
<1> SUFFICES ASSUME Audio!Init PROVE AudioInv
  OBVIOUS
<1>1. Counts /\ AudioPlaces
  BY DEF Audio!AudioSystemAssumption, Audio!Init, Counts, AudioPlaces
<1>2. AudioFlags
  BY DEF Audio!Init, AudioFlags
<1>3. HandInUse /\ EmptySlots /\ Accounts /\ AudioHandshake
  BY DEF Audio!AudioSystemAssumption, Audio!Init, HandInUse, EmptySlots, Accounts, AudioHandshake
<1> QED
  BY <1>1, <1>2, <1>3 DEF AudioInv, AudioTypes

-----------------------------------------------------------------------------
\* The steps of the worker.

\* The permit the worker takes is one of some client.
LEMMA PermitTaken ==
  ASSUME Audio!AudioSystemAssumption, Audio!WorkerTakesPermit
  PROVE  \E i \in Slots : hand' = i /\ sem[i] > 0 /\ sem' = [sem EXCEPT ![i] = @ - 1]
<1>1. Audio!Min(Audio!Signalled) \in Audio!Signalled
  BY LeastSlot DEF Audio!WorkerTakesPermit, Audio!Signalled
<1>2. PICK i \in Slots : i = Audio!Min(Audio!Signalled) /\ sem[i] > 0
  BY <1>1 DEF Audio!Signalled
<1>3. hand' = i /\ sem' = [sem EXCEPT ![i] = @ - 1]
  BY <1>2, Zenon DEF Audio!WorkerTakesPermit
<1> QED
  BY <1>2, <1>3

LEMMA WorkerCounts ==
  ASSUME Audio!AudioSystemAssumption, AudioInv, Audio!Worker
  PROVE  Counts'
<1>1. CASE Audio!WorkerTakesPermit
  <2>1. UNCHANGED <<owed, frames, lost>>
    BY <1>1 DEF Audio!WorkerTakesPermit
  <2> QED
    BY <1>1, <2>1, PermitTaken DEF Audio!AudioSystemAssumption, AudioInv, AudioTypes, Counts
<1>2. CASE Audio!CallbackReturns
  BY <1>2 DEF Audio!AudioSystemAssumption, AudioInv, AudioTypes, Counts, HandInUse,
     Audio!CallbackReturns
<1> QED
  BY <1>1, <1>2 DEF Audio!Worker, AudioInv, AudioTypes, Counts, Audio!WorkerLoops, Audio!WorkerTimesOut,
     Audio!WorkerSleeps, Audio!WorkerTerminates, Audio!WorkerResumes, Audio!WorkerReads,
     Audio!WorkerTakesEvent, Audio!clientVars

LEMMA WorkerFlags ==
  ASSUME Audio!AudioSystemAssumption, AudioInv, Audio!Worker
  PROVE  AudioFlags'
BY ZenonT(60) DEF Audio!Worker, AudioInv, AudioTypes, AudioFlags, Audio!WorkerLoops,
   Audio!WorkerTakesPermit, Audio!WorkerTakesEvent, Audio!WorkerResumes, Audio!WorkerTimesOut,
   Audio!WorkerSleeps, Audio!WorkerReads, Audio!CallbackReturns, Audio!WorkerTerminates,
   Audio!clientVars, Audio!controlVars

LEMMA WorkerPlaces ==
  ASSUME Audio!AudioSystemAssumption, AudioInv, Audio!Worker
  PROVE  AudioPlaces'
<1>1. CASE Audio!WorkerTakesPermit
  <2>1. called' = called /\ controlPc' = controlPc /\ workerPc' = "read"
    BY <1>1 DEF Audio!WorkerTakesPermit, Audio!controlVars
  <2> QED
    BY <1>1, <2>1, PermitTaken DEF AudioInv, AudioTypes, AudioPlaces
<1> QED
  BY <1>1 DEF Audio!Worker, AudioInv, AudioTypes, AudioPlaces, Audio!WorkerLoops,
     Audio!WorkerTakesEvent, Audio!WorkerResumes, Audio!WorkerTimesOut, Audio!WorkerSleeps,
     Audio!WorkerReads, Audio!CallbackReturns, Audio!WorkerTerminates, Audio!controlVars

LEMMA WorkerHand ==
  ASSUME Audio!AudioSystemAssumption, AudioInv, Audio!Worker
  PROVE  HandInUse'
<1>1. CASE Audio!WorkerTakesPermit
  <2>1. called' = called /\ workerPc' = "read" /\ workerPc = "wait" /\ UNCHANGED inUse
    BY <1>1 DEF Audio!WorkerTakesPermit
  <2> QED
    BY <1>1, <2>1, PermitTaken DEF AudioInv, HandInUse
<1> QED
  BY <1>1 DEF Audio!AudioSystemAssumption, Audio!Worker, AudioInv, AudioTypes, AudioPlaces, HandInUse,
     Audio!WorkerLoops, Audio!WorkerTakesEvent, Audio!WorkerResumes, Audio!WorkerTimesOut,
     Audio!WorkerSleeps, Audio!WorkerReads, Audio!CallbackReturns, Audio!WorkerTerminates,
     Audio!clientVars

LEMMA WorkerEmpty ==
  ASSUME Audio!AudioSystemAssumption, AudioInv, Audio!Worker
  PROVE  EmptySlots'
<1>1. CASE Audio!WorkerTakesPermit
  <2>1. UNCHANGED <<inUse, owed, frames, lost, failed, carried, terminated>>
    BY <1>1 DEF Audio!WorkerTakesPermit, Audio!controlVars
  <2> QED
    BY <1>1, <2>1, PermitTaken DEF AudioInv, AudioTypes, Counts, EmptySlots
<1>2. CASE Audio!CallbackReturns
  BY <1>2 DEF Audio!AudioSystemAssumption, AudioInv, AudioTypes, Counts, HandInUse, EmptySlots,
     Audio!CallbackReturns, Audio!controlVars
<1> QED
  BY <1>1, <1>2 DEF Audio!Worker, AudioInv, EmptySlots, Audio!WorkerLoops, Audio!WorkerTakesEvent,
     Audio!WorkerResumes, Audio!WorkerTimesOut, Audio!WorkerSleeps, Audio!WorkerReads,
     Audio!WorkerTerminates, Audio!clientVars, Audio!controlVars

LEMMA WorkerAccounts ==
  ASSUME Audio!AudioSystemAssumption, AudioInv, Audio!Worker
  PROVE  Accounts'
<1> USE DEF Audio!AudioSystemAssumption, AudioInv, AudioTypes, Counts, AudioPlaces, HandInUse,
            Accounts, Permits
<1>1. CASE Audio!WorkerTakesPermit
  <2>1. UNCHANGED <<inUse, owed, frames, lost, carried, called, terminated>> /\ workerPc = "wait" /\ workerPc' = "read"
    BY <1>1 DEF Audio!WorkerTakesPermit, Audio!controlVars
  <2> QED
    BY <1>1, <2>1, PermitTaken
<1>2. CASE Audio!CallbackReturns
  BY <1>2 DEF Audio!CallbackReturns, Audio!controlVars
<1>3. CASE Audio!WorkerReads
  BY <1>3 DEF Audio!WorkerReads, Audio!clientVars, Audio!controlVars
<1>4. CASE Audio!WorkerTerminates
  BY <1>4 DEF Audio!WorkerTerminates, Audio!clientVars, Audio!controlVars
<1> QED
  BY <1>1, <1>2, <1>3, <1>4 DEF Audio!Worker, Audio!WorkerLoops, Audio!WorkerTakesEvent,
     Audio!WorkerResumes, Audio!WorkerTimesOut, Audio!WorkerSleeps, Audio!clientVars, Audio!controlVars

LEMMA WorkerHandshake ==
  ASSUME Audio!AudioSystemAssumption, AudioInv, Audio!Worker
  PROVE  AudioHandshake'
<1> USE DEF AudioInv, AudioTypes, AudioPlaces, AudioFlags, AudioHandshake
<1>1. CASE Audio!WorkerTakesEvent
  BY <1>1 DEF Audio!WorkerTakesEvent, Audio!clientVars
<1>2. CASE Audio!WorkerResumes
  BY <1>2 DEF Audio!WorkerResumes, Audio!clientVars
<1>3. CASE Audio!WorkerTerminates
  BY <1>3 DEF Audio!WorkerTerminates, Audio!controlVars
<1> QED
  BY <1>1, <1>2, <1>3 DEF Audio!Worker, Audio!WorkerLoops, Audio!WorkerTakesPermit,
     Audio!WorkerTimesOut, Audio!WorkerSleeps, Audio!WorkerReads, Audio!CallbackReturns,
     Audio!controlVars

LEMMA WorkerKeepsAudio ==
  ASSUME Audio!AudioSystemAssumption
  PROVE  AudioInv /\ Audio!Worker => AudioInv'
BY WorkerCounts, WorkerFlags, WorkerPlaces, WorkerHand, WorkerEmpty, WorkerAccounts,
   WorkerHandshake DEF AudioInv, AudioTypes

-----------------------------------------------------------------------------
\* The calls of the guest and the device change nothing of the handshake.
LEMMA ClientCallsKeepHandshake ==
  ASSUME Audio!AudioSystemAssumption, AudioHandshake, UNCHANGED <<workerPc, Audio!controlVars>>
  PROVE  AudioHandshake'
BY DEF AudioHandshake, Audio!controlVars

LEMMA RegisterKeepsAudio ==
  ASSUME Audio!AudioSystemAssumption
  PROVE  AudioInv /\ Audio!RegisterClient => AudioInv'
<1> SUFFICES ASSUME AudioInv, Audio!RegisterClient PROVE AudioInv'
  OBVIOUS
<1> DEFINE empty == {i \in Slots : ~inUse[i]}
<1>1. PICK i \in Slots : i = Audio!Min(empty) /\ ~inUse[i]
  <2>1. empty \in SUBSET Slots /\ empty # {}
    BY DEF Audio!RegisterClient
  <2>2. Audio!Min(empty) \in empty
    BY <2>1, LeastSlot
  <2> QED
    BY <2>2
<1>2. /\ sem' = [sem EXCEPT ![i] = IF @ = 0 THEN QueuedFrames ELSE @]
      /\ \/ /\ inUse' = [inUse EXCEPT ![i] = TRUE]
            /\ carried' = [carried EXCEPT ![i] = hand = i \/ (failed[i] /\ sem[i] > 0)]
            /\ failed' = [failed EXCEPT ![i] = FALSE]
         \/ failed' = [failed EXCEPT ![i] = TRUE] /\ UNCHANGED <<inUse, carried>>
  BY <1>1, Zenon DEF Audio!RegisterClient
<1>3. UNCHANGED <<owed, frames, lost, Audio!workerVars, Audio!controlVars>>
  BY DEF Audio!RegisterClient
<1> HIDE DEF empty
<1> USE DEF Audio!AudioSystemAssumption, AudioInv, AudioTypes
<1>4. Counts'
  BY <1>1, <1>2, <1>3 DEF Counts
<1>5. AudioFlags'
  BY <1>1, <1>2, <1>3, Zenon DEF AudioFlags, Audio!controlVars
<1>6. AudioPlaces'
  BY <1>3 DEF AudioPlaces, Audio!workerVars, Audio!controlVars
<1>7. HandInUse'
  BY <1>1, <1>2, <1>3 DEF HandInUse, AudioFlags, AudioPlaces, Audio!workerVars
<1>8. EmptySlots'
  BY <1>1, <1>2, <1>3 DEF EmptySlots, Counts, AudioFlags, Audio!controlVars
<1>9. Accounts'
  <2>1. UNCHANGED <<owed, frames, lost, workerPc, hand, called, terminated>>
    BY <1>3 DEF Audio!workerVars, Audio!controlVars
  <2>2. owed[i] = 0 /\ frames[i] = 0 /\ lost[i] = 0 /\ (~failed[i] /\ ~terminated => sem[i] = 0)
    BY <1>1 DEF EmptySlots
  <2>3. sem'[i] \in 0 .. QueuedFrames /\ (sem[i] = 0 => sem'[i] = QueuedFrames)
    BY <1>2 DEF Counts
  <2>4. CASE /\ inUse' = [inUse EXCEPT ![i] = TRUE]
             /\ carried' = [carried EXCEPT ![i] = hand = i \/ (failed[i] /\ sem[i] > 0)]
    <3>1. carried'[i] <=> hand = i \/ (failed[i] /\ sem[i] > 0)
      BY <2>4 DEF AudioFlags
    <3>2. sem[i] \in 0 .. QueuedFrames
      BY DEF Counts
    <3>3. ~carried'[i] /\ ~terminated => hand # i /\ sem'[i] = QueuedFrames
      BY <2>2, <2>3, <3>1, <3>2
    <3>4. called # "current" \/ hand # i
      BY <1>1 DEF HandInUse
    <3>5. /\ Permits(i)' + lost'[i] <= QueuedFrames + 1
          /\ called' = "gone" /\ hand' = i => carried'[i] /\ Permits(i)' + lost'[i] <= QueuedFrames
          /\ ~carried'[i] /\ ~terminated' => Permits(i)' + lost'[i] = QueuedFrames
      BY <2>1, <2>2, <2>3, <3>1, <3>3, <3>4 DEF Permits, HandInUse
    <3>6. \A j \in Slots : j # i => inUse'[j] = inUse[j] /\ carried'[j] = carried[j] /\ sem'[j] = sem[j]
      BY <1>2, <2>4 DEF AudioFlags, Counts
    <3> QED
      BY <2>1, <3>5, <3>6 DEF Accounts, Permits
  <2>5. CASE UNCHANGED <<inUse, carried>>
    BY <1>1, <1>2, <2>1, <2>5 DEF Accounts, Permits, Counts
  <2> QED
    BY <1>2, <2>4, <2>5
<1>10. AudioHandshake'
  BY <1>3, ClientCallsKeepHandshake DEF Audio!workerVars
<1> QED
  BY <1>4, <1>5, <1>6, <1>7, <1>8, <1>9, <1>10

\* Whoever removes clients, by one call or by the shutdown, leaves empty slots.
LEMMA DestroyKeepsClients ==
  ASSUME Audio!AudioSystemAssumption, AudioInv,
         NEW S \in SUBSET Slots, Audio!DestroyClients(S), workerPc' = workerPc, hand' = hand,
         sem' \in [Slots -> 0 .. QueuedFrames],
         \A i \in Slots : i \notin S => sem'[i] = sem[i],
         terminated' = terminated,
         terminated \/ \A i \in S : sem'[i] = 0
  PROVE  /\ Counts' /\ inUse' \in [Slots -> BOOLEAN] /\ called' \in {"nobody", "current", "gone"}
         /\ HandInUse' /\ EmptySlots' /\ Accounts'
<1> USE DEF Audio!AudioSystemAssumption, AudioInv, AudioTypes, Audio!DestroyClients, Audio!Removed
<1>1. Counts'
  BY DEF Counts
<1>2. inUse' \in [Slots -> BOOLEAN]
  OBVIOUS
<1>3. called' \in {"nobody", "current", "gone"}
  BY DEF AudioPlaces, Audio!Orphaned
<1>4. HandInUse'
  BY DEF HandInUse, AudioFlags, AudioPlaces, Audio!Orphaned
<1>5. EmptySlots'
  BY DEF EmptySlots, Counts, AudioFlags
<1>6. Accounts'
  BY DEF Accounts, Permits, Counts, AudioFlags, AudioPlaces, HandInUse, EmptySlots, Audio!Orphaned
<1> QED
  BY <1>1, <1>2, <1>3, <1>4, <1>5, <1>6

LEMMA UnregisterKeepsAudio ==
  ASSUME Audio!AudioSystemAssumption, NEW i \in Slots
  PROVE  AudioInv /\ Audio!UnregisterClient(i) => AudioInv'
<1> SUFFICES ASSUME AudioInv, Audio!UnregisterClient(i) PROVE AudioInv'
  OBVIOUS
<1>1. /\ Audio!DestroyClients({i}) /\ sem' = [sem EXCEPT ![i] = 0]
      /\ UNCHANGED <<workerPc, hand, Audio!controlVars>>
  BY DEF Audio!UnregisterClient
<1>2. /\ sem' \in [Slots -> 0 .. QueuedFrames]
      /\ \A j \in Slots : j \notin {i} => sem'[j] = sem[j]
      /\ \A j \in {i} : sem'[j] = 0
  BY <1>1 DEF Audio!AudioSystemAssumption, AudioInv, AudioTypes, Counts
<1>3. /\ Counts' /\ inUse' \in [Slots -> BOOLEAN] /\ called' \in {"nobody", "current", "gone"}
      /\ HandInUse' /\ EmptySlots' /\ Accounts'
  <2>1. {i} \in SUBSET Slots /\ terminated' = terminated /\ workerPc' = workerPc /\ hand' = hand
    BY <1>1 DEF Audio!controlVars
  <2> QED
    BY <1>1, <1>2, <2>1, DestroyKeepsClients
<1>4. AudioFlags' /\ AudioPlaces'
  BY <1>1, <1>3 DEF AudioInv, AudioTypes, AudioFlags, AudioPlaces, Audio!DestroyClients,
     Audio!controlVars
<1>5. AudioHandshake'
  BY <1>1, ClientCallsKeepHandshake DEF AudioInv
<1> QED
  BY <1>3, <1>4, <1>5 DEF AudioInv, AudioTypes

LEMMA SubmitKeepsAudio ==
  ASSUME Audio!AudioSystemAssumption, NEW i \in Slots
  PROVE  AudioInv /\ Audio!SubmitFrame(i) => AudioInv'
<1> SUFFICES ASSUME AudioInv, Audio!SubmitFrame(i) PROVE AudioInv'
  OBVIOUS
<1> USE DEF Audio!AudioSystemAssumption, AudioInv, AudioTypes, Audio!SubmitFrame
<1>1. Counts'
  BY DEF Counts
<1>2. AudioFlags'
  BY Zenon DEF AudioFlags, Audio!controlVars
<1>3. AudioPlaces' /\ HandInUse'
  BY DEF AudioPlaces, HandInUse, Audio!workerVars, Audio!controlVars
<1>4. EmptySlots'
  BY DEF EmptySlots, Counts, Audio!controlVars
<1>5. Accounts'
  BY DEF Accounts, Permits, Counts, Audio!workerVars, Audio!controlVars
<1>6. AudioHandshake'
  BY ClientCallsKeepHandshake DEF Audio!workerVars
<1> QED
  BY <1>1, <1>2, <1>3, <1>4, <1>5, <1>6

LEMMA PlayKeepsAudio ==
  ASSUME Audio!AudioSystemAssumption, NEW i \in Slots
  PROVE  AudioInv /\ Audio!SDLCallback(i) => AudioInv'
<1> SUFFICES ASSUME AudioInv, Audio!SDLCallback(i) PROVE AudioInv'
  OBVIOUS
<1> USE DEF Audio!AudioSystemAssumption, AudioInv, AudioTypes, Audio!SDLCallback
<1>1. Counts'
  BY DEF Counts
<1>2. AudioFlags'
  BY Zenon DEF AudioFlags, Audio!controlVars
<1>3. AudioPlaces' /\ HandInUse'
  BY DEF AudioPlaces, HandInUse, Audio!workerVars, Audio!controlVars
<1>4. EmptySlots'
  BY DEF EmptySlots, Counts, Audio!controlVars
<1>5. Accounts'
  BY DEF Accounts, Permits, Counts, Audio!workerVars, Audio!controlVars
<1>6. AudioHandshake'
  BY ClientCallsKeepHandshake DEF Audio!workerVars
<1> QED
  BY <1>1, <1>2, <1>3, <1>4, <1>5, <1>6

-----------------------------------------------------------------------------
\* Pause, Resume and Shutdown leave the clients alone, until the drivers go.
Calls ==
  \/ Audio!Pause \/ Audio!SetShutdownEvent \/ Audio!PauseReturns \/ Audio!Resume
  \/ Audio!SetResumeEvent \/ Audio!Shutdown \/ Audio!TerminateWorker

LEMMA CallsKeepIInv ==
  ASSUME Audio!AudioSystemAssumption
  PROVE  AudioInv /\ Calls => AudioInv'
<1> SUFFICES ASSUME AudioInv, Calls PROVE AudioInv'
  OBVIOUS
<1> USE DEF Calls, Audio!Pause, Audio!SetShutdownEvent, Audio!PauseReturns, Audio!Resume,
            Audio!SetResumeEvent, Audio!Shutdown, Audio!TerminateWorker
<1>1. UNCHANGED <<Audio!clientVars, Audio!workerVars>> /\ (terminated => terminated')
  BY DEF Audio!ControlOnly
<1> USE DEF AudioInv, AudioTypes
<1>2. Counts' /\ HandInUse'
  BY <1>1 DEF Counts, HandInUse, Audio!clientVars, Audio!workerVars
<1>3. AudioFlags'
  BY <1>1, ZenonT(30) DEF AudioFlags, Audio!clientVars
<1>4. AudioPlaces'
  BY <1>1 DEF AudioPlaces, Audio!workerVars
<1>5. EmptySlots' /\ Accounts'
  BY <1>1 DEF EmptySlots, Accounts, Permits, Audio!clientVars, Audio!workerVars
<1>6. AudioHandshake'
  BY <1>1 DEF AudioHandshake, AudioFlags, Audio!workerVars
<1> QED
  BY <1>2, <1>3, <1>4, <1>5, <1>6

LEMMA DestroyKeepsAudio ==
  ASSUME Audio!AudioSystemAssumption
  PROVE  AudioInv /\ Audio!DestroyDrivers => AudioInv'
<1> SUFFICES ASSUME AudioInv, Audio!DestroyDrivers PROVE AudioInv'
  OBVIOUS
<1>1. /\ Audio!DestroyClients(Slots) /\ controlPc = "destroy" /\ controlPc' = "done"
      /\ UNCHANGED <<sem, workerPc, hand, audioRunning, audioPaused, shutdownEvent, audioFence,
                     resumeEvent, terminated>>
  BY DEF Audio!DestroyDrivers
<1>2. /\ sem' \in [Slots -> 0 .. QueuedFrames]
      /\ \A i \in Slots : i \notin Slots => sem'[i] = sem[i]
      /\ terminated
  BY <1>1 DEF AudioInv, AudioTypes, Counts, AudioHandshake
<1>3. /\ Counts' /\ inUse' \in [Slots -> BOOLEAN] /\ called' \in {"nobody", "current", "gone"}
      /\ HandInUse' /\ EmptySlots' /\ Accounts'
  <2>1. Slots \in SUBSET Slots /\ terminated' = terminated /\ workerPc' = workerPc /\ hand' = hand
    BY <1>1
  <2> QED
    BY <1>1, <1>2, <2>1, DestroyKeepsClients
<1>4. AudioFlags' /\ AudioPlaces'
  BY <1>1, <1>3 DEF AudioInv, AudioTypes, AudioFlags, AudioPlaces, Audio!DestroyClients
<1>5. AudioHandshake'
  BY <1>1, <1>2 DEF AudioInv, AudioHandshake
<1> QED
  BY <1>3, <1>4, <1>5 DEF AudioInv, AudioTypes

LEMMA StutterKeepsAudio ==
  ASSUME Audio!AudioSystemAssumption
  PROVE  AudioInv /\ UNCHANGED Audio!vars => AudioInv'
BY DEF AudioInv, AudioTypes, Counts, AudioFlags, AudioPlaces, HandInUse, EmptySlots, Accounts,
   Permits, AudioHandshake, Audio!vars, Audio!clientVars, Audio!workerVars, Audio!controlVars

LEMMA NextKeepsAudio ==
  ASSUME Audio!AudioSystemAssumption
  PROVE  AudioInv /\ [Audio!Next]_Audio!vars => AudioInv'
BY WorkerKeepsAudio, RegisterKeepsAudio, UnregisterKeepsAudio, SubmitKeepsAudio, PlayKeepsAudio,
   CallsKeepIInv, DestroyKeepsAudio, StutterKeepsAudio DEF Audio!Next, Audio!Control, Calls

LEMMA AudioInductive ==
  ASSUME Audio!AudioSystemAssumption
  PROVE  Audio!Spec => []AudioInv
<1>1. Audio!Init => AudioInv
  BY InitAudio
<1>2. AudioInv /\ [Audio!Next]_Audio!vars => AudioInv'
  BY NextKeepsAudio
<1> QED
  BY <1>1, <1>2, PTL DEF Audio!Spec

-----------------------------------------------------------------------------
(* Results for the audio system.                                            *)

\* Every variable has its type; a client never owes or has queued more frames
\* than the driver takes, but for one.
THEOREM AudioTypeCorrect ==
  ASSUME Audio!AudioSystemAssumption
  PROVE  Audio!Spec => []Audio!TypeOK
<1>1. AudioInv => Audio!TypeOK
  <2> SUFFICES ASSUME AudioInv PROVE Audio!TypeOK
    OBVIOUS
  <2> USE DEF AudioInv, AudioTypes
  <2>1. {owed, frames, lost} \subseteq [Slots -> 0 .. QueuedFrames + 1]
    <3>1. \A i \in Slots : /\ owed[i] \in 0 .. QueuedFrames + 1
                           /\ frames[i] \in 0 .. QueuedFrames + 1
                           /\ lost[i] \in 0 .. QueuedFrames + 1
      BY DEF Audio!AudioSystemAssumption, Counts, AudioFlags, EmptySlots, Accounts, Permits
    <3> QED
      BY <3>1 DEF Counts
  <2>2. {inUse, failed, carried} \subseteq [Slots -> BOOLEAN]
    BY DEF AudioFlags
  <2>3. {audioRunning, audioPaused, shutdownEvent, audioFence, resumeEvent, terminated}
          \subseteq BOOLEAN
    BY DEF AudioFlags
  <2> QED
    BY <2>1, <2>2, <2>3 DEF Audio!TypeOK, Counts, AudioPlaces
<1> QED
  BY <1>1, AudioInductive, PTL

\* A client has exactly queued_frames_ permits under way, over registrations and
\* removals, unless the worker brought one along or a failed registration left some.
THEOREM PermitsKept ==
  ASSUME Audio!AudioSystemAssumption
  PROVE  Audio!Spec => []PermitsInCirculation
<1>1. AudioInv => PermitsInCirculation
  BY DEF AudioInv, Accounts, PermitsInCirculation
<1> QED
  BY <1>1, AudioInductive, PTL

\* Once Pause() has returned the worker stays where it is, and calls no client,
\* until Resume().
THEOREM AudioPauseHolds ==
  ASSUME Audio!AudioSystemAssumption
  PROVE  Audio!Spec => []PausedWorkerCallsNobody
<1>1. AudioInv => PausedWorkerCallsNobody
  BY DEF AudioInv, AudioHandshake, PausedWorkerCallsNobody
<1> QED
  BY <1>1, AudioInductive, PTL

=============================================================================
