-------------------------- MODULE ObjectTableProofs --------------------------
(***************************************************************************)
(* What ObjectTable promises, for any set of threads, of names and of      *)
(* objects, as long as no slot is used twice (MaxCalls of its assumption). *)
(*                                                                         *)
(* The argument, by the parts of IInv.  The slots up to some n have been   *)
(* used, each once, and no call knows of another one (SlotsUsedOnce), so   *)
(* that a slot read before a lock was taken either still holds the object  *)
(* it held or is empty.  A call therefore gives back what it took: the     *)
(* count of a slot is the number of calls that will give one back          *)
(* (CountsKept), and who brings it to zero is the last of them.  That      *)
(* fails once an object has several slots, of which handles_[0] is only    *)
(* one: CountsKept and AddedHandleStaysOpen leave duplicated objects out.  *)
(* The references follow from the steps alone, one slot or call at a time. *)
(* Last, the calls never all wait for the two locks.                       *)
(***************************************************************************)
EXTENDS ObjectTable, FiniteSetTheorems, TLAPS

\* Where a create call, or one that duplicates, may still add a handle.
Adding(t) ==
  \/ call[t] = "create"
     /\ pc[t] \in {"lockName", "readName", "lookup", "retain", "lookupAgain", "construct"}
  \/ call[t] \in {"duplicate", "replace"} /\ pc[t] \in {"duplicate", "addHandle"}

\* The slots up to n have been used, each once; nobody knows of the others.
UsedUpTo(n) ==
  /\ n < Capacity - 1 => cursor = n + 1
  /\ n + Cardinality({t \in Threads : Adding(t)}) <= calls
  /\ Cardinality(born) <= n
  /\ \A s \in Slots : s > n => table[s] = NoObject
  /\ \A m \in Names : names[m] <= n
  /\ \A t \in Threads : handle[t] <= n /\ counted[t] <= n /\ open[t].handle <= n
  /\ \A o \in Objects : erased[o] <= n /\ \A k \in 1 .. Len(handles[o]) : handles[o][k] <= n

SlotsUsedOnce == \E n \in 0 .. Capacity - 1 : UsedUpTo(n)

\* What a call is doing where it is, and what it has.
Empty(t) == obj[t] = NoObject /\ counted[t] = NoHandle

Placed(t) ==
  /\ pc[t] = "ready" => call[t] = "none" /\ Empty(t)
  /\ pc[t] \in {"lockName", "readName"} => call[t] \in {"create", "open"} /\ Empty(t)
  /\ pc[t] = "lookup" => call[t] \in {"create", "open"} /\ Empty(t) /\ handle[t] # NoHandle
  /\ pc[t] = "retain" => call[t] \in {"create", "open"} /\ obj[t] # NoObject /\ handle[t] # NoHandle
  /\ pc[t] = "lookupAgain" => call[t] = "create" /\ Empty(t) /\ handle[t] # NoHandle
  /\ pc[t] = "release" => \/ call[t] = "create" /\ obj[t] # NoObject
                          \/ call[t] = "close" /\ obj[t] = NoObject /\ counted[t] # NoHandle
  /\ pc[t] = "unname" => call[t] \in {"create", "close", "replace"} /\ obj[t] # NoObject
  /\ pc[t] = "takeAgain" => call[t] = "create" /\ obj[t] # NoObject
  /\ pc[t] = "construct" => call[t] = "create" /\ Empty(t)
  /\ pc[t] = "addName" => call[t] = "create" /\ obj[t] # NoObject /\ counted[t] = NoHandle
  /\ pc[t] = "return" => /\ \/ call[t] = "create" /\ obj[t] # NoObject
                            \/ call[t] = "open" /\ obj[t] = NoObject /\ handle[t] # NoHandle
                         /\ counted[t] = NoHandle
  /\ pc[t] = "use" => call[t] = "use" /\ Empty(t) /\ handle[t] # NoHandle
  /\ pc[t] = "using" => call[t] \in {"use", "duplicate"} /\ counted[t] = NoHandle
  /\ pc[t] = "duplicate" => call[t] \in {"duplicate", "replace"} /\ Empty(t) /\ handle[t] # NoHandle
  /\ pc[t] = "addHandle" => /\ call[t] \in {"duplicate", "replace"} /\ obj[t] # NoObject
                            /\ handle[t] # NoHandle /\ counted[t] = NoHandle
  /\ pc[t] = "remove" => call[t] = "replace" /\ Empty(t) /\ handle[t] # NoHandle
  /\ \/ call[t] \in {"create", "open", "close", "duplicate"}
     \/ call[t] = "replace" /\ pc[t] \in {"duplicate", "addHandle"}
     => open[t] = Nothing
  /\ open[t].handle = NoHandle => open[t].obj = NoObject

Places ==
  /\ \A t \in Threads : Placed(t)
  /\ \A t \in Threads : pc[t] = "unname" <=> globalLock = t

\* A slot that denotes o, or has done so: it never denotes another object.
Denotes(s, o) == table[s] \in {o, NoObject}

\* Every object knows the slots that hold it.
HandlesAgree ==
  /\ \A s \in Slots : table[s] # NoObject =>
       /\ table[s] \in born
       /\ \E k \in 1 .. Len(handles[table[s]]) : handles[table[s]][k] = s
  /\ \A o \in Objects : \A k \in 1 .. Len(handles[o]) :
       /\ table[handles[o][k]] = o
       /\ \A j \in 1 .. Len(handles[o]) : handles[o][j] = handles[o][k] => j = k
  /\ \A o \in Objects : erased[o] # NoHandle => table[erased[o]] = NoObject
  /\ \A o \in born : handles[o] = <<>> => erased[o] # NoHandle
  /\ \A o \in born \ duplicated : Len(handles[o]) <= 1
  /\ \A o \in Objects \ born : handles[o] = <<>>

KnownAreBorn ==
  /\ \A o \in Objects \ born : nameOf[o] = NoName
  /\ \A t \in Threads : obj[t] \in born \cup {NoObject} /\ open[t].obj \in born \cup {NoObject}

\* The slots that calls under way use are slots of the objects they have.
CallKnows(t) ==
  /\ pc[t] \in {"retain", "addHandle"} => Denotes(handle[t], obj[t])
  /\ pc[t] = "retain" /\ obj[t] \notin duplicated => handle[t] = First(obj[t])
  /\ counted[t] # NoHandle /\ obj[t] # NoObject =>
       /\ Denotes(counted[t], obj[t])
       /\ obj[t] \notin duplicated => counted[t] = First(obj[t])
  /\ pc[t] = "remove" => table[handle[t]] \in duplicated \cup {NoObject}

CallsKnow == \A t \in Threads : CallKnows(t)

\* Nobody else knows a new object before it has its name.
Private(t, s) ==
  /\ table[s] = obj[t] /\ obj[t] \notin duplicated /\ nameOf[obj[t]] = NoName
  /\ \A u \in Threads : /\ u # t => obj[u] # obj[t]
                        /\ handle[u] # s /\ counted[u] # s /\ open[u].handle # s
  /\ \A m \in Names : names[m] # s

NewIsPrivate == \A t \in Threads : pc[t] = "addName" => Private(t, First(obj[t]))

\* A count of a slot's handle that the call of t will give back.
Keeps(t, s) ==
  \/ open[t].handle = s
  \/ call[t] = "close" /\ pc[t] = "release" /\ counted[t] = s
  \/ call[t] = "replace" /\ pc[t] \in {"duplicate", "addHandle"} /\ handle[t] = s
  \/ call[t] = "create" /\ pc[t] = "lookupAgain" /\ handle[t] = s
  \/ call[t] = "create" /\ pc[t] \in {"release", "return", "addName"} /\ obj[t] = table[s]
  \/ call[t] = "open" /\ pc[t] = "return" /\ handle[t] = s

CountsKept ==
  \A s \in Slots : table[s] # NoObject /\ table[s] \notin duplicated =>
    count[s] = Cardinality({t \in Threads : Keeps(t, s)})

IInv ==
  /\ TypeOK /\ SlotsUsedOnce /\ Places /\ HandlesAgree /\ KnownAreBorn /\ CallsKnow /\ NewIsPrivate
  /\ CountsKept /\ ReferencesCounted /\ AddedHandleStaysOpen /\ NamesLeadToNamed

TablesTyped ==
  /\ table \in [Slots -> Objects \cup {NoObject}] /\ count \in [Slots -> Int] /\ cursor \in Slots
  /\ names \in [Names -> Slots \cup {NoHandle}]
  /\ globalLock \in Threads \cup {Nobody} /\ nameMutex \in Threads \cup {Nobody}
  /\ handles \in [Objects -> Seq(Slots)] /\ erased \in [Objects -> Slots \cup {NoHandle}]
  /\ nameOf \in [Objects -> Names \cup {NoName}]
  /\ born \subseteq Objects /\ duplicated \subseteq born

CallsTyped ==
  /\ pc \in [Threads -> Pc] /\ call \in [Threads -> Calls]
  /\ handle \in [Threads -> Slots \cup {NoHandle}] /\ obj \in [Threads -> Objects \cup {NoObject}]
  /\ name \in [Threads -> Names] /\ counted \in [Threads -> Slots \cup {NoHandle}]
  /\ open \in [Threads -> Open] /\ calls \in 0 .. MaxCalls

\* A step of t is about the locals of t.
OthersStay(t) ==
  \A u \in Threads \ {t} :
    /\ pc'[u] = pc[u] /\ call'[u] = call[u] /\ handle'[u] = handle[u] /\ obj'[u] = obj[u]
    /\ counted'[u] = counted[u] /\ open'[u] = open[u]

-----------------------------------------------------------------------------
(* Slots.                                                                   *)

\* The cursor goes round the slots.
LEMMA NextSlot ==
  ASSUME NEW s \in Slots
  PROVE  /\ SlotAfter(s, 0) = s
         /\ SlotAfter(s, 1) \in Slots
         /\ s < Capacity - 1 => SlotAfter(s, 1) = s + 1
<1> DEFINE N == Capacity - 1
<1>1. N \in Nat /\ N > 0 /\ s \in 1 .. N
  BY ObjectTableAssumption DEF Slots
<1>2. (s - 1) % N = s - 1 /\ (s < N => s % N = s) /\ N % N = 0
  BY <1>1
<1> QED
  BY <1>1, <1>2 DEF SlotAfter, Slots

\* Who may add a handle finds a slot that has never been used.
LEMMA AdderHasRoom ==
  ASSUME TypeOK, NEW n \in 0 .. Capacity - 1, UsedUpTo(n), NEW t \in Threads, Adding(t)
  PROVE  /\ n < Capacity - 1 /\ n + 1 <= Cardinality(Objects)
         /\ n + 1 <= MaxCalls
<1> DEFINE A == {u \in Threads : Adding(u)}
<1>1. IsFiniteSet(A) /\ t \in A
  BY FS_Subset, ObjectTableAssumption
<1>2. Cardinality(A) \in Nat /\ Cardinality(A) # 0
  BY <1>1, FS_CardinalityType, FS_EmptySet
<1>3. n + 1 <= calls /\ calls <= MaxCalls /\ MaxCalls \in Nat /\ calls \in Nat
  BY <1>2, ObjectTableAssumption DEF UsedUpTo, TypeOK
<1>4. Cardinality(Objects) \in Nat
  BY FS_CardinalityType, ObjectTableAssumption
<1> QED
  BY <1>3, <1>4, ObjectTableAssumption

LEMMA AddsNextSlot ==
  ASSUME TypeOK, NEW n \in 0 .. Capacity - 1, UsedUpTo(n), n < Capacity - 1,
         NEW o, NEW s \in Slots, AddHandle(o, s)
  PROVE  /\ s = n + 1 /\ table[s] = NoObject
         /\ cursor' \in Slots /\ (n + 1 < Capacity - 1 => cursor' = n + 2)
<1>1. cursor = n + 1 /\ cursor \in Slots /\ table[cursor] = NoObject
  BY ObjectTableAssumption DEF UsedUpTo, TypeOK, Slots
<1>2. PICK k \in 0 .. Capacity - 2 :
        /\ s = SlotAfter(cursor, k)
        /\ table[s] = NoObject
        /\ \A j \in 0 .. k - 1 : table[SlotAfter(cursor, j)] # NoObject
  BY DEF AddHandle, FreeSlot
<1>3. k = 0
  BY <1>1, <1>2, NextSlot, ObjectTableAssumption
<1>4. s = cursor /\ cursor' = SlotAfter(s, 1)
  BY <1>1, <1>2, <1>3, NextSlot DEF AddHandle
<1> QED
  BY <1>1, <1>2, <1>4, NextSlot, ObjectTableAssumption

\* r is what erasing e leaves of q.
Without(q, e, r) ==
  /\ r \in Seq(Slots) /\ Len(r) <= Len(q)
  /\ \A k \in 1 .. Len(r) : r[k] # e /\ \E j \in 1 .. Len(q) : q[j] = r[k]
  /\ \A j \in 1 .. Len(q) : q[j] # e => \E k \in 1 .. Len(r) : r[k] = q[j]
  /\ \A j, k \in 1 .. Len(r) : r[j] = r[k] => j = k
  /\ Len(q) <= 1 /\ (\E j \in 1 .. Len(q) : q[j] = e) => r = <<>>

LEMMA Removal ==
  ASSUME NEW q \in Seq(Slots), NEW e, \A j, k \in 1 .. Len(q) : q[j] = q[k] => j = k
  PROVE  Without(q, e, RemoveFirst(q, e))
<1>0. PICK r : r = RemoveFirst(q, e)
  OBVIOUS
<1>1. CASE \A i \in 1 .. Len(q) : q[i] # e
  <2>1. r = q
    BY <1>0, <1>1 DEF RemoveFirst, SelectInSeq
  <2> QED
    BY <1>0, <1>1, <2>1 DEF Without
<1>2. ASSUME NEW i \in 1 .. Len(q), q[i] = e
      PROVE  /\ r \in Seq(Slots) /\ Len(r) = Len(q) - 1
             /\ \A k \in 1 .. Len(r) : r[k] = q[IF k < i THEN k ELSE k + 1]
  <2>1. SelectInSeq(q, LAMBDA v : v = e) = i
    BY <1>2 DEF SelectInSeq, Min
  <2>2. r = SubSeq(q, 1, i - 1) \o SubSeq(q, i + 1, Len(q))
    BY <1>0, <1>2, <2>1 DEF RemoveFirst, RemoveAt, SelectInSeq, Min
  <2>3. PICK a, b :
          /\ a \in Seq(Slots) /\ b \in Seq(Slots) /\ r = a \o b
          /\ Len(a) = i - 1 /\ Len(b) = Len(q) - i
          /\ \A k \in 1 .. i - 1 : a[k] = q[k]
          /\ \A k \in 1 .. Len(q) - i : b[k] = q[i + k]
    <3>1. /\ SubSeq(q, 1, i - 1) \in Seq(Slots) /\ SubSeq(q, i + 1, Len(q)) \in Seq(Slots)
          /\ Len(SubSeq(q, 1, i - 1)) = i - 1 /\ Len(SubSeq(q, i + 1, Len(q))) = Len(q) - i
          /\ \A k \in 1 .. i - 1 : SubSeq(q, 1, i - 1)[k] = q[k]
          /\ \A k \in 1 .. Len(q) - i : SubSeq(q, i + 1, Len(q))[k] = q[i + k]
      OBVIOUS
    <3> QED
      BY <2>2, <3>1
  <2>4. r \in Seq(Slots) /\ Len(r) = Len(q) - 1
    <3>1. a \in Seq(Slots) /\ b \in Seq(Slots) /\ r = a \o b
      BY <2>3
    <3>2. r \in Seq(Slots) /\ Len(r) = Len(a) + Len(b)
      BY <3>1
    <3>3. Len(a) = i - 1 /\ Len(b) = Len(q) - i /\ Len(q) \in Nat
      BY <2>3
    <3> QED
      BY <3>2, <3>3
  <2>5. ASSUME NEW k \in 1 .. Len(r), k >= i PROVE r[k] = q[k + 1]
    <3>1. /\ k - (i - 1) \in 1 .. Len(q) - i /\ i + (k - (i - 1)) = k + 1
          /\ k \in 1 .. Len(a) + Len(b) /\ ~(k <= Len(a))
      BY <2>3, <2>4, <2>5
    <3>2. r[k] = b[k - (i - 1)]
      BY <2>3, <3>1
    <3> QED
      BY <2>3, <3>1, <3>2
  <2>6. ASSUME NEW k \in 1 .. Len(r), k < i PROVE r[k] = q[k]
    BY <2>3, <2>4, <2>6
  <2> QED
    BY <2>4, <2>5, <2>6
<1>3. ASSUME NEW i \in 1 .. Len(q), q[i] = e PROVE Without(q, e, r)
  <2>1. /\ r \in Seq(Slots) /\ Len(r) = Len(q) - 1 /\ Len(q) \in Nat
        /\ \A k \in 1 .. Len(r) : r[k] = q[IF k < i THEN k ELSE k + 1]
    BY <1>2, <1>3
  <2>2. \A k \in 1 .. Len(r) : r[k] # e /\ \E j \in 1 .. Len(q) : q[j] = r[k]
    BY <1>3, <2>1
  <2>3. ASSUME NEW j \in 1 .. Len(q), q[j] # e PROVE \E k \in 1 .. Len(r) : r[k] = q[j]
    <3>1. j < i => j \in 1 .. Len(r) /\ r[j] = q[j]
      BY <2>1
    <3>2. j > i => j - 1 \in 1 .. Len(r) /\ r[j - 1] = q[j]
      BY <2>1
    <3> QED
      BY <1>3, <2>3, <3>1, <3>2
  <2>4. \A j, k \in 1 .. Len(r) : r[j] = r[k] => j = k
    BY <2>1
  <2>5. Len(q) <= 1 => r = <<>>
    BY <2>1
  <2> QED
    BY <2>1, <2>2, <2>3, <2>4, <2>5 DEF Without
<1> QED
  BY <1>0, <1>1, <1>3

-----------------------------------------------------------------------------
(* Types.                                                                   *)

LEMMA TypeParts ==
  /\ TypeOK <=> TablesTyped /\ CallsTyped /\ refs \in [Objects -> Nat]
  /\ TypeOK' <=> TablesTyped' /\ CallsTyped' /\ refs' \in [Objects -> Nat]
  BY DEF TypeOK, TablesTyped, CallsTyped

\* The steps, one by one.
LEMMA Steps ==
  ASSUME [Next]_vars
  PROVE  \/ UNCHANGED vars
         \/ \E t \in Threads :
              \/ CallByName(t) \/ CallByHandle(t) \/ CallReplace(t) \/ CallClose(t)
              \/ LockName(t) \/ ReadName(t) \/ LookupByName(t) \/ ReadFirst(t) \/ RetainFound(t)
              \/ LookupAgain(t) \/ TakeAgain(t) \/ ReleaseHandle(t) \/ ReleaseLastHandle(t)
              \/ RemoveHandle(t) \/ Construct(t) \/ AddName(t) \/ ReturnHandle(t)
              \/ Use(t) \/ EndUse(t) \/ Duplicate(t) \/ AddDuplicate(t) \/ CloseSource(t)
              \/ SourceGone(t)
  BY DEF Next, Start, Step

\* What handles_[0] reads, of an object that was ever in the table.
LEMMA FirstTyped ==
  ASSUME TablesTyped, NEW o \in Objects
  PROVE  First(o) \in Slots \cup {NoHandle}
<1>1. handles[o] \in Seq(Slots)
  BY DEF TablesTyped
<1>2. handles[o] # <<>> => Head(handles[o]) \in Slots
  BY <1>1
<1> QED
  BY <1>2 DEF TablesTyped, First

LEMMA FirstDenotes ==
  ASSUME IInv, NEW o \in born
  PROVE  /\ First(o) \in Slots /\ Denotes(First(o), o)
         /\ o \notin duplicated => \A s \in Slots : table[s] = o => s = First(o)
<1>1. TablesTyped /\ HandlesAgree /\ o \in Objects /\ handles[o] \in Seq(Slots)
  BY TypeParts DEF IInv, TablesTyped
<1>2. CASE handles[o] = <<>>
  BY <1>1, <1>2, ObjectTableAssumption DEF First, Denotes, HandlesAgree, TablesTyped
<1>3. CASE handles[o] # <<>>
  <2>1. 1 \in 1 .. Len(handles[o]) /\ First(o) = handles[o][1] /\ First(o) \in Slots
    BY <1>1, <1>3 DEF First
  <2>2. table[First(o)] = o
    BY <1>1, <2>1 DEF HandlesAgree
  <2>3. ASSUME o \notin duplicated, NEW s \in Slots, table[s] = o PROVE s = First(o)
    <3>1. o # NoObject /\ Len(handles[o]) <= 1 /\ \E k \in 1 .. Len(handles[o]) : handles[o][k] = s
      BY <1>1, <2>3, ObjectTableAssumption DEF HandlesAgree
    <3> QED
      BY <1>1, <2>1, <3>1
  <2> QED
    BY <2>1, <2>2, <2>3 DEF Denotes
<1> QED
  BY <1>2, <1>3

\* The constructor finds an object that is new, and its slot is new, too.
LEMMA NewObject ==
  ASSUME IInv, NEW t \in Threads, Construct(t)
  PROVE  \E n \in 0 .. Capacity - 1, o \in Objects :
           /\ UsedUpTo(n) /\ n < Capacity - 1 /\ Cardinality(born) < Cardinality(Objects)
           /\ o \notin born /\ n + 1 \in Slots /\ AddHandle(o, n + 1)
           /\ born' = born \cup {o} /\ refs' = [refs EXCEPT ![o] = 2]
           /\ obj' = [obj EXCEPT ![t] = o]
           /\ table[n + 1] = NoObject
           /\ cursor' \in Slots /\ (n + 1 < Capacity - 1 => cursor' = n + 2)
<1>1. PICK n \in 0 .. Capacity - 1 : UsedUpTo(n)
  BY DEF IInv, SlotsUsedOnce
<1>2. /\ Adding(t) /\ TypeOK
  BY DEF IInv, Adding, Places, Placed, Construct, At
<1>3. n < Capacity - 1 /\ n + 1 <= Cardinality(Objects)
  BY <1>1, <1>2, AdderHasRoom
<1>4. IsFiniteSet(born) /\ Cardinality(born) \in Nat /\ Cardinality(Objects) \in Nat
  BY <1>2, FS_Subset, FS_CardinalityType, ObjectTableAssumption DEF TypeOK
<1>5. Cardinality(born) < Cardinality(Objects)
  BY <1>1, <1>3, <1>4, ObjectTableAssumption DEF UsedUpTo
<1>6. born # Objects
  BY <1>5, <1>4
<1>7. \E o \in Objects : o \notin born
  BY <1>2, <1>6 DEF TypeOK
<1> DEFINE o == CHOOSE o \in Objects : o \notin born
<1>8. o \in Objects /\ o \notin born
  BY <1>7
<1>9. /\ \E s \in Slots : AddHandle(o, s)
      /\ born' = born \cup {o} /\ refs' = [refs EXCEPT ![o] = 2] /\ obj' = [obj EXCEPT ![t] = o]
  BY DEF Construct
<1> HIDE DEF o
<1>10. PICK s \in Slots : AddHandle(o, s)
  BY <1>9
<1>11. /\ s = n + 1 /\ table[s] = NoObject
       /\ cursor' \in Slots /\ (n + 1 < Capacity - 1 => cursor' = n + 2)
  BY <1>1, <1>2, <1>3, <1>10, AddsNextSlot
<1> QED
  BY <1>1, <1>3, <1>5, <1>8, <1>9, <1>10, <1>11

LEMMA NewDuplicate ==
  ASSUME IInv, NEW t \in Threads, AddDuplicate(t)
  PROVE  \E n \in 0 .. Capacity - 1 :
           /\ UsedUpTo(n) /\ n < Capacity - 1
           /\ obj[t] \in born /\ n + 1 \in Slots /\ AddHandle(obj[t], n + 1)
           /\ table[n + 1] = NoObject
           /\ cursor' \in Slots /\ (n + 1 < Capacity - 1 => cursor' = n + 2)
           /\ duplicated' = duplicated \cup {obj[t]}
           /\ \/ call[t] = "duplicate" /\ Return(t, [handle |-> n + 1, obj |-> obj[t]])
              \/ /\ call[t] = "replace" /\ Goto(t, "remove")
                 /\ open' = [open EXCEPT ![t] = [handle |-> n + 1, obj |-> obj[t]]]
                 /\ obj' = [obj EXCEPT ![t] = NoObject]
                 /\ UNCHANGED <<call, handle, name, counted, calls>>
<1>1. PICK n \in 0 .. Capacity - 1 : UsedUpTo(n)
  BY DEF IInv, SlotsUsedOnce
<1>2. /\ Adding(t) /\ TypeOK /\ obj[t] \in born /\ call[t] \in {"duplicate", "replace"}
  BY DEF IInv, Adding, Places, Placed, AddDuplicate, At, KnownAreBorn
<1>3. n < Capacity - 1
  BY <1>1, <1>2, AdderHasRoom
<1>4. PICK s \in Slots :
        /\ AddHandle(obj[t], s)
        /\ IF call[t] = "replace"
           THEN /\ Goto(t, "remove")
                /\ open' = [open EXCEPT ![t] = [handle |-> s, obj |-> obj[t]]]
                /\ obj' = [obj EXCEPT ![t] = NoObject]
                /\ UNCHANGED <<call, handle, name, counted, calls>>
           ELSE Return(t, [handle |-> s, obj |-> obj[t]])
  BY DEF AddDuplicate
<1>5. /\ s = n + 1 /\ table[s] = NoObject
      /\ cursor' \in Slots /\ (n + 1 < Capacity - 1 => cursor' = n + 2)
  BY <1>1, <1>2, <1>3, <1>4, AddsNextSlot
<1>6. duplicated' = duplicated \cup {obj[t]}
  BY DEF AddDuplicate
<1> QED
  BY <1>1, <1>2, <1>3, <1>4, <1>5, <1>6

\* What a removal of slot h, which holds o, changes before it takes name_mutex_.
Clears(t, h, o) ==
  /\ h \in Slots /\ o \in born /\ table[h] = o /\ globalLock = Nobody
  /\ table' = [table EXCEPT ![h] = NoObject] /\ count' = [count EXCEPT ![h] = 0]
  /\ \E q : handles' = [handles EXCEPT ![o] = q] /\ Without(handles[o], h, q)
  /\ erased' = [erased EXCEPT ![o] = h] /\ obj' = [obj EXCEPT ![t] = o]
  /\ globalLock' = t /\ pc' = [pc EXCEPT ![t] = "unname"]
  /\ UNCHANGED <<cursor, nameVars, refs, nameOf, born, duplicated, call, handle, name, counted, open, calls>>

LEMMA Clearing ==
  ASSUME IInv, NEW t \in Threads, ReleaseLastHandle(t) \/ CloseSource(t)
  PROVE  \E h \in Slots, o \in born :
           /\ Clears(t, h, o)
           /\ \/ /\ pc[t] = "release" /\ counted[t] = h /\ count[h] = 1
                 /\ (call[t] = "create" /\ obj[t] = o) \/ (call[t] = "close" /\ obj[t] = NoObject)
              \/ pc[t] = "remove" /\ handle[t] = h /\ o \in duplicated /\ obj[t] = NoObject
                 /\ counted[t] = NoHandle /\ call[t] = "replace"
<1> DEFINE h == IF pc[t] = "release" THEN counted[t] ELSE handle[t]
           o == table[h]
<1>1. /\ TypeOK /\ TablesTyped /\ CallsTyped /\ HandlesAgree /\ Placed(t) /\ CallsKnow
  BY TypeParts DEF IInv, Places
<1>2. /\ ClearEntry(t, h) /\ GlobalFree
      /\ \/ pc[t] = "release" /\ counted[t] # NoHandle /\ count[h] = 1
         \/ pc[t] = "remove" /\ handle[t] # NoHandle
  BY <1>1 DEF ReleaseLastHandle, CloseSource, At, Placed
<1>3. h \in Slots /\ o # NoObject /\ o \in Objects /\ o \in born /\ handles[o] \in Seq(Slots)
      /\ \E k \in 1 .. Len(handles[o]) : handles[o][k] = h
  <2>1. h \in Slots
    BY <1>1, <1>2 DEF CallsTyped
  <2>2. o # NoObject
    BY <1>2 DEF ClearEntry
  <2>3. o \in born /\ \E k \in 1 .. Len(handles[o]) : handles[o][k] = h
    BY <1>1, <2>1, <2>2 DEF HandlesAgree
  <2> QED
    BY <1>1, <2>1, <2>2, <2>3 DEF TablesTyped
<1>4. \A j, k \in 1 .. Len(handles[o]) : handles[o][j] = handles[o][k] => j = k
  BY <1>1, <1>3 DEF HandlesAgree
<1>5. handles' = [handles EXCEPT ![o] = RemoveFirst(handles[o], h)]
  BY <1>2 DEF ClearEntry
<1> HIDE DEF h, o
<1>6. Clears(t, h, o)
  <2>1. Without(handles[o], h, RemoveFirst(handles[o], h))
    BY <1>3, <1>4, Removal
  <2>2. \E q : handles' = [handles EXCEPT ![o] = q] /\ Without(handles[o], h, q)
    BY <1>5, <2>1
  <2> QED
    BY <1>2, <1>3, <2>2 DEF Clears, ClearEntry, GlobalFree, Goto, nameVars, o
<1>7. CASE pc[t] = "release"
  <2>1. counted[t] = h /\ count[h] = 1 /\ counted[t] # NoHandle
    BY <1>2, <1>7 DEF h
  <2>2. (call[t] = "create" /\ obj[t] # NoObject) \/ (call[t] = "close" /\ obj[t] = NoObject)
    BY <1>1, <1>7 DEF Placed
  <2>3. obj[t] # NoObject => obj[t] = o
    BY <1>1, <1>3, <2>1 DEF CallsKnow, CallKnows, Denotes, o
  <2> QED
    BY <1>3, <1>6, <1>7, <2>1, <2>2, <2>3
<1>8. CASE pc[t] = "remove"
  <2>1. handle[t] = h /\ call[t] = "replace" /\ obj[t] = NoObject /\ counted[t] = NoHandle
    BY <1>1, <1>8 DEF h, Placed, Empty
  <2>2. o \in duplicated
    BY <1>1, <1>3, <1>8, <2>1 DEF CallsKnow, CallKnows, o
  <2> QED
    BY <1>3, <1>6, <1>8, <2>1, <2>2
<1> QED
  BY <1>2, <1>7, <1>8

LEMMA StepTypes ==
  ASSUME IInv, [Next]_vars
  PROVE  TablesTyped' /\ CallsTyped' /\ refs' \in [Objects -> Int]
<1>t. /\ TablesTyped /\ CallsTyped /\ refs \in [Objects -> Nat]
      /\ \A t \in Threads : Placed(t)
  BY TypeParts DEF IInv, Places
<1>p. /\ {"ready", "lockName", "readName", "lookup", "retain", "lookupAgain", "release", "unname", "takeAgain",
          "construct", "addName", "return", "use", "using", "duplicate", "addHandle", "remove"} \subseteq Pc
      /\ {"none", "create", "open", "close", "use", "duplicate", "replace"} \subseteq Calls
  BY DEF Pc, Calls
<1>a. MaxCalls \in Nat
  BY ObjectTableAssumption
<1>r. ASSUME NEW t \in Threads, NEW g, g \in Open, Return(t, g) PROVE CallsTyped'
  BY <1>p, <1>t, <1>r DEF CallsTyped, Return, Goto
<1>o. \A t \in Threads : open[t] \in Open /\ open[t].handle \in Slots \cup {NoHandle}
  BY <1>t DEF CallsTyped, Open
<1>d. Nothing \in Open
  BY DEF Nothing, Open
<1>1. ASSUME NEW t \in Threads, CallByName(t) \/ CallByHandle(t) \/ CallReplace(t) \/ CallClose(t)
      PROVE  TablesTyped' /\ CallsTyped' /\ refs' \in [Objects -> Int]
  <2>1. TablesTyped' /\ refs' \in [Objects -> Int]
    BY <1>p, <1>t, <1>1 DEF CallByName, CallByHandle, CallReplace, CallClose, Call, tableVars, nameVars,
         objectVars, TablesTyped
  <2>2. calls' \in 0 .. MaxCalls
    BY <1>p, <1>t, <1>a, <1>1 DEF CallByName, CallByHandle, CallReplace, CallClose, MayAdd, CallsTyped
  <2>3. CASE CallByName(t)
    BY <1>p, <1>t, <2>1, <2>2, <2>3 DEF CallByName, Call, Goto, CallsTyped
  <2>4. CASE CallByHandle(t)
    <3>1. \A h \in OpenHandles : h \in Slots
      BY <1>o DEF OpenHandles
    <3> QED
      BY <1>p, <1>t, <2>1, <2>2, <2>4, <3>1 DEF CallByHandle, Call, Goto, CallsTyped
  <2>5. CASE CallReplace(t)
    BY <1>p, <1>t, <1>o, <1>d, <2>1, <2>2, <2>5 DEF CallReplace, Call, Goto, CallsTyped
  <2>6. CASE CallClose(t)
    BY <1>p, <1>t, <1>o, <1>d, <2>1, <2>2, <2>6 DEF CallClose, Call, Goto, CallsTyped
  <2> QED
    BY <1>1, <2>3, <2>4, <2>5, <2>6
<1>2. ASSUME NEW t \in Threads, LockName(t) \/ ReadName(t)
      PROVE  TablesTyped' /\ CallsTyped' /\ refs' \in [Objects -> Int]
  <2>1. TablesTyped' /\ refs' \in [Objects -> Int]
    BY <1>p, <1>t, <1>2 DEF LockName, ReadName, tableVars, objectVars, TablesTyped
  <2>2. CASE LockName(t)
    BY <1>p, <1>t, <2>1, <2>2 DEF LockName, Goto, CallsTyped
  <2>3. CASE ReadName(t) /\ ReadNone(t)
    BY <1>p, <1>t, <1>r, <1>d, <2>1, <2>3 DEF ReadNone, Goto, CallsTyped
  <2>4. CASE ReadName(t) /\ ReadHandle(t)
    BY <1>p, <1>t, <2>1, <2>4 DEF ReadHandle, Goto, CallsTyped, TablesTyped
  <2> QED
    BY <1>2, <2>1, <2>1, <2>2, <2>3, <2>1, <2>4 DEF ReadName
<1>l. ASSUME NEW t \in Threads, NEW f \in Pc, NEW n \in Pc, Lookup(t, f, n), handle[t] # NoHandle
      PROVE  TablesTyped' /\ CallsTyped' /\ refs' \in [Objects -> Int]
  <2>1. table[handle[t]] \in Objects \cup {NoObject} /\ NoObject \notin Objects
    BY <1>p, <1>t, <1>l, ObjectTableAssumption DEF TablesTyped, CallsTyped
  <2>2. TablesTyped'
    BY <1>p, <1>t, <1>l DEF Lookup, tableVars, nameVars, TablesTyped
  <2>3. CallsTyped'
    BY <1>p, <1>t, <1>l, <2>1 DEF Lookup, CallsTyped, Goto
  <2>4. refs' \in [Objects -> Int]
    BY <1>p, <1>t, <1>l, <2>1 DEF Lookup, Retained
  <2> QED
    BY <2>2, <2>3, <2>4
<1>3. ASSUME NEW t \in Threads, LookupByName(t) \/ LookupAgain(t) \/ Use(t) \/ Duplicate(t)
      PROVE  TablesTyped' /\ CallsTyped' /\ refs' \in [Objects -> Int]
  <2>1. handle[t] # NoHandle
    BY <1>p, <1>t, <1>3 DEF LookupByName, LookupAgain, Use, Duplicate, At, Placed
  <2>2. \E f, n \in Pc : Lookup(t, f, n)
    BY <1>3 DEF LookupByName, LookupAgain, Use, Duplicate, Pc
  <2> QED
    BY <1>l, <2>1, <2>2
<1>e. ASSUME NEW o \in Objects \cup {NoObject} PROVE Released(o) \in [Objects -> Int]
  BY <1>p, <1>t DEF Released
<1>4. ASSUME NEW t \in Threads, ReadFirst(t)
      PROVE  TablesTyped' /\ CallsTyped' /\ refs' \in [Objects -> Int]
  <2>1. First(obj[t]) \in Slots \cup {NoHandle}
    <3>1. pc[t] = "release" /\ counted[t] = NoHandle => obj[t] # NoObject
      BY <1>p, <1>t DEF Placed
    <3>2. obj[t] \in Objects
      BY <1>p, <1>t, <1>4, <3>1 DEF ReadFirst, CallsTyped, Placed
    <3> QED
      BY <1>p, <1>t, <3>2, FirstTyped
  <2> QED
    BY <1>p, <1>t, <1>4, <2>1 DEF ReadFirst, tableVars, nameVars, objectVars, TablesTyped, CallsTyped
<1>5. ASSUME NEW t \in Threads, RetainFound(t) \/ TakeAgain(t)
      PROVE  TablesTyped' /\ CallsTyped' /\ refs' \in [Objects -> Int]
  <2>1. RetainHandle(t) /\ counted[t] \in Slots
    BY <1>p, <1>t, <1>5 DEF RetainFound, TakeAgain, RetainHandle, CallsTyped
  <2>2. TablesTyped'
    BY <1>p, <1>t, <1>5, <2>1 DEF RetainHandle, RetainFound, TakeAgain, nameVars, objectVars, TablesTyped
  <2>3. CallsTyped'
    BY <1>p, <1>t, <1>5, <2>1 DEF RetainHandle, RetainFound, TakeAgain, CallsTyped, Goto
  <2>4. refs' \in [Objects -> Int]
    BY <1>p, <1>t, <1>e, <1>5 DEF RetainFound, TakeAgain, objectVars, CallsTyped
  <2> QED
    BY <2>2, <2>3, <2>4
<1>g. ASSUME NEW t \in Threads, AfterRelease(t) PROVE CallsTyped'
  BY <1>p, <1>t, <1>r, <1>o, <1>g DEF AfterRelease, CallsTyped, Goto
<1>6. ASSUME NEW t \in Threads, ReleaseHandle(t)
      PROVE  TablesTyped' /\ CallsTyped' /\ refs' \in [Objects -> Int]
  <2>1. TablesTyped' /\ refs' \in [Objects -> Int]
    BY <1>p, <1>t, <1>6 DEF ReleaseHandle, nameVars, objectVars, TablesTyped, CallsTyped
  <2> QED
    BY <1>g, <1>6, <2>1 DEF ReleaseHandle
<1>7. ASSUME NEW t \in Threads, ReleaseLastHandle(t) \/ CloseSource(t)
      PROVE  TablesTyped' /\ CallsTyped' /\ refs' \in [Objects -> Int]
  <2>1. PICK h \in Slots, o \in born : Clears(t, h, o)
    BY <1>7, Clearing
  <2>2. PICK q : handles' = [handles EXCEPT ![o] = q] /\ q \in Seq(Slots)
    BY <2>1 DEF Clears, Without
  <2> QED
    BY <1>p, <1>t, <2>1, <2>2 DEF Clears, TablesTyped, CallsTyped, nameVars
<1>8. ASSUME NEW t \in Threads, RemoveHandle(t)
      PROVE  TablesTyped' /\ CallsTyped' /\ refs' \in [Objects -> Int]
  <2>1. TablesTyped'
    BY <1>p, <1>t, <1>8 DEF RemoveHandle, tableVars, TablesTyped
  <2>2. refs' \in [Objects -> Int]
    BY <1>p, <1>t, <1>e, <1>8 DEF RemoveHandle, CallsTyped
  <2> QED
    BY <1>g, <1>8, <2>1, <2>2 DEF RemoveHandle
<1>s. ASSUME NEW o \in Objects, NEW s \in Slots, AddHandle(o, s), cursor' \in Slots
      PROVE  /\ table' \in [Slots -> Objects \cup {NoObject}] /\ count' \in [Slots -> Int]
             /\ handles' \in [Objects -> Seq(Slots)]
  <2>1. handles[o] \in Seq(Slots)
    BY <1>p, <1>t DEF TablesTyped
  <2>2. Append(handles[o], s) \in Seq(Slots)
    BY <2>1
  <2> QED
    BY <1>p, <1>t, <1>s, <2>2 DEF AddHandle, TablesTyped
<1>9. ASSUME NEW t \in Threads, Construct(t)
      PROVE  TablesTyped' /\ CallsTyped' /\ refs' \in [Objects -> Int]
  <2>1. PICK s \in Slots, o \in Objects :
          /\ AddHandle(o, s) /\ cursor' \in Slots
          /\ born' = born \cup {o} /\ refs' = [refs EXCEPT ![o] = 2] /\ obj' = [obj EXCEPT ![t] = o]
    BY <1>9, NewObject
  <2>2. TablesTyped'
    BY <1>p, <1>t, <1>s, <1>9, <2>1 DEF Construct, nameVars, TablesTyped
  <2>3. CallsTyped'
    BY <1>p, <1>t, <1>9, <2>1 DEF Construct, Goto, CallsTyped
  <2> QED
    BY <1>p, <1>t, <2>1, <2>2, <2>3
<1>10. ASSUME NEW t \in Threads, AddDuplicate(t)
      PROVE  TablesTyped' /\ CallsTyped' /\ refs' \in [Objects -> Int]
  <2>1. PICK s \in Slots :
          /\ AddHandle(obj[t], s) /\ cursor' \in Slots /\ obj[t] \in born
          /\ duplicated' = duplicated \cup {obj[t]}
          /\ \/ Return(t, [handle |-> s, obj |-> obj[t]])
             \/ /\ Goto(t, "remove")
                /\ open' = [open EXCEPT ![t] = [handle |-> s, obj |-> obj[t]]]
                /\ obj' = [obj EXCEPT ![t] = NoObject]
                /\ UNCHANGED <<call, handle, name, counted, calls>>
    BY <1>10, NewDuplicate
  <2>2. obj[t] \in Objects /\ [handle |-> s, obj |-> obj[t]] \in Open
    BY <1>p, <1>t, <2>1 DEF TablesTyped, Open
  <2>3. TablesTyped' /\ refs' \in [Objects -> Int]
    BY <1>p, <1>t, <1>s, <1>10, <2>1, <2>2 DEF AddDuplicate, nameVars, TablesTyped
  <2>4. CallsTyped'
    BY <1>p, <1>t, <1>r, <2>1, <2>2 DEF Goto, CallsTyped, Pc
  <2> QED
    BY <2>3, <2>4
<1>11. ASSUME NEW t \in Threads, AddName(t)
      PROVE  TablesTyped' /\ CallsTyped' /\ refs' \in [Objects -> Int]
  <2>1. obj[t] \in Objects /\ name[t] \in Names
    BY <1>p, <1>t, <1>11 DEF AddName, At, Placed, CallsTyped
  <2>2. First(obj[t]) \in Slots \cup {NoHandle}
    BY <1>p, <1>t, <2>1, FirstTyped
  <2>3. TablesTyped'
    BY <1>p, <1>t, <1>11, <2>1, <2>2 DEF AddName, tableVars, TablesTyped
  <2>4. [handle |-> First(obj[t]), obj |-> obj[t]] \in Open
    BY <2>1, <2>2 DEF Open
  <2> QED
    BY <1>r, <1>e, <1>11, <2>1, <2>3, <2>4 DEF AddName
<1>12. ASSUME NEW t \in Threads, ReturnHandle(t)
      PROVE  TablesTyped' /\ CallsTyped' /\ refs' \in [Objects -> Int]
  <2>1. call[t] = "create" => obj[t] \in Objects
    BY <1>p, <1>t, <1>12 DEF ReturnHandle, At, Placed, CallsTyped
  <2>2. (IF call[t] = "create" THEN First(obj[t]) ELSE handle[t]) \in Slots \cup {NoHandle}
    BY <1>p, <1>t, <2>1, FirstTyped DEF CallsTyped
  <2>3. [handle |-> IF call[t] = "create" THEN First(obj[t]) ELSE handle[t], obj |-> NoObject] \in Open
    BY <2>2 DEF Open
  <2>4. TablesTyped'
    BY <1>p, <1>t, <1>12 DEF ReturnHandle, tableVars, nameVars, TablesTyped
  <2> QED
    BY <1>p, <1>t, <1>r, <1>e, <1>12, <2>3, <2>4 DEF ReturnHandle, CallsTyped
<1>13. ASSUME NEW t \in Threads, EndUse(t) \/ SourceGone(t)
      PROVE  TablesTyped' /\ CallsTyped' /\ refs' \in [Objects -> Int]
  <2>1. TablesTyped'
    BY <1>p, <1>t, <1>13 DEF EndUse, SourceGone, tableVars, nameVars, objectVars, TablesTyped
  <2>2. CallsTyped'
    BY <1>r, <1>o, <1>13 DEF EndUse, SourceGone
  <2>3. refs' \in [Objects -> Int]
    BY <1>p, <1>t, <1>e, <1>13 DEF EndUse, SourceGone, objectVars, CallsTyped
  <2> QED
    BY <2>1, <2>2, <2>3
<1>14. CASE UNCHANGED vars
  BY <1>p, <1>t, <1>14 DEF vars, tableVars, nameVars, objectVars, threadVars, TablesTyped, CallsTyped
<1> QED
  BY <1>1, <1>2, <1>3, <1>4, <1>5, <1>6, <1>7, <1>8, <1>9, <1>10, <1>11, <1>12, <1>13, <1>14, Steps

-----------------------------------------------------------------------------
(* Places.                                                                  *)

LEMMA Frame ==
  ASSUME IInv, NEW t \in Threads, Start(t) \/ Step(t)
  PROVE  OthersStay(t)
<1>t. CallsTyped
  BY TypeParts DEF IInv
<1>r. ASSUME NEW g, Return(t, g) PROVE OthersStay(t)
  BY <1>t, <1>r DEF CallsTyped, Return, Goto, OthersStay
<1>1. CASE Start(t)
  BY <1>t, <1>1 DEF Start, CallByName, CallByHandle, CallReplace, CallClose, Call, Goto, CallsTyped, OthersStay
<1>2. CASE LockName(t) \/ ReadName(t)
  BY <1>t, <1>r, <1>2 DEF LockName, ReadName, ReadNone, ReadHandle, Goto, CallsTyped, OthersStay
<1>3. CASE LookupByName(t) \/ LookupAgain(t) \/ Use(t) \/ Duplicate(t)
  <2>1. \E f, n : Lookup(t, f, n)
    BY <1>3 DEF LookupByName, LookupAgain, Use, Duplicate
  <2> QED
    BY <1>t, <2>1 DEF Lookup, Goto, CallsTyped, OthersStay
<1>4. CASE ReadFirst(t)
  BY <1>t, <1>4 DEF ReadFirst, CallsTyped, OthersStay
<1>5. CASE RetainFound(t) \/ TakeAgain(t)
  BY <1>t, <1>5 DEF RetainFound, TakeAgain, RetainHandle, Goto, CallsTyped, OthersStay, objectVars
<1>g. ASSUME AfterRelease(t) PROVE OthersStay(t)
  BY <1>t, <1>r, <1>g DEF AfterRelease, Goto, CallsTyped, OthersStay
<1>6. CASE ReleaseHandle(t) \/ RemoveHandle(t)
  BY <1>g, <1>6 DEF ReleaseHandle, RemoveHandle
<1>7. CASE ReleaseLastHandle(t) \/ CloseSource(t)
  BY <1>t, <1>7, Clearing DEF Clears, CallsTyped, OthersStay
<1>8. CASE Construct(t)
  BY <1>t, <1>8 DEF Construct, Goto, CallsTyped, OthersStay
<1>9. CASE AddDuplicate(t)
  <2>1. PICK s \in Slots :
          \/ Return(t, [handle |-> s, obj |-> obj[t]])
          \/ /\ call[t] = "replace" /\ Goto(t, "remove")
             /\ open' = [open EXCEPT ![t] = [handle |-> s, obj |-> obj[t]]]
             /\ obj' = [obj EXCEPT ![t] = NoObject]
             /\ UNCHANGED <<call, handle, name, counted, calls>>
    BY <1>9, NewDuplicate
  <2> QED
    BY <1>t, <1>r, <2>1 DEF Goto, CallsTyped, OthersStay
<1>10. CASE AddName(t) \/ ReturnHandle(t) \/ EndUse(t) \/ SourceGone(t)
  BY <1>r, <1>10 DEF AddName, ReturnHandle, EndUse, SourceGone
<1> QED
  BY <1>1, <1>2, <1>3, <1>4, <1>5, <1>6, <1>7, <1>8, <1>9, <1>10 DEF Step

\* A call that returns leaves nothing behind but the handle it got.
LEMMA Returns ==
  ASSUME IInv, NEW t \in Threads, NEW g, Return(t, g)
  PROVE  /\ pc'[t] = "ready" /\ call'[t] = "none" /\ handle'[t] = NoHandle /\ obj'[t] = NoObject
         /\ counted'[t] = NoHandle /\ open'[t] = g /\ UNCHANGED <<name, calls>>
  BY TypeParts DEF IInv, CallsTyped, Return, Goto

LEMMA StepPlaced ==
  ASSUME IInv, NEW t \in Threads, Start(t) \/ Step(t)
  PROVE  Placed(t)'
<1>t. /\ TablesTyped /\ CallsTyped /\ Placed(t) /\ NoObject \notin Objects
      /\ \A u \in Threads : open[u] \in Open
  BY TypeParts, ObjectTableAssumption DEF IInv, Places, CallsTyped
<1>r. ASSUME NEW g \in Open, Return(t, g), g.handle = NoHandle => g.obj = NoObject PROVE Placed(t)'
  BY <1>r, Returns DEF Placed, Empty
<1>o. open[t].handle = NoHandle => open[t].obj = NoObject
  BY <1>t DEF Placed
<1>n. Nothing \in Open /\ Nothing.handle = NoHandle /\ Nothing.obj = NoObject
  BY DEF Nothing, Open
<1>s. NoHandle \notin Slots
  BY DEF NoHandle, Slots
<1>1. CASE CallByName(t)
  BY <1>t, <1>o, <1>1 DEF CallByName, Call, Goto, At, CallsTyped, Placed, Empty
<1>2. CASE CallByHandle(t)
  <2>1. \A h \in OpenHandles : h # NoHandle
    BY DEF OpenHandles
  <2> QED
    BY <1>t, <1>o, <1>2, <2>1 DEF CallByHandle, Call, Goto, At, CallsTyped, Placed, Empty
<1>3. CASE CallReplace(t)
  BY <1>t, <1>n, <1>3 DEF CallReplace, Call, Goto, At, CallsTyped, Placed, Empty
<1>4. CASE CallClose(t)
  BY <1>t, <1>n, <1>4 DEF CallClose, Call, Goto, At, CallsTyped, Placed, Empty
<1>5. CASE LockName(t)
  BY <1>t, <1>5 DEF LockName, Goto, At, CallsTyped, Placed, Empty
<1>6. CASE ReadName(t)
  <2>1. CASE ReadNone(t)
    BY <1>t, <1>r, <1>n, <1>6, <2>1 DEF ReadName, ReadNone, Goto, At, CallsTyped, Placed, Empty
  <2>2. CASE ReadHandle(t) /\ names[name[t]] # NoHandle
    BY <1>t, <1>6, <2>2 DEF ReadName, ReadHandle, Goto, At, CallsTyped, Placed, Empty
  <2> QED
    BY <1>6, <2>1, <2>2 DEF ReadName
<1>7. CASE LookupByName(t) \/ LookupAgain(t) \/ Use(t) \/ Duplicate(t)
  BY <1>t, <1>7 DEF LookupByName, LookupAgain, Use, Duplicate, Lookup, Goto, At, CallsTyped, Placed, Empty
<1>8. CASE ReadFirst(t)
  <2>1. /\ pc[t] \in {"retain", "release", "takeAgain"} /\ UNCHANGED <<pc, call, handle, obj, open>>
        /\ counted[t] = NoHandle
    BY <1>8 DEF ReadFirst
  <2>2. obj[t] # NoObject
    BY <1>t, <2>1 DEF Placed
  <2> QED
    BY <1>t, <2>1, <2>2 DEF Placed, Empty
<1>9. CASE RetainFound(t)
  BY <1>t, <1>9 DEF RetainFound, RetainHandle, Goto, At, CallsTyped, Placed, Empty
<1>10. CASE TakeAgain(t)
  BY <1>t, <1>10 DEF TakeAgain, RetainHandle, Goto, At, CallsTyped, Placed, Empty
<1>g. ASSUME AfterRelease(t), pc[t] \in {"release", "unname"} PROVE Placed(t)'
  BY <1>t, <1>r, <1>o, <1>g DEF AfterRelease, Goto, CallsTyped, Placed, Empty
<1>11. CASE ReleaseHandle(t) \/ RemoveHandle(t)
  BY <1>g, <1>11 DEF ReleaseHandle, RemoveHandle, At
<1>12. CASE ReleaseLastHandle(t) \/ CloseSource(t)
  <2>1. PICK h \in Slots, o \in born :
           Clears(t, h, o) /\ call[t] \in {"create", "close", "replace"} /\ pc[t] \in {"release", "remove"}
    BY <1>12, Clearing
  <2>2. o # NoObject
    BY <1>t DEF TablesTyped
  <2> QED
    BY <1>t, <2>1, <2>2 DEF Clears, CallsTyped, Placed, Empty
<1>13. CASE Construct(t)
  <2>1. PICK o \in Objects : obj' = [obj EXCEPT ![t] = o]
    BY <1>13, NewObject
  <2> QED
    BY <1>t, <1>13, <2>1 DEF Construct, Goto, At, CallsTyped, Placed, Empty
<1>14. CASE AddDuplicate(t)
  <2>1. PICK s \in Slots :
          \/ Return(t, [handle |-> s, obj |-> obj[t]])
          \/ /\ call[t] = "replace" /\ Goto(t, "remove")
             /\ open' = [open EXCEPT ![t] = [handle |-> s, obj |-> obj[t]]]
             /\ obj' = [obj EXCEPT ![t] = NoObject]
             /\ UNCHANGED <<call, handle, name, counted, calls>>
    BY <1>14, NewDuplicate
  <2>2. [handle |-> s, obj |-> obj[t]] \in Open /\ s # NoHandle
    BY <1>t, <1>s DEF CallsTyped, Open
  <2> QED
    BY <1>t, <1>r, <1>14, <2>1, <2>2 DEF AddDuplicate, Goto, At, CallsTyped, Placed, Empty
<1>15. CASE AddName(t)
  <2>1. obj[t] \in born
    BY <1>t, <1>15 DEF AddName, At, Placed, IInv, KnownAreBorn
  <2>2. First(obj[t]) \in Slots
    BY <2>1, FirstDenotes
  <2>3. [handle |-> First(obj[t]), obj |-> obj[t]] \in Open
    BY <1>t, <2>1, <2>2 DEF TablesTyped, Open
  <2> QED
    BY <1>r, <1>s, <1>15, <2>2, <2>3 DEF AddName
<1>16. CASE ReturnHandle(t)
  <2>1. call[t] = "create" => First(obj[t]) \in Slots
    BY <1>t, <1>16, FirstDenotes DEF ReturnHandle, At, Placed, IInv, KnownAreBorn
  <2>2. [handle |-> IF call[t] = "create" THEN First(obj[t]) ELSE handle[t], obj |-> NoObject] \in Open
    BY <1>t, <2>1 DEF CallsTyped, Open
  <2> QED
    BY <1>r, <1>16, <2>2 DEF ReturnHandle
<1>17. CASE EndUse(t) \/ SourceGone(t)
  BY <1>t, <1>r, <1>o, <1>17 DEF EndUse, SourceGone
<1> QED
  BY <1>1, <1>2, <1>3, <1>4, <1>5, <1>6, <1>7, <1>8, <1>9, <1>10, <1>11, <1>12, <1>13, <1>14, <1>15,
     <1>16, <1>17 DEF Start, Step

\* The global lock is kept over a step by who removes a handle.
LEMMA StepLock ==
  ASSUME IInv, NEW t \in Threads, Start(t) \/ Step(t)
  PROVE  \/ pc[t] # "unname" /\ pc'[t] # "unname" /\ UNCHANGED globalLock
         \/ pc[t] # "unname" /\ pc'[t] = "unname" /\ GlobalFree /\ globalLock' = t
         \/ pc[t] = "unname" /\ pc'[t] # "unname" /\ globalLock' = Nobody
<1>t. CallsTyped
  BY TypeParts DEF IInv
<1>r. ASSUME NEW g, Return(t, g) PROVE pc'[t] = "ready"
  BY <1>r, Returns
<1>1. CASE Start(t)
  BY <1>t, <1>1 DEF Start, CallByName, CallByHandle, CallReplace, CallClose, Call, Goto, At, CallsTyped
<1>2. CASE LockName(t) \/ ReadName(t)
  BY <1>t, <1>r, <1>2 DEF LockName, ReadName, ReadNone, ReadHandle, Goto, At, CallsTyped
<1>3. CASE LookupByName(t) \/ LookupAgain(t) \/ Use(t) \/ Duplicate(t)
  BY <1>t, <1>3 DEF LookupByName, LookupAgain, Use, Duplicate, Lookup, Goto, At, CallsTyped
<1>4. CASE ReadFirst(t)
  BY <1>4 DEF ReadFirst
<1>5. CASE RetainFound(t) \/ TakeAgain(t)
  BY <1>t, <1>5 DEF RetainFound, TakeAgain, RetainHandle, Goto, At, CallsTyped
<1>g. ASSUME AfterRelease(t) PROVE pc'[t] # "unname"
  BY <1>t, <1>r, <1>g DEF AfterRelease, Goto, CallsTyped
<1>6. CASE ReleaseHandle(t) \/ RemoveHandle(t)
  BY <1>g, <1>6 DEF ReleaseHandle, RemoveHandle, At
<1>7. CASE ReleaseLastHandle(t) \/ CloseSource(t)
  <2>1. pc[t] # "unname" /\ \E h, o : Clears(t, h, o)
    BY <1>7, Clearing
  <2> QED
    BY <1>t, <2>1 DEF Clears, CallsTyped, GlobalFree
<1>8. CASE Construct(t)
  BY <1>t, <1>8 DEF Construct, Goto, At, CallsTyped
<1>9. CASE AddDuplicate(t)
  BY <1>t, <1>r, <1>9 DEF AddDuplicate, Goto, At, CallsTyped
<1>10. CASE AddName(t) \/ ReturnHandle(t) \/ EndUse(t) \/ SourceGone(t)
  BY <1>r, <1>10 DEF AddName, ReturnHandle, EndUse, SourceGone, At
<1> QED
  BY <1>1, <1>2, <1>3, <1>4, <1>5, <1>6, <1>7, <1>8, <1>9, <1>10 DEF Step

LEMMA StepPlaces ==
  ASSUME IInv, [Next]_vars
  PROVE  Places'
<1>1. CASE UNCHANGED vars
  BY <1>1 DEF IInv, vars, tableVars, nameVars, objectVars, threadVars, Places, Placed, Empty
<1>2. ASSUME NEW t \in Threads, Start(t) \/ Step(t) PROVE Places'
  <2>1. ASSUME NEW u \in Threads PROVE Placed(u)'
    <3>1. CASE u = t
      BY <1>2, <3>1, StepPlaced
    <3>2. CASE u # t
      BY <1>2, <3>2, Frame DEF IInv, Places, OthersStay, Placed, Empty
    <3> QED
      BY <3>1, <3>2
  <2>2. ASSUME NEW u \in Threads PROVE (pc[u] = "unname" <=> globalLock = u)'
    <3>1. \A v \in Threads : pc[v] = "unname" <=> globalLock = v
      BY DEF IInv, Places
    <3>2. u # Nobody /\ t # Nobody
      BY ObjectTableAssumption
    <3>3. u # t => pc'[u] = pc[u]
      BY <1>2, Frame DEF OthersStay
    <3> QED
      BY <1>2, <3>1, <3>2, <3>3, StepLock DEF GlobalFree
  <2> QED
    BY <2>1, <2>2 DEF Places
<1> QED
  BY <1>1, <1>2 DEF Next

-----------------------------------------------------------------------------
(* Slots are used once.                                                     *)

\* Sets that differ in one member at most.
LEMMA OneChanges ==
  ASSUME NEW T, IsFiniteSet(T), NEW A \in SUBSET T, NEW B \in SUBSET T, NEW t, A \ {t} = B \ {t}
  PROVE  /\ Cardinality(A) \in Nat /\ Cardinality(B) \in Nat
         /\ (t \in A <=> t \in B) => Cardinality(B) = Cardinality(A)
         /\ t \notin A /\ t \in B => Cardinality(B) = Cardinality(A) + 1
         /\ t \in A /\ t \notin B => Cardinality(B) = Cardinality(A) - 1
<1>1. IsFiniteSet(A) /\ IsFiniteSet(B)
  BY FS_Subset
<1>2. Cardinality(A) \in Nat /\ Cardinality(B) \in Nat
  BY <1>1, FS_CardinalityType
<1>3. (t \in A <=> t \in B) => A = B
  OBVIOUS
<1>4. t \notin A /\ t \in B => B = A \cup {t}
  OBVIOUS
<1>5. t \in A /\ t \notin B => A = B \cup {t}
  OBVIOUS
<1>6. t \notin A => Cardinality(A \cup {t}) = Cardinality(A) + 1
  BY <1>1, FS_AddElement
<1>7. t \notin B => Cardinality(B \cup {t}) = Cardinality(B) + 1
  BY <1>1, FS_AddElement
<1>8. CASE t \in A <=> t \in B
  BY <1>2, <1>3, <1>8
<1>9. CASE t \notin A /\ t \in B
  BY <1>2, <1>4, <1>6, <1>9
<1>10. CASE t \in A /\ t \notin B
  <2>1. Cardinality(A) = Cardinality(B) + 1
    BY <1>5, <1>7, <1>10
  <2> QED
    BY <1>2, <1>10, <2>1
<1> QED
  BY <1>8, <1>9, <1>10

\* The steps by what they do to the table.
Keeping == UNCHANGED <<table, cursor, handles, erased, born, duplicated>>

LEMMA TableSteps ==
  ASSUME IInv, NEW t \in Threads, Start(t) \/ Step(t)
  PROVE  Keeping \/ ReleaseLastHandle(t) \/ CloseSource(t) \/ Construct(t) \/ AddDuplicate(t)
<1>1. CASE Start(t)
  BY <1>1 DEF Start, CallByName, CallByHandle, CallReplace, CallClose, Call, tableVars, objectVars, Keeping
<1>2. CASE LockName(t) \/ ReadName(t)
  BY <1>2 DEF LockName, ReadName, tableVars, objectVars, Keeping
<1>3. CASE LookupByName(t) \/ LookupAgain(t) \/ Use(t) \/ Duplicate(t)
  BY <1>3 DEF LookupByName, LookupAgain, Use, Duplicate, Lookup, tableVars, objectVars, Keeping
<1>4. CASE ReadFirst(t)
  BY <1>4 DEF ReadFirst, tableVars, objectVars, Keeping
<1>5. CASE RetainFound(t) \/ TakeAgain(t)
  BY <1>5 DEF RetainFound, TakeAgain, RetainHandle, objectVars, Keeping
<1>6. CASE ReleaseHandle(t) \/ RemoveHandle(t)
  BY <1>6 DEF ReleaseHandle, RemoveHandle, tableVars, objectVars, Keeping
<1>7. CASE AddName(t) \/ ReturnHandle(t) \/ EndUse(t) \/ SourceGone(t)
  BY <1>7 DEF AddName, ReturnHandle, EndUse, SourceGone, tableVars, objectVars, Keeping
<1> QED
  BY <1>1, <1>2, <1>3, <1>4, <1>5, <1>6, <1>7 DEF Step

LEMMA FirstUsed ==
  ASSUME TablesTyped, NEW n \in Int, UsedUpTo(n), NEW o \in Objects
  PROVE  First(o) <= n
<1>1. handles[o] \in Seq(Slots)
  BY DEF TablesTyped
<1>2. handles[o] # <<>> => 1 \in 1 .. Len(handles[o]) /\ Head(handles[o]) = handles[o][1]
  BY <1>1
<1> QED
  BY <1>2 DEF UsedUpTo, First

\* The slots that a call of t may take from its locals, from the names, from
\* the other calls or from the object it has.
SlotsKnown(t) ==
  {NoHandle, handle[t], counted[t]} \cup {open[u].handle : u \in Threads}
    \cup {names[m] : m \in Names} \cup {First(o) : o \in {obj[t]} \cap Objects}

LEMMA Learnt ==
  ASSUME IInv, NEW t \in Threads, Start(t) \/ Step(t), ~Construct(t), ~AddDuplicate(t)
  PROVE  /\ {handle'[t], counted'[t], open'[t].handle} \subseteq SlotsKnown(t)
         /\ \A m \in Names : names'[m] \in SlotsKnown(t)
         /\ obj'[t] \in {NoObject, obj[t]} \cup {table[s] : s \in SlotsKnown(t) \cap Slots}
         /\ open'[t].obj \in {NoObject, open[t].obj, obj[t]}
<1>t. /\ TablesTyped /\ CallsTyped /\ Placed(t)
      /\ {handle[t], counted[t], open[t].handle} \subseteq SlotsKnown(t)
      /\ \A m \in Names : names[m] \in SlotsKnown(t)
  BY TypeParts DEF IInv, Places, SlotsKnown
<1>f. obj[t] # NoObject => First(obj[t]) \in SlotsKnown(t)
  BY <1>t DEF CallsTyped, SlotsKnown
<1>n. Nothing.handle \in SlotsKnown(t) /\ Nothing.obj = NoObject /\ NoHandle \in SlotsKnown(t)
  BY DEF Nothing, SlotsKnown
<1>s. {handle[t], counted[t]} \subseteq (SlotsKnown(t) \cap Slots) \cup {NoHandle}
  BY <1>t DEF CallsTyped
<1> DEFINE Knows == /\ {handle'[t], counted'[t], open'[t].handle} \subseteq SlotsKnown(t)
                    /\ obj'[t] \in {NoObject, obj[t]} \cup {table[s] : s \in SlotsKnown(t) \cap Slots}
                    /\ open'[t].obj \in {NoObject, open[t].obj, obj[t]}
<1>r. ASSUME NEW g, Return(t, g), g.handle \in SlotsKnown(t), g.obj \in {NoObject, open[t].obj, obj[t]}
      PROVE  Knows
  BY <1>n, <1>r, Returns
<1>1. CASE Start(t)
  <2>1. OpenHandles \subseteq SlotsKnown(t)
    BY DEF OpenHandles, SlotsKnown
  <2>2. CASE CallByName(t)
    BY <1>t, <2>2 DEF CallByName, Call, nameVars
  <2>3. CASE CallByHandle(t)
    BY <1>t, <2>1, <2>3 DEF CallByHandle, Call, CallsTyped, nameVars
  <2>4. CASE CallReplace(t)
    BY <1>t, <1>n, <2>4 DEF CallReplace, Call, CallsTyped, nameVars
  <2>5. CASE CallClose(t)
    BY <1>t, <1>n, <2>5 DEF CallClose, Call, CallsTyped, nameVars
  <2> QED
    BY <1>1, <2>2, <2>3, <2>4, <2>5 DEF Start
<1>2. CASE LockName(t) \/ ReadName(t)
  BY <1>t, <1>n, <1>r, <1>2 DEF LockName, ReadName, ReadNone, ReadHandle, CallsTyped
<1>3. CASE LookupByName(t) \/ LookupAgain(t) \/ Use(t) \/ Duplicate(t)
  <2>1. /\ obj' = [obj EXCEPT ![t] = table[handle[t]]]
        /\ UNCHANGED <<names, handle, counted, open>>
    BY <1>3 DEF LookupByName, LookupAgain, Use, Duplicate, Lookup, nameVars
  <2>2. handle[t] # NoHandle
    BY <1>t, <1>3 DEF LookupByName, LookupAgain, Use, Duplicate, At, Placed
  <2> QED
    BY <1>t, <1>s, <2>1, <2>2 DEF CallsTyped
<1>4. CASE ReadFirst(t)
  <2>1. obj[t] # NoObject
    BY <1>t, <1>4 DEF ReadFirst, Placed
  <2> QED
    BY <1>t, <1>f, <1>4, <2>1 DEF ReadFirst, nameVars, CallsTyped
<1>5. CASE RetainFound(t) \/ TakeAgain(t)
  BY <1>t, <1>n, <1>5 DEF RetainFound, TakeAgain, RetainHandle, nameVars, CallsTyped
<1>g. ASSUME AfterRelease(t) PROVE Knows
  BY <1>t, <1>n, <1>r, <1>g DEF AfterRelease, CallsTyped
<1>6. CASE ReleaseHandle(t) \/ RemoveHandle(t)
  <2>1. \A m \in Names : names'[m] \in SlotsKnown(t)
    BY <1>t, <1>n, <1>6 DEF ReleaseHandle, RemoveHandle, nameVars
  <2> QED
    BY <1>g, <1>6, <2>1 DEF ReleaseHandle, RemoveHandle
<1>7. CASE ReleaseLastHandle(t) \/ CloseSource(t)
  <2>1. PICK h \in Slots, o \in born : Clears(t, h, o) /\ h \in {counted[t], handle[t]}
    BY <1>7, Clearing
  <2> QED
    BY <1>t, <2>1 DEF Clears, nameVars, CallsTyped
<1>8. CASE AddName(t)
  <2>1. First(obj[t]) \in SlotsKnown(t)
    BY <1>t, <1>f, <1>8 DEF AddName, At, Placed
  <2>2. \A m \in Names : names'[m] \in SlotsKnown(t)
    BY <1>t, <1>8, <2>1 DEF AddName, TablesTyped
  <2>3. Knows
    BY <1>r, <1>8, <2>1 DEF AddName
  <2> QED
    BY <2>2, <2>3
<1>9. CASE ReturnHandle(t)
  <2>1. call[t] = "create" => First(obj[t]) \in SlotsKnown(t)
    BY <1>t, <1>f, <1>9 DEF ReturnHandle, At, Placed
  <2> QED
    BY <1>t, <1>r, <1>9, <2>1 DEF ReturnHandle, nameVars
<1>10. CASE EndUse(t) \/ SourceGone(t)
  BY <1>t, <1>r, <1>10 DEF EndUse, SourceGone, nameVars
<1> QED
  BY <1>1, <1>2, <1>3, <1>4, <1>5, <1>6, <1>7, <1>8, <1>9, <1>10 DEF Step

LEMMA KnownUsed ==
  ASSUME IInv, NEW t \in Threads, NEW n \in Nat, UsedUpTo(n), NEW s \in SlotsKnown(t)
  PROVE  s <= n /\ s \in Slots \cup {NoHandle}
<1>1. TablesTyped /\ CallsTyped /\ 0 <= n
  BY TypeParts DEF IInv
<1>2. CASE s \in {NoHandle, handle[t], counted[t]}
  BY <1>1, <1>2 DEF UsedUpTo, CallsTyped, NoHandle
<1>3. CASE s \in {open[u].handle : u \in Threads}
  <2>1. PICK u \in Threads : s = open[u].handle
    BY <1>3
  <2>2. open[u] \in Open
    BY <1>1 DEF CallsTyped
  <2> QED
    BY <2>1, <2>2 DEF UsedUpTo, Open
<1>4. CASE s \in {names[m] : m \in Names}
  BY <1>1, <1>4 DEF UsedUpTo, TablesTyped
<1>5. CASE s \in {First(o) : o \in {obj[t]} \cap Objects}
  BY <1>1, <1>5, FirstUsed, FirstTyped
<1> QED
  BY <1>2, <1>3, <1>4, <1>5 DEF SlotsKnown

LEMMA AddingMoves ==
  ASSUME IInv, NEW t \in Threads, Start(t) \/ Step(t)
  PROVE  /\ calls' = calls + 1 \/ (calls' = calls /\ (Adding(t)' => Adding(t)))
         /\ Construct(t) \/ AddDuplicate(t) => calls' = calls /\ Adding(t) /\ ~Adding(t)'
<1>t. CallsTyped /\ Placed(t)
  BY TypeParts DEF IInv, Places
<1>r. ASSUME NEW g, Return(t, g) PROVE calls' = calls /\ ~Adding(t)'
  BY <1>r, Returns DEF Adding
<1>1. CASE Start(t)
  <2>1. CASE MayAdd
    BY <1>1, <2>1 DEF MayAdd, Start, CallByName, CallByHandle, CallReplace, CallClose, Call, At, Construct,
         AddDuplicate
  <2>2. CASE ~MayAdd
    BY <1>t, <1>1, <2>2 DEF Start, CallByName, CallByHandle, CallReplace, CallClose, Call, Goto, At,
         Construct, AddDuplicate, CallsTyped, Adding
  <2> QED
    BY <2>1, <2>2
<1>2. CASE LockName(t) \/ ReadName(t)
  BY <1>t, <1>r, <1>2 DEF LockName, ReadName, ReadNone, ReadHandle, Goto, At, CallsTyped, Adding, Placed,
     Construct, AddDuplicate
<1>3. CASE LookupByName(t) \/ LookupAgain(t) \/ Use(t) \/ Duplicate(t)
  BY <1>t, <1>3 DEF LookupByName, LookupAgain, Use, Duplicate, Lookup, Goto, At, CallsTyped, Adding, Placed,
     Construct, AddDuplicate
<1>4. CASE ReadFirst(t)
  BY <1>t, <1>4 DEF ReadFirst, At, Adding, Construct, AddDuplicate
<1>5. CASE RetainFound(t) \/ TakeAgain(t)
  BY <1>t, <1>5 DEF RetainFound, TakeAgain, RetainHandle, Goto, At, CallsTyped, Adding, Placed,
     Construct, AddDuplicate
<1>g. ASSUME AfterRelease(t), pc[t] \in {"release", "unname"} PROVE calls' = calls /\ ~Adding(t)'
  BY <1>t, <1>r, <1>g DEF AfterRelease, Goto, CallsTyped, Adding, Placed
<1>6. CASE ReleaseHandle(t) \/ RemoveHandle(t)
  BY <1>g, <1>6 DEF ReleaseHandle, RemoveHandle, At, Construct, AddDuplicate
<1>7. CASE ReleaseLastHandle(t) \/ CloseSource(t)
  <2>1. pc[t] \notin {"construct", "addHandle"} /\ \E h, o : Clears(t, h, o)
    BY <1>7, Clearing
  <2> QED
    BY <1>t, <2>1 DEF Clears, CallsTyped, Adding, Construct, AddDuplicate, At
<1>8. CASE Construct(t)
  BY <1>t, <1>8 DEF Construct, AddDuplicate, Goto, At, CallsTyped, Adding, Placed
<1>9. CASE AddDuplicate(t)
  <2>1. calls' = calls /\ ~Adding(t)'
    BY <1>t, <1>r, <1>9 DEF AddDuplicate, Goto, At, CallsTyped, Adding, Placed
  <2> QED
    BY <1>t, <1>9, <2>1 DEF AddDuplicate, Construct, At, Adding, Placed
<1>10. CASE AddName(t) \/ ReturnHandle(t) \/ EndUse(t) \/ SourceGone(t)
  BY <1>r, <1>10 DEF AddName, ReturnHandle, EndUse, SourceGone, At, Construct, AddDuplicate
<1> QED
  BY <1>1, <1>2, <1>3, <1>4, <1>5, <1>6, <1>7, <1>8, <1>9, <1>10 DEF Step

\* Every slot that is taken out of the room left is one call less to come.
LEMMA RoomLeft ==
  ASSUME IInv, NEW t \in Threads, Start(t) \/ Step(t), NEW n \in Nat,
         n + Cardinality({u \in Threads : Adding(u)}) <= calls
  PROVE  /\ n + Cardinality({u \in Threads : Adding(u)'}) <= calls'
         /\ Construct(t) \/ AddDuplicate(t) =>
              n + 1 + Cardinality({u \in Threads : Adding(u)'}) <= calls'
<1> DEFINE A == {u \in Threads : Adding(u)}
           B == {u \in Threads : Adding(u)'}
<1>1. \A u \in Threads \ {t} : Adding(u)' <=> Adding(u)
  BY Frame DEF OthersStay, Adding
<1>2. A \in SUBSET Threads /\ B \in SUBSET Threads /\ A \ {t} = B \ {t}
  BY <1>1
<1>3. (t \in A <=> Adding(t)) /\ (t \in B <=> Adding(t)')
  OBVIOUS
<1>4. calls \in Nat
  BY TypeParts, ObjectTableAssumption DEF IInv, CallsTyped
<1> HIDE DEF A, B
<1>5. /\ Cardinality(A) \in Nat /\ Cardinality(B) \in Nat
      /\ (t \in A <=> t \in B) => Cardinality(B) = Cardinality(A)
      /\ t \notin A /\ t \in B => Cardinality(B) = Cardinality(A) + 1
      /\ t \in A /\ t \notin B => Cardinality(B) = Cardinality(A) - 1
  BY <1>2, OneChanges, ObjectTableAssumption
<1>6. n + Cardinality(A) <= calls
  BY DEF A
<1>7. /\ n + Cardinality(B) <= calls'
      /\ Construct(t) \/ AddDuplicate(t) => n + 1 + Cardinality(B) <= calls'
  BY <1>3, <1>4, <1>5, <1>6, AddingMoves
<1> QED
  BY <1>7 DEF B

LEMMA UsedBelow ==
  ASSUME TablesTyped, CallsTyped, NEW n \in Nat, UsedUpTo(n)
  PROVE  /\ \A m \in Names : names[m] <= n + 1
         /\ \A u \in Threads : handle[u] <= n + 1 /\ counted[u] <= n + 1 /\ open[u].handle <= n + 1
         /\ \A o \in Objects : erased[o] <= n + 1 /\ \A k \in 1 .. Len(handles[o]) : handles[o][k] <= n + 1
<1>1. \A x \in Slots \cup {NoHandle} : x <= n => x <= n + 1
  BY ObjectTableAssumption DEF Slots, NoHandle
<1>2. \A o \in Objects : \A k \in 1 .. Len(handles[o]) : handles[o][k] \in Slots
  BY DEF TablesTyped
<1>3. \A u \in Threads : open[u].handle \in Slots \cup {NoHandle}
  BY DEF CallsTyped, Open
<1> QED
  BY <1>1, <1>2, <1>3 DEF UsedUpTo, TablesTyped, CallsTyped

LEMMA StepSlots ==
  ASSUME IInv, [Next]_vars
  PROVE  SlotsUsedOnce'
<1>t. /\ TablesTyped /\ CallsTyped /\ TablesTyped' /\ CallsTyped'
      /\ \A u \in Threads : Placed(u)
  BY TypeParts, StepTypes DEF IInv, Places
<1>a. Capacity \in Nat /\ Capacity >= 2
  BY ObjectTableAssumption
<1>1. CASE UNCHANGED vars
  <2>1. PICK n \in 0 .. Capacity - 1 : UsedUpTo(n)
    BY DEF IInv, SlotsUsedOnce
  <2>2. UsedUpTo(n)'
    BY <1>1, <2>1 DEF vars, tableVars, nameVars, objectVars, threadVars, UsedUpTo, Adding
  <2> QED
    BY <2>2 DEF SlotsUsedOnce
<1>2. ASSUME NEW t \in Threads, Start(t) \/ Step(t), ~Construct(t), ~AddDuplicate(t) PROVE SlotsUsedOnce'
  <2>1. PICK n \in 0 .. Capacity - 1 : UsedUpTo(n)
    BY DEF IInv, SlotsUsedOnce
  <2>2. n \in Nat
    BY <1>a
  <2>3. \A u \in Threads : handle'[u] <= n /\ counted'[u] <= n /\ open'[u].handle <= n
    BY <1>2, <2>1, <2>2, Frame, Learnt, KnownUsed DEF OthersStay, UsedUpTo
  <2>4. \A m \in Names : names'[m] <= n
    BY <1>2, <2>1, <2>2, Learnt, KnownUsed
  <2>5. n + Cardinality({u \in Threads : Adding(u)'}) <= calls'
    BY <1>2, <2>1, <2>2, RoomLeft DEF UsedUpTo
  <2>6. CASE Keeping
    BY <2>1, <2>3, <2>4, <2>5, <2>6 DEF UsedUpTo, SlotsUsedOnce, Keeping
  <2>7. CASE ReleaseLastHandle(t) \/ CloseSource(t)
    <3>1. PICK h \in Slots, o \in born : Clears(t, h, o)
      BY <2>7, Clearing
    <3>2. PICK q : handles' = [handles EXCEPT ![o] = q] /\ Without(handles[o], h, q)
      BY <3>1 DEF Clears
    <3>3. o \in Objects /\ h <= n
      BY <1>t, <2>1, <3>1, ObjectTableAssumption DEF TablesTyped, UsedUpTo, Clears, Slots
    <3>4. \A x \in Objects : \A k \in 1 .. Len(handles'[x]) : handles'[x][k] <= n
      <4>1. \A k \in 1 .. Len(q) : q[k] <= n
        BY <2>1, <3>2, <3>3 DEF Without, UsedUpTo
      <4> QED
        BY <1>t, <2>1, <3>2, <3>3, <4>1 DEF TablesTyped, UsedUpTo
    <3>5. \A x \in Objects : erased'[x] <= n
      BY <1>t, <2>1, <3>1, <3>3 DEF Clears, TablesTyped, UsedUpTo
    <3>6. \A s \in Slots : s > n => table'[s] = NoObject
      BY <1>t, <2>1, <3>1 DEF Clears, TablesTyped, UsedUpTo
    <3>7. UNCHANGED <<cursor, born>>
      BY <3>1 DEF Clears
    <3> QED
      BY <2>1, <2>3, <2>4, <2>5, <3>4, <3>5, <3>6, <3>7 DEF UsedUpTo, SlotsUsedOnce
  <2> QED
    BY <1>2, <2>6, <2>7, TableSteps
<1>s. ASSUME NEW n \in 0 .. Capacity - 1, UsedUpTo(n), NEW o \in Objects, n + 1 \in Slots, AddHandle(o, n + 1)
      PROVE  /\ \A s \in Slots : s > n + 1 => table'[s] = NoObject
             /\ \A x \in Objects : \A k \in 1 .. Len(handles'[x]) : handles'[x][k] <= n + 1
  <2>1. /\ handles[o] \in Seq(Slots) /\ handles' = [handles EXCEPT ![o] = Append(handles[o], n + 1)]
        /\ table' = [table EXCEPT ![n + 1] = o]
    BY <1>t, <1>s DEF TablesTyped, AddHandle
  <2>2. \A k \in 1 .. Len(Append(handles[o], n + 1)) : Append(handles[o], n + 1)[k] <= n + 1
    <3>1. \A k \in 1 .. Len(handles[o]) : handles[o][k] <= n + 1
      BY <1>t, <1>a, <1>s, UsedBelow
    <3> QED
      BY <1>a, <2>1, <3>1
  <2>3. \A x \in Objects : \A k \in 1 .. Len(handles[x]) : handles[x][k] <= n + 1
    BY <1>t, <1>a, <1>s, UsedBelow
  <2>4. \A s \in Slots : s > n + 1 => s > n /\ s # n + 1
    BY <1>a DEF Slots
  <2>5. \A s \in Slots : s > n + 1 => table'[s] = NoObject
    BY <1>t, <1>s, <2>1, <2>4 DEF UsedUpTo, TablesTyped
  <2> QED
    BY <1>t, <2>1, <2>2, <2>3, <2>5 DEF TablesTyped
<1>3. ASSUME NEW t \in Threads, Construct(t) PROVE SlotsUsedOnce'
  <2>1. PICK n \in 0 .. Capacity - 1, o \in Objects :
           /\ UsedUpTo(n) /\ n < Capacity - 1
           /\ o \notin born /\ n + 1 \in Slots /\ AddHandle(o, n + 1)
           /\ born' = born \cup {o} /\ (n + 1 < Capacity - 1 => cursor' = n + 2)
    BY <1>3, NewObject
  <2>2. n \in Nat /\ n + 1 \in 0 .. Capacity - 1
    BY <1>a, <2>1
  <2>3. n + 1 + Cardinality({u \in Threads : Adding(u)'}) <= calls'
    BY <1>3, <2>1, <2>2, RoomLeft DEF UsedUpTo, Step
  <2>4. Cardinality(born') <= n + 1
    <3>1. IsFiniteSet(born)
      BY <1>t, FS_Subset, ObjectTableAssumption DEF TablesTyped
    <3>2. Cardinality(born') = Cardinality(born) + 1 /\ Cardinality(born) \in Nat
      BY <2>1, <3>1, FS_AddElement, FS_CardinalityType
    <3> QED
      BY <2>1, <2>2, <3>2 DEF UsedUpTo
  <2>5. UNCHANGED <<names, handle, counted, open, erased>>
    BY <1>3 DEF Construct, nameVars
  <2>6. /\ \A m \in Names : names'[m] <= n + 1
        /\ \A u \in Threads : handle'[u] <= n + 1 /\ counted'[u] <= n + 1 /\ open'[u].handle <= n + 1
        /\ \A x \in Objects : erased'[x] <= n + 1
    BY <1>t, <2>1, <2>2, <2>5, UsedBelow
  <2>7. /\ \A s \in Slots : s > n + 1 => table'[s] = NoObject
        /\ \A x \in Objects : \A k \in 1 .. Len(handles'[x]) : handles'[x][k] <= n + 1
    BY <1>s, <2>1
  <2>8. n + 1 < Capacity - 1 => cursor' = (n + 1) + 1
    BY <2>1, <2>2
  <2> QED
    BY <2>2, <2>3, <2>4, <2>6, <2>7, <2>8 DEF UsedUpTo, SlotsUsedOnce
<1>4. ASSUME NEW t \in Threads, AddDuplicate(t) PROVE SlotsUsedOnce'
  <2>1. PICK n \in 0 .. Capacity - 1 :
           /\ UsedUpTo(n) /\ n < Capacity - 1
           /\ obj[t] \in born /\ n + 1 \in Slots /\ AddHandle(obj[t], n + 1)
           /\ (n + 1 < Capacity - 1 => cursor' = n + 2)
           /\ \/ Return(t, [handle |-> n + 1, obj |-> obj[t]])
              \/ /\ open' = [open EXCEPT ![t] = [handle |-> n + 1, obj |-> obj[t]]]
                 /\ UNCHANGED <<handle, counted>>
    BY <1>4, NewDuplicate
  <2>2. n \in Nat /\ n + 1 \in 0 .. Capacity - 1
    BY <1>a, <2>1
  <2>3. n + 1 + Cardinality({u \in Threads : Adding(u)'}) <= calls'
    BY <1>4, <2>1, <2>2, RoomLeft DEF UsedUpTo, Step
  <2>4. UNCHANGED <<names, born, erased>>
    BY <1>4 DEF AddDuplicate, nameVars
  <2>5. /\ \A m \in Names : names'[m] <= n + 1
        /\ \A x \in Objects : erased'[x] <= n + 1
        /\ \A u \in Threads : handle[u] <= n + 1 /\ counted[u] <= n + 1 /\ open[u].handle <= n + 1
        /\ Cardinality(born') <= n + 1
    <3>1. Cardinality(born) \in Nat
      BY <1>t, FS_Subset, FS_CardinalityType, ObjectTableAssumption DEF TablesTyped
    <3>2. Cardinality(born) <= n
      BY <2>1 DEF UsedUpTo
    <3> QED
      BY <1>t, <2>1, <2>2, <2>4, <3>1, <3>2, UsedBelow
  <2>6. handle'[t] <= n + 1 /\ counted'[t] <= n + 1 /\ open'[t].handle <= n + 1
    <3>1. CASE Return(t, [handle |-> n + 1, obj |-> obj[t]])
      BY <2>2, <3>1, Returns DEF NoHandle
    <3>2. CASE /\ open' = [open EXCEPT ![t] = [handle |-> n + 1, obj |-> obj[t]]]
               /\ UNCHANGED <<handle, counted>>
      BY <1>t, <2>2, <2>5, <3>2 DEF CallsTyped
    <3> QED
      BY <2>1, <3>1, <3>2
  <2>7. \A u \in Threads : handle'[u] <= n + 1 /\ counted'[u] <= n + 1 /\ open'[u].handle <= n + 1
    BY <1>4, <2>5, <2>6, Frame DEF OthersStay, Step
  <2>8. /\ \A s \in Slots : s > n + 1 => table'[s] = NoObject
        /\ \A x \in Objects : \A k \in 1 .. Len(handles'[x]) : handles'[x][k] <= n + 1
    BY <1>s, <1>t, <2>1 DEF TablesTyped
  <2>9. n + 1 < Capacity - 1 => cursor' = (n + 1) + 1
    BY <2>1, <2>2
  <2> QED
    BY <2>2, <2>3, <2>5, <2>7, <2>8, <2>9 DEF UsedUpTo, SlotsUsedOnce
<1> QED
  BY <1>1, <1>2, <1>3, <1>4 DEF Next

-----------------------------------------------------------------------------
(* The table and the handles of its objects.                                *)

LEMMA AddAgrees ==
  ASSUME IInv, NEW n \in Nat, UsedUpTo(n), n + 1 \in Slots, table[n + 1] = NoObject,
         NEW o \in Objects, AddHandle(o, n + 1), UNCHANGED erased,
         \/ o \in born /\ born' = born /\ duplicated' = duplicated \cup {o}
         \/ o \notin born /\ born' = born \cup {o} /\ duplicated' = duplicated
  PROVE  HandlesAgree'
<1>t. /\ TablesTyped /\ HandlesAgree /\ o # NoObject /\ handles[o] \in Seq(Slots)
  BY TypeParts, ObjectTableAssumption DEF IInv, TablesTyped
<1> DEFINE s == n + 1
           q == Append(handles[o], s)
<1>1. /\ \A x \in Slots \ {s} : table'[x] = table[x]
      /\ table'[s] = o
  BY <1>t DEF AddHandle, TablesTyped
<1>2. handles'[o] = q /\ \A x \in Objects \ {o} : handles'[x] = handles[x]
  BY <1>t DEF AddHandle, TablesTyped
<1>3. /\ q \in Seq(Slots) /\ Len(q) = Len(handles[o]) + 1 /\ Len(handles[o]) \in Nat
      /\ q[Len(q)] = s /\ \A k \in 1 .. Len(handles[o]) : q[k] = handles[o][k]
  BY <1>t
<1>4. /\ \A x \in Objects : handles[x] \in Seq(Slots) /\ \A k \in 1 .. Len(handles[x]) :
           handles[x][k] \in Slots \ {s} /\ table[handles[x][k]] = x
      /\ \A x \in Objects : erased[x] # NoHandle => erased[x] \in Slots \ {s}
  <2>1. \A x : x <= n => x # n + 1
    <3>1. ASSUME n + 1 <= n PROVE FALSE
      BY <3>1
    <3> QED
      BY <3>1
  <2> QED
    BY <1>t, <2>1 DEF TablesTyped, HandlesAgree, UsedUpTo
<1>5. born \subseteq born' /\ duplicated \subseteq duplicated' /\ o \in born' /\ born' \ {o} = born \ {o}
  OBVIOUS
<1> HIDE DEF s, q
<1>6. ASSUME NEW x \in Slots, table'[x] # NoObject
      PROVE  /\ table'[x] \in born'
             /\ \E k \in 1 .. Len(handles'[table'[x]]) : handles'[table'[x]][k] = x
  <2>1. CASE x = s
    BY <1>1, <1>2, <1>3, <1>5, <2>1
  <2>2. CASE x # s
    <3>1. table'[x] = table[x] /\ table[x] \in born /\ table[x] \in Objects
      BY <1>t, <1>1, <1>6, <2>2 DEF HandlesAgree, TablesTyped
    <3>2. PICK k \in 1 .. Len(handles[table[x]]) : handles[table[x]][k] = x
      BY <1>t, <1>6, <3>1 DEF HandlesAgree
    <3>3. CASE table[x] = o
      BY <1>2, <1>3, <1>5, <3>1, <3>2, <3>3
    <3>4. CASE table[x] # o
      BY <1>2, <1>5, <3>1, <3>2, <3>4
    <3> QED
      BY <3>3, <3>4
  <2> QED
    BY <2>1, <2>2
<1>7. ASSUME NEW x \in Objects, NEW k \in 1 .. Len(handles'[x])
      PROVE  /\ table'[handles'[x][k]] = x
             /\ \A j \in 1 .. Len(handles'[x]) : handles'[x][j] = handles'[x][k] => j = k
  <2>1. CASE x = o
    <3>1. k = Len(q) \/ k \in 1 .. Len(handles[o])
      BY <1>2, <1>3, <2>1
    <3>2. \A j \in 1 .. Len(q) : j = Len(q) \/ j \in 1 .. Len(handles[o])
      BY <1>3
    <3>3. \A j \in 1 .. Len(handles[o]) : q[j] = handles[o][j] /\ q[j] \in Slots \ {s} /\ table[q[j]] = o
      BY <1>3, <1>4
    <3>4. \A i, j \in 1 .. Len(handles[o]) : handles[o][i] = handles[o][j] => i = j
      BY <1>t DEF HandlesAgree
    <3>5. table'[q[k]] = o
      BY <1>1, <1>3, <3>1, <3>3
    <3>6. \A j \in 1 .. Len(q) : q[j] = q[k] => j = k
      BY <1>3, <3>1, <3>2, <3>3, <3>4
    <3> QED
      BY <1>2, <2>1, <3>5, <3>6
  <2>2. CASE x # o
    <3>1. handles'[x] = handles[x]
      BY <1>2, <2>2
    <3>2. handles[x][k] \in Slots \ {s} /\ table[handles[x][k]] = x
      BY <1>4, <1>7, <3>1
    <3> QED
      BY <1>t, <1>1, <1>7, <3>1, <3>2 DEF HandlesAgree
  <2> QED
    BY <2>1, <2>2
<1>8. \A x \in Objects : erased'[x] # NoHandle => table'[erased'[x]] = NoObject
  BY <1>t, <1>1, <1>4 DEF HandlesAgree
<1>9. \A x \in born' : handles'[x] = <<>> => erased'[x] # NoHandle
  BY <1>t, <1>2, <1>3, <1>5 DEF HandlesAgree, TablesTyped
<1>10. \A x \in born' \ duplicated' : Len(handles'[x]) <= 1
  <2>1. o \notin born => handles[o] = <<>>
    BY <1>t DEF HandlesAgree
  <2> QED
    BY <1>t, <1>2, <1>3, <2>1 DEF HandlesAgree, TablesTyped
<1>11. \A x \in Objects \ born' : handles'[x] = <<>>
  BY <1>t, <1>2, <1>5 DEF HandlesAgree
<1> QED
  BY <1>6, <1>7, <1>8, <1>9, <1>10, <1>11 DEF HandlesAgree

LEMMA ClearAgrees ==
  ASSUME IInv, NEW t \in Threads, NEW h \in Slots, NEW o \in born, Clears(t, h, o)
  PROVE  HandlesAgree'
<1>t. /\ TablesTyped /\ HandlesAgree /\ o \in Objects /\ o # NoObject /\ h # NoHandle
  BY TypeParts, ObjectTableAssumption DEF IInv, TablesTyped, Slots, NoHandle
<1>1. /\ \A x \in Slots \ {h} : table'[x] = table[x]
      /\ table'[h] = NoObject /\ table[h] = o
      /\ erased'[o] = h /\ \A x \in Objects \ {o} : erased'[x] = erased[x]
      /\ UNCHANGED <<born, duplicated>>
  BY <1>t DEF Clears, TablesTyped
<1>2. PICK q : handles' = [handles EXCEPT ![o] = q] /\ Without(handles[o], h, q)
  BY DEF Clears
<1>3. handles'[o] = q /\ \A x \in Objects \ {o} : handles'[x] = handles[x]
  BY <1>t, <1>2 DEF TablesTyped
<1>4. ASSUME NEW x \in Slots, table'[x] # NoObject
      PROVE  /\ table'[x] \in born'
             /\ \E k \in 1 .. Len(handles'[table'[x]]) : handles'[table'[x]][k] = x
  <2>1. x # h /\ table'[x] = table[x] /\ table[x] \in born
    BY <1>t, <1>1, <1>4 DEF HandlesAgree
  <2>2. PICK k \in 1 .. Len(handles[table[x]]) : handles[table[x]][k] = x
    BY <1>t, <1>4, <2>1 DEF HandlesAgree
  <2>3. CASE table[x] = o
    BY <1>1, <1>2, <1>3, <2>1, <2>2, <2>3 DEF Without
  <2>4. CASE table[x] # o
    BY <1>t, <1>1, <1>3, <2>1, <2>2, <2>4 DEF TablesTyped
  <2> QED
    BY <2>3, <2>4
<1>5. ASSUME NEW x \in Objects, NEW k \in 1 .. Len(handles'[x])
      PROVE  /\ table'[handles'[x][k]] = x
             /\ \A j \in 1 .. Len(handles'[x]) : handles'[x][j] = handles'[x][k] => j = k
  <2>1. CASE x = o
    <3>1. q[k] # h /\ q[k] \in Slots /\ \E j \in 1 .. Len(handles[o]) : handles[o][j] = q[k]
      BY <1>2, <1>3, <1>5, <2>1 DEF Without
    <3>2. table[q[k]] = o
      BY <1>t, <3>1 DEF HandlesAgree
    <3>3. table'[q[k]] = o
      BY <1>1, <3>1, <3>2
    <3>4. \A j \in 1 .. Len(q) : q[j] = q[k] => j = k
      BY <1>2, <1>3, <1>5, <2>1 DEF Without
    <3> QED
      BY <1>3, <2>1, <3>3, <3>4
  <2>2. CASE x # o
    <3>1. handles'[x] = handles[x] /\ k \in 1 .. Len(handles[x])
      BY <1>3, <1>5, <2>2
    <3>2. handles[x] \in Seq(Slots)
      BY <1>t DEF TablesTyped
    <3>3. handles[x][k] \in Slots
      BY <3>1, <3>2
    <3>4. table[handles[x][k]] = x
      BY <1>t, <3>1 DEF HandlesAgree
    <3> QED
      BY <1>t, <1>1, <2>2, <3>1, <3>3, <3>4 DEF HandlesAgree
  <2> QED
    BY <2>1, <2>2
<1>6. ASSUME NEW x \in Objects, erased'[x] # NoHandle PROVE table'[erased'[x]] = NoObject
  <2>1. CASE x = o
    BY <1>1, <2>1
  <2>2. CASE x # o
    <3>1. erased'[x] = erased[x] /\ erased[x] \in Slots /\ table[erased[x]] = NoObject
      BY <1>t, <1>1, <1>6, <2>2 DEF HandlesAgree, TablesTyped
    <3> QED
      BY <1>1, <3>1
  <2> QED
    BY <2>1, <2>2
<1>7. \A x \in born' : handles'[x] = <<>> => erased'[x] # NoHandle
  BY <1>t, <1>1, <1>3 DEF HandlesAgree, TablesTyped
<1>8. \A x \in born' \ duplicated' : Len(handles'[x]) <= 1
  <2>1. handles[o] \in Seq(Slots)
    BY <1>t DEF TablesTyped
  <2>2. Len(handles[o]) <= 1 => Len(q) <= 1
    BY <1>2, <2>1 DEF Without
  <2> QED
    BY <1>t, <1>1, <1>3, <2>2 DEF HandlesAgree, TablesTyped
<1>9. \A x \in Objects \ born' : handles'[x] = <<>>
  BY <1>t, <1>1, <1>3 DEF HandlesAgree
<1> QED
  BY <1>4, <1>5, <1>6, <1>7, <1>8, <1>9 DEF HandlesAgree

LEMMA StepHandlesAgree ==
  ASSUME IInv, [Next]_vars
  PROVE  HandlesAgree'
<1>1. CASE Keeping \/ UNCHANGED vars
  <2>1. Keeping
    BY <1>1 DEF Keeping, vars, tableVars, objectVars
  <2> QED
    BY <2>1 DEF Keeping, IInv, HandlesAgree
<1>2. ASSUME NEW t \in Threads, ReleaseLastHandle(t) \/ CloseSource(t) PROVE HandlesAgree'
  BY <1>2, Clearing, ClearAgrees
<1>3. ASSUME NEW t \in Threads, Construct(t) PROVE HandlesAgree'
  <2>1. PICK n \in 0 .. Capacity - 1, o \in Objects :
           /\ UsedUpTo(n) /\ o \notin born /\ n + 1 \in Slots /\ AddHandle(o, n + 1)
           /\ born' = born \cup {o} /\ table[n + 1] = NoObject
    BY <1>3, NewObject
  <2>2. UNCHANGED <<erased, duplicated>> /\ n \in Nat
    BY <1>3, ObjectTableAssumption DEF Construct
  <2> QED
    BY <2>1, <2>2, AddAgrees
<1>4. ASSUME NEW t \in Threads, AddDuplicate(t) PROVE HandlesAgree'
  <2>1. PICK n \in 0 .. Capacity - 1 :
           /\ UsedUpTo(n) /\ obj[t] \in born /\ n + 1 \in Slots /\ AddHandle(obj[t], n + 1)
           /\ duplicated' = duplicated \cup {obj[t]} /\ table[n + 1] = NoObject
    BY <1>4, NewDuplicate
  <2>2. UNCHANGED <<erased, born>> /\ n \in Nat /\ obj[t] \in Objects
    BY <1>4, <2>1, TypeParts, ObjectTableAssumption DEF AddDuplicate, IInv, TablesTyped
  <2> QED
    BY <2>1, <2>2, AddAgrees
<1> QED
  BY <1>1, <1>2, <1>3, <1>4, TableSteps DEF Next

-----------------------------------------------------------------------------
(* What a step leaves of the slots that are known.                          *)

LEMMA Stable ==
  ASSUME IInv, NEW t \in Threads, Start(t) \/ Step(t)
  PROVE  /\ \E n \in Nat : UsedUpTo(n) /\ \A s \in Slots : s <= n => table'[s] \in {table[s], NoObject}
         /\ born \subseteq born' /\ duplicated \subseteq duplicated'
         /\ \A o \in born \ duplicated' : First(o)' = First(o)
<1>t. /\ TablesTyped /\ HandlesAgree
  BY TypeParts DEF IInv
<1>n. \A k \in 0 .. Capacity - 1 : k \in Nat
  BY ObjectTableAssumption
<1>u. \E n \in Nat : UsedUpTo(n)
  BY <1>n DEF IInv, SlotsUsedOnce
<1>1. CASE Keeping
  BY <1>t, <1>u, <1>1 DEF Keeping, First
<1>2. CASE ReleaseLastHandle(t) \/ CloseSource(t)
  <2>1. PICK h \in Slots, o \in born : Clears(t, h, o)
    BY <1>2, Clearing
  <2>2. PICK q : handles' = [handles EXCEPT ![o] = q] /\ Without(handles[o], h, q)
    BY <2>1 DEF Clears
  <2>3. o \in Objects /\ handles[o] \in Seq(Slots)
    BY <1>t, <2>1 DEF TablesTyped
  <2>4. \A s \in Slots : table'[s] \in {table[s], NoObject}
    BY <1>t, <2>1 DEF Clears, TablesTyped
  <2>5. born' = born /\ duplicated' = duplicated
    BY <2>1 DEF Clears
  <2>6. ASSUME o \notin duplicated PROVE First(o)' = First(o)
    <3>1. h = First(o)
      BY <2>1, <2>6, FirstDenotes DEF Clears
    <3>2. Len(handles[o]) <= 1 /\ \E k \in 1 .. Len(handles[o]) : handles[o][k] = h
      <4>1. o # NoObject /\ table[h] = o
        BY <2>1, <2>3, ObjectTableAssumption DEF Clears
      <4> QED
        BY <1>t, <2>1, <2>6, <4>1 DEF HandlesAgree
    <3>3. q = <<>>
      BY <2>2, <3>2 DEF Without
    <3>4. handles'[o] = <<>> /\ erased'[o] = h
      BY <1>t, <2>1, <2>2, <2>3, <3>3 DEF Clears, TablesTyped
    <3> QED
      BY <3>1, <3>4 DEF First
  <2>7. \A x \in born \ {o} : First(x)' = First(x)
    BY <1>t, <2>1, <2>2, <2>3 DEF Clears, TablesTyped, First
  <2> QED
    BY <1>u, <2>4, <2>5, <2>6, <2>7
<1>a. ASSUME NEW k \in 0 .. Capacity - 1, UsedUpTo(k), k + 1 \in Slots, NEW o \in Objects,
             AddHandle(o, k + 1), UNCHANGED erased
      PROVE  /\ \A x \in Objects \ {o} : First(x)' = First(x)
             /\ \E n \in Nat : UsedUpTo(n) /\ \A s \in Slots : s <= n => table'[s] \in {table[s], NoObject}
  <2>1. \A x \in Objects \ {o} : First(x)' = First(x)
    BY <1>t, <1>a DEF AddHandle, TablesTyped, First
  <2>2. ~(k + 1 <= k)
    BY <1>n
  <2>3. \A s \in Slots : s <= k => table'[s] = table[s]
    BY <1>t, <1>a, <2>2 DEF AddHandle, TablesTyped
  <2> QED
    BY <1>n, <1>a, <2>1, <2>3
<1>3. CASE Construct(t)
  <2>1. PICK n \in 0 .. Capacity - 1, o \in Objects :
           /\ UsedUpTo(n) /\ o \notin born /\ n + 1 \in Slots /\ AddHandle(o, n + 1)
           /\ born' = born \cup {o}
    BY <1>3, NewObject
  <2>2. UNCHANGED <<erased, duplicated>> /\ born \subseteq Objects \ {o}
    BY <1>t, <1>3, <2>1 DEF Construct, TablesTyped
  <2> QED
    BY <1>a, <2>1, <2>2
<1>4. CASE AddDuplicate(t)
  <2>1. PICK n \in 0 .. Capacity - 1 :
           /\ UsedUpTo(n) /\ obj[t] \in born /\ n + 1 \in Slots /\ AddHandle(obj[t], n + 1)
           /\ duplicated' = duplicated \cup {obj[t]}
    BY <1>4, NewDuplicate
  <2>2. UNCHANGED <<erased, born>> /\ born \subseteq Objects
    BY <1>t, <1>4 DEF AddDuplicate, TablesTyped
  <2> QED
    BY <1>a, <2>1, <2>2
<1> QED
  BY <1>1, <1>2, <1>3, <1>4, TableSteps

\* A slot that a call knows is not given to another object.
LEMMA KnownKept ==
  ASSUME IInv, NEW t \in Threads, Start(t) \/ Step(t), NEW u \in Threads, NEW s \in SlotsKnown(u), s # NoHandle
  PROVE  s \in Slots /\ table'[s] \in {table[s], NoObject}
<1>1. PICK n \in Nat : UsedUpTo(n) /\ \A x \in Slots : x <= n => table'[x] \in {table[x], NoObject}
  BY Stable
<1> QED
  BY <1>1, KnownUsed

\* Nor is a slot an object had.
LEMMA FirstKept ==
  ASSUME IInv, NEW t \in Threads, Start(t) \/ Step(t), NEW o \in born
  PROVE  First(o) \in Slots /\ table'[First(o)] \in {table[First(o)], NoObject}
<1>1. PICK n \in Nat : UsedUpTo(n) /\ \A x \in Slots : x <= n => table'[x] \in {table[x], NoObject}
  BY Stable
<1>2. First(o) \in Slots /\ First(o) <= n
  BY <1>1, FirstDenotes, FirstUsed, TypeParts DEF IInv, TablesTyped
<1> QED
  BY <1>1, <1>2

\* Only a call that creates names an object.
LEMMA NamesGiven ==
  ASSUME IInv, NEW t \in Threads, Start(t) \/ Step(t), ~AddName(t)
  PROVE  UNCHANGED nameOf /\ \A m \in Names : names'[m] \in {names[m], NoHandle}
<1>1. CASE Start(t)
  BY <1>1 DEF Start, CallByName, CallByHandle, CallReplace, CallClose, Call, nameVars, objectVars
<1>2. CASE LockName(t) \/ ReadName(t)
  BY <1>2 DEF LockName, ReadName, objectVars
<1>3. CASE LookupByName(t) \/ LookupAgain(t) \/ Use(t) \/ Duplicate(t)
  BY <1>3 DEF LookupByName, LookupAgain, Use, Duplicate, Lookup, nameVars
<1>4. CASE ReadFirst(t)
  BY <1>4 DEF ReadFirst, nameVars, objectVars
<1>5. CASE RetainFound(t) \/ TakeAgain(t)
  BY <1>5 DEF RetainFound, TakeAgain, RetainHandle, nameVars, objectVars
<1>6. CASE ReleaseHandle(t) \/ RemoveHandle(t)
  BY <1>6 DEF ReleaseHandle, RemoveHandle, nameVars, objectVars
<1>7. CASE ReleaseLastHandle(t) \/ CloseSource(t)
  BY <1>7 DEF ReleaseLastHandle, CloseSource, ClearEntry, nameVars
<1>8. CASE Construct(t) \/ AddDuplicate(t)
  BY <1>8 DEF Construct, AddDuplicate, nameVars
<1>9. CASE ReturnHandle(t) \/ EndUse(t) \/ SourceGone(t)
  BY <1>9 DEF ReturnHandle, EndUse, SourceGone, nameVars, objectVars
<1> QED
  BY <1>1, <1>2, <1>3, <1>4, <1>5, <1>6, <1>7, <1>8, <1>9 DEF Step

LEMMA StepKnownAreBorn ==
  ASSUME IInv, [Next]_vars
  PROVE  KnownAreBorn'
<1>t. /\ TablesTyped /\ CallsTyped /\ HandlesAgree /\ KnownAreBorn
      /\ \A u \in Threads : Placed(u)
  BY TypeParts DEF IInv, Places
<1>1. CASE UNCHANGED vars
  BY <1>t, <1>1 DEF vars, objectVars, threadVars, KnownAreBorn
<1>2. ASSUME NEW t \in Threads, Start(t) \/ Step(t) PROVE KnownAreBorn'
  <2>1. born \subseteq born'
    BY <1>2, Stable
  <2>2. \A u \in Threads \ {t} : obj'[u] \in born' \cup {NoObject} /\ open'[u].obj \in born' \cup {NoObject}
    BY <1>t, <1>2, <2>1, Frame DEF OthersStay, KnownAreBorn
  <2>3. obj'[t] \in born' \cup {NoObject} /\ open'[t].obj \in born' \cup {NoObject}
    <3>1. CASE ~Construct(t) /\ ~AddDuplicate(t)
      <4>1. \A s \in Slots : table[s] \in born \cup {NoObject}
        BY <1>t DEF HandlesAgree
      <4> QED
        BY <1>t, <1>2, <2>1, <3>1, <4>1, Learnt DEF KnownAreBorn
    <3>2. CASE Construct(t)
      <4>1. PICK o \in Objects : born' = born \cup {o} /\ obj' = [obj EXCEPT ![t] = o]
        BY <3>2, NewObject
      <4> QED
        BY <1>t, <3>2, <4>1 DEF Construct, CallsTyped, KnownAreBorn
    <3>3. CASE AddDuplicate(t)
      <4>1. PICK s \in Slots :
              /\ obj[t] \in born
              /\ \/ Return(t, [handle |-> s, obj |-> obj[t]])
                 \/ /\ open' = [open EXCEPT ![t] = [handle |-> s, obj |-> obj[t]]]
                    /\ obj' = [obj EXCEPT ![t] = NoObject]
        BY <3>3, NewDuplicate
      <4> QED
        BY <1>t, <2>1, <4>1, Returns DEF CallsTyped
    <3> QED
      BY <3>1, <3>2, <3>3
  <2>4. \A o \in Objects \ born' : nameOf'[o] = NoName
    <3>1. CASE AddName(t)
      <4>1. obj[t] \in born /\ UNCHANGED born
        BY <1>t, <3>1 DEF AddName, At, Placed, KnownAreBorn
      <4> QED
        BY <1>t, <3>1, <4>1 DEF AddName, TablesTyped, KnownAreBorn
    <3>2. CASE ~AddName(t)
      <4>1. UNCHANGED nameOf
        BY <1>2, <3>2, NamesGiven
      <4> QED
        BY <1>t, <2>1, <4>1 DEF KnownAreBorn
    <3> QED
      BY <3>1, <3>2
  <2> QED
    BY <2>2, <2>3, <2>4 DEF KnownAreBorn
<1> QED
  BY <1>1, <1>2 DEF Next

-----------------------------------------------------------------------------
(* What the calls know.                                                     *)

LEMMA OthersKnow ==
  ASSUME IInv, NEW t \in Threads, Start(t) \/ Step(t), NEW u \in Threads \ {t}
  PROVE  CallKnows(u)'
<1>t. /\ Placed(u) /\ CallKnows(u) /\ obj[u] \in born \cup {NoObject}
      /\ {handle[u], counted[u]} \subseteq SlotsKnown(u)
  BY DEF IInv, Places, CallsKnow, KnownAreBorn, SlotsKnown
<1>1. /\ pc'[u] = pc[u] /\ handle'[u] = handle[u] /\ obj'[u] = obj[u] /\ counted'[u] = counted[u]
  BY Frame DEF OthersStay
<1>2. \A s \in {handle[u], counted[u]} : s # NoHandle => table'[s] \in {table[s], NoObject}
  BY <1>t, KnownKept
<1>3. /\ duplicated \subseteq duplicated'
      /\ obj[u] \in born \ duplicated' =>
           (IF handles'[obj[u]] = <<>> THEN erased'[obj[u]] ELSE Head(handles'[obj[u]])) = First(obj[u])
  BY Stable DEF First
<1>4. pc[u] \in {"retain", "addHandle"} => handle[u] # NoHandle /\ obj[u] # NoObject
  BY <1>t DEF Placed
<1>5. pc[u] = "remove" => handle[u] # NoHandle
  BY <1>t DEF Placed
<1>6. (pc[u] \in {"retain", "addHandle"} => Denotes(handle[u], obj[u]))'
  BY <1>t, <1>1, <1>2, <1>4 DEF CallKnows, Denotes
<1>7. (pc[u] = "retain" /\ obj[u] \notin duplicated => handle[u] = First(obj[u]))'
  BY <1>t, <1>1, <1>3, <1>4 DEF CallKnows, First
<1>8. (counted[u] # NoHandle /\ obj[u] # NoObject =>
         /\ Denotes(counted[u], obj[u])
         /\ obj[u] \notin duplicated => counted[u] = First(obj[u]))'
  <2>1. (counted[u] # NoHandle /\ obj[u] # NoObject => Denotes(counted[u], obj[u]))'
    BY <1>t, <1>1, <1>2 DEF CallKnows, Denotes
  <2>2. (counted[u] # NoHandle /\ obj[u] # NoObject /\ obj[u] \notin duplicated => counted[u] = First(obj[u]))'
    BY <1>t, <1>1, <1>3 DEF CallKnows, First
  <2> QED
    BY <2>1, <2>2
<1>9. (pc[u] = "remove" => table[handle[u]] \in duplicated \cup {NoObject})'
  BY <1>t, <1>1, <1>2, <1>3, <1>5 DEF CallKnows
<1> QED
  BY <1>6, <1>7, <1>8, <1>9 DEF CallKnows

LEMMA CallerKnows ==
  ASSUME IInv, NEW t \in Threads, Start(t) \/ Step(t)
  PROVE  CallKnows(t)'
<1>t. /\ TablesTyped /\ CallsTyped /\ HandlesAgree /\ Placed(t) /\ CallKnows(t) /\ obj[t] \in born \cup {NoObject}
      /\ handle[t] \in SlotsKnown(t) /\ born \subseteq Objects /\ NoObject \notin born
  BY TypeParts, ObjectTableAssumption DEF IInv, Places, CallsKnow, KnownAreBorn, SlotsKnown, TablesTyped
<1>q. ASSUME pc'[t] \notin {"retain", "addHandle", "remove"}, counted'[t] = NoHandle \/ obj'[t] = NoObject
      PROVE  CallKnows(t)'
  BY <1>q DEF CallKnows
<1>r. ASSUME NEW g, Return(t, g) PROVE CallKnows(t)'
  BY <1>q, <1>r, Returns
<1>1. CASE Start(t)
  BY <1>t, <1>q, <1>1 DEF Start, CallByName, CallByHandle, CallReplace, CallClose, Call, Goto, At, CallsTyped,
     Placed, Empty
<1>2. CASE LockName(t) \/ ReadName(t)
  BY <1>t, <1>q, <1>r, <1>2 DEF LockName, ReadName, ReadNone, ReadHandle, Goto, At, CallsTyped, Placed, Empty
<1>l. ASSUME NEW f, NEW n, Lookup(t, f, n), handle[t] # NoHandle, counted[t] = NoHandle,
             f \in {"retain", "addHandle", "release", "using"}, n \notin {"retain", "addHandle"}
      PROVE  CallKnows(t)'
  <2> DEFINE o == table[handle[t]]
  <2>1. /\ pc'[t] = (IF o = NoObject THEN n ELSE f) /\ obj'[t] = o /\ handle'[t] = handle[t]
        /\ counted'[t] = NoHandle /\ UNCHANGED <<table, handles, erased, duplicated>>
    BY <1>t, <1>l DEF Lookup, tableVars, Goto, CallsTyped
  <2>2. o # NoObject => o \in born /\ (o \notin duplicated => handle[t] = First(o))
    <3>1. handle[t] \in Slots
      BY <1>t, <1>l DEF CallsTyped
    <3>2. o # NoObject => o \in born
      BY <1>t, <3>1 DEF HandlesAgree
    <3> QED
      BY <3>1, <3>2, FirstDenotes
  <2> HIDE DEF o
  <2>3. table'[handle[t]] = o
    BY <2>1 DEF o
  <2>4. CASE o = NoObject
    BY <1>l, <2>1, <2>3, <2>4 DEF CallKnows
  <2>5. CASE o # NoObject
    BY <1>l, <2>1, <2>2, <2>3, <2>5 DEF CallKnows, Denotes, First
  <2> QED
    BY <2>4, <2>5
<1>3. CASE LookupByName(t) \/ LookupAgain(t) \/ Use(t) \/ Duplicate(t)
  <2>1. handle[t] # NoHandle /\ counted[t] = NoHandle
    BY <1>t, <1>3 DEF LookupByName, LookupAgain, Use, Duplicate, At, Placed, Empty
  <2>2. \E f \in {"retain", "addHandle", "release", "using"}, n \in Pc \ {"retain", "addHandle"} : Lookup(t, f, n)
    BY <1>3 DEF LookupByName, LookupAgain, Use, Duplicate, Pc
  <2> QED
    BY <1>l, <2>1, <2>2
<1>4. CASE ReadFirst(t)
  <2>1. /\ pc[t] \in {"retain", "release", "takeAgain"} /\ counted'[t] = First(obj[t]) /\ counted[t] = NoHandle
        /\ UNCHANGED <<pc, handle, obj, table, handles, erased, duplicated>>
    BY <1>t, <1>4 DEF ReadFirst, tableVars, objectVars, CallsTyped
  <2>2. obj[t] \in born
    BY <1>t, <2>1 DEF Placed
  <2>3. Denotes(First(obj[t]), obj[t])
    BY <2>2, FirstDenotes
  <2> QED
    BY <1>t, <2>1, <2>3 DEF CallKnows, Denotes, First
<1>5. CASE RetainFound(t) \/ TakeAgain(t)
  BY <1>t, <1>q, <1>5 DEF RetainFound, TakeAgain, RetainHandle, Goto, CallsTyped
<1>g. ASSUME AfterRelease(t) PROVE CallKnows(t)'
  BY <1>t, <1>q, <1>r, <1>g DEF AfterRelease, Goto, CallsTyped
<1>6. CASE ReleaseHandle(t) \/ RemoveHandle(t)
  BY <1>g, <1>6 DEF ReleaseHandle, RemoveHandle
<1>7. CASE ReleaseLastHandle(t) \/ CloseSource(t)
  <2>1. PICK h \in Slots, o \in born : Clears(t, h, o) /\ (counted[t] = h \/ counted[t] = NoHandle)
    BY <1>7, Clearing
  <2>2. /\ pc'[t] = "unname" /\ counted'[t] = counted[t] /\ obj'[t] = o
        /\ table'[h] = NoObject /\ table[h] = o /\ duplicated' = duplicated
    BY <1>t, <2>1 DEF Clears, CallsTyped, TablesTyped
  <2>3. o \notin duplicated =>
          (IF handles'[o] = <<>> THEN erased'[o] ELSE Head(handles'[o])) = h
    <3>1. o \notin duplicated => First(o) = h
      BY <2>1, <2>2, FirstDenotes
    <3>2. o \notin duplicated' => First(o)' = First(o)
      BY <2>1, Stable
    <3> QED
      BY <2>2, <3>1, <3>2 DEF First
  <2> QED
    BY <2>1, <2>2, <2>3 DEF CallKnows, Denotes, First
<1>8. CASE Construct(t)
  BY <1>t, <1>q, <1>8 DEF Construct, Goto, At, CallsTyped, Placed, Empty
<1>9. CASE AddDuplicate(t)
  <2>1. PICK s \in Slots :
          /\ obj[t] \in born /\ duplicated' = duplicated \cup {obj[t]}
          /\ \/ Return(t, [handle |-> s, obj |-> obj[t]])
             \/ /\ Goto(t, "remove") /\ obj' = [obj EXCEPT ![t] = NoObject]
                /\ UNCHANGED <<handle, counted>>
    BY <1>9, NewDuplicate
  <2>2. CASE /\ Goto(t, "remove") /\ obj' = [obj EXCEPT ![t] = NoObject]
             /\ UNCHANGED <<handle, counted>>
    <3>1. pc[t] = "addHandle" /\ handle[t] # NoHandle /\ Denotes(handle[t], obj[t])
      BY <1>t, <1>9 DEF AddDuplicate, At, Placed, CallKnows
    <3>2. table'[handle[t]] \in {table[handle[t]], NoObject}
      BY <1>t, <3>1, KnownKept
    <3>3. table'[handle[t]] \in {obj[t], NoObject}
      BY <3>1, <3>2 DEF Denotes
    <3>4. pc'[t] = "remove" /\ obj'[t] = NoObject /\ handle' = handle
      BY <1>t, <2>2 DEF Goto, CallsTyped
    <3> QED
      BY <2>1, <3>3, <3>4 DEF CallKnows
  <2> QED
    BY <1>r, <2>1, <2>2
<1>10. CASE AddName(t) \/ ReturnHandle(t) \/ EndUse(t) \/ SourceGone(t)
  BY <1>r, <1>10 DEF AddName, ReturnHandle, EndUse, SourceGone
<1> QED
  BY <1>1, <1>2, <1>3, <1>4, <1>5, <1>6, <1>7, <1>8, <1>9, <1>10 DEF Step

LEMMA StepCallsKnow ==
  ASSUME IInv, [Next]_vars
  PROVE  CallsKnow'
<1>1. CASE UNCHANGED vars
  BY <1>1 DEF vars, tableVars, objectVars, threadVars, IInv, CallsKnow, CallKnows, Denotes, First
<1>2. ASSUME NEW t \in Threads, Start(t) \/ Step(t) PROVE CallsKnow'
  BY <1>2, OthersKnow, CallerKnows DEF CallsKnow
<1> QED
  BY <1>1, <1>2 DEF Next

-----------------------------------------------------------------------------
(* Nobody knows a new object.                                               *)

LEMMA OthersStayPrivate ==
  ASSUME IInv, NEW t \in Threads, Start(t) \/ Step(t), NEW v \in Threads \ {t}, pc[v] = "addName"
  PROVE  Private(v, First(obj[v]))'
<1> DEFINE o == obj[v]
           s == First(o)
<1>t. TablesTyped /\ CallsTyped /\ HandlesAgree /\ KnownAreBorn /\ NoObject \notin Objects
  BY TypeParts, ObjectTableAssumption DEF IInv
<1>1. o \in born /\ o \in Objects /\ o # NoObject
  <2>1. Placed(v)
    BY DEF IInv, Places
  <2> QED
    BY <1>t, <2>1 DEF Placed, KnownAreBorn, TablesTyped
<1>2. /\ Private(v, s) /\ s \in Slots
      /\ \A x \in Slots : table[x] = o => x = s
  BY <1>1, FirstDenotes DEF IInv, NewIsPrivate, Private
<1>3. s \notin SlotsKnown(t)
  <2>1. ASSUME obj[t] \in Objects PROVE First(obj[t]) # s
    <3>1. obj[t] \in born /\ obj[t] # o
      BY <1>t, <1>2, <2>1 DEF KnownAreBorn, Private
    <3>2. Denotes(First(obj[t]), obj[t])
      BY <3>1, FirstDenotes
    <3> QED
      BY <1>1, <1>2, <3>1, <3>2 DEF Denotes, Private
  <2>2. s # NoHandle
    BY <1>2 DEF Slots, NoHandle
  <2> QED
    BY <1>2, <2>1, <2>2 DEF SlotsKnown, Private
<1> HIDE DEF o, s
<1>4. /\ table'[s] = o /\ o \notin duplicated'
      /\ nameOf'[o] = NoName
      /\ obj'[t] # o /\ handle'[t] # s /\ counted'[t] # s /\ open'[t].handle # s
      /\ \A m \in Names : names'[m] # s
  <2>1. CASE ~Construct(t) /\ ~AddDuplicate(t)
    <3>1. /\ handle'[t] # s /\ counted'[t] # s /\ open'[t].handle # s
          /\ \A m \in Names : names'[m] # s
      BY <1>3, <2>1, Learnt
    <3>2. obj'[t] # o
      <4>1. obj[t] # o
        BY <1>2 DEF Private, o
      <4> QED
        BY <1>1, <1>2, <1>3, <2>1, <4>1, Learnt
    <3>3. table'[s] = o /\ o \notin duplicated'
      <4>1. table[s] = o /\ o \notin duplicated
        BY <1>2 DEF Private, o
      <4>2. CASE Keeping
        BY <4>1, <4>2 DEF Keeping
      <4>3. CASE ReleaseLastHandle(t) \/ CloseSource(t)
        <5>1. PICK h \in Slots, x \in born : Clears(t, h, x) /\ (counted[t] = h \/ handle[t] = h)
          BY <4>3, Clearing
        <5>2. h # s
          BY <1>3, <5>1 DEF SlotsKnown
        <5> QED
          BY <1>t, <1>2, <4>1, <5>1, <5>2 DEF Clears, TablesTyped
      <4> QED
        BY <2>1, <4>2, <4>3, TableSteps
    <3>4. nameOf'[o] = NoName
      <4>1. nameOf[o] = NoName /\ obj[t] # o
        BY <1>2 DEF Private, o
      <4>2. CASE AddName(t)
        BY <1>t, <1>1, <4>1, <4>2 DEF AddName, TablesTyped
      <4> QED
        BY <4>1, <4>2, NamesGiven
    <3> QED
      BY <3>1, <3>2, <3>3, <3>4
  <2>2. CASE Construct(t)
    <3>1. PICK n \in Nat, x \in Objects :
             /\ x \notin born /\ n + 1 \in Slots /\ AddHandle(x, n + 1)
             /\ obj' = [obj EXCEPT ![t] = x] /\ table[n + 1] = NoObject
      BY <2>2, NewObject, ObjectTableAssumption
    <3>2. UNCHANGED <<names, nameOf, duplicated, handle, counted, open>>
      BY <2>2 DEF Construct, nameVars
    <3>3. s # n + 1 /\ x # o
      BY <1>1, <1>2, <3>1 DEF Private, o
    <3>4. table'[s] = o /\ obj'[t] = x
      BY <1>t, <1>2, <3>1, <3>3 DEF AddHandle, TablesTyped, CallsTyped, Private, o
    <3> QED
      BY <1>2, <3>2, <3>3, <3>4 DEF Private, o
  <2>3. CASE AddDuplicate(t)
    <3>1. PICK n \in 0 .. Capacity - 1 :
             /\ obj[t] \in born /\ n + 1 \in Slots /\ AddHandle(obj[t], n + 1)
             /\ table[n + 1] = NoObject /\ duplicated' = duplicated \cup {obj[t]}
             /\ \/ Return(t, [handle |-> n + 1, obj |-> obj[t]])
                \/ /\ open' = [open EXCEPT ![t] = [handle |-> n + 1, obj |-> obj[t]]]
                   /\ obj' = [obj EXCEPT ![t] = NoObject]
                   /\ UNCHANGED <<handle, counted>>
      BY <2>3, NewDuplicate
    <3>2. UNCHANGED <<names, nameOf>>
      BY <2>3 DEF AddDuplicate, nameVars
    <3>3. s # n + 1 /\ obj[t] # o /\ s # NoHandle
      BY <1>1, <1>2, <3>1 DEF Private, o, Slots, NoHandle
    <3>4. table'[s] = o
      BY <1>t, <1>2, <3>1, <3>3 DEF AddHandle, TablesTyped, Private, o
    <3>5. obj'[t] = NoObject /\ open'[t].handle = n + 1 /\ handle'[t] \in {handle[t], NoHandle}
          /\ counted'[t] \in {counted[t], NoHandle}
      BY <1>t, <3>1, Returns DEF CallsTyped
    <3> QED
      BY <1>1, <1>2, <3>1, <3>2, <3>3, <3>4, <3>5 DEF Private, o
  <2> QED
    BY <2>1, <2>2, <2>3
<1>5. \A u \in Threads \ {t} : /\ obj'[u] = obj[u] /\ handle'[u] = handle[u] /\ counted'[u] = counted[u]
                               /\ open'[u] = open[u]
  BY Frame DEF OthersStay
<1>6. (IF handles'[o] = <<>> THEN erased'[o] ELSE Head(handles'[o])) = s
  BY <1>1, <1>4, Stable DEF First, s
<1>7. obj'[v] = o /\ First(obj[v])' = s
  BY <1>5, <1>6 DEF First, o
<1>8. \A u \in Threads : /\ u # v => obj'[u] # o
                         /\ handle'[u] # s /\ counted'[u] # s /\ open'[u].handle # s
  BY <1>2, <1>4, <1>5 DEF Private, o
<1> QED
  BY <1>4, <1>7, <1>8 DEF Private

LEMMA OnlyNew ==
  ASSUME IInv, NEW t \in Threads, Start(t) \/ Step(t), pc'[t] = "addName"
  PROVE  Construct(t)
<1>t. CallsTyped
  BY TypeParts DEF IInv
<1>r. ASSUME NEW g, Return(t, g) PROVE FALSE
  BY <1>r, Returns
<1>1. CASE Start(t)
  BY <1>t, <1>1 DEF Start, CallByName, CallByHandle, CallReplace, CallClose, Call, Goto, CallsTyped
<1>2. CASE LockName(t) \/ ReadName(t)
  BY <1>t, <1>r, <1>2 DEF LockName, ReadName, ReadNone, ReadHandle, Goto, CallsTyped
<1>3. CASE LookupByName(t) \/ LookupAgain(t) \/ Use(t) \/ Duplicate(t)
  BY <1>t, <1>3 DEF LookupByName, LookupAgain, Use, Duplicate, Lookup, Goto, CallsTyped
<1>4. CASE ReadFirst(t)
  BY <1>4 DEF ReadFirst
<1>5. CASE RetainFound(t) \/ TakeAgain(t)
  BY <1>t, <1>5 DEF RetainFound, TakeAgain, RetainHandle, Goto, CallsTyped
<1>g. ASSUME AfterRelease(t) PROVE FALSE
  BY <1>t, <1>r, <1>g DEF AfterRelease, Goto, CallsTyped
<1>6. CASE ReleaseHandle(t) \/ RemoveHandle(t)
  BY <1>g, <1>6 DEF ReleaseHandle, RemoveHandle
<1>7. CASE ReleaseLastHandle(t) \/ CloseSource(t)
  BY <1>t, <1>7 DEF ReleaseLastHandle, CloseSource, ClearEntry, Goto, CallsTyped
<1>8. CASE AddDuplicate(t)
  BY <1>t, <1>r, <1>8 DEF AddDuplicate, Goto, CallsTyped
<1>9. CASE AddName(t) \/ ReturnHandle(t) \/ EndUse(t) \/ SourceGone(t)
  BY <1>r, <1>9 DEF AddName, ReturnHandle, EndUse, SourceGone
<1> QED
  BY <1>1, <1>2, <1>3, <1>4, <1>5, <1>6, <1>7, <1>8, <1>9 DEF Step

LEMMA NewStaysPrivate ==
  ASSUME IInv, NEW t \in Threads, Construct(t)
  PROVE  Private(t, First(obj[t]))'
<1>t. TablesTyped /\ CallsTyped /\ HandlesAgree /\ KnownAreBorn /\ NoObject \notin Objects
  BY TypeParts, ObjectTableAssumption DEF IInv
<1>1. PICK n \in Nat, o \in Objects :
         /\ UsedUpTo(n) /\ o \notin born /\ n + 1 \in Slots /\ AddHandle(o, n + 1)
         /\ obj' = [obj EXCEPT ![t] = o]
  BY NewObject, ObjectTableAssumption
<1>2. UNCHANGED <<names, nameOf, duplicated, handle, counted, open>>
  BY DEF Construct, nameVars
<1>3. handles[o] = <<>> /\ nameOf[o] = NoName /\ o \notin duplicated
  BY <1>t, <1>1 DEF HandlesAgree, KnownAreBorn, TablesTyped
<1>4. handles'[o] # <<>> /\ Head(handles'[o]) = n + 1
  <2>1. handles'[o] = Append(<<>>, n + 1)
    BY <1>t, <1>1, <1>3 DEF AddHandle, TablesTyped
  <2> QED
    BY <2>1
<1>5. obj'[t] = o /\ First(obj[t])' = n + 1 /\ table'[n + 1] = o
  BY <1>t, <1>1, <1>4 DEF First, AddHandle, CallsTyped, TablesTyped
<1>6. \A u \in Threads : u # t => obj'[u] # o
  BY <1>t, <1>1 DEF CallsTyped, KnownAreBorn
<1>7. ~(n + 1 <= n)
  BY <1>1
<1>8. /\ \A u \in Threads : handle[u] # n + 1 /\ counted[u] # n + 1 /\ open[u].handle # n + 1
      /\ \A m \in Names : names[m] # n + 1
  BY <1>1, <1>7 DEF UsedUpTo
<1> QED
  BY <1>2, <1>3, <1>5, <1>6, <1>8 DEF Private

LEMMA StepNewIsPrivate ==
  ASSUME IInv, [Next]_vars
  PROVE  NewIsPrivate'
<1>1. CASE UNCHANGED vars
  BY <1>1 DEF vars, tableVars, nameVars, objectVars, threadVars, IInv, NewIsPrivate, Private, First
<1>2. ASSUME NEW t \in Threads, Start(t) \/ Step(t), NEW v \in Threads, pc'[v] = "addName"
      PROVE  Private(v, First(obj[v]))'
  <2>1. CASE v = t
    BY <1>2, <2>1, OnlyNew, NewStaysPrivate
  <2>2. CASE v # t
    <3>1. pc[v] = "addName"
      BY <1>2, <2>2, Frame DEF OthersStay
    <3> QED
      BY <1>2, <2>2, <3>1, OthersStayPrivate
  <2> QED
    BY <2>1, <2>2
<1> QED
  BY <1>1, <1>2 DEF Next, NewIsPrivate

-----------------------------------------------------------------------------
(* The counts of the handles.                                               *)

\* A step that changes the count of a slot is one after which its call keeps a
\* count that it did not keep before, or the other way round.
LEMMA CountMoves ==
  ASSUME IInv, NEW t \in Threads, Start(t) \/ Step(t),
         NEW s \in Slots, table[s] # NoObject, table'[s] = table[s], table[s] \notin duplicated'
  PROVE  \/ count'[s] = count[s] /\ (Keeps(t, s)' <=> Keeps(t, s))
         \/ count'[s] = count[s] + 1 /\ Keeps(t, s)' /\ ~Keeps(t, s)
         \/ count'[s] = count[s] - 1 /\ ~Keeps(t, s)' /\ Keeps(t, s)
<1> DEFINE o == table[s]
           Same == count'[s] = count[s] /\ (Keeps(t, s)' <=> Keeps(t, s))
           Moves == \/ Same
                    \/ count'[s] = count[s] + 1 /\ Keeps(t, s)' /\ ~Keeps(t, s)
                    \/ count'[s] = count[s] - 1 /\ ~Keeps(t, s)' /\ Keeps(t, s)
<1>t. /\ TablesTyped /\ CallsTyped /\ HandlesAgree /\ Placed(t) /\ CallKnows(t)
      /\ obj[t] \in born \cup {NoObject} /\ s # NoHandle /\ Nothing.handle = NoHandle
      /\ count[s] \in Int
  BY TypeParts DEF IInv, Places, CallsKnow, KnownAreBorn, TablesTyped, Slots, NoHandle, Nothing
<1>1. o \in born /\ o \notin duplicated
  BY <1>t, Stable DEF HandlesAgree
<1>2. s = First(o) /\ \A x \in Slots : table[x] = o => x = s
  BY <1>1, FirstDenotes
<1>3. \A x \in born : First(x) = s <=> x = o
  BY <1>2, FirstDenotes DEF Denotes
<1>4. counted[t] # NoHandle /\ obj[t] # NoObject => (counted[t] = s <=> obj[t] = o)
  BY <1>t, <1>1, <1>2 DEF CallKnows, Denotes
<1>5. pc[t] = "retain" => (handle[t] = s <=> obj[t] = o)
  BY <1>t, <1>1, <1>2 DEF CallKnows, Denotes, Placed
<1>6. handle[t] # NoHandle => (table[handle[t]] = o <=> handle[t] = s)
  BY <1>t, <1>2 DEF CallsTyped
<1> HIDE DEF o
<1>7. table[s] = o /\ table'[s] = o /\ o # NoObject /\ o \notin duplicated'
  BY DEF o
<1>r. ASSUME NEW g, Return(t, g) PROVE Keeps(t, s)' <=> g.handle = s
  BY <1>r, Returns DEF Keeps
<1>8. CASE CallByName(t)
  BY <1>t, <1>8 DEF CallByName, Call, Goto, At, CallsTyped, Placed, Keeps, tableVars
<1>9. CASE CallByHandle(t)
  BY <1>t, <1>9 DEF CallByHandle, Call, Goto, At, CallsTyped, Placed, Keeps, tableVars
<1>10. CASE CallReplace(t)
  BY <1>t, <1>10 DEF CallReplace, Call, Goto, At, CallsTyped, Placed, Keeps, tableVars
<1>11. CASE CallClose(t)
  BY <1>t, <1>11 DEF CallClose, Call, Goto, At, CallsTyped, Placed, Keeps, tableVars
<1>12. CASE LockName(t)
  BY <1>t, <1>12 DEF LockName, Goto, At, CallsTyped, Placed, Keeps, tableVars
<1>13. CASE ReadName(t)
  <2>1. ~Keeps(t, s) /\ UNCHANGED count
    BY <1>t, <1>13 DEF ReadName, At, Placed, Keeps, tableVars
  <2>2. ~Keeps(t, s)'
    BY <1>t, <1>r, <1>13 DEF ReadName, ReadNone, ReadHandle, Goto, At, CallsTyped, Placed, Keeps
  <2> QED
    BY <2>1, <2>2
<1>14. CASE LookupByName(t)
  <2>1. ~Keeps(t, s) /\ UNCHANGED count
    BY <1>t, <1>14 DEF LookupByName, Lookup, At, Placed, Keeps, tableVars
  <2>2. ~Keeps(t, s)'
    BY <1>t, <1>6, <1>7, <1>14 DEF LookupByName, Lookup, Goto, At, CallsTyped, Placed, Keeps
  <2> QED
    BY <2>1, <2>2
<1>15. CASE ReadFirst(t)
  <2>1. /\ pc[t] \in {"retain", "release", "takeAgain"} /\ counted[t] = NoHandle
        /\ UNCHANGED <<pc, call, handle, obj, open, count>>
    BY <1>15 DEF ReadFirst, tableVars
  <2>2. call[t] # "close"
    BY <1>t, <2>1 DEF Placed
  <2> QED
    BY <1>7, <2>1, <2>2 DEF Keeps
<1>16. CASE RetainFound(t)
  <2>1. ~Keeps(t, s) /\ counted[t] # NoHandle /\ obj[t] # NoObject
    BY <1>t, <1>16 DEF RetainFound, RetainHandle, At, Placed, Keeps
  <2>2. count'[s] = (IF counted[t] = s THEN count[s] + 1 ELSE count[s])
    BY <1>t, <1>16 DEF RetainFound, RetainHandle, TablesTyped
  <2>3. Keeps(t, s)' <=> handle[t] = s
    BY <1>t, <1>16 DEF RetainFound, RetainHandle, Goto, At, CallsTyped, Placed, Keeps
  <2> QED
    BY <1>4, <1>5, <1>16, <2>1, <2>2, <2>3 DEF RetainFound, At
<1>17. CASE LookupAgain(t)
  <2>1. (Keeps(t, s) <=> handle[t] = s) /\ UNCHANGED count /\ handle[t] # NoHandle
    BY <1>t, <1>17 DEF LookupAgain, Lookup, At, Placed, Keeps, tableVars
  <2>2. Keeps(t, s)' <=> table[handle[t]] = o
    BY <1>t, <1>7, <1>17 DEF LookupAgain, Lookup, Goto, At, CallsTyped, Placed, Keeps
  <2> QED
    BY <1>6, <2>1, <2>2
<1>18. CASE TakeAgain(t)
  <2>1. ~Keeps(t, s) /\ counted[t] # NoHandle /\ obj[t] # NoObject
    BY <1>t, <1>18 DEF TakeAgain, RetainHandle, At, Placed, Keeps
  <2>2. count'[s] = (IF counted[t] = s THEN count[s] + 1 ELSE count[s])
    BY <1>t, <1>18 DEF TakeAgain, RetainHandle, TablesTyped
  <2>3. Keeps(t, s)' <=> obj[t] = o
    BY <1>t, <1>7, <1>18 DEF TakeAgain, RetainHandle, Goto, At, CallsTyped, Placed, Keeps
  <2> QED
    BY <1>4, <2>1, <2>2, <2>3
<1>g. ASSUME AfterRelease(t), pc[t] \in {"release", "unname"} PROVE Keeps(t, s)' <=> open[t].handle = s
  BY <1>t, <1>r, <1>g DEF AfterRelease, Goto, CallsTyped, Placed, Keeps
<1>19. CASE ReleaseHandle(t)
  <2>1. /\ counted[t] # NoHandle /\ pc[t] = "release" /\ call[t] \in {"create", "close"} /\ open[t] = Nothing
        /\ Keeps(t, s) <=> counted[t] = s
    BY <1>t, <1>4, <1>7, <1>19 DEF ReleaseHandle, At, Placed, Keeps
  <2>2. count'[s] = (IF counted[t] = s THEN count[s] - 1 ELSE count[s])
    BY <1>t, <1>19 DEF ReleaseHandle, TablesTyped
  <2>3. ~Keeps(t, s)'
    BY <1>t, <1>g, <1>19, <2>1 DEF ReleaseHandle
  <2> QED
    BY <2>1, <2>2, <2>3
<1>20. CASE ReleaseLastHandle(t) \/ CloseSource(t)
  <2>1. PICK h \in Slots, x \in born :
           /\ Clears(t, h, x)
           /\ \/ /\ pc[t] = "release" /\ counted[t] = h
                 /\ (call[t] = "create" /\ obj[t] = x) \/ (call[t] = "close" /\ obj[t] = NoObject)
              \/ pc[t] = "remove" /\ call[t] = "replace"
    BY <1>20, Clearing
  <2>2. /\ h # s /\ table[h] = x /\ count'[s] = count[s]
        /\ pc'[t] = "unname" /\ UNCHANGED <<call, handle, counted, open>>
    BY <1>t, <1>7, <2>1 DEF Clears, TablesTyped, CallsTyped
  <2>3. x # o
    BY <1>2, <2>2
  <2>4. Keeps(t, s)' <=> open[t].handle = s
    BY <2>2 DEF Keeps
  <2>5. Keeps(t, s) <=> open[t].handle = s
    BY <1>7, <2>1, <2>2, <2>3 DEF Keeps
  <2> QED
    BY <2>2, <2>4, <2>5
<1>21. CASE RemoveHandle(t)
  <2>1. (Keeps(t, s) <=> open[t].handle = s) /\ UNCHANGED count /\ pc[t] = "unname"
    BY <1>21 DEF RemoveHandle, At, Keeps, tableVars
  <2> QED
    BY <1>g, <1>21, <2>1 DEF RemoveHandle
<1>22. CASE Construct(t)
  <2>1. PICK n \in Nat, x \in Objects :
           /\ x \notin born /\ n + 1 \in Slots /\ AddHandle(x, n + 1)
           /\ obj' = [obj EXCEPT ![t] = x] /\ table[n + 1] = NoObject
    BY <1>22, NewObject, ObjectTableAssumption
  <2>2. s # n + 1 /\ x # o
    BY <1>1, <1>7, <2>1
  <2>3. count'[s] = count[s] /\ obj'[t] = x
    BY <1>t, <2>1, <2>2 DEF AddHandle, TablesTyped, CallsTyped
  <2>4. ~Keeps(t, s)
    BY <1>t, <1>22 DEF Construct, At, Placed, Keeps
  <2>5. ~Keeps(t, s)'
    BY <1>t, <1>7, <1>22, <2>2, <2>3 DEF Construct, Goto, At, CallsTyped, Placed, Keeps
  <2> QED
    BY <2>3, <2>4, <2>5
<1>23. CASE AddName(t)
  <2>1. /\ pc[t] = "addName" /\ obj[t] \in born /\ UNCHANGED count
        /\ Keeps(t, s) <=> obj[t] = o
    BY <1>t, <1>7, <1>23 DEF AddName, At, Placed, Keeps, tableVars
  <2>2. Keeps(t, s)' <=> First(obj[t]) = s
    BY <1>r, <1>23 DEF AddName
  <2> QED
    BY <1>3, <2>1, <2>2
<1>24. CASE ReturnHandle(t)
  <2>1. Keeps(t, s)' <=> (IF call[t] = "create" THEN First(obj[t]) ELSE handle[t]) = s
    BY <1>r, <1>24 DEF ReturnHandle
  <2>2. /\ UNCHANGED count
        /\ call[t] = "create" => obj[t] \in born /\ (Keeps(t, s) <=> obj[t] = o)
        /\ call[t] # "create" => (Keeps(t, s) <=> handle[t] = s)
    BY <1>t, <1>7, <1>24 DEF ReturnHandle, At, Placed, Keeps, tableVars
  <2> QED
    BY <1>3, <2>1, <2>2
<1>25. CASE Use(t)
  BY <1>t, <1>25 DEF Use, Lookup, Goto, At, CallsTyped, Placed, Keeps, tableVars
<1>26. CASE EndUse(t) \/ SourceGone(t)
  <2>1. (Keeps(t, s) <=> open[t].handle = s) /\ UNCHANGED count
    BY <1>t, <1>26 DEF EndUse, SourceGone, At, Placed, Keeps, tableVars
  <2> QED
    BY <1>r, <1>26, <2>1 DEF EndUse, SourceGone
<1>27. CASE Duplicate(t)
  BY <1>t, <1>6, <1>7, <1>27 DEF Duplicate, Lookup, Goto, At, CallsTyped, Placed, Keeps, tableVars
<1>28. CASE AddDuplicate(t)
  <2>1. PICK n \in Nat :
           /\ n + 1 \in Slots /\ AddHandle(obj[t], n + 1)
           /\ table[n + 1] = NoObject /\ duplicated' = duplicated \cup {obj[t]}
           /\ \/ Return(t, [handle |-> n + 1, obj |-> obj[t]])
              \/ /\ Goto(t, "remove")
                 /\ open' = [open EXCEPT ![t] = [handle |-> n + 1, obj |-> obj[t]]]
                 /\ UNCHANGED call
    BY <1>28, NewDuplicate, ObjectTableAssumption
  <2>2. s # n + 1 /\ obj[t] # o
    BY <1>7, <2>1
  <2>3. count'[s] = count[s]
    BY <1>t, <2>1, <2>2 DEF AddHandle, TablesTyped
  <2>4. ~Keeps(t, s)
    <3>1. handle[t] # s
      BY <1>t, <1>7, <1>28, <2>2 DEF AddDuplicate, At, CallKnows, Denotes
    <3> QED
      BY <1>t, <1>28, <3>1 DEF AddDuplicate, At, Placed, Keeps
  <2>5. ~Keeps(t, s)'
    <3>1. CASE Return(t, [handle |-> n + 1, obj |-> obj[t]])
      BY <1>r, <2>2, <3>1
    <3>2. CASE /\ Goto(t, "remove") /\ UNCHANGED call
               /\ open' = [open EXCEPT ![t] = [handle |-> n + 1, obj |-> obj[t]]]
      BY <1>t, <2>2, <3>2 DEF Goto, CallsTyped, Keeps
    <3> QED
      BY <2>1, <3>1, <3>2
  <2> QED
    BY <2>3, <2>4, <2>5
<1> QED
  BY <1>8, <1>9, <1>10, <1>11, <1>12, <1>13, <1>14, <1>15, <1>16, <1>17, <1>18, <1>19, <1>20, <1>21, <1>22,
     <1>23, <1>24, <1>25, <1>26, <1>27, <1>28 DEF Start, Step

\* A slot that holds an object holds it until it is removed.
LEMMA SlotStays ==
  ASSUME IInv, NEW t \in Threads, Start(t) \/ Step(t), NEW s \in Slots, table[s] # NoObject
  PROVE  \/ table'[s] = table[s]
         \/ \E o \in born : Clears(t, s, o) /\ (ReleaseLastHandle(t) \/ CloseSource(t))
<1>t. TablesTyped
  BY TypeParts DEF IInv
<1>1. CASE Keeping
  BY <1>1 DEF Keeping
<1>2. CASE ReleaseLastHandle(t) \/ CloseSource(t)
  <2>1. PICK h \in Slots, o \in born : Clears(t, h, o)
    BY <1>2, Clearing
  <2>2. s # h => table'[s] = table[s]
    BY <1>t, <2>1 DEF Clears, TablesTyped
  <2> QED
    BY <1>2, <2>1, <2>2
<1>3. CASE Construct(t) \/ AddDuplicate(t)
  <2>1. CASE Construct(t)
    <3>1. PICK n \in 0 .. Capacity - 1, o \in Objects :
             n + 1 \in Slots /\ AddHandle(o, n + 1) /\ table[n + 1] = NoObject
      BY <2>1, NewObject
    <3> QED
      BY <1>t, <3>1 DEF AddHandle, TablesTyped
  <2>2. CASE AddDuplicate(t)
    <3>1. PICK n \in 0 .. Capacity - 1 :
             n + 1 \in Slots /\ AddHandle(obj[t], n + 1) /\ table[n + 1] = NoObject
      BY <2>2, NewDuplicate
    <3> QED
      BY <1>t, <3>1 DEF AddHandle, TablesTyped
  <2> QED
    BY <1>3, <2>1, <2>2
<1> QED
  BY <1>1, <1>2, <1>3, TableSteps

\* A slot that was empty and is not is the one that a call has added.
LEMMA SlotAdded ==
  ASSUME IInv, NEW t \in Threads, Start(t) \/ Step(t), NEW s \in Slots, table[s] = NoObject,
         table'[s] # NoObject
  PROVE  Construct(t) \/ (AddDuplicate(t) /\ table'[s] \in duplicated')
<1>t. TablesTyped
  BY TypeParts DEF IInv
<1>1. CASE Keeping
  BY <1>1 DEF Keeping
<1>2. CASE ReleaseLastHandle(t) \/ CloseSource(t)
  <2>1. PICK h \in Slots, o \in born : Clears(t, h, o)
    BY <1>2, Clearing
  <2> QED
    BY <1>t, <2>1 DEF Clears, TablesTyped
<1>3. CASE AddDuplicate(t)
  <2>1. PICK h \in Slots : AddHandle(obj[t], h) /\ duplicated' = duplicated \cup {obj[t]}
    BY <1>3, NewDuplicate
  <2> QED
    BY <1>t, <1>3, <2>1 DEF AddHandle, TablesTyped
<1> QED
  BY <1>1, <1>2, <1>3, TableSteps

LEMMA NewCounted ==
  ASSUME IInv, NEW t \in Threads, Construct(t), NEW s \in Slots, table[s] = NoObject, table'[s] # NoObject
  PROVE  count'[s] = 1 /\ {u \in Threads : Keeps(u, s)'} = {t}
<1>t. TablesTyped /\ CallsTyped /\ KnownAreBorn /\ Placed(t) /\ NoObject \notin Objects
  BY TypeParts, ObjectTableAssumption DEF IInv, Places
<1>1. PICK n \in Nat, o \in Objects :
         /\ UsedUpTo(n) /\ o \notin born /\ n + 1 \in Slots /\ AddHandle(o, n + 1)
         /\ obj' = [obj EXCEPT ![t] = o]
  BY NewObject, ObjectTableAssumption
<1>2. s = n + 1 /\ table'[s] = o /\ count'[s] = 1
  BY <1>t, <1>1 DEF AddHandle, TablesTyped
<1>3. UNCHANGED <<call, handle, counted, open>> /\ pc'[t] = "addName" /\ obj'[t] = o /\ call[t] = "create"
  BY <1>t, <1>1 DEF Construct, Goto, At, Placed, CallsTyped
<1>4. \A u \in Threads : handle[u] # s /\ counted[u] # s /\ open[u].handle # s
  <2>1. ~(n + 1 <= n)
    BY <1>1
  <2> QED
    BY <1>1, <1>2, <2>1 DEF UsedUpTo
<1>5. \A u \in Threads \ {t} : obj'[u] # o
  BY <1>t, <1>1 DEF CallsTyped, KnownAreBorn
<1>6. Keeps(t, s)'
  BY <1>2, <1>3 DEF Keeps
<1>7. \A u \in Threads \ {t} : ~Keeps(u, s)'
  BY <1>2, <1>3, <1>4, <1>5 DEF Keeps
<1> QED
  BY <1>2, <1>6, <1>7

LEMMA StepCountsKept ==
  ASSUME IInv, [Next]_vars
  PROVE  CountsKept'
<1>1. CASE UNCHANGED vars
  BY <1>1 DEF vars, tableVars, objectVars, threadVars, IInv, CountsKept, Keeps
<1>2. ASSUME NEW t \in Threads, Start(t) \/ Step(t), NEW s \in Slots,
             table'[s] # NoObject, table'[s] \notin duplicated'
      PROVE  count'[s] = Cardinality({u \in Threads : Keeps(u, s)'})
  <2>1. CASE table[s] = NoObject
    <3>1. Construct(t)
      BY <1>2, <2>1, SlotAdded
    <3>2. count'[s] = 1 /\ {u \in Threads : Keeps(u, s)'} = {t}
      BY <1>2, <2>1, <3>1, NewCounted
    <3> QED
      BY <3>2, FS_Singleton
  <2>2. CASE table[s] # NoObject
    <3> DEFINE A == {u \in Threads : Keeps(u, s)}
               B == {u \in Threads : Keeps(u, s)'}
    <3>t. TablesTyped
      BY TypeParts DEF IInv
    <3>1. table'[s] = table[s]
      <4>1. ASSUME NEW o \in born, Clears(t, s, o) PROVE table'[s] = NoObject
        BY <3>t, <4>1 DEF Clears, TablesTyped
      <4> QED
        BY <1>2, <2>2, <4>1, SlotStays
    <3>2. count[s] = Cardinality(A)
      <4>1. table[s] \notin duplicated
        BY <1>2, <3>1, Stable
      <4> QED
        BY <2>2, <4>1 DEF IInv, CountsKept
    <3>3. \A u \in Threads \ {t} : Keeps(u, s)' <=> Keeps(u, s)
      BY <1>2, <3>1, Frame DEF OthersStay, Keeps
    <3>4. A \in SUBSET Threads /\ B \in SUBSET Threads /\ A \ {t} = B \ {t}
      BY <3>3
    <3>5. (t \in A <=> Keeps(t, s)) /\ (t \in B <=> Keeps(t, s)')
      OBVIOUS
    <3>6. \/ count'[s] = count[s] /\ (Keeps(t, s)' <=> Keeps(t, s))
          \/ count'[s] = count[s] + 1 /\ Keeps(t, s)' /\ ~Keeps(t, s)
          \/ count'[s] = count[s] - 1 /\ ~Keeps(t, s)' /\ Keeps(t, s)
      BY <1>2, <2>2, <3>1, CountMoves
    <3> HIDE DEF A, B
    <3>7. /\ Cardinality(A) \in Nat /\ Cardinality(B) \in Nat
          /\ (t \in A <=> t \in B) => Cardinality(B) = Cardinality(A)
          /\ t \notin A /\ t \in B => Cardinality(B) = Cardinality(A) + 1
          /\ t \in A /\ t \notin B => Cardinality(B) = Cardinality(A) - 1
      BY <3>4, OneChanges, ObjectTableAssumption
    <3>8. count'[s] = Cardinality(B)
      BY <3>2, <3>5, <3>6, <3>7
    <3> QED
      BY <3>8 DEF B
  <2> QED
    BY <2>1, <2>2
<1> QED
  BY <1>1, <1>2 DEF Next, CountsKept

-----------------------------------------------------------------------------
(* The references.                                                          *)

HeldBy(o) == Cardinality({u \in Threads : Held(u, o) > 0}) + Cardinality({u \in Threads : Held(u, o) > 1})

SlotsOf(o) == Cardinality({s \in Slots : table[s] = o})

LEMMA SlotsFinite == IsFiniteSet(Slots)
  BY FS_Interval, ObjectTableAssumption DEF Slots

LEMMA CountsTyped ==
  ASSUME NEW o
  PROVE  HeldBy(o) \in Nat /\ SlotsOf(o) \in Nat /\ HeldBy(o)' \in Nat /\ SlotsOf(o)' \in Nat
<1>1. \A S : S \subseteq Threads \/ S \subseteq Slots => Cardinality(S) \in Nat
  BY SlotsFinite, FS_Subset, FS_CardinalityType, ObjectTableAssumption
<1>2. /\ Cardinality({u \in Threads : Held(u, o) > 0}) \in Nat
      /\ Cardinality({u \in Threads : Held(u, o) > 1}) \in Nat
      /\ Cardinality({s \in Slots : table[s] = o}) \in Nat
      /\ Cardinality({u \in Threads : Held(u, o)' > 0}) \in Nat
      /\ Cardinality({u \in Threads : Held(u, o)' > 1}) \in Nat
      /\ Cardinality({s \in Slots : table'[s] = o}) \in Nat
  BY <1>1
<1> QED
  BY <1>2 DEF HeldBy, SlotsOf

LEMMA HeldMoves ==
  ASSUME IInv, NEW t \in Threads, Start(t) \/ Step(t), NEW o
  PROVE  HeldBy(o)' = HeldBy(o) + Held(t, o)' - Held(t, o)
<1> DEFINE A == {u \in Threads : Held(u, o) > 0}
           B == {u \in Threads : Held(u, o)' > 0}
           C == {u \in Threads : Held(u, o) > 1}
           D == {u \in Threads : Held(u, o)' > 1}
<1>1. \A u \in Threads \ {t} : Held(u, o)' = Held(u, o)
  BY Frame DEF OthersStay, Held
<1>2. /\ A \in SUBSET Threads /\ B \in SUBSET Threads /\ A \ {t} = B \ {t}
      /\ C \in SUBSET Threads /\ D \in SUBSET Threads /\ C \ {t} = D \ {t}
  BY <1>1
<1>3. /\ (t \in A <=> Held(t, o) > 0) /\ (t \in B <=> Held(t, o)' > 0)
      /\ (t \in C <=> Held(t, o) > 1) /\ (t \in D <=> Held(t, o)' > 1)
  OBVIOUS
<1>4. Held(t, o) \in 0 .. 2 /\ Held(t, o)' \in 0 .. 2
  BY DEF Held
<1>5. HeldBy(o) = Cardinality(A) + Cardinality(C) /\ HeldBy(o)' = Cardinality(B) + Cardinality(D)
  BY DEF HeldBy
<1> HIDE DEF A, B, C, D
<1>6. /\ Cardinality(A) \in Nat /\ Cardinality(B) \in Nat
      /\ (t \in A <=> t \in B) => Cardinality(B) = Cardinality(A)
      /\ t \notin A /\ t \in B => Cardinality(B) = Cardinality(A) + 1
      /\ t \in A /\ t \notin B => Cardinality(B) = Cardinality(A) - 1
  BY <1>2, OneChanges, ObjectTableAssumption
<1>7. /\ Cardinality(C) \in Nat /\ Cardinality(D) \in Nat
      /\ (t \in C <=> t \in D) => Cardinality(D) = Cardinality(C)
      /\ t \notin C /\ t \in D => Cardinality(D) = Cardinality(C) + 1
      /\ t \in C /\ t \notin D => Cardinality(D) = Cardinality(C) - 1
  BY <1>2, OneChanges, ObjectTableAssumption
<1> DEFINE x == Held(t, o)
           y == Held(t, o)'
<1> HIDE DEF x, y
<1>8. x \in 0 .. 2 /\ y \in 0 .. 2 /\ (t \in A <=> x > 0) /\ (t \in B <=> y > 0)
      /\ (t \in C <=> x > 1) /\ (t \in D <=> y > 1)
  BY <1>3, <1>4 DEF x, y
<1>9. Cardinality(B) + Cardinality(D) = Cardinality(A) + Cardinality(C) + y - x
  <2>1. Cardinality(B) = Cardinality(A) + (IF y > 0 THEN 1 ELSE 0) - (IF x > 0 THEN 1 ELSE 0)
    BY <1>6, <1>8
  <2>2. Cardinality(D) = Cardinality(C) + (IF y > 1 THEN 1 ELSE 0) - (IF x > 1 THEN 1 ELSE 0)
    BY <1>7, <1>8
  <2>3. y = (IF y > 0 THEN 1 ELSE 0) + (IF y > 1 THEN 1 ELSE 0)
    BY <1>8
  <2>4. x = (IF x > 0 THEN 1 ELSE 0) + (IF x > 1 THEN 1 ELSE 0)
    BY <1>8
  <2> QED
    BY <1>6, <1>7, <2>1, <2>2, <2>3, <2>4
<1> QED
  BY <1>5, <1>9 DEF x, y

\* The slots of an object change by the one that is added or removed.
LEMMA SlotsMove ==
  ASSUME IInv, NEW h \in Slots, NEW o, \A s \in Slots \ {h} : table'[s] = table[s]
  PROVE  /\ table[h] # o /\ table'[h] = o => SlotsOf(o)' = SlotsOf(o) + 1
         /\ table[h] = o /\ table'[h] # o => SlotsOf(o)' = SlotsOf(o) - 1
         /\ (table[h] = o <=> table'[h] = o) => SlotsOf(o)' = SlotsOf(o)
<1> DEFINE A == {s \in Slots : table[s] = o}
           B == {s \in Slots : table'[s] = o}
<1>1. A \in SUBSET Slots /\ B \in SUBSET Slots /\ A \ {h} = B \ {h}
  OBVIOUS
<1>2. (h \in A <=> table[h] = o) /\ (h \in B <=> table'[h] = o)
  OBVIOUS
<1>3. SlotsOf(o) = Cardinality(A) /\ SlotsOf(o)' = Cardinality(B)
  BY DEF SlotsOf
<1> HIDE DEF A, B
<1>4. /\ (h \in A <=> h \in B) => Cardinality(B) = Cardinality(A)
      /\ h \notin A /\ h \in B => Cardinality(B) = Cardinality(A) + 1
      /\ h \in A /\ h \notin B => Cardinality(B) = Cardinality(A) - 1
  BY <1>1, SlotsFinite, OneChanges
<1> QED
  BY <1>2, <1>3, <1>4

LEMMA RefsOfUnborn ==
  ASSUME IInv, NEW o \in Objects \ born
  PROVE  refs[o] = 0 /\ (\A u \in Threads : Held(u, o) = 0) /\ \A s \in Slots : table[s] # o
<1>1. /\ \A s \in Slots : table[s] # o
      /\ \A u \in Threads : obj[u] # o
  BY ObjectTableAssumption DEF IInv, HandlesAgree, KnownAreBorn
<1>2. \A u \in Threads : Held(u, o) = 0
  BY <1>1 DEF Held
<1>3. /\ {s \in Slots : table[s] = o} = {}
      /\ {u \in Threads : Held(u, o) > 0} = {} /\ {u \in Threads : Held(u, o) > 1} = {}
  BY <1>1, <1>2
<1>4. refs[o] = Cardinality({s \in Slots : table[s] = o})
              + Cardinality({u \in Threads : Held(u, o) > 0})
              + Cardinality({u \in Threads : Held(u, o) > 1})
  BY DEF IInv, ReferencesCounted
<1> QED
  BY <1>1, <1>2, <1>3, <1>4, FS_EmptySet

\* A step gives an object as many references as it gives it slots and calls.
LEMMA RefsMove ==
  ASSUME IInv, NEW t \in Threads, Start(t) \/ Step(t), NEW o \in Objects
  PROVE  refs'[o] = refs[o] + (SlotsOf(o)' - SlotsOf(o)) + (Held(t, o)' - Held(t, o))
<1> DEFINE Exact == refs'[o] = refs[o] + (SlotsOf(o)' - SlotsOf(o)) + (Held(t, o)' - Held(t, o))
<1>t. /\ TablesTyped /\ CallsTyped /\ Placed(t) /\ o # NoObject /\ refs \in [Objects -> Nat] /\ refs[o] \in Nat
      /\ obj[t] \in born \cup {NoObject}
  BY TypeParts, ObjectTableAssumption DEF IInv, Places, KnownAreBorn
<1>s. SlotsOf(o) \in Nat /\ SlotsOf(o)' \in Nat
  BY CountsTyped
<1>h. /\ Held(t, o) = (IF obj[t] # o THEN 0 ELSE IF pc[t] = "unname" /\ call[t] = "create" THEN 2 ELSE 1)
      /\ Held(t, o)' = (IF obj'[t] # o THEN 0 ELSE IF pc'[t] = "unname" /\ call'[t] = "create" THEN 2 ELSE 1)
  BY DEF Held
<1> DEFINE x == Held(t, o)
           y == Held(t, o)'
           Kept == UNCHANGED table
<1>k. ASSUME Kept, refs'[o] = refs[o] + (y - x) PROVE Exact
  <2>1. SlotsOf(o)' = SlotsOf(o)
    BY <1>k DEF SlotsOf
  <2>2. x \in 0 .. 2 /\ y \in 0 .. 2
    BY DEF Held
  <2> HIDE DEF x, y
  <2> QED
    BY <1>k, <1>s, <1>t, <2>1, <2>2 DEF x, y
<1>r. ASSUME NEW g, Return(t, g) PROVE y = 0
  BY <1>t, <1>h, <1>r, Returns
<1>f. Released(obj[t])[o] = (IF obj[t] = o THEN refs[o] - 1 ELSE refs[o])
  BY <1>t DEF Released
<1>1. CASE Start(t)
  <2>1. Kept /\ refs' = refs /\ obj'[t] = NoObject /\ obj[t] = NoObject
    BY <1>t, <1>1 DEF Start, CallByName, CallByHandle, CallReplace, CallClose, Call, At, Placed, Empty,
       tableVars, objectVars
  <2> QED
    BY <1>t, <1>h, <1>k, <2>1
<1>2. CASE LockName(t) \/ ReadName(t)
  <2>1. Kept /\ refs' = refs /\ obj[t] = NoObject
    BY <1>t, <1>2 DEF LockName, ReadName, At, Placed, Empty, tableVars, objectVars
  <2>2. obj'[t] = NoObject
    BY <1>2, <2>1, Returns DEF LockName, ReadName, ReadNone, ReadHandle
  <2> QED
    BY <1>t, <1>h, <1>k, <2>1, <2>2
<1>3. CASE LookupByName(t) \/ LookupAgain(t) \/ Use(t) \/ Duplicate(t)
  <2>1. PICK f, n : Lookup(t, f, n) /\ f # "unname" /\ n # "unname"
    BY <1>3 DEF LookupByName, LookupAgain, Use, Duplicate
  <2>2. Kept /\ obj[t] = NoObject
    BY <1>t, <1>3, <2>1 DEF LookupByName, LookupAgain, Use, Duplicate, Lookup, At, Placed, Empty, tableVars
  <2>3. /\ obj'[t] = table[handle[t]] /\ pc'[t] # "unname"
        /\ refs' = IF table[handle[t]] = NoObject THEN refs ELSE Retained(table[handle[t]])
    BY <1>t, <2>1 DEF Lookup, Goto, CallsTyped
  <2>4. refs'[o] = IF table[handle[t]] = o THEN refs[o] + 1 ELSE refs[o]
    BY <1>t, <2>3 DEF Retained
  <2> QED
    BY <1>t, <1>h, <1>k, <2>2, <2>3, <2>4
<1>4. CASE ReadFirst(t)
  <2>1. Kept /\ refs' = refs /\ UNCHANGED <<pc, call, obj>>
    BY <1>4 DEF ReadFirst, tableVars, objectVars
  <2> QED
    BY <1>t, <1>h, <1>k, <2>1
<1>5. CASE RetainFound(t)
  <2>1. Kept /\ refs' = Released(obj[t]) /\ obj'[t] = NoObject /\ pc[t] = "retain"
    BY <1>t, <1>5 DEF RetainFound, RetainHandle, At, CallsTyped
  <2> QED
    BY <1>t, <1>f, <1>h, <1>k, <2>1
<1>6. CASE TakeAgain(t)
  <2>1. Kept /\ refs' = refs /\ obj' = obj /\ pc[t] = "takeAgain" /\ pc'[t] = "return"
    BY <1>t, <1>6 DEF TakeAgain, RetainHandle, At, Goto, CallsTyped, objectVars
  <2> QED
    BY <1>t, <1>h, <1>k, <2>1
<1>g. ASSUME AfterRelease(t) PROVE y = IF call[t] = "create" /\ obj[t] = o THEN 1 ELSE 0
  BY <1>t, <1>h, <1>r, <1>g DEF AfterRelease, Goto, CallsTyped
<1>7. CASE ReleaseHandle(t)
  <2>1. Kept /\ refs' = refs /\ pc[t] = "release" /\ (call[t] = "create" \/ obj[t] = NoObject)
    BY <1>t, <1>7 DEF ReleaseHandle, At, Placed, objectVars
  <2>2. y = IF call[t] = "create" /\ obj[t] = o THEN 1 ELSE 0
    BY <1>g, <1>7 DEF ReleaseHandle
  <2> QED
    BY <1>t, <1>h, <1>k, <2>1, <2>2
<1>8. CASE ReleaseLastHandle(t) \/ CloseSource(t)
  <2>1. PICK h \in Slots, w \in born :
           /\ Clears(t, h, w)
           /\ \/ /\ pc[t] = "release"
                 /\ (call[t] = "create" /\ obj[t] = w) \/ (call[t] = "close" /\ obj[t] = NoObject)
              \/ pc[t] = "remove" /\ obj[t] = NoObject /\ call[t] = "replace"
    BY <1>8, Clearing
  <2>2. /\ refs' = refs /\ obj'[t] = w /\ pc'[t] = "unname" /\ call'[t] = call[t]
        /\ table[h] = w /\ table'[h] = NoObject /\ \A s \in Slots \ {h} : table'[s] = table[s]
    BY <1>t, <2>1 DEF Clears, CallsTyped, TablesTyped
  <2>3. SlotsOf(o)' = IF o = w THEN SlotsOf(o) - 1 ELSE SlotsOf(o)
    BY <1>t, <2>2, SlotsMove
  <2>4. y = IF o = w THEN x + 1 ELSE x
    BY <1>t, <1>h, <2>1, <2>2
  <2>5. x \in 0 .. 2
    BY DEF Held
  <2> HIDE DEF x, y
  <2>6. refs'[o] = refs[o] + (SlotsOf(o)' - SlotsOf(o)) + (y - x)
    BY <1>s, <1>t, <2>2, <2>3, <2>4, <2>5
  <2> QED
    BY <2>6 DEF x, y
<1>9. CASE RemoveHandle(t)
  <2>1. Kept /\ refs' = Released(obj[t]) /\ pc[t] = "unname"
    BY <1>9 DEF RemoveHandle, At, tableVars
  <2>2. y = IF call[t] = "create" /\ obj[t] = o THEN 1 ELSE 0
    BY <1>g, <1>9 DEF RemoveHandle
  <2> QED
    BY <1>t, <1>f, <1>h, <1>k, <2>1, <2>2
<1>10. CASE Construct(t)
  <2>1. PICK n \in Nat, w \in Objects :
           /\ w \notin born /\ n + 1 \in Slots /\ AddHandle(w, n + 1) /\ table[n + 1] = NoObject
           /\ refs' = [refs EXCEPT ![w] = 2] /\ obj' = [obj EXCEPT ![t] = w]
    BY <1>10, NewObject, ObjectTableAssumption
  <2>2. /\ table'[n + 1] = w /\ \A s \in Slots \ {n + 1} : table'[s] = table[s]
        /\ obj'[t] = w /\ pc'[t] = "addName"
    BY <1>t, <1>10, <2>1 DEF AddHandle, Construct, Goto, CallsTyped, TablesTyped
  <2>3. SlotsOf(o)' = IF o = w THEN SlotsOf(o) + 1 ELSE SlotsOf(o)
    BY <1>t, <2>1, <2>2, SlotsMove
  <2>4. obj[t] = NoObject
    BY <1>t, <1>10 DEF Construct, At, Placed, Empty
  <2>5. x = 0 /\ y = (IF o = w THEN 1 ELSE 0)
    BY <1>t, <1>h, <2>2, <2>4
  <2>6. o = w => refs[o] = 0
    BY <2>1, RefsOfUnborn
  <2> HIDE DEF x, y
  <2>7. refs'[o] = refs[o] + (SlotsOf(o)' - SlotsOf(o)) + (y - x)
    BY <1>s, <1>t, <2>1, <2>3, <2>5, <2>6
  <2> QED
    BY <2>7 DEF x, y
<1>11. CASE AddName(t) \/ ReturnHandle(t) \/ EndUse(t)
  <2>1. Kept /\ refs' = Released(obj[t]) /\ pc[t] # "unname" /\ y = 0
    BY <1>r, <1>11 DEF AddName, ReturnHandle, EndUse, At, tableVars
  <2> QED
    BY <1>t, <1>f, <1>h, <1>k, <2>1
<1>12. CASE SourceGone(t)
  <2>1. Kept /\ refs' = refs /\ obj[t] = NoObject /\ y = 0
    BY <1>t, <1>r, <1>12 DEF SourceGone, At, Placed, Empty, tableVars, objectVars
  <2> QED
    BY <1>t, <1>h, <1>k, <2>1
<1>13. CASE AddDuplicate(t)
  <2>1. PICK n \in 0 .. Capacity - 1 :
           /\ n + 1 \in Slots /\ AddHandle(obj[t], n + 1) /\ table[n + 1] = NoObject
           /\ obj[t] \in born
           /\ \/ Return(t, [handle |-> n + 1, obj |-> obj[t]])
              \/ obj' = [obj EXCEPT ![t] = NoObject]
    BY <1>13, NewDuplicate
  <2>2. /\ table'[n + 1] = obj[t] /\ \A s \in Slots \ {n + 1} : table'[s] = table[s]
        /\ refs' = refs /\ pc[t] = "addHandle"
    BY <1>t, <1>13, <2>1 DEF AddHandle, AddDuplicate, At, TablesTyped
  <2>3. SlotsOf(o)' = IF o = obj[t] THEN SlotsOf(o) + 1 ELSE SlotsOf(o)
    BY <1>t, <2>1, <2>2, SlotsMove
  <2>4. obj'[t] = NoObject
    BY <1>t, <2>1, Returns DEF CallsTyped
  <2>5. y = 0 /\ x = (IF o = obj[t] THEN 1 ELSE 0)
    BY <1>t, <1>h, <2>2, <2>4
  <2> HIDE DEF x, y
  <2>6. refs'[o] = refs[o] + (SlotsOf(o)' - SlotsOf(o)) + (y - x)
    BY <1>s, <1>t, <2>2, <2>3, <2>5
  <2> QED
    BY <2>6 DEF x, y
<1> QED
  BY <1>1, <1>2, <1>3, <1>4, <1>5, <1>6, <1>7, <1>8, <1>9, <1>10, <1>11, <1>12, <1>13 DEF Step

LEMMA StepReferences ==
  ASSUME IInv, [Next]_vars
  PROVE  ReferencesCounted' /\ refs' \in [Objects -> Nat]
<1>e. /\ ReferencesCounted <=> \A o \in Objects : refs[o] = SlotsOf(o) + HeldBy(o)
      /\ ReferencesCounted' <=> \A o \in Objects : refs'[o] = SlotsOf(o)' + HeldBy(o)'
  <2>1. \A S, T : S \subseteq Slots /\ T \subseteq Threads => Cardinality(S) \in Nat /\ Cardinality(T) \in Nat
    BY SlotsFinite, FS_Subset, FS_CardinalityType, ObjectTableAssumption
  <2>2. ASSUME NEW o \in Objects
        PROVE  /\ SlotsOf(o) + HeldBy(o) = Cardinality({s \in Slots : table[s] = o})
                                           + Cardinality({u \in Threads : Held(u, o) > 0})
                                           + Cardinality({u \in Threads : Held(u, o) > 1})
               /\ SlotsOf(o)' + HeldBy(o)' = Cardinality({s \in Slots : table'[s] = o})
                                             + Cardinality({u \in Threads : Held(u, o)' > 0})
                                             + Cardinality({u \in Threads : Held(u, o)' > 1})
    <3>1. /\ Cardinality({s \in Slots : table[s] = o}) \in Nat /\ Cardinality({s \in Slots : table'[s] = o}) \in Nat
          /\ Cardinality({u \in Threads : Held(u, o) > 0}) \in Nat
          /\ Cardinality({u \in Threads : Held(u, o) > 1}) \in Nat
          /\ Cardinality({u \in Threads : Held(u, o)' > 0}) \in Nat
          /\ Cardinality({u \in Threads : Held(u, o)' > 1}) \in Nat
      BY <2>1
    <3> QED
      BY <3>1 DEF SlotsOf, HeldBy
  <2> QED
    BY <2>2 DEF ReferencesCounted
<1>1. CASE UNCHANGED vars
  BY <1>1 DEF vars, tableVars, objectVars, threadVars, IInv, TypeOK, ReferencesCounted, Held
<1>2. ASSUME NEW t \in Threads, Start(t) \/ Step(t) PROVE ReferencesCounted' /\ refs' \in [Objects -> Nat]
  <2>1. ASSUME NEW o \in Objects PROVE refs'[o] = SlotsOf(o)' + HeldBy(o)' /\ refs'[o] \in Nat
    <3>1. refs[o] = SlotsOf(o) + HeldBy(o)
      BY <1>e DEF IInv
    <3>2. refs'[o] = refs[o] + (SlotsOf(o)' - SlotsOf(o)) + (Held(t, o)' - Held(t, o))
      BY <1>2, RefsMove
    <3>3. HeldBy(o)' = HeldBy(o) + Held(t, o)' - Held(t, o)
      BY <1>2, HeldMoves
    <3>4. HeldBy(o) \in Nat /\ SlotsOf(o) \in Nat /\ HeldBy(o)' \in Nat /\ SlotsOf(o)' \in Nat
      BY CountsTyped
    <3>5. Held(t, o) \in 0 .. 2 /\ Held(t, o)' \in 0 .. 2
      BY DEF Held
    <3> QED
      BY <3>1, <3>2, <3>3, <3>4, <3>5
  <2>2. refs' \in [Objects -> Int]
    BY StepTypes
  <2> QED
    BY <1>e, <2>1, <2>2
<1> QED
  BY <1>1, <1>2 DEF Next

-----------------------------------------------------------------------------
(* Handles and names.                                                       *)

\* A call gets a handle of an object in one of two ways.
LEMMA OpenMoves ==
  ASSUME IInv, NEW t \in Threads, Start(t) \/ Step(t)
  PROVE  \/ open'[t] = open[t] \/ open'[t].obj = NoObject
         \/ AddName(t) /\ open'[t] = [handle |-> First(obj[t]), obj |-> obj[t]]
         \/ AddDuplicate(t) /\ (open'[t].obj = obj[t] \/ open'[t] = open[t])
<1>t. CallsTyped /\ Nothing.obj = NoObject
  BY TypeParts DEF IInv, Nothing
<1>r. ASSUME NEW g, Return(t, g) PROVE open'[t] = g
  BY <1>r, Returns
<1>1. CASE Start(t)
  BY <1>t, <1>1 DEF Start, CallByName, CallByHandle, CallReplace, CallClose, CallsTyped
<1>2. CASE LockName(t) \/ ReadName(t)
  BY <1>t, <1>r, <1>2 DEF LockName, ReadName, ReadNone, ReadHandle
<1>3. CASE LookupByName(t) \/ LookupAgain(t) \/ Use(t) \/ Duplicate(t)
  BY <1>3 DEF LookupByName, LookupAgain, Use, Duplicate, Lookup
<1>4. CASE ReadFirst(t) \/ RetainFound(t) \/ TakeAgain(t) \/ Construct(t)
  BY <1>4 DEF ReadFirst, RetainFound, TakeAgain, Construct
<1>g. ASSUME AfterRelease(t) PROVE open'[t] = open[t]
  BY <1>r, <1>g DEF AfterRelease
<1>5. CASE ReleaseHandle(t) \/ RemoveHandle(t)
  BY <1>g, <1>5 DEF ReleaseHandle, RemoveHandle
<1>6. CASE ReleaseLastHandle(t) \/ CloseSource(t)
  BY <1>6 DEF ReleaseLastHandle, CloseSource, ClearEntry
<1>7. CASE AddName(t)
  BY <1>r, <1>7 DEF AddName
<1>8. CASE ReturnHandle(t)
  BY <1>r, <1>8 DEF ReturnHandle
<1>9. CASE EndUse(t) \/ SourceGone(t)
  BY <1>r, <1>9 DEF EndUse, SourceGone
<1>10. CASE AddDuplicate(t)
  <2>1. PICK s \in Slots : \/ Return(t, [handle |-> s, obj |-> obj[t]])
                           \/ open' = [open EXCEPT ![t] = [handle |-> s, obj |-> obj[t]]]
    BY <1>10, NewDuplicate
  <2> QED
    BY <1>t, <1>r, <1>10, <2>1 DEF CallsTyped
<1> QED
  BY <1>1, <1>2, <1>3, <1>4, <1>5, <1>6, <1>7, <1>8, <1>9, <1>10 DEF Step

\* The slot a thread has open has a count that is that thread's alone: who
\* removes the slot at a count of one is that thread.
LEMMA OpenNotCleared ==
  ASSUME IInv, NEW t \in Threads, ReleaseLastHandle(t) \/ CloseSource(t),
         NEW h \in Slots, NEW o \in born, Clears(t, h, o), o \notin duplicated,
         NEW u \in Threads, open[u].handle = h, open[u].obj = o
  PROVE  FALSE
<1>t. /\ TablesTyped /\ Placed(t) /\ o # NoObject /\ table[h] = o
  BY TypeParts, ObjectTableAssumption DEF IInv, Places, Clears, TablesTyped
<1>1. PICK k \in Slots, w \in born :
           /\ Clears(t, k, w)
           /\ \/ /\ pc[t] = "release" /\ counted[t] = k /\ count[k] = 1
                 /\ (call[t] = "create" /\ obj[t] = w) \/ (call[t] = "close" /\ obj[t] = NoObject)
              \/ w \in duplicated
  BY Clearing
<1>2. k = h /\ w = o
  <2>1. table[k] # NoObject /\ table'[k] = NoObject /\ table[k] = w
    BY <1>t, <1>1, ObjectTableAssumption DEF Clears, TablesTyped
  <2>2. \A s \in Slots \ {h} : table'[s] = table[s]
    BY <1>t DEF Clears, TablesTyped
  <2> QED
    BY <1>t, <2>1, <2>2
<1>3. /\ pc[t] = "release" /\ counted[t] = h /\ count[h] = 1
      /\ (call[t] = "create" /\ obj[t] = o) \/ (call[t] = "close" /\ obj[t] = NoObject)
  BY <1>1, <1>2
<1>4. Keeps(t, h) /\ Keeps(u, h)
  BY <1>t, <1>3 DEF Keeps
<1>5. u # t
  BY <1>t, <1>3 DEF Placed, Nothing
<1> DEFINE A == {v \in Threads : Keeps(v, h)}
<1>6. Cardinality(A) = 1
  BY <1>t, <1>3 DEF IInv, CountsKept
<1>7. IsFiniteSet(A) /\ t \in A /\ u \in A
  BY <1>4, FS_Subset, ObjectTableAssumption
<1> HIDE DEF A
<1>8. PICK v : A = {v}
  BY <1>6, <1>7, FS_Singleton
<1> QED
  BY <1>5, <1>7, <1>8

LEMMA StepHandleStaysOpen ==
  ASSUME IInv, [Next]_vars
  PROVE  AddedHandleStaysOpen'
<1>1. CASE UNCHANGED vars
  BY <1>1 DEF vars, tableVars, objectVars, threadVars, IInv, AddedHandleStaysOpen
<1>2. ASSUME NEW t \in Threads, Start(t) \/ Step(t),
             NEW u \in Threads, open'[u].obj # NoObject, open'[u].obj \notin duplicated'
      PROVE  table'[open'[u].handle] = open'[u].obj
  <2>t. TablesTyped /\ CallsTyped /\ KnownAreBorn
    BY TypeParts DEF IInv
  <2>1. CASE open'[u] = open[u]
    <3> DEFINE h == open[u].handle
               o == open[u].obj
    <3>1. o # NoObject /\ o \notin duplicated /\ o \in born
      BY <1>2, <2>t, <2>1, Stable DEF KnownAreBorn
    <3>2. h \in Slots
      <4>1. h # NoHandle
        BY <3>1 DEF IInv, Places, Placed
      <4> QED
        BY <2>t, <4>1 DEF CallsTyped, Open
    <3>3. table[h] = o
      BY <3>1 DEF IInv, AddedHandleStaysOpen
    <3>4. ASSUME NEW w \in born, Clears(t, h, w), ReleaseLastHandle(t) \/ CloseSource(t) PROVE FALSE
      <4>1. w = o
        BY <3>3, <3>4 DEF Clears
      <4> QED
        BY <1>2, <3>1, <3>2, <3>4, <4>1, OpenNotCleared
    <3> HIDE DEF h, o
    <3>5. table'[h] = table[h]
      BY <1>2, <3>1, <3>2, <3>3, <3>4, SlotStays
    <3> QED
      BY <2>1, <3>3, <3>5 DEF h, o
  <2>2. CASE open'[u] # open[u]
    <3>1. u = t
      BY <1>2, <2>2, Frame DEF OthersStay
    <3>2. CASE AddName(t) /\ open'[t] = [handle |-> First(obj[t]), obj |-> obj[t]]
      <4>1. table[First(obj[t])] = obj[t] /\ UNCHANGED table
        BY <3>2 DEF IInv, NewIsPrivate, Private, AddName, At, tableVars
      <4> QED
        BY <3>1, <3>2, <4>1
    <3>3. CASE AddDuplicate(t) /\ open'[t].obj = obj[t]
      <4>1. obj[t] \in duplicated'
        BY <3>3 DEF AddDuplicate
      <4> QED
        BY <1>2, <3>1, <3>3, <4>1
    <3> QED
      BY <1>2, <2>2, <3>1, <3>2, <3>3, OpenMoves
  <2> QED
    BY <2>1, <2>2
<1> QED
  BY <1>1, <1>2 DEF Next, AddedHandleStaysOpen

LEMMA OnlyRemoval ==
  ASSUME IInv, NEW t \in Threads, Start(t) \/ Step(t), pc[t] = "unname"
  PROVE  RemoveHandle(t)
<1>1. ~Start(t)
  BY DEF Start, CallByName, CallByHandle, CallReplace, CallClose, Call, At
<1> QED
  BY <1>1 DEF Step, LockName, ReadName, LookupByName, ReadFirst, RetainFound, LookupAgain, TakeAgain,
     ReleaseHandle, ReleaseLastHandle, Construct, AddName, ReturnHandle, Use, EndUse, Duplicate,
     AddDuplicate, CloseSource, SourceGone, At

Leads(m) ==
  \/ table[names[m]] # NoObject /\ nameOf[table[names[m]]] = m
  \/ globalLock # Nobody /\ nameOf[obj[globalLock]] = m

LEMMA StepNamesLead ==
  ASSUME IInv, [Next]_vars
  PROVE  NamesLeadToNamed'
<1>1. CASE UNCHANGED vars
  BY <1>1 DEF vars, tableVars, nameVars, objectVars, threadVars, IInv, NamesLeadToNamed
<1>2. ASSUME NEW t \in Threads, Start(t) \/ Step(t), NEW m \in Names, names'[m] # NoHandle
      PROVE  Leads(m)'
  <2>t. /\ TablesTyped /\ CallsTyped /\ HandlesAgree /\ Placed(t) /\ NoObject \notin Objects
        /\ \A k \in Names : names[k] # NoHandle => Leads(k)
        /\ \A v \in Threads : pc[v] = "unname" <=> globalLock = v
        /\ \A v \in Threads : v # Nobody
    BY TypeParts, ObjectTableAssumption DEF IInv, Places, NamesLeadToNamed, Leads
  <2>1. CASE AddName(t)
    <3> DEFINE o == obj[t]
               s == First(o)
    <3>1. /\ Private(t, s) /\ o \in born /\ o \in Objects /\ s \in Slots /\ pc[t] = "addName"
          /\ \A x \in Slots : table[x] = o => x = s
      <4>1. pc[t] = "addName" /\ o # NoObject
        BY <2>t, <2>1 DEF AddName, At, Placed
      <4>2. o \in born /\ Private(t, s)
        BY <4>1 DEF IInv, KnownAreBorn, NewIsPrivate
      <4>3. o \notin duplicated
        BY <4>2 DEF Private
      <4> QED
        BY <2>t, <4>1, <4>2, <4>3, FirstDenotes DEF TablesTyped
    <3>2. /\ UNCHANGED <<table, globalLock>>
          /\ nameOf' = [nameOf EXCEPT ![o] = name[t]]
          /\ names' = IF names[name[t]] = NoHandle THEN [names EXCEPT ![name[t]] = s] ELSE names
      BY <2>1 DEF AddName, tableVars
    <3> HIDE DEF o, s
    <3>3. \A v \in Threads \ {t} : obj'[v] = obj[v] /\ obj[v] # o
      BY <1>2, <3>1, Frame DEF OthersStay, Private, o
    <3>4. CASE m = name[t] /\ names[m] = NoHandle
      <4>1. names'[m] = s /\ table'[s] = o /\ nameOf'[o] = m
        BY <2>t, <3>1, <3>2, <3>4 DEF TablesTyped, Private, o
      <4> QED
        BY <2>t, <3>1, <4>1 DEF Leads
    <3>5. CASE ~(m = name[t] /\ names[m] = NoHandle)
      <4>1. names'[m] = names[m] /\ Leads(m) /\ names[m] # s
        BY <1>2, <2>t, <3>1, <3>2, <3>5 DEF TablesTyped, Private
      <4>2. CASE table[names[m]] # NoObject /\ nameOf[table[names[m]]] = m
        <5>1. names[m] \in Slots
          BY <1>2, <2>t, <4>1 DEF TablesTyped
        <5>2. table[names[m]] # o
          BY <3>1, <4>1, <5>1
        <5> QED
          BY <2>t, <3>2, <4>1, <4>2, <5>1, <5>2 DEF Leads, TablesTyped
      <4>3. CASE globalLock # Nobody /\ nameOf[obj[globalLock]] = m
        <5>1. globalLock \in Threads \ {t}
          BY <2>t, <3>1, <4>3 DEF TablesTyped
        <5>2. obj'[globalLock] = obj[globalLock] /\ obj[globalLock] # o
          BY <3>3, <5>1
        <5>3. obj[globalLock] \in Objects
          <6>1. pc[globalLock] = "unname" /\ Placed(globalLock)
            BY <2>t, <5>1 DEF IInv, Places
          <6> QED
            BY <2>t, <5>1, <6>1 DEF Placed, CallsTyped
        <5> QED
          BY <2>t, <3>2, <4>3, <5>2, <5>3 DEF Leads, TablesTyped
      <4> QED
        BY <4>1, <4>2, <4>3 DEF Leads
    <3> QED
      BY <3>4, <3>5
  <2>2. CASE RemoveHandle(t)
    <3>1. /\ UNCHANGED <<table, nameOf>> /\ pc[t] = "unname"
          /\ names' = [k \in Names |-> IF k = nameOf[obj[t]] THEN NoHandle ELSE names[k]]
      BY <2>2 DEF RemoveHandle, At, tableVars
    <3>2. names'[m] = names[m] /\ m # nameOf[obj[t]] /\ globalLock = t
      BY <1>2, <2>t, <3>1
    <3>3. table[names[m]] # NoObject /\ nameOf[table[names[m]]] = m
      BY <1>2, <2>t, <3>2 DEF Leads
    <3> QED
      BY <3>1, <3>2, <3>3 DEF Leads
  <2>3. CASE ReleaseLastHandle(t) \/ CloseSource(t)
    <3>1. PICK h \in Slots, o \in born : Clears(t, h, o)
      BY <2>3, Clearing
    <3>2. /\ UNCHANGED <<names, nameOf>> /\ globalLock = Nobody /\ globalLock' = t /\ obj'[t] = o
          /\ table[h] = o /\ \A x \in Slots \ {h} : table'[x] = table[x]
      BY <2>t, <3>1 DEF Clears, nameVars, TablesTyped, CallsTyped
    <3>3. /\ table[names[m]] # NoObject /\ nameOf[table[names[m]]] = m /\ names[m] \in Slots
      BY <1>2, <2>t, <3>2 DEF Leads, TablesTyped
    <3>4. CASE names[m] = h
      BY <2>t, <3>2, <3>3, <3>4 DEF Leads
    <3>5. CASE names[m] # h
      BY <3>2, <3>3, <3>5 DEF Leads
    <3> QED
      BY <3>4, <3>5
  <2>4. CASE ~AddName(t) /\ ~RemoveHandle(t) /\ ~ReleaseLastHandle(t) /\ ~CloseSource(t)
    <3>1. UNCHANGED nameOf /\ names'[m] = names[m] /\ names[m] # NoHandle /\ Leads(m) /\ names[m] \in Slots
      BY <1>2, <2>t, <2>4, NamesGiven DEF TablesTyped
    <3>2. CASE table[names[m]] # NoObject /\ nameOf[table[names[m]]] = m
      <4>1. table'[names[m]] = table[names[m]]
        BY <1>2, <2>4, <3>1, <3>2, SlotStays
      <4> QED
        BY <3>1, <3>2, <4>1 DEF Leads
    <3>3. CASE globalLock # Nobody /\ nameOf[obj[globalLock]] = m
      <4>1. globalLock \in Threads /\ pc[globalLock] = "unname"
        BY <2>t, <3>3 DEF TablesTyped
      <4>2. globalLock # t
        BY <1>2, <2>4, <4>1, OnlyRemoval
      <4>3. obj'[globalLock] = obj[globalLock]
        BY <1>2, <4>1, <4>2, Frame DEF OthersStay
      <4>4. globalLock' = globalLock
        BY <1>2, <2>t, <3>3, <4>1, <4>2, StepLock DEF GlobalFree
      <4> QED
        BY <3>1, <3>3, <4>3, <4>4 DEF Leads
    <3> QED
      BY <3>1, <3>2, <3>3 DEF Leads
  <2> QED
    BY <2>1, <2>2, <2>3, <2>4
<1> QED
  BY <1>1, <1>2 DEF Next, NamesLeadToNamed, Leads

-----------------------------------------------------------------------------
(* Objects that are deleted.                                                *)

\* Of an object without references there is no slot and no call.
LEMMA NobodyHas ==
  ASSUME IInv, NEW o \in born, refs[o] = 0
  PROVE  (\A s \in Slots : table[s] # o) /\ \A u \in Threads : obj[u] # o
<1> DEFINE S == {s \in Slots : table[s] = o}
           A == {u \in Threads : Held(u, o) > 0}
           B == {u \in Threads : Held(u, o) > 1}
<1>1. IsFiniteSet(S) /\ IsFiniteSet(A) /\ IsFiniteSet(B)
  BY SlotsFinite, FS_Subset, ObjectTableAssumption
<1>2. refs[o] = Cardinality(S) + Cardinality(A) + Cardinality(B)
  BY TypeParts DEF IInv, ReferencesCounted, TablesTyped
<1> HIDE DEF S, A, B
<1>3. Cardinality(S) = 0 /\ Cardinality(A) = 0
  BY <1>1, <1>2, FS_CardinalityType
<1>4. S = {} /\ A = {}
  BY <1>1, <1>3, FS_EmptySet
<1> QED
  BY <1>4 DEF S, A, Held

LEMMA StepDeleted ==
  ASSUME IInv, [Next]_vars, NEW o \in born, refs[o] = 0
  PROVE  refs'[o] = 0
<1>t. TablesTyped /\ CallsTyped /\ o \in Objects /\ o # NoObject
  BY TypeParts, ObjectTableAssumption DEF IInv, TablesTyped
<1>n. (\A s \in Slots : table[s] # o) /\ \A u \in Threads : obj[u] # o
  BY NobodyHas
<1>1. CASE UNCHANGED vars
  BY <1>1 DEF vars, objectVars
<1>2. ASSUME NEW t \in Threads, Start(t) \/ Step(t)
      PROVE  (\A s \in Slots : table'[s] # o) /\ \A u \in Threads : obj'[u] # o
  <2>1. CASE Construct(t)
    <3>1. PICK n \in 0 .. Capacity - 1, x \in Objects :
             n + 1 \in Slots /\ x \notin born /\ AddHandle(x, n + 1) /\ obj' = [obj EXCEPT ![t] = x]
      BY <2>1, NewObject
    <3> QED
      BY <1>t, <1>n, <3>1 DEF AddHandle, TablesTyped, CallsTyped
  <2>2. CASE AddDuplicate(t)
    <3>1. PICK n \in 0 .. Capacity - 1 :
             /\ n + 1 \in Slots /\ AddHandle(obj[t], n + 1)
             /\ \/ Return(t, [handle |-> n + 1, obj |-> obj[t]])
                \/ obj' = [obj EXCEPT ![t] = NoObject]
      BY <2>2, NewDuplicate
    <3>2. \A u \in Threads : obj'[u] \in {obj[u], NoObject}
      BY <1>t, <3>1 DEF CallsTyped, Return
    <3> QED
      BY <1>t, <1>n, <3>1, <3>2 DEF AddHandle, TablesTyped
  <2>3. CASE ~Construct(t) /\ ~AddDuplicate(t)
    <3>1. \A s \in Slots : table'[s] # o
      <4>1. CASE Keeping
        BY <1>n, <4>1 DEF Keeping
      <4>2. CASE ReleaseLastHandle(t) \/ CloseSource(t)
        <5>1. PICK h \in Slots, x \in born : Clears(t, h, x)
          BY <4>2, Clearing
        <5> QED
          BY <1>t, <1>n, <5>1 DEF Clears, TablesTyped
      <4> QED
        BY <1>2, <2>3, <4>1, <4>2, TableSteps
    <3>2. obj'[t] # o
      BY <1>2, <1>t, <1>n, <2>3, Learnt
    <3> QED
      BY <1>2, <1>n, <3>1, <3>2, Frame DEF OthersStay
  <2> QED
    BY <2>1, <2>2, <2>3
<1>3. ASSUME \A s \in Slots : table'[s] # o, \A u \in Threads : obj'[u] # o
      PROVE  refs'[o] = 0
  <2>1. \A u \in Threads : Held(u, o)' = 0
    BY <1>3 DEF Held
  <2>2. /\ {s \in Slots : table'[s] = o} = {}
        /\ {u \in Threads : Held(u, o)' > 0} = {} /\ {u \in Threads : Held(u, o)' > 1} = {}
    BY <1>3, <2>1
  <2>3. refs'[o] = Cardinality({s \in Slots : table'[s] = o})
                   + Cardinality({u \in Threads : Held(u, o)' > 0})
                   + Cardinality({u \in Threads : Held(u, o)' > 1})
    BY <1>t, StepReferences DEF ReferencesCounted
  <2> QED
    BY <2>2, <2>3, FS_EmptySet
<1> QED
  BY <1>1, <1>2, <1>3 DEF Next

-----------------------------------------------------------------------------
(* The theorems.                                                            *)

LEMMA InitIInv == Init => IInv
<1> SUFFICES ASSUME Init PROVE IInv
  OBVIOUS
<1>a. /\ Nobody \notin Threads /\ NoName \notin Names /\ NoObject \notin Objects
      /\ Capacity \in Nat /\ Capacity >= 2 /\ MaxCalls \in 0 .. Capacity - 1
  BY ObjectTableAssumption
<1>t. TypeOK
  <2>1. /\ "ready" \in Pc /\ "none" \in Calls /\ Nothing \in Open /\ 1 \in Slots
        /\ 0 \in 0 .. MaxCalls /\ 0 \in Nat /\ 0 \in Int
    BY <1>a DEF Pc, Calls, Nothing, Open, Slots
  <2>2. <<>> \in Seq(Slots)
    OBVIOUS
  <2> QED
    BY <2>1, <2>2 DEF Init, TypeOK
<1>1. SlotsUsedOnce
  <2>1. {t \in Threads : Adding(t)} = {} /\ Cardinality({}) = 0
    BY FS_EmptySet DEF Init, Adding
  <2>2. UsedUpTo(0)
    <3>1. \A t \in Threads : handle[t] = 0 /\ counted[t] = 0 /\ open[t].handle = 0
      BY DEF Init, Nothing, NoHandle
    <3>2. \A o \in Objects : erased[o] = 0 /\ Len(handles[o]) = 0
      BY DEF Init, NoHandle
    <3>3. /\ cursor = 1 /\ born = {} /\ calls = 0
          /\ \A s \in Slots : table[s] = NoObject
          /\ \A m \in Names : names[m] = 0
      BY DEF Init, NoHandle
    <3>4. 0 + Cardinality({t \in Threads : Adding(t)}) <= calls /\ Cardinality(born) <= 0
      BY <2>1, <3>3
    <3>5. \A o \in Objects : erased[o] <= 0 /\ \A k \in 1 .. Len(handles[o]) : handles[o][k] <= 0
      BY <3>2
    <3>6. \A t \in Threads : handle[t] <= 0 /\ counted[t] <= 0 /\ open[t].handle <= 0
      BY <3>1
    <3>7. 0 < Capacity - 1 => cursor = 0 + 1
      BY <3>3
    <3> QED
      BY <3>3, <3>4, <3>5, <3>6, <3>7 DEF UsedUpTo
  <2>3. 0 \in 0 .. Capacity - 1
    BY <1>a
  <2> QED
    BY <2>2, <2>3 DEF SlotsUsedOnce
<1>2. Places
  BY <1>a DEF Init, Places, Placed, Empty, Nothing
<1>3. HandlesAgree
  BY DEF Init, HandlesAgree
<1>4. KnownAreBorn /\ CallsKnow /\ NewIsPrivate
  BY DEF Init, KnownAreBorn, CallsKnow, CallKnows, NewIsPrivate, Nothing
<1>5. CountsKept /\ AddedHandleStaysOpen /\ NamesLeadToNamed
  BY DEF Init, CountsKept, AddedHandleStaysOpen, NamesLeadToNamed, Nothing
<1>6. ReferencesCounted
  <2>1. ASSUME NEW o \in Objects
        PROVE  /\ refs[o] = 0 /\ {s \in Slots : table[s] = o} = {}
               /\ {t \in Threads : Held(t, o) > 0} = {} /\ {t \in Threads : Held(t, o) > 1} = {}
    BY <1>a DEF Init, Held
  <2> QED
    BY <2>1, FS_EmptySet DEF ReferencesCounted
<1> QED
  BY <1>t, <1>1, <1>2, <1>3, <1>4, <1>5, <1>6 DEF IInv

LEMMA NextIInv == IInv /\ [Next]_vars => IInv'
<1> SUFFICES ASSUME IInv, [Next]_vars PROVE IInv'
  OBVIOUS
<1>1. TypeOK'
  BY TypeParts, StepTypes, StepReferences
<1> QED
  BY <1>1, StepSlots, StepPlaces, StepHandlesAgree, StepKnownAreBorn, StepCallsKnow, StepNewIsPrivate,
     StepCountsKept, StepReferences, StepHandleStaysOpen, StepNamesLead DEF IInv

\* The inductive invariant holds at all times.
THEOREM Invariance == Spec => []IInv
  BY InitIInv, NextIInv, PTL DEF Spec

\* Every variable of the table, of the objects and of the calls has its type:
\* no reference count falls below zero, and no call adds a slot that is not one.
THEOREM TypeCorrect == Spec => []TypeOK
  BY Invariance, PTL DEF IInv

\* pointer_ref_count_ is exact at every moment, for any number of threads,
\* names and objects: one for every slot, and one for every call that uses the
\* object (XObject::Retain and Release, ObjectTable::AddHandle, LookupObject and
\* RemoveHandle).
THEOREM ReferencesExact == Spec => []ReferencesCounted
  BY Invariance, PTL DEF IInv

\* An object whose last reference was given back (XObject::Release deletes it)
\* is never used again: nobody retains it, and no slot holds it any more.
THEOREM DeletedStaysDeleted == Spec => [][\A o \in born : refs[o] = 0 => refs'[o] = 0]_vars
<1>1. IInv /\ [Next]_vars => [\A o \in born : refs[o] = 0 => refs'[o] = 0]_vars
  BY StepDeleted
<1> QED
  BY <1>1, Invariance, PTL DEF Spec

\* A handle a call added and its owner has not closed denotes the object it
\* was added for, unless that object was duplicated: what LookupNamedObject and
\* GetObjectByName retain and release on the way closes it for nobody else.
THEOREM AddedHandlesStayOpen == Spec => []AddedHandleStaysOpen
  BY Invariance, PTL DEF IInv

\* A name of name_table_ leads to an object of that name that is in the table,
\* or to one that is being removed with the global lock held.
THEOREM NamesAreNotDangling == Spec => []NamesLeadToNamed
  BY Invariance, PTL DEF IInv

-----------------------------------------------------------------------------
(* The two locks.                                                           *)

\* What the call of t waits for before its next step.
NeedsName(t) == pc[t] \in {"lockName", "unname", "addName"}
NeedsGlobal(t) ==
  \/ pc[t] \in {"lookup", "lookupAgain", "construct", "use", "duplicate", "addHandle", "remove"}
  \/ pc[t] \in {"retain", "release", "takeAgain"} /\ counted[t] # NoHandle

Waiting(t) ==
  \/ NeedsName(t) /\ nameMutex # Nobody
  \/ NeedsGlobal(t) /\ globalLock # Nobody

\* name_mutex_ is held where a call reads the name table, and nowhere else for
\* longer than a step.
MutexHeld == \A t \in Threads : pc[t] = "readName" <=> nameMutex = t

LEMMA StepMutexHeld ==
  ASSUME IInv, MutexHeld, [Next]_vars
  PROVE  MutexHeld'
<1> USE DEF MutexHeld
<1>t. /\ nameMutex \in Threads \cup {Nobody} /\ Nobody \notin Threads
      /\ pc \in [Threads -> Pc]
  BY ObjectTableAssumption DEF IInv, TypeOK
<1>1. ASSUME NEW t \in Threads, LockName(t) PROVE MutexHeld'
  BY <1>t, <1>1 DEF LockName, Goto, At
<1>2. ASSUME NEW t \in Threads, ReadName(t) PROVE MutexHeld'
  <2>1. nameMutex = t /\ nameMutex' = Nobody
    BY <1>2 DEF ReadName, At
  <2>2. \E l \in {"construct", "ready", "lookup"} : Goto(t, l)
    BY <1>2 DEF ReadName, ReadNone, ReadHandle, Return
  <2> QED
    BY <1>t, <2>1, <2>2 DEF Goto
<1>3. ASSUME NEW t \in Threads, nameMutex' = nameMutex, pc[t] # "readName",
             UNCHANGED pc \/ \E l \in Pc \ {"readName"} : Goto(t, l)
      PROVE  MutexHeld'
  BY <1>t, <1>3 DEF Goto
<1>4. ASSUME NEW t \in Threads,
             \/ CallByName(t) \/ CallByHandle(t) \/ CallReplace(t) \/ CallClose(t)
             \/ LookupByName(t) \/ ReadFirst(t) \/ RetainFound(t) \/ LookupAgain(t) \/ TakeAgain(t)
      PROVE  MutexHeld'
  <2>1. nameMutex' = nameMutex /\ pc[t] # "readName"
    BY <1>4 DEF CallByName, CallByHandle, CallReplace, CallClose, Call, At, nameVars, LookupByName,
                Lookup, ReadFirst, RetainFound, LookupAgain, TakeAgain, RetainHandle
  <2>2. UNCHANGED pc \/ \E l \in Pc \ {"readName"} : Goto(t, l)
    BY <1>4 DEF CallByName, CallByHandle, CallReplace, CallClose, Call, LookupByName,
                Lookup, ReadFirst, RetainFound, LookupAgain, TakeAgain, Pc
  <2> QED
    BY <1>3, <2>1, <2>2
<1>5. ASSUME NEW t \in Threads,
             \/ ReleaseHandle(t) \/ ReleaseLastHandle(t) \/ RemoveHandle(t) \/ CloseSource(t)
             \/ SourceGone(t)
             \/ Construct(t) \/ AddName(t) \/ ReturnHandle(t)
             \/ Use(t) \/ EndUse(t) \/ Duplicate(t) \/ AddDuplicate(t)
      PROVE  MutexHeld'
  <2>1. nameMutex' = nameMutex /\ pc[t] # "readName"
    BY <1>5 DEF ReleaseHandle, ReleaseLastHandle, RemoveHandle, CloseSource, SourceGone, ClearEntry,
                Construct, AddName, ReturnHandle, Use, EndUse, Duplicate, AddDuplicate, Lookup, At,
                nameVars
  <2>2. \E l \in Pc \ {"readName"} : Goto(t, l)
    BY <1>5 DEF ReleaseHandle, ReleaseLastHandle, RemoveHandle, CloseSource, SourceGone, ClearEntry,
                AfterRelease, Return, Construct, AddName, ReturnHandle, Use, EndUse, Duplicate,
                AddDuplicate, Lookup, Pc
  <2> QED
    BY <1>3, <2>1, <2>2
<1>6. CASE UNCHANGED vars
  BY <1>6 DEF vars, nameVars, threadVars
<1> QED
  BY <1>1, <1>2, <1>4, <1>5, <1>6, Steps

\* The calls under way never all wait for the two locks, whatever their number:
\* RemoveHandle waits for name_mutex_ with the global lock held, and nobody waits
\* for the global lock with name_mutex_ held (GetObjectByName).
NotAllWait ==
  (\E t \in Threads : ~At(t, "ready")) => \E t \in Threads : ~At(t, "ready") /\ ~Waiting(t)

THEOREM LocksDoNotDeadlock == Spec => []NotAllWait
<1>1. Init => MutexHeld
  BY ObjectTableAssumption DEF Init, MutexHeld
<1>2. IInv /\ MutexHeld /\ [Next]_vars => MutexHeld'
  BY StepMutexHeld
<1>3. ASSUME IInv, MutexHeld PROVE NotAllWait
  <2>1. /\ nameMutex \in Threads \cup {Nobody} /\ globalLock \in Threads \cup {Nobody}
        /\ \A t \in Threads : pc[t] = "unname" <=> globalLock = t
    BY <1>3 DEF IInv, TypeOK, Places
  <2>2. CASE nameMutex \in Threads
    BY <1>3, <2>2 DEF NotAllWait, MutexHeld, Waiting, NeedsName, NeedsGlobal, At
  <2>3. CASE nameMutex = Nobody /\ globalLock \in Threads
    BY <2>1, <2>3 DEF NotAllWait, Waiting, NeedsName, NeedsGlobal, At
  <2>4. CASE nameMutex = Nobody /\ globalLock = Nobody
    BY <2>4 DEF NotAllWait, Waiting
  <2> QED
    BY <2>1, <2>2, <2>3, <2>4
<1> QED
  BY <1>1, <1>2, <1>3, Invariance, PTL DEF Spec
=============================================================================
