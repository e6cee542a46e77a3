---------------------------- MODULE ObjectTable ----------------------------
(***************************************************************************)
(* The kernel's handle table (src/src/system/util/object_table.cpp), the   *)
(* objects it holds (src/src/system/xobject.cpp), and the guest calls that *)
(* create, open, duplicate, use and close named objects at the same time   *)
(* (NtCreateEvent and its like, ObOpenObjectByName, NtDuplicateObject,     *)
(* NtClose).                                                               *)
(*                                                                         *)
(* One step is one critical section of the global lock or of name_mutex_,  *)
(* or one read of handles_[0], which no lock protects; the removal of a    *)
(* handle takes name_mutex_ with the global lock held, and is two steps.   *)
(***************************************************************************)
EXTENDS Integers, Sequences, FiniteSets, SequencesExt

CONSTANTS
  Threads, Nobody,
  Names, NoName,
  Objects, NoObject,   \* bound: the objects that are ever created
  Capacity,            \* table_capacity_; slot 0 is never used
  MaxCalls             \* bound: the calls that may add a handle

Slots == 1 .. Capacity - 1
NoHandle == 0

ASSUME ObjectTableAssumption ==
  /\ Nobody \notin Threads /\ NoName \notin Names /\ NoObject \notin Objects
  /\ Capacity \in Nat /\ Capacity >= 2 /\ MaxCalls \in 0 .. Capacity - 1
  /\ IsFiniteSet(Threads)
  /\ IsFiniteSet(Objects) /\ MaxCalls <= Cardinality(Objects)

VARIABLES
  table,       \* ObjectTableEntry::object of every slot
  count,       \* ObjectTableEntry::handle_ref_count of every slot
  cursor,      \* last_free_entry_
  names,       \* name_table_
  globalLock,  \* the thread that removes a handle, global lock held, or Nobody
  nameMutex,   \* the holder of name_mutex_
  refs,        \* pointer_ref_count_ of every object, 0 before and after its life
  handles,     \* handles_ of every object
  erased,      \* what handles_[0] reads once handles_ is empty
  nameOf,      \* name_ of every object
  born,        \* the objects that were created
  duplicated,  \* history: the objects that were duplicated
  pc, call,    \* where every thread is, and in which call
  handle, obj, name,  \* the locals of that call
  counted,     \* the handle whose count that call changes next, once it is known
  open,        \* the handle every thread got and has not closed
  calls        \* calls so far that may add a handle

tableVars == <<table, count, cursor>>
nameVars == <<names, nameMutex>>
objectVars == <<refs, handles, erased, nameOf, born, duplicated>>
threadVars == <<pc, call, handle, obj, name, counted, open, calls>>
vars == <<tableVars, nameVars, globalLock, objectVars, threadVars>>

Calls == {"none", "create", "open", "close", "use", "duplicate", "replace"}
Pc == {"ready", "lockName", "readName", "lookup", "retain", "lookupAgain", "release", "unname",
       "takeAgain", "construct", "addName", "return", "use", "using", "duplicate", "addHandle", "remove"}

\* obj: what the handle denoted when a call added it; NoObject if another did.
Open == [handle : Slots \cup {NoHandle}, obj : Objects \cup {NoObject}]
Nothing == [handle |-> NoHandle, obj |-> NoObject]

TypeOK ==
  /\ table \in [Slots -> Objects \cup {NoObject}]
  /\ count \in [Slots -> Int]
  /\ cursor \in Slots
  /\ names \in [Names -> Slots \cup {NoHandle}]
  /\ globalLock \in Threads \cup {Nobody} /\ nameMutex \in Threads \cup {Nobody}
  /\ refs \in [Objects -> Nat]
  /\ handles \in [Objects -> Seq(Slots)]
  /\ erased \in [Objects -> Slots \cup {NoHandle}]
  /\ nameOf \in [Objects -> Names \cup {NoName}]
  /\ born \subseteq Objects /\ duplicated \subseteq born
  /\ pc \in [Threads -> Pc] /\ call \in [Threads -> Calls]
  /\ handle \in [Threads -> Slots \cup {NoHandle}]
  /\ obj \in [Threads -> Objects \cup {NoObject}]
  /\ name \in [Threads -> Names]
  /\ counted \in [Threads -> Slots \cup {NoHandle}]
  /\ open \in [Threads -> Open]
  /\ calls \in 0 .. MaxCalls

Init ==
  /\ table = [s \in Slots |-> NoObject] /\ count = [s \in Slots |-> 0] /\ cursor = 1
  /\ names = [n \in Names |-> NoHandle]
  /\ globalLock = Nobody /\ nameMutex = Nobody
  /\ refs = [o \in Objects |-> 0] /\ handles = [o \in Objects |-> <<>>]
  /\ erased = [o \in Objects |-> NoHandle] /\ nameOf = [o \in Objects |-> NoName]
  /\ born = {} /\ duplicated = {}
  /\ pc = [t \in Threads |-> "ready"] /\ call = [t \in Threads |-> "none"]
  /\ handle = [t \in Threads |-> NoHandle] /\ obj = [t \in Threads |-> NoObject]
  /\ name \in [Threads -> Names]
  /\ counted = [t \in Threads |-> NoHandle]
  /\ open = [t \in Threads |-> Nothing]
  /\ calls = 0

Goto(t, l) == pc' = [pc EXCEPT ![t] = l]
At(t, l) == pc[t] = l
GlobalFree == globalLock = Nobody

\* handles_[0]: of an empty vector the storage still holds what was erased.
First(o) == IF handles[o] = <<>> THEN erased[o] ELSE Head(handles[o])

Retained(o) == [refs EXCEPT ![o] = refs[o] + 1]
Released(o) == IF o = NoObject THEN refs ELSE [refs EXCEPT ![o] = refs[o] - 1]

-----------------------------------------------------------------------------
(* The calls of the guest.  A thread has one handle open at a time, and may *)
(* use or duplicate a handle that another one got.                          *)

Call(t, c, l) ==
  /\ At(t, "ready")
  /\ call' = [call EXCEPT ![t] = c]
  /\ Goto(t, l)
  /\ UNCHANGED <<tableVars, nameVars, globalLock, objectVars, obj>>

MayAdd == calls < MaxCalls /\ calls' = calls + 1

CallByName(t) ==
  /\ open[t] = Nothing
  /\ \/ Call(t, "create", "lockName") /\ MayAdd
     \/ Call(t, "open", "lockName") /\ UNCHANGED calls
  /\ \E n \in Names : name' = [name EXCEPT ![t] = n]
  /\ UNCHANGED <<handle, counted, open>>

OpenHandles == {open[u].handle : u \in Threads} \ {NoHandle}

CallByHandle(t) ==
  /\ \/ Call(t, "use", "use") /\ UNCHANGED calls
     \/ open[t] = Nothing /\ Call(t, "duplicate", "duplicate") /\ MayAdd
  /\ \E h \in OpenHandles : handle' = [handle EXCEPT ![t] = h]
  /\ UNCHANGED <<name, counted, open>>

\* NtDuplicateObject of the thread's own handle, with DUPLICATE_CLOSE_SOURCE:
\* the thread has that handle no more, whether or not it gets another.
CallReplace(t) ==
  /\ open[t].handle # NoHandle
  /\ Call(t, "replace", "duplicate") /\ MayAdd
  /\ handle' = [handle EXCEPT ![t] = open[t].handle]
  /\ open' = [open EXCEPT ![t] = Nothing]
  /\ UNCHANGED <<name, counted>>

\* NtClose of the thread's own handle: it has it no more once it calls.
CallClose(t) ==
  /\ open[t].handle # NoHandle
  /\ Call(t, "close", "release")
  /\ counted' = [counted EXCEPT ![t] = open[t].handle]
  /\ open' = [open EXCEPT ![t] = Nothing]
  /\ UNCHANGED <<handle, name, calls>>

Return(t, got) ==
  /\ Goto(t, "ready")
  /\ open' = [open EXCEPT ![t] = got]
  /\ call' = [call EXCEPT ![t] = "none"]
  /\ handle' = [handle EXCEPT ![t] = NoHandle]
  /\ obj' = [obj EXCEPT ![t] = NoObject]
  /\ counted' = [counted EXCEPT ![t] = NoHandle]
  /\ UNCHANGED <<name, calls>>

-----------------------------------------------------------------------------
(* GetObjectByName, from ObOpenObjectByName or, for a call that creates,    *)
(* from LookupNamedObject.                                                  *)

LockName(t) ==
  /\ At(t, "lockName")
  /\ nameMutex = Nobody
  /\ nameMutex' = t
  /\ Goto(t, "readName")
  /\ UNCHANGED <<tableVars, names, globalLock, objectVars, call, handle, obj, name, counted, open, calls>>

ReadNone(t) ==
  \/ /\ call[t] = "create"
     /\ Goto(t, "construct")
     /\ UNCHANGED <<call, handle, obj, name, counted, open, calls>>
  \/ call[t] = "open" /\ Return(t, Nothing)

ReadHandle(t) ==
  /\ handle' = [handle EXCEPT ![t] = names[name[t]]]
  /\ Goto(t, "lookup")
  /\ UNCHANGED <<call, obj, name, counted, open, calls>>

\* Mutant: name_mutex_ is held until the global lock is had.
ReadNameLocked(t) ==
  /\ At(t, "readName")
  /\ nameMutex' = Nobody
  /\ IF names[name[t]] = NoHandle THEN ReadNone(t) ELSE GlobalFree /\ ReadHandle(t)
  /\ UNCHANGED <<tableVars, names, globalLock, objectVars>>

ReadName(t) ==
  /\ At(t, "readName")
  /\ nameMutex' = Nobody
  /\ IF names[name[t]] = NoHandle THEN ReadNone(t) ELSE ReadHandle(t)
  /\ UNCHANGED <<tableVars, names, globalLock, objectVars>>

\* Mutant: the object is found, and not retained before the lock is released.
LookupUnretained(t, found, none) ==
  /\ GlobalFree
  /\ obj' = [obj EXCEPT ![t] = table[handle[t]]]
  /\ Goto(t, IF table[handle[t]] = NoObject THEN none ELSE found)
  /\ UNCHANGED <<tableVars, nameVars, globalLock, objectVars,
                 call, handle, name, counted, open, calls>>

\* LookupObject under the global lock: the object is retained, if any.
Lookup(t, found, none) ==
  /\ GlobalFree
  /\ LET o == table[handle[t]] IN
       /\ obj' = [obj EXCEPT ![t] = o]
       /\ Goto(t, IF o = NoObject THEN none ELSE found)
       /\ refs' = IF o = NoObject THEN refs ELSE Retained(o)
  /\ UNCHANGED <<tableVars, nameVars, globalLock, handles, erased, nameOf, born, duplicated,
                 call, handle, name, counted, open, calls>>

\* The result is a success whatever the lookup finds.
LookupByName(t) ==
  /\ At(t, "lookup")
  /\ Lookup(t, "retain", IF call[t] = "create" THEN "lookupAgain" ELSE "return")

\* XObject::RetainHandle and ReleaseHandle read handles_[0] before the lock.
ReadFirst(t) ==
  /\ pc[t] \in {"retain", "release", "takeAgain"}
  /\ counted[t] = NoHandle
  /\ counted' = [counted EXCEPT ![t] = First(obj[t])]
  /\ UNCHANGED <<tableVars, nameVars, globalLock, objectVars, pc, call, handle, obj, name, open, calls>>

\* Mutant: the handle of the object is not retained.
RetainNothing(t) ==
  /\ counted[t] # NoHandle /\ GlobalFree
  /\ counted' = [counted EXCEPT ![t] = NoHandle]
  /\ UNCHANGED <<tableVars, nameVars, globalLock>>

\* RetainHandle of the table: a slot without an object is counted, too.
RetainHandle(t) ==
  /\ counted[t] # NoHandle /\ GlobalFree
  /\ count' = [count EXCEPT ![counted[t]] = @ + 1]
  /\ counted' = [counted EXCEPT ![t] = NoHandle]
  /\ UNCHANGED <<table, cursor, nameVars, globalLock>>

\* obj->RetainHandle(); obj->Release().
RetainFound(t) ==
  /\ At(t, "retain") /\ RetainHandle(t)
  /\ refs' = Released(obj[t])
  /\ Goto(t, IF call[t] = "create" THEN "lookupAgain" ELSE "return")
  /\ obj' = [obj EXCEPT ![t] = NoObject]
  /\ UNCHANGED <<handles, erased, nameOf, born, duplicated, call, handle, name, open, calls>>

\* LookupNamedObject: LookupObject<T> of the handle, then ReleaseHandle.
LookupAgain(t) == At(t, "lookupAgain") /\ Lookup(t, "release", "construct")

\* NAME_EXISTS: the handle of the existing object is retained once more.
TakeAgain(t) ==
  /\ At(t, "takeAgain") /\ RetainHandle(t)
  /\ Goto(t, "return")
  /\ UNCHANGED <<objectVars, call, handle, obj, name, open, calls>>

-----------------------------------------------------------------------------
(* ReleaseHandle and RemoveHandle, which NtDuplicateObject calls as well.    *)

AfterRelease(t) ==
  IF call[t] = "create"
  THEN /\ Goto(t, "takeAgain")
       /\ counted' = [counted EXCEPT ![t] = NoHandle]
       /\ UNCHANGED <<call, handle, obj, name, open, calls>>
  ELSE Return(t, open[t])

\* References remain, or the slot is empty already.
ReleaseHandle(t) ==
  /\ At(t, "release") /\ counted[t] # NoHandle /\ GlobalFree
  /\ LET h == counted[t] IN
       /\ count[h] # 1 \/ table[h] = NoObject
       /\ count' = [count EXCEPT ![h] = @ - 1]
  /\ AfterRelease(t)
  /\ UNCHANGED <<table, cursor, nameVars, globalLock, objectVars>>

\* The entry is cleared, and the global lock is kept.  No slot is used twice
\* within MaxCalls, so that a create call, which has looked this object up by
\* the same handle, has it in obj already.
ClearEntry(t, h) ==
  /\ table[h] # NoObject
  /\ count' = [count EXCEPT ![h] = 0]
  /\ table' = [table EXCEPT ![h] = NoObject]
  /\ handles' = [handles EXCEPT ![table[h]] = RemoveFirst(@, h)]
  /\ erased' = [erased EXCEPT ![table[h]] = h]
  /\ obj' = [obj EXCEPT ![t] = table[h]]
  /\ globalLock' = t
  /\ Goto(t, "unname")
  /\ UNCHANGED <<cursor, nameVars, refs, nameOf, born, duplicated, call, handle, name, counted, open, calls>>

\* The last reference.
ReleaseLastHandle(t) ==
  /\ At(t, "release") /\ counted[t] # NoHandle /\ GlobalFree
  /\ count[counted[t]] = 1
  /\ ClearEntry(t, counted[t])

\* The source of a duplicate: it is removed whatever its count, which another
\* call may have raised; assert_zero of that count is not in a release build.
CloseSource(t) == At(t, "remove") /\ GlobalFree /\ ClearEntry(t, handle[t])

\* Another call has removed it already.
SourceGone(t) ==
  /\ At(t, "remove") /\ GlobalFree
  /\ table[handle[t]] = NoObject
  /\ Return(t, open[t])
  /\ UNCHANGED <<tableVars, nameVars, globalLock, objectVars>>

\* Mutant: the name stays.
RemoveHandleKeepsName(t) ==
  /\ At(t, "unname") /\ nameMutex = Nobody
  /\ refs' = Released(obj[t])
  /\ globalLock' = Nobody
  /\ AfterRelease(t)
  /\ UNCHANGED <<tableVars, nameVars, handles, erased, nameOf, born, duplicated>>

\* RemoveNameMapping of the object's name, whichever handle was removed; the
\* table's reference to the object is dropped.
RemoveHandle(t) ==
  /\ At(t, "unname") /\ nameMutex = Nobody
  /\ names' = [n \in Names |-> IF n = nameOf[obj[t]] THEN NoHandle ELSE names[n]]
  /\ refs' = Released(obj[t])
  /\ globalLock' = Nobody
  /\ AfterRelease(t)
  /\ UNCHANGED <<tableVars, nameMutex, handles, erased, nameOf, born, duplicated>>

-----------------------------------------------------------------------------
(* AddHandle: the next free slot from the cursor on, slot 0 left out.       *)

SlotAfter(s, k) == ((s - 1 + k) % (Capacity - 1)) + 1

FreeSlot(s) ==
  \E k \in 0 .. Capacity - 2 :
    /\ s = SlotAfter(cursor, k)
    /\ table[s] = NoObject
    /\ \A j \in 0 .. k - 1 : table[SlotAfter(cursor, j)] # NoObject

AddHandle(o, s) ==
  /\ FreeSlot(s)
  /\ cursor' = SlotAfter(s, 1)
  /\ table' = [table EXCEPT ![s] = o]
  /\ count' = [count EXCEPT ![s] = 1]
  /\ handles' = [handles EXCEPT ![o] = Append(@, s)]

\* The constructor of XObject: a reference of its own and one of the table.
Construct(t) ==
  /\ At(t, "construct") /\ GlobalFree
  /\ LET o == CHOOSE o \in Objects : o \notin born IN
       /\ \E s \in Slots : AddHandle(o, s)
       /\ born' = born \cup {o}
       /\ refs' = [refs EXCEPT ![o] = 2]
       /\ obj' = [obj EXCEPT ![t] = o]
  /\ Goto(t, "addName")
  /\ UNCHANGED <<nameVars, globalLock, erased, nameOf, duplicated, call, handle, name, counted, open, calls>>

\* SetAttributes: a collision in AddNameMapping is not looked at.
AddName(t) ==
  /\ At(t, "addName") /\ nameMutex = Nobody
  /\ nameOf' = [nameOf EXCEPT ![obj[t]] = name[t]]
  /\ names' = IF names[name[t]] = NoHandle
              THEN [names EXCEPT ![name[t]] = First(obj[t])] ELSE names
  /\ Return(t, [handle |-> First(obj[t]), obj |-> obj[t]])
  /\ refs' = Released(obj[t])
  /\ UNCHANGED <<tableVars, nameMutex, globalLock, handles, erased, born, duplicated>>

\* NAME_EXISTS returns existing_object->handle() and drops the reference; a
\* call that opens returns the handle it read from name_table_.
ReturnHandle(t) ==
  /\ At(t, "return")
  /\ Return(t, [handle |-> IF call[t] = "create" THEN First(obj[t]) ELSE handle[t],
                obj |-> NoObject])
  /\ refs' = Released(obj[t])
  /\ UNCHANGED <<tableVars, nameVars, globalLock, handles, erased, nameOf, born, duplicated>>

-----------------------------------------------------------------------------
(* Calls that look an object up by handle, and DuplicateHandle.             *)

Use(t) == At(t, "use") /\ Lookup(t, "using", "using")

EndUse(t) ==
  /\ At(t, "using")
  /\ refs' = Released(obj[t])
  /\ Return(t, open[t])
  /\ UNCHANGED <<tableVars, nameVars, globalLock, handles, erased, nameOf, born, duplicated>>

\* X_STATUS_INVALID_HANDLE does not keep the source from being closed.
Duplicate(t) ==
  /\ At(t, "duplicate")
  /\ Lookup(t, "addHandle", IF call[t] = "replace" THEN "remove" ELSE "using")

\* AddHandle retains the object for the table, Release drops the lookup's
\* reference; nobody knows the new handle in between.
AddDuplicate(t) ==
  /\ At(t, "addHandle") /\ GlobalFree
  /\ \E s \in Slots :
       LET new == [handle |-> s, obj |-> obj[t]] IN
       /\ AddHandle(obj[t], s)
       /\ IF call[t] = "replace"
          THEN /\ Goto(t, "remove")
               /\ open' = [open EXCEPT ![t] = new]
               /\ obj' = [obj EXCEPT ![t] = NoObject]
               /\ UNCHANGED <<call, handle, name, counted, calls>>
          ELSE Return(t, new)
  /\ duplicated' = duplicated \cup {obj[t]}
  /\ UNCHANGED <<nameVars, globalLock, refs, erased, nameOf, born>>

-----------------------------------------------------------------------------
Start(t) == CallByName(t) \/ CallByHandle(t) \/ CallReplace(t) \/ CallClose(t)

Step(t) ==
  \/ LockName(t) \/ ReadName(t) \/ LookupByName(t) \/ ReadFirst(t) \/ RetainFound(t)
  \/ LookupAgain(t) \/ TakeAgain(t) \/ ReleaseHandle(t) \/ ReleaseLastHandle(t)
  \/ RemoveHandle(t) \/ Construct(t) \/ AddName(t) \/ ReturnHandle(t)
  \/ Use(t) \/ EndUse(t) \/ Duplicate(t) \/ AddDuplicate(t) \/ CloseSource(t) \/ SourceGone(t)

Next == \E t \in Threads : Start(t) \/ Step(t)

Spec == Init /\ [][Next]_vars
-----------------------------------------------------------------------------
\* The references to an object that are held by what thread t is doing.
Held(t, o) ==
  IF obj[t] # o THEN 0 ELSE IF pc[t] = "unname" /\ call[t] = "create" THEN 2 ELSE 1

\* pointer_ref_count_ is exact at all times: one for every slot that holds the
\* object, one for every call that uses it.  It is zero only when nobody has
\* the object, and once zero it never rises: no call uses a deleted object,
\* and none is forgotten.
ReferencesCounted ==
  \A o \in Objects :
    refs[o] = Cardinality({s \in Slots : table[s] = o})
              + Cardinality({t \in Threads : Held(t, o) > 0})
              + Cardinality({t \in Threads : Held(t, o) > 1})

\* A handle that a call added, and that its owner has not closed, denotes the
\* same object: no call of another thread on the same name closes it, whatever
\* it retains and releases on the way (LookupNamedObject, GetObjectByName).
\* Of an object that has been duplicated it is not so: NAME_EXISTS returns the
\* handles_[0] of the moment, which may be a duplicate nobody counted it for.
AddedHandleStaysOpen ==
  \A t \in Threads : open[t].obj # NoObject /\ open[t].obj \notin duplicated =>
    table[open[t].handle] = open[t].obj

\* name_table_ leads from a name to an object of that name that is still in
\* the table, but for the moment in which a removal of such an object holds
\* the global lock and waits for name_mutex_.
NamesLeadToNamed ==
  \A n \in Names : names[n] # NoHandle =>
    \/ table[names[n]] # NoObject /\ nameOf[table[names[n]]] = n
    \/ globalLock # Nobody /\ nameOf[obj[globalLock]] = n

\* The calls under way never all wait for each other: GetObjectByName does not
\* hold name_mutex_ while it waits for the global lock, which RemoveHandle holds
\* while it waits for name_mutex_.
SomebodyMoves == (\E t \in Threads : ~At(t, "ready")) => \E t \in Threads : ENABLED Step(t)
=============================================================================
