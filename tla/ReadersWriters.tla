--------------------------- MODULE ReadersWriters ---------------------------
(***************************************************************************)
(* What a guest program expects of an ERWLOCK (xboxkrnl_threading.cpp):    *)
(* many readers or one writer.  ReadWriteLock implements it.               *)
(***************************************************************************)
CONSTANT Threads

VARIABLES readers, writers

TypeOK == readers \subseteq Threads /\ writers \subseteq Threads

Init == readers = {} /\ writers = {}

EnterShared(t) ==
  /\ writers = {} /\ t \notin readers
  /\ readers' = readers \cup {t} /\ UNCHANGED writers

EnterExclusive(t) ==
  /\ writers = {} /\ readers = {}
  /\ writers' = {t} /\ UNCHANGED readers

Leave(t) ==
  /\ t \in readers \cup writers
  /\ readers' = readers \ {t} /\ writers' = writers \ {t}

Next == \E t \in Threads : EnterShared(t) \/ EnterExclusive(t) \/ Leave(t)

Spec == Init /\ [][Next]_<<readers, writers>>
=============================================================================
