---------------------------- MODULE TimerService ----------------------------
(***************************************************************************)
(* What the timer queue promises its callers (timer_queue.h): an armed     *)
(* item fires on one dispatch thread, one callback at a time; disarming    *)
(* takes effect between two callbacks and never during one; the callback   *)
(* itself may ask for its item not to be armed again.  TimerQueue          *)
(* implements this specification, PosixTimer is built on it.               *)
(***************************************************************************)
CONSTANTS
  Items,      \* wait items
  Recurring   \* the items with an interval

VARIABLE phase   \* "leaving": running, and disarmed by its own callback

Phases == {"new", "armed", "running", "leaving", "off"}

TypeOK == phase \in [Items -> Phases]

Init == phase = [i \in Items |-> "new"]

InCallback(i) == phase[i] \in {"running", "leaving"}
Enter(i, p) == phase' = [phase EXCEPT ![i] = p]

Arm(i) == phase[i] = "new" /\ Enter(i, "armed")
Fire(i) == phase[i] = "armed" /\ (\A j \in Items : ~InCallback(j)) /\ Enter(i, "running")
DisarmSelf(i) == phase[i] = "running" /\ Enter(i, "leaving")
Rearm(i) == phase[i] = "running" /\ i \in Recurring /\ Enter(i, "armed")
Retire(i) ==
  /\ \/ phase[i] = "leaving"
     \/ phase[i] = "running" /\ i \notin Recurring
  /\ Enter(i, "off")
Disarm(i) == phase[i] = "armed" /\ Enter(i, "off")

Next == \E i \in Items :
  Arm(i) \/ Fire(i) \/ DisarmSelf(i) \/ Rearm(i) \/ Retire(i) \/ Disarm(i)

Spec == Init /\ [][Next]_phase
=============================================================================
