---------------------------- MODULE MCGuestTimer ----------------------------
(***************************************************************************)
(* One timer with three activations, two of them recurring, and two        *)
(* clients that it may have.  A guest sets its XTimer three times, while   *)
(* another thread cancels it.  A thread of the runtime sets the host timer *)
(* itself, again and again, or once with a callback that sets it again.    *)
(***************************************************************************)
EXTENDS GuestTimer

CONSTANTS s1, s2, D

VARIABLE client  \* "guest" or "host"

allVars == <<timerVars, client>>

Calls(byOwner, byCallback) ==
  [t \in Threads |-> IF t = s1 THEN byOwner ELSE IF t = D THEN byCallback ELSE 0]

OwnerOrCallback == {Calls(3, 0), Calls(1, 2)}

ClientInit ==
  /\ GuestInit
  /\ client \in {"guest", "host"}
  /\ client = "guest" => setsLeft = Calls(3, 0)

ClientNext ==
  /\ \/ client = "guest" /\ GuestNext
     \/ client = "host" /\ Next /\ UNCHANGED guestVars
  /\ UNCHANGED client

RoutineGoesOn ==
  /\ IF client = "guest" THEN ReadRoutine \/ EnqueueApc \/ HostRoutine
     ELSE RoutineStep /\ UNCHANGED guestVars
  /\ UNCHANGED client

CallGoesOn(t) ==
  /\ IF client = "guest" THEN HostCall(t) ELSE CallStep(t) /\ UNCHANGED guestVars
  /\ UNCHANGED client

\* Every call and every routine goes on while it can.  Disarm() of a recurring
\* item finds it between two callbacks again and again (TimerQueue proves that
\* the queue keeps the item's states apart), and mutex_ is released again and
\* again by the dispatch thread, so both need strong fairness.
ClientSpec ==
  /\ ClientInit /\ [][ClientNext]_allVars
  /\ SF_allVars(RoutineGoesOn)
  /\ \A t \in Threads : SF_allVars(CallGoesOn(t))
=============================================================================
