------------------------ MODULE MCDeferredCompletion ------------------------
(* One structure that is used again and again, now with an event and now with *)
(* a routine, an APC of another thread and one of the guest's own.            *)
EXTENDS DeferredCompletion

CONSTANTS o1

AskedFor == o1 :> {{"event"}, {"routine"}}
=============================================================================
