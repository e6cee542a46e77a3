--------------------------- MODULE MCAudioSystem ---------------------------
(* Two slots, two permits each: a client beside one that comes and goes.    *)
EXTENDS AudioSystem
=============================================================================
