---------------------------- MODULE MCXmaDecoder ----------------------------
(* Two guests that create, kick and release contexts beside the worker.     *)
EXTENDS XmaDecoder
=============================================================================
