------------------------- MODULE MCEngineLifecycle -------------------------
(* A small instance of EngineLifecycle.  *)
EXTENDS EngineLifecycle
CONSTANTS c1, c2, w1, w2
=============================================================================
