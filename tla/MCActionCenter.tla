--------------------------- MODULE MCActionCenter ---------------------------
(***************************************************************************)
(* Small instances of ActionCenter for TLC.                                *)
(***************************************************************************)
EXTENDS ActionCenter

CONSTANTS w1, w2
=============================================================================
