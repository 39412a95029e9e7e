---------------------------- MODULE MCAutoWindow ----------------------------
(***************************************************************************)
(* AutoWindow for TLC: three rows, a blip of one tick, a cap of two.       *)
(***************************************************************************)
EXTENDS AutoWindow
=============================================================================
