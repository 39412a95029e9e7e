------------------------------ MODULE MCCapture ------------------------------
(***************************************************************************)
(* Capture for TLC: one or two local dongles and the manager.              *)
(***************************************************************************)
EXTENDS Capture

MCClients == Sources \cup {Manager}
=============================================================================
