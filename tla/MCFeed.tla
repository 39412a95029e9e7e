------------------------------- MODULE MCFeed -------------------------------
(* The instance of Feed for TLC.                                           *)
EXTENDS Feed
=============================================================================
