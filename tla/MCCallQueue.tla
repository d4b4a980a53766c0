---------------------------- MODULE MCCallQueue ----------------------------
(* An instance of CallQueue for TLC.                                       *)
EXTENDS CallQueue
=============================================================================
