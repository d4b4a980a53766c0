----------------------------- MODULE MCTwitter -----------------------------
(* An instance of Twitter for TLC.                                         *)
EXTENDS Twitter
=============================================================================
