---------------------------- MODULE MCConnection ----------------------------
(* Instances of Connection for TLC; the .cfg files give the constants. *)
EXTENDS Connection
=============================================================================
