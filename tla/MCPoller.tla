------------------------------ MODULE MCPoller ------------------------------
(* Instances of Poller for TLC; the .cfg files give the constants. *)
EXTENDS Poller
=============================================================================
