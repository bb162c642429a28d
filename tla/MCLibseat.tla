----------------------------- MODULE MCLibseat ------------------------------
(* Instances of Libseat for TLC. *)
EXTENDS Libseat

MCBackends == <<"seatd", "builtin">>
=============================================================================
