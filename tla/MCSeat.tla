------------------------------- MODULE MCSeat -------------------------------
(* Instances of Seat for TLC. *)
EXTENDS Seat

Symmetry == Permutations(Client)

=============================================================================
