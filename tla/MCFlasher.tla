------------------------------ MODULE MCFlasher ------------------------------
(* Flasher with cards that are all alike. *)
EXTENDS Flasher, TLC

Symmetry == Permutations(Builds)
=============================================================================
