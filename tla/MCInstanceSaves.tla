--------------------------- MODULE MCInstanceSaves ---------------------------
(* InstanceSaves for TLC: the players are interchangeable. *)
EXTENDS InstanceSaves, TLC

MCSymmetry == Permutations(Players)
=============================================================================
