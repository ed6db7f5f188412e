------------------------------ MODULE MCStock -------------------------------
(* An instance of InventoryStock for TLC. *)
EXTENDS InventoryStock, TLC

CONSTANTS l1, l2, w1, w2

Symmetry == Permutations({l1, l2}) \cup Permutations({w1, w2})
=============================================================================
