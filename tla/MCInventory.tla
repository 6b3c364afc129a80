---------------------------- MODULE MCInventory ----------------------------
(* Small instances of Inventory.  A .cfg cannot write a negative number, so  *)
(* the amounts are defined here.                                  *)
EXTENDS Inventory, TLC

RowAmount == {-1, 1}

Symmetry == Permutations(Session)
=============================================================================
