------------------------------- MODULE MCOrders ------------------------------
(* Orders as TLC checks it; the bounds are in the .cfg files.                *)
EXTENDS Orders, TLC
=============================================================================
