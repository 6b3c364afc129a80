----------------------------- MODULE MCListings -----------------------------
(* A small instance of Listings: two items with alike names on sale, a third *)
(* name like neither.                                                         *)
EXTENDS Listings, TLC

CONSTANTS x1, x2, a, b, c

Alike == [n \in Name |-> [m \in Name |->
            IF n = m THEN 100 ELSE IF c \in {n, m} THEN 59 ELSE 60]]

Selling == x1 :> a

Symmetry == Permutations(Importer)
=============================================================================
