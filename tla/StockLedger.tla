---------------------------- MODULE StockLedger ----------------------------
(***************************************************************************)
(* What the allocation endpoints promise their callers, without sessions,  *)
(* locks or columns.  `promised[k]` is the number of units of SKU k that   *)
(* were granted and not given back; `column[k]` is what the database says. *)
(* Every answer moves both by exactly the quantity of one request, and no  *)
(* release gives back more than is promised.                               *)
(***************************************************************************)
EXTENDS Naturals

CONSTANTS Sku, Qty

VARIABLES promised, column

ledgerVars == <<promised, column>>

Init ==
    /\ promised = [k \in Sku |-> 0]
    /\ column = [k \in Sku |-> 0]

Grant(k, q) ==
    /\ promised' = [promised EXCEPT ![k] = promised[k] + q]
    /\ column' = [column EXCEPT ![k] = promised[k] + q]

Release(k, q) ==
    /\ q <= promised[k]
    /\ promised' = [promised EXCEPT ![k] = promised[k] - q]
    /\ column' = [column EXCEPT ![k] = promised[k] - q]

Next == \E k \in Sku, q \in Qty : Grant(k, q) \/ Release(k, q)

Spec == Init /\ [][Next]_ledgerVars
=============================================================================
