------------------------------ MODULE MCPrices ------------------------------
(* A small instance of Prices: one edit of two products and two requests    *)
(* that may be anything else.  A .cfg cannot write records, so they are here. *)
EXTENDS Prices, TLC

CONSTANTS p1, p2, r1, r2, r3

HandlesAny == (r1 :> {"edit"}) @@ (r2 :> {"revert", "update"})
                @@ (r3 :> {"revert", "resync"})

HandlesEdit == r1 :> {"edit"}

Changes ==
    {[field |-> "price", mode |-> "inc_amount", value |-> -3, round_to |-> 2, push |-> TRUE],
     [field |-> "cost_price", mode |-> "inc_percent", value |-> 50, round_to |-> 2, push |-> FALSE]}

Values == (p1 :> [price |-> 1, cost_price |-> 1])
          @@ (p2 :> [price |-> 4, cost_price |-> None])
=============================================================================
