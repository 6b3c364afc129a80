------------------------------ MODULE MCWebPages ----------------------------
(* One query of the cache behind every page (QueryCache), and the pages of   *)
(* one order (OrderPage) and of one product (ProductPages), for TLC: a       *)
(* behaviour is one of the three modules'; the others stay as they start.    *)
EXTENDS QueryCache, Naturals, TLC

CONSTANTS Number, Price, OldPrice, Zero, NoValue, Asked, MaxCalls, MaxImports, MaxForeign

VARIABLES
    part,           \* the module that moves
    \* OrderPage
    order, imports, request, sent, mounted, cached, outdated, answer, dialog,
    pendingStatus, field, behind, confirmed, overlap,
    \* ProductPages
    price, undone, foreign, saving, saves, view, shown, marked, loading, shownUndone,
    form, late, intended, crossed

O == INSTANCE OrderPage WITH call <- request, isInvalidated <- outdated, fetching <- answer
P == INSTANCE ProductPages WITH isInvalidated <- marked, fetching <- loading, behind <- late

\* null and a pending fetch are no values; the bulk edit was made from a price.
ASSUME PagesAssumption ==
    /\ NoValue # Asked
    /\ NoValue \notin Number \cup O!Order \cup P!Prices \cup P!Form
    /\ Asked \notin O!Order \cup P!Prices
    /\ OldPrice \in Price
    /\ MaxCalls \in Nat /\ MaxImports \in Nat /\ MaxForeign \in Nat

orderVars == <<order, imports, request, sent, mounted, cached, outdated,
               answer, dialog, pendingStatus, field, behind, confirmed,
               overlap>>
productVars == <<price, undone, foreign, saving, saves, view, shown, marked,
                 loading, shownUndone, form, late, intended, crossed>>
pageVars == <<part, orderVars, productVars, vars>>

PagesInit ==
    /\ part \in {"order", "product", "cache"}
    /\ O!Init /\ P!Init /\ Init
    /\ part # "order" => order.status = "PAID"
    /\ part # "product" => price = OldPrice
    /\ part # "cache" => key = "order"

PagesNext ==
    /\ UNCHANGED part
    /\ \/ part = "order" /\ O!Next /\ UNCHANGED <<productVars, vars>>
       \/ part = "product" /\ P!Next /\ UNCHANGED <<orderVars, vars>>
       \/ part = "cache" /\ Next /\ UNCHANGED <<orderVars, productVars>>

PagesSpec == PagesInit /\ [][PagesNext]_pageVars

\* The calls and the numbers are interchangeable, and no liveness is checked.
Symmetry == Permutations(Call) \cup Permutations(Number)

\* An order's page that has nothing under way shows the row, unless the row changed
\* unseen (OrderPage).
ShownIsCurrent == O!ShownIsCurrent

\* A tracking number reported as saved stays on the order (OrderPage).
NumberKept == O!NumberKept

\* A save that leaves the price alone brings no older price back (ProductPages).
PriceIsIntended == P!PriceIsIntended

=============================================================================
