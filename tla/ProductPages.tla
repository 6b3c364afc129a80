----------------------------- MODULE ProductPages -----------------------------
(***************************************************************************)
(* The price of one product on its pages: the detail with the history of   *)
(* its prices (app/(app)/products/[id]/page.tsx, PriceHistoryCard) and the *)
(* edit form ([id]/edit/page.tsx, ProductForm), which share the query      *)
(* ["products", id], beside the handlers they call (api/v1/products.py)    *)
(* and an edit made elsewhere.  What else the detail page does is in       *)
(* ListingPages.                                                           *)
(*                                                                         *)
(* Of the fields a save sends the price is kept: the form sends all of     *)
(* them, typed or not.  One bulk edit can be undone from the history; its  *)
(* channels and locks are in Prices.  A handler is one step.               *)
(*                                                                         *)
(* `behind`, `intended`, `crossed` and the fields touched and hasty are    *)
(* history: no guard reads them.                                           *)
(***************************************************************************)
EXTENDS Naturals

CONSTANTS
    Price,          \* prices
    OldPrice,       \* the price before the bulk edit
    Zero,           \* the price of a form without an answer
    Call,           \* requests that may be in flight together
    NoValue,        \* undefined, no form
    Asked,          \* a fetch without an answer yet
    MaxCalls,       \* bound: requests sent
    MaxForeign      \* bound: edits made elsewhere

VARIABLES
    price,          \* of the row
    undone,         \* the bulk edit was undone: reverted_at
    foreign,        \* edits made elsewhere so far
    saving,         \* [Call -> a request and its answer]
    saves,          \* requests sent so far
    view,           \* the page that is open
    shown,          \* the price the cache holds for ["products", id]
    isInvalidated,  \* of that query
    fetching,       \* NoValue, Asked, or the answer on its way
    shownUndone,    \* what the history card shows of the bulk edit
    form,           \* the edit form, or NoValue
    behind,         \* history: the price changed and no answer told the cache
    intended,       \* history: the price somebody chose last
    crossed         \* history: an untyped price was sent over a later choice

cache == <<shown, isInvalidated, fetching>>
server == <<price, undone, foreign, intended, crossed>>
vars == <<server, saving, saves, view, cache, shownUndone, form, behind>>

Prices == Price \cup {Zero}
Form == [price : Prices, touched : BOOLEAN, hasty : BOOLEAN]

\* mine: by a component that is still there.
Calls == [phase : {"idle", "sent", "ok", "error"}, mine : BOOLEAN,
          kind : {"none", "update", "revert"},
          price : Prices, touched : BOOLEAN, hasty : BOOLEAN]
Idle == [phase |-> "idle", mine |-> FALSE, kind |-> "none", price |-> Zero,
         touched |-> FALSE, hasty |-> FALSE]

TypeOK ==
    /\ price \in Prices /\ undone \in BOOLEAN /\ foreign \in 0 .. MaxForeign
    /\ saving \in [Call -> Calls] /\ saves \in 0 .. MaxCalls
    /\ view \in {"list", "detail", "edit"}
    /\ shown \in Prices \cup {NoValue} /\ isInvalidated \in BOOLEAN
    /\ fetching \in Prices \cup {NoValue, Asked}
    /\ shownUndone \in BOOLEAN
    /\ form \in Form \cup {NoValue}
    /\ behind \in BOOLEAN /\ intended \in Prices /\ crossed \in BOOLEAN

Init ==
    /\ price \in Price /\ undone = FALSE /\ foreign = 0
    /\ saving = [c \in Call |-> Idle] /\ saves = 0
    /\ view = "list" /\ shown = NoValue /\ isInvalidated = FALSE /\ fetching = NoValue
    /\ shownUndone = FALSE
    /\ form = NoValue
    /\ behind = FALSE /\ intended = price /\ crossed = FALSE

Active(c) == saving[c].phase # "idle"
Mounted(v) == v \in {"detail", "edit"}

-----------------------------------------------------------------------------
(* The query and the edit form over it                                     *)

\* The edit page v shows a spinner while it has no answer and waits for one (f),
\* else the form, whose defaultValues are those of its first drawing: undefined,
\* hence a price of zero, when the fetch failed.
FormFollows(v, data, f) ==
    form' = IF ~(v = "edit" /\ (data # NoValue \/ f = NoValue)) THEN NoValue
            ELSE IF form # NoValue THEN form
            ELSE [price |-> IF data = NoValue THEN Zero ELSE data,
                  touched |-> FALSE,
                  hasty |-> behind \/ f # NoValue \/ data = NoValue
                            \/ \E c \in Call : Active(c)]

FetchServed ==
    /\ fetching = Asked
    /\ fetching' = price
    /\ behind' = FALSE
    /\ UNCHANGED <<server, saving, saves, view, shown, isInvalidated, shownUndone, form>>

FetchDelivered ==
    /\ fetching \in Prices
    /\ shown' = fetching /\ isInvalidated' = FALSE /\ fetching' = NoValue
    /\ FormFollows(view, fetching, NoValue)
    /\ UNCHANGED <<server, saving, saves, view, shownUndone, behind>>

\* The retries of the query fail as well: an old answer stays.
FetchFails ==
    /\ fetching # NoValue
    /\ fetching' = NoValue
    /\ behind' = TRUE
    /\ FormFollows(view, shown, NoValue)
    /\ UNCHANGED <<server, saving, saves, view, shown, isInvalidated, shownUndone>>

\* GET /products/{id}/price-history, whenever the card asks.
HistoryFetched ==
    /\ view = "detail" /\ shownUndone # undone
    /\ shownUndone' = undone
    /\ UNCHANGED <<server, saving, saves, view, cache, form, behind>>

\* The components of a page that is left are unmounted.
Unmine(v) == [c \in Call |-> [saving[c] EXCEPT !.mine = @ /\ v = view]]

\* A link, the menu's edit entry, the form's cancel button, the browser's
\* history.  A page that is mounted asks if there is no answer, or the answer is
\* invalidated or older than staleTime.
Go(v) ==
    /\ v # view
    /\ view' = v
    /\ \E old \in BOOLEAN :
           fetching' = IF Mounted(v) /\ fetching = NoValue
                             /\ (old \/ isInvalidated \/ shown = NoValue)
                       THEN Asked ELSE fetching
    /\ FormFollows(v, shown, fetching')
    /\ saving' = Unmine(v)
    /\ UNCHANGED <<server, saves, shown, isInvalidated, shownUndone, behind>>

-----------------------------------------------------------------------------
(* The history card and the form                                           *)

Pending(kind) == \E c \in Call : Active(c) /\ saving[c].mine /\ saving[c].kind = kind

Send(c, request) ==
    /\ ~Active(c)
    /\ saves < MaxCalls
    /\ saves' = saves + 1
    /\ saving' = [saving EXCEPT ![c] = [request EXCEPT !.phase = "sent", !.mine = TRUE]]
    /\ UNCHANGED <<server, view, cache, shownUndone, form, behind>>

\* The button of an entry that is not shown as reverted.
Revert(c) ==
    /\ view = "detail" /\ shown # NoValue
    /\ ~shownUndone /\ ~Pending("revert")
    /\ Send(c, [Idle EXCEPT !.kind = "revert"])

\* Another tab of the page unmounts the card, and its button is free again.
SwitchTab ==
    /\ view = "detail" /\ Pending("revert")
    /\ saving' = [c \in Call |-> [saving[c] EXCEPT !.mine = FALSE]]
    /\ UNCHANGED <<server, saves, view, cache, shownUndone, form, behind>>

TypePrice ==
    /\ form # NoValue
    /\ \E p \in Price : form' = [form EXCEPT !.price = p, !.touched = TRUE]
    /\ UNCHANGED <<server, saving, saves, view, cache, shownUndone, behind>>

\* onSubmit, up to its await: every field is sent, once at a time.
Save(c) ==
    /\ form # NoValue /\ ~Pending("update")
    /\ Send(c, [Idle EXCEPT !.kind = "update", !.price = form.price,
                            !.touched = form.touched, !.hasty = form.hasty])

Fault_TellsHistoryOnly(kind) == kind = "update"

\* Both mutations invalidate the prefix ["products"].
TellsProduct(kind) == TRUE

\* An open page asks again and drops the answer on its way; of a closed one the
\* query is marked, and an answer on its way takes the mark off again.  A save
\* ends on the list, wherever the seller is by then.
Succeed(c) ==
    LET kind == saving[c].kind
        v == IF kind = "update" THEN "list" ELSE view
    IN  /\ saving[c].phase = "ok"
        /\ saving' = [Unmine(v) EXCEPT ![c] = Idle]
        /\ isInvalidated' = (isInvalidated \/ TellsProduct(kind))
        /\ fetching' = IF TellsProduct(kind) /\ Mounted(view) THEN Asked ELSE fetching
        /\ behind' = (behind \/ (~Mounted(view) /\ fetching # NoValue))
        /\ view' = v
        /\ FormFollows(v, shown, fetching')
        /\ UNCHANGED <<server, saves, shown, shownUndone>>

\* A toast says so, and the form stays.
Fail(c) ==
    /\ saving[c].phase = "error"
    /\ saving' = [saving EXCEPT ![c] = Idle]
    /\ UNCHANGED <<server, saves, view, cache, shownUndone, form, behind>>

-----------------------------------------------------------------------------
(* The server                                                              *)

Rest == UNCHANGED <<saves, view, cache, shownUndone>>

\* A new price: a form and saves that still carry another are hasty.
Chosen(c) ==
    /\ form' = IF form = NoValue THEN form ELSE [form EXCEPT !.hasty = TRUE]
    /\ saving' = [d \in Call |->
           IF d = c THEN [saving[d] EXCEPT !.phase = "ok"]
           ELSE [saving[d] EXCEPT !.hasty = @ \/ Active(d)]]

\* update_product.
Updated(c) ==
    /\ saving[c].phase = "sent" /\ saving[c].kind = "update"
    /\ price' = saving[c].price
    /\ intended' = IF saving[c].touched THEN saving[c].price ELSE intended
    /\ crossed' = (~saving[c].touched /\ (crossed \/ saving[c].hasty))
    /\ Chosen(c)
    /\ Rest /\ UNCHANGED <<undone, foreign, behind>>

\* revert_price_batch of a batch that is not reverted yet.
Reverted(c) ==
    /\ saving[c].phase = "sent" /\ saving[c].kind = "revert" /\ ~undone
    /\ undone' = TRUE
    /\ price' = OldPrice
    /\ intended' = OldPrice /\ crossed' = FALSE
    /\ Chosen(c)
    /\ Rest /\ UNCHANGED <<foreign, behind>>

\* 404 or 400, a request that is lost, or an answer that is.
Refused(c) ==
    /\ saving[c].phase \in {"sent", "ok"}
    /\ saving' = [saving EXCEPT ![c].phase = "error"]
    /\ behind' = (behind \/ saving[c].phase = "ok")
    /\ Rest /\ UNCHANGED <<server, form>>

\* Another session or a bulk edit sets the price.
ChangedElsewhere ==
    /\ foreign < MaxForeign
    /\ foreign' = foreign + 1
    /\ \E p \in Price \ {price} : price' = p /\ intended' = p
    /\ crossed' = FALSE
    /\ behind' = TRUE
    /\ form' = IF form = NoValue THEN form ELSE [form EXCEPT !.hasty = TRUE]
    /\ saving' = [d \in Call |-> [saving[d] EXCEPT !.hasty = @ \/ Active(d)]]
    /\ Rest /\ UNCHANGED undone

Next ==
    \/ FetchServed \/ FetchDelivered \/ FetchFails \/ HistoryFetched
    \/ SwitchTab \/ TypePrice \/ ChangedElsewhere
    \/ \E v \in {"list", "detail", "edit"} : Go(v)
    \/ \E c \in Call :
           \/ Revert(c) \/ Save(c) \/ Succeed(c) \/ Fail(c)
           \/ Updated(c) \/ Reverted(c) \/ Refused(c)

Spec == Init /\ [][Next]_vars

-----------------------------------------------------------------------------
(* Properties                                                              *)

\* The price is the one somebody chose last, by typing or undoing: a save that
\* leaves the price alone never brings an older one back, unless its form was
\* opened before the last choice could reach it or over a failed load.
PriceIsIntended == ~crossed => price = intended

=============================================================================
