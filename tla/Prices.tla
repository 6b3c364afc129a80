------------------------------- MODULE Prices -------------------------------
(***************************************************************************)
(* Prices: bulk price edits, their one-click undo, the single-product edit *)
(* and the forced resync (api/v1/products.py) as overlapping requests.     *)
(*                                                                         *)
(* A request works on the objects its session loaded (`seen`), takes the   *)
(* lock of a product's row when an UPDATE goes out (`holder`), calls the   *)
(* channel while it holds it, and commits once at the end.  A token the    *)
(* gateway refreshes during a call commits in the middle of it: everything *)
(* flushed so far becomes durable and the locks are released, before the   *)
(* history row of the product at hand has been added.                      *)
(*                                                                         *)
(* One channel is modelled; the code calls several one after the other in  *)
(* the same way.  A request edits one field, as the dialog sends it.       *)
(***************************************************************************)
EXTENDS Integers, FiniteSets

CONSTANTS
    Product,        \* products of one seller
    Request,        \* HTTP requests, each handled once
    Handles,        \* [Request -> kinds of request it may be]
    Change,         \* what the bulk dialog can submit, `push` its sync_channels
    NewPrice,       \* prices the single-product form can send
    Initial,        \* [Product -> values at the start]
    Listed,         \* products published on the channel
    MaxInFlight,    \* bound: requests in flight at once
    MaxGone,        \* bound: deletions here and at the channel
    None            \* SQL NULL, no request, nothing at the channel

Field == {"price", "cost_price"}
Kind == {"edit", "revert", "update", "resync"}
Mode == {"absolute", "inc_amount", "inc_percent"}

ASSUME PricesAssumption ==
    /\ Handles \in [Request -> SUBSET Kind]
    /\ Change \subseteq [field : Field, mode : Mode, value : Int,
                       round_to : Nat \ {0}, push : BOOLEAN]
    /\ None \notin Change
    /\ Listed \subseteq Product
    /\ MaxInFlight \in Nat \ {0} /\ MaxGone \in Nat
    /\ NewPrice \subseteq Nat
    /\ None \notin Request \cup Product \cup Int
    /\ Initial \in [Product -> [price : Nat, cost_price : Nat \cup {None}]]

-----------------------------------------------------------------------------
(* The arithmetic, in hundredths so that percentages stay exact.           *)

\* Hundredths of the unrounded result, clamped at zero.
Raw(current, c) ==
    LET base == IF current = None THEN 0 ELSE current
        next == CASE c.mode = "absolute"    -> 100 * c.value
                  [] c.mode = "inc_amount"  -> 100 * (base + c.value)
                  [] c.mode = "inc_percent" -> base * (100 + c.value)
    IN  IF next < 0 THEN 0 ELSE next

Fault_Floor(n, d) == n \div d

\* Python's round: to the nearest integer, a tie to the even one.
HalfEven(n, d) ==
    LET low == n \div d
        twice == 2 * (n % d)
    IN  IF twice > d \/ (twice = d /\ low % 2 = 1) THEN low + 1 ELSE low

\* JavaScript's Math.round: a tie goes up.
HalfUp(n, d) == (2 * n + d) \div (2 * d)

\* _apply_change, on the server.  With round_to = 1 the code does not round;
\* such changes are enumerated with whole results only.
Applied(current, c) ==
    IF c.round_to = 1 THEN Raw(current, c) \div 100
    ELSE HalfEven(Raw(current, c), 100 * c.round_to) * c.round_to

\* computeBulkPricePreview, in the browser: an empty cost stays empty.
Previewed(current, c) ==
    IF current = None THEN None
    ELSE IF c.round_to = 1 THEN Raw(current, c) \div 100
    ELSE HalfUp(Raw(current, c), 100 * c.round_to) * c.round_to

-----------------------------------------------------------------------------
VARIABLES
    product,    \* [Product -> [price, cost_price]], committed
    live,       \* products without deleted_at
    holder,     \* [Product -> Request \cup {None}], row locks
    listing,    \* [Product -> sync_status of its listing, "none" without one]
    active,     \* the channel is active
    shop,       \* [Product -> price shown at the channel, None if gone]
    history,    \* [Request -> [Product -> its batch's row or NoRow]]
    request,    \* [Request -> state of the request]
    crossed,    \* history: pairs of requests that were in flight together
    bare,       \* history: [request, product] committed before its row
    writer      \* history: [Product -> [Field -> last request to write it]]

vars == <<product, live, holder, listing, active, shop, history, request,
          crossed, bare, writer>>

Sync == {"SYNCED", "FAILED", "STALE"}
Value == Nat \cup {None}
Columns == [price : Nat, cost_price : Value]
NoRow == [old |-> None, new |-> 0, state |-> "none"]
Row == [old : Value, new : Nat, state : {"none", "live", "reverted"}]

Idle == [kind |-> "edit", phase |-> "idle", field |-> "price",
         change |-> None, push |-> FALSE, target |-> None, todo |-> {},
         at |-> None, seen |-> Initial, dirty |-> {}, noted |-> {},
         marks |-> [p \in Product |-> "none"], off |-> FALSE]

Phase == {"idle", "loop", "call", "resend", "done", "lost"}
InFlight(r) == request[r].phase \in {"loop", "call", "resend"}

Fault_RevertToNew(q, p) ==
    CASE q.kind = "edit"   -> Applied(q.seen[p][q.field], q.change)
      [] q.kind = "revert" -> history[q.target][p].new
      [] OTHER             -> q.seen[p][q.field]

\* What `product.<field>` holds in a session once it is assigned.
New(q, p) ==
    CASE q.kind = "edit"   -> Applied(q.seen[p][q.field], q.change)
      [] q.kind = "revert" ->
            IF history[q.target][p].old = None THEN q.seen[p][q.field]
            ELSE history[q.target][p].old
      [] OTHER             -> q.seen[p][q.field]

Differs(q, p) == New(q, p) # q.seen[p][q.field]

Fault_SendsLoaded(q, p) == q.seen[p].price

\* The price a session sends to the channel.
Sent(q, p) == IF q.field = "price" THEN New(q, p) ELSE q.seen[p].price

\* The history row a session adds for p.
Noted(q, p) ==
    IF q.kind = "edit"
    THEN [old |-> q.seen[p][q.field], new |-> New(q, p), state |-> "live"]
    ELSE LET h == history[q.target][p] IN
         [old |-> h.new, new |-> IF h.old = None THEN 0 ELSE h.old, state |-> "live"]

Notes(q) == q.kind \in {"edit", "revert"}

Init ==
    /\ product = Initial
    /\ live = Product
    /\ holder = [p \in Product |-> None]
    /\ listing = [p \in Product |-> IF p \in Listed THEN "SYNCED" ELSE "none"]
    /\ active = TRUE
    /\ shop = [p \in Product |->
                  IF p \in Listed THEN Initial[p].price ELSE None]
    /\ history = [r \in Request |-> [p \in Product |-> NoRow]]
    /\ request = [r \in Request |-> Idle]
    /\ crossed = {}
    /\ bare = {}
    /\ writer = [p \in Product |-> [f \in Field |-> None]]

-----------------------------------------------------------------------------
\* r has begun as q: note which requests it overlaps.
Started(r, q) ==
    /\ request[r].phase = "idle"
    /\ Cardinality({x \in Request : InFlight(x)}) < MaxInFlight
    /\ q.kind \in Handles[r]
    /\ request' = [request EXCEPT ![r] = q]
    /\ crossed' = crossed \cup {{r, o} : o \in {x \in Request : InFlight(x)}}

\* bulk_edit_price: one SELECT loads the selected products that still exist.
BeginEdit(r, c, selected) ==
    /\ selected \cap live # {}
    /\ Started(r, [Idle EXCEPT !.phase = "loop", !.field = c.field, !.change = c,
                               !.push = c.push, !.todo = selected \cap live,
                               !.seen = product])
    /\ UNCHANGED <<product, live, holder, listing, active, shop, history, bare, writer>>

Fault_AnyRow(b) == {p \in Product : history[b][p].state # "none"}

\* The rows of batch b that a revert still finds.
Unreverted(b) == {p \in Product : history[b][p].state = "live"}

\* revert_price_batch: loads the batch's rows; 404 when none is left.
BeginRevert(r, b) ==
    /\ Unreverted(b) # {}
    /\ Started(r, [Idle EXCEPT !.kind = "revert", !.phase = "loop",
                               !.field = request[b].field, !.push = TRUE,
                               !.target = b, !.todo = Unreverted(b)])
    /\ UNCHANGED <<product, live, holder, listing, active, shop, history, bare, writer>>

\* update_product: ProductService.update commits before the channel is called.
BeginUpdate(r, p, f, v) ==
    LET row == [product EXCEPT ![p][f] = v] IN
    /\ p \in live
    /\ product[p][f] # v => holder[p] = None
    /\ Started(r, [Idle EXCEPT !.kind = "update", !.phase = "loop", !.field = f,
                               !.push = TRUE, !.todo = {p}, !.seen = row])
    /\ product' = row
    /\ writer' = IF row = product THEN writer ELSE [writer EXCEPT ![p][f] = r]
    /\ UNCHANGED <<live, holder, listing, active, shop, history, bare>>

\* resync_product_to_channel: 404 without a listing, 422 on an inactive channel.
BeginResync(r, p) ==
    /\ p \in live
    /\ listing[p] # "none"
    /\ active
    /\ Started(r, [Idle EXCEPT !.kind = "resync", !.phase = "call", !.push = TRUE,
                               !.at = p, !.seen = product])
    /\ UNCHANGED <<product, live, holder, listing, active, shop, history, bare, writer>>


-----------------------------------------------------------------------------
Free(r, p) == holder[p] \in {None, r}

\* The session's objects when p's turn comes: a revert loads p only then.
Loaded(r, p) ==
    IF request[r].kind = "revert"
    THEN [request[r] EXCEPT !.seen[p] = product[p]]
    ELSE request[r]

\* An unchanged product of an edit, a deleted product of a revert.
Skips(q, p) == \/ q.kind = "edit" /\ ~Differs(q, p)
               \/ q.kind = "revert" /\ p \notin live

\* The channel is called for p: a listing exists and the channel is active.
Calls(q, p) == q.push /\ listing[p] # "none" /\ active /\ ~q.off

Fault_NotedOnSuccess(q, p, status) ==
    [q EXCEPT !.phase = "loop", !.at = None, !.todo = @ \ {p},
              !.noted = IF Notes(q) /\ status # "FAILED" THEN @ \cup {p} ELSE @,
              !.marks[p] = status]

\* p is finished: its history row is added, the loop goes on.
Concluded(q, p, status) ==
    [q EXCEPT !.phase = "loop", !.at = None, !.todo = @ \ {p},
              !.noted = IF Notes(q) THEN @ \cup {p} ELSE @,
              !.marks[p] = status]

\* One turn of the loop, up to the call.  With sync_channels the listing
\* query flushes the UPDATE, which waits for the row; without it the UPDATE
\* goes out at the commit.
Turn(r, p) ==
    LET q == Loaded(r, p)
        d == IF Differs(q, p) THEN {p} ELSE {}
        next == [q EXCEPT !.dirty = @ \cup d]
    IN
    /\ request[r].phase = "loop"
    /\ p \in request[r].todo
    /\ IF Skips(q, p)
       THEN /\ request' = [request EXCEPT ![r] = [q EXCEPT !.todo = @ \ {p}]]
            /\ UNCHANGED holder
       ELSE /\ q.push /\ Differs(q, p) => Free(r, p)
            /\ holder' = IF q.push /\ Differs(q, p)
                         THEN [holder EXCEPT ![p] = r] ELSE holder
            /\ request' = [request EXCEPT ![r] =
                    IF Calls(q, p)
                    THEN [next EXCEPT !.phase = "call", !.at = p]
                    ELSE Concluded(next, p, "none")]
    /\ UNCHANGED <<product, live, listing, active, shop, history, crossed, bare, writer>>

\* The channel's answer to r's call.
Answer(r, status) ==
    LET q == request[r] p == q.at IN
    /\ q.phase \in {"call", "resend"}
    /\ request' = [request EXCEPT ![r] = Concluded(q, p, status)]
    /\ UNCHANGED <<product, live, holder, listing, active, history, crossed, bare, writer>>

Accepted(r) ==
    LET q == request[r] IN
    /\ Answer(r, "SYNCED")
    /\ shop[q.at] # None
    /\ shop' = [shop EXCEPT ![q.at] = Sent(q, q.at)]

NotFound(r) ==
    /\ Answer(r, "STALE")
    /\ shop[request[r].at] = None
    /\ UNCHANGED shop

\* Any other exception; the channel may have done the update all the same.
Failed(r) ==
    LET q == request[r] IN
    /\ Answer(r, "FAILED")
    /\ \/ UNCHANGED shop
       \/ shop[q.at] # None /\ shop' = [shop EXCEPT ![q.at] = Sent(q, q.at)]

\* AuthenticationError: the channel is deactivated as well.
Refused(r) ==
    LET q == request[r] p == q.at IN
    /\ q.phase \in {"call", "resend"}
    /\ request' = [request EXCEPT ![r] =
                        [Concluded(q, p, "FAILED") EXCEPT !.off = TRUE]]
    /\ UNCHANGED <<product, live, holder, listing, active, shop, history,
                   crossed, bare, writer>>

-----------------------------------------------------------------------------
Fault_Kept(r) == holder

Released(r) == [p \in Product |-> IF holder[p] = r THEN None ELSE holder[p]]

\* session.commit: UPDATEs, INSERTs and the marks on listings and channel.
Persisted(r) ==
    LET q == request[r] IN
    /\ \A p \in q.dirty : Free(r, p)
    /\ product' = [p \in Product |->
            IF p \in q.dirty THEN [product[p] EXCEPT ![q.field] = New(q, p)]
            ELSE product[p]]
    /\ writer' = [p \in Product |->
            IF p \in q.dirty THEN [writer[p] EXCEPT ![q.field] = r]
            ELSE writer[p]]
    /\ history' = [b \in Request |-> [p \in Product |->
            CASE p \in q.noted /\ b = r -> Noted(q, p)
              [] p \in q.noted /\ b = q.target ->
                    [history[b][p] EXCEPT !.state = "reverted"]
              [] OTHER -> history[b][p]]]
    /\ listing' = [p \in Product |->
            IF q.marks[p] # "none" /\ listing[p] # "none" THEN q.marks[p]
            ELSE listing[p]]
    /\ active' = (active /\ ~q.off)
    /\ holder' = Released(r)

Written(q, phase) ==
    [q EXCEPT !.phase = phase, !.dirty = {}, !.noted = {},
              !.marks = [p \in Product |-> "none"], !.off = FALSE]

\* The session is closed; what an edit loaded is kept for the properties.
Closed(q, phase) ==
    [Written(q, phase) EXCEPT !.todo = {}, !.at = None,
                              !.seen = IF q.kind = "edit" THEN @ ELSE Initial]

\* The end of the handler.
Commit(r) ==
    /\ request[r].phase = "loop"
    /\ request[r].todo = {}
    /\ Persisted(r)
    /\ request' = [request EXCEPT ![r] = Closed(@, "done")]
    /\ UNCHANGED <<live, shop, crossed, bare>>

\* on_token_refresh commits the caller's session in the middle of its call.
TokenSaved(r) ==
    /\ request[r].phase = "call"
    /\ Persisted(r)
    /\ request' = [request EXCEPT ![r] = Written(@, "resend")]
    /\ bare' = IF Notes(request[r]) /\ request[r].at \in request[r].dirty
               THEN bare \cup {<<r, request[r].at>>} ELSE bare
    /\ UNCHANGED <<live, shop, crossed>>

\* The process ends, a statement fails, or the session is the victim of a
\* deadlock between two requests that locked their products in another order:
\* what is not committed is gone, what the channel was sent stays there.
Lose(r) ==
    /\ InFlight(r)
    /\ request' = [request EXCEPT ![r] = Closed(@, "lost")]
    /\ holder' = Released(r)
    /\ UNCHANGED <<product, live, listing, active, shop, history, crossed, bare, writer>>

-----------------------------------------------------------------------------
Gone == Cardinality(Product \ live) + Cardinality({p \in Listed : shop[p] = None})

\* ProductService.soft_delete, from delete_product.
SoftDelete(p) ==
    /\ p \in live
    /\ Gone < MaxGone
    /\ holder[p] = None
    /\ live' = live \ {p}
    /\ listing' = [listing EXCEPT ![p] = "none"]
    /\ UNCHANGED <<product, holder, active, shop, history, request, crossed, bare, writer>>

\* The seller removes the product at the channel.
RemovedAtChannel(p) ==
    /\ shop[p] # None
    /\ Gone < MaxGone
    /\ shop' = [shop EXCEPT ![p] = None]
    /\ UNCHANGED <<product, live, holder, listing, active, history, request, crossed, bare, writer>>

Progress(r) ==
    \/ \E p \in Product : Turn(r, p)
    \/ Accepted(r) \/ NotFound(r) \/ Failed(r) \/ Refused(r)
    \/ Commit(r)

Begin(r) ==
    \/ \E c \in Change, selected \in SUBSET Product : BeginEdit(r, c, selected)
    \/ \E b \in Request : BeginRevert(r, b)
    \/ \E p \in Product, f \in Field, v \in NewPrice : BeginUpdate(r, p, f, v)
    \/ \E p \in Product : BeginResync(r, p)

Next ==
    \/ \E r \in Request :
            Begin(r) \/ Progress(r) \/ TokenSaved(r) \/ Lose(r)
    \/ \E p \in Product : SoftDelete(p) \/ RemovedAtChannel(p)

Spec == Init /\ [][Next]_vars

-----------------------------------------------------------------------------
Marks == Sync \cup {"none"}
State == [kind : Kind, phase : Phase, field : Field, change : Change \cup {None},
          push : BOOLEAN, target : Request \cup {None}, todo : SUBSET Product,
          at : Product \cup {None}, seen : [Product -> Columns],
          dirty : SUBSET Product, noted : SUBSET Product,
          marks : [Product -> Marks], off : BOOLEAN]

\* Types; a price is never negative (_apply_change clamps at zero).
TypeOK ==
    /\ product \in [Product -> Columns]
    /\ live \subseteq Product
    /\ holder \in [Product -> Request \cup {None}]
    /\ listing \in [Product -> Marks]
    /\ active \in BOOLEAN
    /\ shop \in [Product -> Value]
    /\ history \in [Request -> [Product -> Row]]
    /\ request \in [Request -> State]
    /\ crossed \subseteq SUBSET Request
    /\ bare \subseteq Request \X Product
    /\ writer \in [Product -> [Field -> Request \cup {None}]]

Alone(r) == \A o \in Request : {r, o} \notin crossed

\* A row lock is held by a request that is still in flight and is about to
\* write the row: nobody waits for a request that is gone.
LocksAreHeld ==
    \A p \in Product :
        LET r == holder[p] IN r # None => InFlight(r) /\ p \in request[r].dirty

\* Every value a bulk edit or an undo left in a column has its row in that
\* batch, so that it can be undone, unless the request was lost after a token
\* refresh had committed the product ahead of its row (products.py:560).
ChangesAreRecorded ==
    \A p \in Product, f \in Field :
        LET r == writer[p][f] IN
        (r # None /\ Notes(request[r]) /\ ~InFlight(r)) =>
            \/ history[r][p].state # "none" /\ history[r][p].new = product[p][f]
            \/ request[r].phase = "lost" /\ <<r, p>> \in bare

\* A row is undone by two batches only if the two undos overlapped: the query
\* at products.py:835 is no lock.
UndoneOnce ==
    \A r, o \in Request, p \in Product :
        ( /\ r # o
          /\ request[r].kind = "revert" /\ request[o].kind = "revert"
          /\ request[r].target = request[o].target
          /\ history[r][p].state # "none" /\ history[o][p].state # "none" )
        => {r, o} \in crossed

Ends(r) == request[r].phase = "loop" /\ request'[r].phase = "done"

\* An undo that nothing overlapped leaves each product of an edit that nothing
\* overlapped as that edit found it, whatever was refused, refreshed, deleted
\* or changed in between; an empty cost is the exception (products.py:869).
UndoRestores ==
    [][\A r \in Request :
         LET b == request[r].target IN
         (Ends(r) /\ request[r].kind = "revert" /\ Alone(r)
            /\ request[b].kind = "edit" /\ Alone(b)) =>
         \A p \in Product :
            LET f == request[b].field IN
            history'[r][p].state # "none" =>
                \/ product'[p][f] = request[b].seen[p][f]
                \/ request[b].seen[p][f] = None
    ]_vars

\* When a request that nothing overlapped ends, a product it called the
\* channel about is left SYNCED only if the channel shows its committed price
\* (or the product has gone there since).
StatusHonest ==
    [][\A r \in Request : (Ends(r) /\ Alone(r)) =>
         \A p \in Product :
            (request[r].marks[p] # "none" /\ listing'[p] = "SYNCED") =>
                shop[p] \in {None, product'[p].price}
    ]_vars

Rows(r) == {p \in Product : history[r][p].state # "none"}

\* What a bulk edit writes is what the dialog previewed for the same value,
\* except for a tie, where the server rounds to the even step and the browser
\* up, and an empty cost, which the dialog shows as unchanged.
PreviewOffAtTies ==
    \A r \in Request : request[r].kind = "edit" =>
        \A p \in Rows(r) :
            LET h == history[r][p] c == request[r].change IN
            \/ h.new = Previewed(h.old, c)
            \/ h.old = None
            \/ /\ h.new = Previewed(h.old, c) - c.round_to
               /\ 2 * Raw(h.old, c) = 100 * (h.new + Previewed(h.old, c))

=============================================================================
