------------------------------ MODULE Listings ------------------------------
(***************************************************************************)
(* Listings: which product of the seller stands behind which item of a      *)
(* channel.  A row of channel_listings links the two; rows are made by the  *)
(* publication of a new product (api/v1/products.py), by the import of a    *)
(* channel's items (api/v1/channels.py) and moved by the review of doubtful *)
(* matches.  The schema has no unique constraint on (channel, external_id)  *)
(* alone, so the code keeps an item at one listing.                         *)
(*                                                                         *)
(* The channel has its own product codes: an item's sku is the item itself. *)
(* Names are what the matching compares; Likeness stands for               *)
(* compute_match_score of two names with their price bonus.                *)
(***************************************************************************)
EXTENDS Naturals, FiniteSets

CONSTANTS
    Item,           \* products the channel can hold
    Name,           \* product names
    Likeness,       \* [Name -> [Name -> 0..100]], compute_match_score
    MaxProducts,    \* bound: products ever created
    MaxBusy,        \* bound: requests in flight at once
    MaxTroubles,    \* bound: no new request after that many races and dooms
    Importer,       \* overlapping imports
    Publisher,      \* overlapping product creations
    OnSale,         \* [items on sale at the start -> their names]
    None            \* nothing there (yet)

AUTO_CONFIRM_THRESHOLD == 80
REVIEW_THRESHOLD == 60

Pid == 1..MaxProducts
Session == Importer \cup Publisher

ASSUME ListingsAssumption ==
    /\ MaxProducts \in Nat /\ MaxBusy \in Nat /\ MaxTroubles \in Nat
    /\ Likeness \in [Name -> [Name -> 0..100]]
    /\ DOMAIN OnSale \subseteq Item /\ OnSale \in [DOMAIN OnSale -> Name]
    /\ Importer \cap Publisher = {}
    /\ None \notin Item \cup Name \cup Session \cup {"PENDING", "gone"}
    /\ None \notin Pid /\ Item \cap Pid = {}
    /\ "PENDING" \notin Item /\ "gone" \notin Name

\* external_id of a listing whose publication failed.
PENDING == "PENDING"
External == Item \cup {PENDING}
Gone == "gone"
Match == {"CONFIRMED", "PENDING_MATCH"}

VARIABLES
    shop,       \* [Item -> its name at the channel, None or Gone]
    product,    \* [Pid -> Row or None], committed
    listing,    \* [Pid -> [External -> Match, "deleted" or "none"]], committed
    session,    \* [Session -> state of the request]
    raced,      \* history: items looked at while another session had them
    doomed      \* history: products deleted while a session was linking to them

vars == <<shop, product, listing, session, raced, doomed>>

\* sku: the channel's code of an item, or the number of the product.
Row == [sku : Item \cup Pid, name : Name, live : BOOLEAN]

ASSUME NoneIsNoRow == None \notin Row

Standing == Match \cup {"deleted", "none"}

\* todo: fetched items not yet handled; seen: the fetched names; added:
\* uncommitted listings; made: uncommitted product rows; pid, ext: what a
\* publisher created here and at the channel.
Idle == [phase |-> "idle", todo |-> {},
         seen |-> [x \in Item |-> None], added |-> {},
         made |-> [p \in Pid |-> None], pid |-> None, ext |-> PENDING]

Init ==
    /\ shop = [x \in Item |-> IF x \in DOMAIN OnSale THEN OnSale[x] ELSE None]
    /\ product = [p \in Pid |-> None]
    /\ listing = [p \in Pid |-> [x \in External |-> "none"]]
    /\ session = [s \in Session |-> Idle]
    /\ raced = {}
    /\ doomed = {}

-----------------------------------------------------------------------------
(* Matching (services/matching_service.py).                                *)

classify_match_status(score) ==
    CASE score >= AUTO_CONFIRM_THRESHOLD -> "CONFIRMED"
      [] score >= REVIEW_THRESHOLD /\ score < AUTO_CONFIRM_THRESHOLD -> "PENDING_MATCH"
      [] OTHER -> "NEW"

\* The candidates rank_candidates may put first: the best score, any order
\* among equals, none below REVIEW_THRESHOLD.
Top(name, rows, pool) ==
    LET score(p) == Likeness[name][rows[p].name] IN
    {p \in pool : /\ score(p) >= REVIEW_THRESHOLD
                  /\ \A o \in pool : score(o) <= score(p)}

-----------------------------------------------------------------------------
\* What session s reads: the committed rows under its own.
Rows(s) == [p \in Pid |->
    IF session[s].made[p] # None THEN session[s].made[p] ELSE product[p]]

Alive(s) == {p \in Pid : Rows(s)[p] # None /\ Rows(s)[p].live}

Fault_ConfirmedOnly(s, x) ==
    {p \in Pid : \/ listing[p][x] = "CONFIRMED"
                 \/ \E a \in session[s].added : a.pid = p /\ a.ext = x}

\* Products that the listings of x point to.
Linked(s, x) ==
    {p \in Pid : \/ listing[p][x] \in Match
                 \/ \E a \in session[s].added : a.pid = p /\ a.ext = x}

\* Products with the item's code.
BySku(s, x) == {p \in Alive(s) : Rows(s)[p].sku = x}

\* A session other than s has an uncommitted row for (p, x).
Inserting(s, p, x) ==
    \E o \in Session \ {s} : \E a \in session[o].added : a.pid = p /\ a.ext = x

\* x is in the hands of another session: listed there but not committed, or
\* just created at the channel by a publication.
InOtherHands(s, x) ==
    \E o \in Session \ {s} :
        \/ \E a \in session[o].added : a.ext = x
        \/ session[o].phase = "list" /\ session[o].ext = x

\* The next uuid: one nobody has used.
Unused == {p \in Pid : product[p] = None /\ \A s \in Session : session[s].made[p] = None}
Fresh == CHOOSE p \in Unused : TRUE

-----------------------------------------------------------------------------
\* Another request may begin, within the bounds.
Room ==
    /\ Cardinality({s \in Session : session[s].phase # "idle"}) < MaxBusy
    /\ Cardinality(raced) + Cardinality(doomed) < MaxTroubles

\* import_products gets a page of the channel's items.  Each page is handled
\* and committed by itself and the import keeps nothing but the offset from
\* one to the next, which items that come and go shift: a page is any part
\* of what is on sale, and an import is a series of pages.
Fetch(i, page) ==
    /\ session[i].phase = "idle" /\ Room
    /\ page # {}
    /\ \A x \in page : shop[x] \in Name
    /\ session' = [session EXCEPT ![i] = [Idle EXCEPT !.phase = "page", !.todo = page,
            !.seen = [x \in Item |-> IF x \in page THEN shop[x] ELSE None]]]
    /\ UNCHANGED <<shop, product, listing, raced, doomed>>

\* The session's rows after linking x to p, whose row becomes r.
Linking(s, p, x, r, match) ==
    [s EXCEPT !.todo = @ \ {x}, !.made[p] = r,
              !.added = @ \cup {[pid |-> p, ext |-> x, match |-> match]}]

\* One item, in its savepoint.
Handle(i, x) ==
    LET q == session[i]
        rows == Rows(i)
        skipped == [q EXCEPT !.todo = @ \ {x}]
        top == Top(q.seen[x], rows, Alive(i))
        match(p) == classify_match_status(Likeness[q.seen[x]][rows[p].name])
    IN
    /\ q.phase = "page"
    /\ x \in q.todo
    /\ raced' = IF InOtherHands(i, x) THEN raced \cup {x} ELSE raced
    /\ \/ \* already listed; or scalar_one_or_none raises, which is counted
          /\ Linked(i, x) # {} \/ Cardinality(BySku(i, x)) > 1
          /\ session' = [session EXCEPT ![i] = skipped]
       \/ \* the same code: linked, and the product takes the item's name
          /\ Linked(i, x) = {}
          /\ \E p \in Pid :
                /\ BySku(i, x) = {p}
                /\ ~Inserting(i, p, x)
                /\ session' = [session EXCEPT ![i] =
                        IF listing[p][x] # "none" THEN skipped
                        ELSE Linking(q, p, x, [rows[p] EXCEPT !.name = q.seen[x]],
                                     "CONFIRMED")]
       \/ \* the most alike product, confirmed or to be reviewed
          /\ Linked(i, x) = {} /\ BySku(i, x) = {}
          /\ \E p \in top :
                /\ match(p) \in Match
                /\ ~Inserting(i, p, x)
                /\ session' = [session EXCEPT ![i] =
                        IF listing[p][x] # "none" THEN skipped
                        ELSE Linking(q, p, x, q.made[p], match(p))]
       \/ \* nothing alike: a new product
          /\ Linked(i, x) = {} /\ BySku(i, x) = {} /\ top = {}
          /\ Unused # {}
          /\ session' = [session EXCEPT ![i] =
                Linking(q, Fresh, x, [sku |-> x, name |-> q.seen[x], live |-> TRUE],
                        "CONFIRMED")]
    /\ UNCHANGED <<shop, product, listing, doomed>>

Committed(row, made) ==
    CASE made = None -> row
      [] row = None  -> made
      [] OTHER       -> [row EXCEPT !.name = made.name]

\* session.commit at the end of a page.
CommitPage(i) ==
    LET q == session[i] IN
    /\ q.phase = "page"
    /\ q.todo = {}
    /\ product' = [p \in Pid |-> Committed(product[p], q.made[p])]
    /\ listing' = [p \in Pid |-> [x \in External |->
            IF \E a \in q.added : a.pid = p /\ a.ext = x
            THEN (CHOOSE a \in q.added : a.pid = p /\ a.ext = x).match
            ELSE listing[p][x]]]
    /\ session' = [session EXCEPT ![i] = Idle]
    /\ UNCHANGED <<shop, raced, doomed>>

-----------------------------------------------------------------------------
\* create_product: the product is committed before any channel is called.
CreateProduct(u, name, publish) ==
    /\ session[u].phase = "idle" /\ Room
    /\ Unused # {}
    /\ product' = [product EXCEPT ![Fresh] = [sku |-> Fresh, name |-> name, live |-> TRUE]]
    /\ session' = IF publish
                  THEN [session EXCEPT ![u] = [Idle EXCEPT !.phase = "publish", !.pid = Fresh]]
                  ELSE session
    /\ UNCHANGED <<shop, listing, raced, doomed>>

\* _publish_to_channels calls upsert_product.  The POST is retried on 5xx, so
\* it may create an item twice, and its answer may be lost.
RemoteCreate(u, made, ext) ==
    /\ session[u].phase = "publish"
    /\ made \subseteq {x \in Item : shop[x] = None}
    /\ ext \in made \cup {PENDING}
    /\ shop' = [x \in Item |-> IF x \in made THEN product[session[u].pid].name ELSE shop[x]]
    /\ session' = [session EXCEPT ![u].phase = "list", ![u].ext = ext]
    /\ UNCHANGED <<product, listing, raced, doomed>>

\* The listing is inserted and committed; it waits for an import that is
\* inserting the same row and fails, with the request, if that one commits.
AddListing(u) ==
    LET q == session[u] IN
    /\ q.phase = "list"
    /\ ~Inserting(u, q.pid, q.ext)
    /\ listing' = IF listing[q.pid][q.ext] = "none"
                  THEN [listing EXCEPT ![q.pid][q.ext] = "CONFIRMED"] ELSE listing
    /\ session' = [session EXCEPT ![u] = Idle]
    /\ UNCHANGED <<shop, product, raced, doomed>>

\* The process ends, or the request fails: the transaction is rolled back.
Crash(s) ==
    /\ session[s].phase # "idle"
    /\ session' = [session EXCEPT ![s] = Idle]
    /\ UNCHANGED <<shop, product, listing, raced, doomed>>

-----------------------------------------------------------------------------
Fault_KeepsListings(p) == listing

\* soft_delete marks the product's committed listings.
Unlisted(p) == [listing EXCEPT ![p] = [x \in External |->
    IF listing[p][x] \in Match THEN "deleted" ELSE listing[p][x]]]

\* The channel items that can go with the product.
Removable(p) == {x \in Item : listing[p][x] \in Match /\ shop[x] \in Name}

\* delete_product: the chosen channel items go first, failures are reported
\* and the product is deleted all the same.
Delete(p, removed) ==
    /\ product[p] # None /\ product[p].live
    /\ removed \subseteq Removable(p)
    /\ shop' = [x \in Item |-> IF x \in removed THEN Gone ELSE shop[x]]
    /\ product' = [product EXCEPT ![p].live = FALSE]
    /\ listing' = Unlisted(p)
    /\ doomed' = IF \E s \in Session :
                        \/ session[s].pid = p
                        \/ \E a \in session[s].added : a.pid = p
                 THEN doomed \cup {p} ELSE doomed
    /\ UNCHANGED <<session, raced>>

\* The listing (p, x) points to o from now on, as CONFIRMED.
Moved(p, x, o) == [listing EXCEPT ![p][x] = "none", ![o][x] = "CONFIRMED"]

\* confirm_match: the new product is checked, the listing's own is not.
Confirm(p, x, o) ==
    /\ listing[p][x] \in Match
    /\ product[o] # None /\ product[o].live
    /\ o # p => listing[o][x] = "none" /\ \A s \in Session : ~Inserting(s, o, x)
    /\ listing' = Moved(p, x, o)
    /\ UNCHANGED <<shop, product, session, raced, doomed>>

Fault_SameCode(p) == [sku |-> product[p].sku, name |-> product[p].name, live |-> TRUE]

\* The import stores no raw_payload, so the name comes from the old product;
\* the code gets a prefix that no item has ("SKU 충돌 회피").
Copy(p) == [sku |-> Fresh, name |-> product[p].name, live |-> TRUE]

\* decline_match: a copy of the current product takes the listing.
Decline(p, x) ==
    /\ listing[p][x] \in Match
    /\ Unused # {}
    /\ product' = [product EXCEPT ![Fresh] = Copy(p)]
    /\ listing' = Moved(p, x, Fresh)
    /\ UNCHANGED <<shop, session, raced, doomed>>

Next ==
    \/ \E i \in Importer :
        \/ CommitPage(i)
        \/ \E page \in SUBSET Item : Fetch(i, page)
        \/ \E x \in Item : Handle(i, x)
    \/ \E u \in Publisher :
        \/ \E n \in Name, publish \in BOOLEAN : CreateProduct(u, n, publish)
        \/ \E made \in SUBSET Item, ext \in External : RemoteCreate(u, made, ext)
        \/ AddListing(u)
    \/ \E s \in Session : Crash(s)
    \/ \E p \in Pid :
        \/ \E removed \in SUBSET Item : Delete(p, removed)
        \/ \E x \in External :
            \/ \E o \in Pid : Confirm(p, x, o)
            \/ Decline(p, x)

Spec == Init /\ [][Next]_vars

-----------------------------------------------------------------------------
Added == [pid : Pid, ext : External, match : Match]
State == [phase : {"idle", "page", "publish", "list"}, todo : SUBSET Item,
          seen : [Item -> Name \cup {None, Gone}],
          added : SUBSET Added, made : [Pid -> Row \cup {None}],
          pid : Pid \cup {None}, ext : External]

\* Types; a product always has a name and a code.
TypeOK ==
    /\ shop \in [Item -> Name \cup {None, Gone}]
    /\ product \in [Pid -> Row \cup {None}]
    /\ listing \in [Pid -> [External -> Standing]]
    /\ session \in [Session -> State]
    /\ raced \subseteq Item
    /\ doomed \subseteq Pid

Behind(x) == {p \in Pid : listing[p][x] \in Match}

\* An item has one live listing, through imports, publications, reviews and
\* deletions, unless an import looked at it while another session had just
\* linked or created it (channels.py:394 reads only what is committed).
OneListingPerItem ==
    \A x \in Item : Cardinality(Behind(x)) > 1 => x \in raced

\* A live listing points to a live product, unless the product was deleted
\* while an import or a publication that links to it had not committed
\* (product_service.py:113 marks only the committed rows).  Such an item is
\* skipped by every later import and shown nowhere.
ListingsHaveProducts ==
    \A p \in Pid, x \in External :
        listing[p][x] \in Match => product[p] # None /\ (product[p].live \/ p \in doomed)

\* Two live products never carry one channel code, so the import's
\* scalar_one_or_none finds at most one (channels.py:422), with the same
\* exception as OneListingPerItem.
OneProductPerCode ==
    \A x \in Item :
        Cardinality({p \in Pid : product[p] # None /\ product[p].live
                                    /\ product[p].sku = x}) > 1 => x \in raced
=============================================================================
