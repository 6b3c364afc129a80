------------------------------ MODULE QueryCache ------------------------------
(***************************************************************************)
(* The query cache of the web pages: which page mounts which query, which  *)
(* request the seller can send from it, what the server's handler changes  *)
(* and which queries the hooks of lib/hooks invalidate when it succeeds.   *)
(*                                                                         *)
(* One query is followed, chosen at the start.  Its answer is current or   *)
(* it is not; a request is what it does to that query.  A key stands for   *)
(* its prefix with every filter and id.  QueryProvider: staleTime is a     *)
(* minute, a focused window fetches nothing.                               *)
(*                                                                         *)
(* `missed` is history: no guard reads it.                                 *)
(***************************************************************************)
CONSTANT Call       \* requests that may be in flight together

VARIABLES
    key,            \* the query that is followed
    page,           \* the page that is open
    known,          \* the cache holds an answer
    fresh,          \* and it is what the server would answer
    isInvalidated,
    fetching,       \* "no", "asked", or an answer "current" or "outdated"
    call,           \* [Call -> a request, as it concerns the query]
    missed          \* history: a change, and no answer told the query

query == <<known, fresh, isInvalidated, fetching>>
vars == <<key, page, query, call, missed>>

\* The prefix ["products"] has three queries of its own.
Products == {"products", "product", "sync-issues"}
Orders == {"orders", "order"}
Dashboard == {"dashboard", "low-stock"}
Key == Products \cup Orders \cup Dashboard \cup
       {"price-history", "matches", "inventory", "channels", "channel-types",
        "settings", "setting-history"}

-----------------------------------------------------------------------------
(* The pages                                                               *)

SidebarReads == {"matches", "low-stock", "sync-issues"}

AlertReads == {"matches", "low-stock", "price-history"}
SummaryReads == {"channels"}
DashboardReads == {"dashboard"} \cup AlertReads \cup SummaryReads

InventoryReads == {"inventory", "products", "channels"}

Reads(p) ==
    CASE p = "dashboard"      -> DashboardReads
      [] p = "products"       -> {"products", "channels", "matches"}
      [] p = "product"        -> {"product", "price-history", "channels"}
      [] p = "edit product"   -> {"product", "channels"}
      [] p = "new product"    -> {"channels"}
      [] p = "matching"       -> {"matches"}
      [] p = "inventory"      -> InventoryReads
      [] p = "orders"         -> {"orders", "channels"}
      [] p = "order"          -> {"order"}
      [] p = "channels"       -> {"channels", "channel-types", "sync-issues"}
      [] p = "admin"          -> {"settings"}
      [] p = "history drawer" -> {"settings", "setting-history"}

\* The requests of a page; a resync from the panel of sync issues may fail with
\* the error in its body.
Requests(p) ==
    CASE p = "dashboard"      -> {"revertPrice"}
      [] p = "products"       -> {"deleteProduct", "bulkEditPrice", "revertPrice",
                                  "importProducts"}
      [] p = "product"        -> {"deleteProduct", "addImage", "deleteImage", "resync",
                                  "revertPrice"}
      [] p = "edit product"   -> {"updateProduct"}
      [] p = "new product"    -> {"createProduct"}
      [] p = "matching"       -> {"confirmMatch", "declineMatch"}
      [] p = "inventory"      -> {"updateInventory", "bulkEditInventory"}
      [] p = "orders"         -> {"syncOrders", "bulkUpdateStatus"}
      [] p = "order"          -> {"updateStatus", "updateTracking"}
      [] p = "channels"       -> {"connect", "disconnect", "resyncIssue", "resyncIssueFails"}
      [] p = "admin"          -> {"updateSetting"}
      [] p = "history drawer" -> {"rollbackSetting"}

Page == {"dashboard", "products", "product", "edit product", "new product", "matching",
         "inventory", "orders", "order", "channels", "admin", "history drawer"}

Request == UNION {Requests(p) : p \in Page}

-----------------------------------------------------------------------------
(* What a success invalidates                                              *)

Prices == {"bulkEditPrice", "revertPrice"}
Resyncs == {"resync", "resyncIssue", "resyncIssueFails"}
Matching == {"confirmMatch", "declineMatch"}

\* use-products.ts
CreateTells(m) == IF m = "createProduct" THEN Products ELSE {}
UpdateTells(m) == IF m = "updateProduct" THEN Products ELSE {}
DeleteTells(m) == IF m = "deleteProduct" THEN Products ELSE {}

Fault_KeepsHistory(m) == IF m \in Prices THEN Products ELSE {}

PricesTell(m) == IF m \in Prices THEN Products \cup {"price-history"} ELSE {}

ImagesTell(m) == IF m \in {"addImage", "deleteImage"} \cup Resyncs THEN {"product"} ELSE {}

\* ResyncButton calls refetch when the channel took it.
PanelTells(m) == IF m = "resyncIssue" THEN {"sync-issues"} ELSE {}

\* use-orders.ts
OrdersTell(m) ==
    IF m \in {"updateStatus", "updateTracking", "bulkUpdateStatus"} THEN Orders ELSE {}

\* use-channels.ts
ChannelsTell(m) ==
    CASE m = "connect"        -> {"channels", "channel-types"}
      [] m = "disconnect"     -> {"channels"}
      [] m = "importProducts" -> Products \cup {"channels"}
      [] m = "syncOrders"     -> Orders \cup {"channels"}
      [] OTHER                -> {}

\* use-inventory.ts
InventoryTells(m) ==
    IF m \in {"updateInventory", "bulkEditInventory"} THEN {"inventory"} ELSE {}

\* use-matching.ts
MatchingTells(m) == IF m \in Matching THEN {"matches"} \cup Products ELSE {}

\* use-admin-settings.ts
SettingsTell(m) ==
    CASE m = "updateSetting"   -> {"settings"}
      [] m = "rollbackSetting" -> {"settings", "setting-history"}
      [] OTHER                 -> {}

Tells(m) == CreateTells(m) \cup UpdateTells(m) \cup DeleteTells(m) \cup PricesTell(m)
            \cup ImagesTell(m) \cup PanelTells(m) \cup OrdersTell(m) \cup ChannelsTell(m) \cup InventoryTells(m)
            \cup MatchingTells(m) \cup SettingsTell(m)

-----------------------------------------------------------------------------
(* What the handlers may change                                            *)

\* A product is seeded with a stock of zero; a deletion takes its listings along.
ProductChanges(m) ==
    CASE m = "createProduct" -> {"products", "sync-issues", "channels", "inventory"}
                                \cup Dashboard
      [] m = "updateProduct" -> Products \cup {"matches"} \cup Dashboard
      [] m = "deleteProduct" -> Products \cup {"matches", "channels", "inventory"}
                                \cup Dashboard
      [] m \in Prices        -> Products \cup {"price-history", "matches", "dashboard"}
      [] m \in Resyncs       -> Products \cup {"dashboard"}
      [] m \in {"addImage", "deleteImage"} -> {"product"}
      [] m = "confirmMatch"  -> Products \cup {"matches"}
      [] m = "declineMatch"  -> Products \cup {"matches", "dashboard"}
      [] OTHER               -> {}

\* list_channels counts the listings and orders of each.
ChannelChanges(m) ==
    CASE m \in {"connect", "disconnect"} -> {"channels"}
      [] m = "importProducts" -> Products \cup {"matches", "channels", "inventory"}
                                 \cup Dashboard
      [] m = "syncOrders"     -> Orders \cup {"channels", "dashboard"}
      [] OTHER                -> {}

OrderChanges(m) ==
    IF m \in {"updateStatus", "updateTracking", "bulkUpdateStatus"}
    THEN Orders \cup {"dashboard"} ELSE {}

InventoryChanges(m) ==
    IF m \in {"updateInventory", "bulkEditInventory"} THEN {"inventory"} \cup Dashboard ELSE {}

SettingChanges(m) ==
    IF m \in {"updateSetting", "rollbackSetting"} THEN {"settings", "setting-history"} ELSE {}

Changes(m) == ProductChanges(m) \cup ChannelChanges(m) \cup OrderChanges(m)
              \cup InventoryChanges(m) \cup SettingChanges(m)

\* The gaps: what a page does not hear of the seller's own success.
Untold(m) ==
    Dashboard \cup
    (CASE m = "createProduct"     -> {"channels", "inventory"}
       [] m = "updateProduct"     -> {"matches"}
       [] m = "deleteProduct"     -> {"matches", "channels", "inventory"}
       [] m \in Prices            -> {"matches"}
       [] m = "importProducts"    -> {"matches", "inventory"}
       [] m = "resyncIssue"       -> {"products"}
       [] m \in {"resync", "resyncIssueFails"} -> {"products", "sync-issues"}
       [] m = "updateSetting"     -> {"setting-history"}
       [] OTHER                   -> {})

-----------------------------------------------------------------------------

Calls == [phase : {"idle", "sent", "ok", "error"}, changes : BOOLEAN,
          tells : BOOLEAN, untold : BOOLEAN]
Idle == [phase |-> "idle", changes |-> FALSE, tells |-> FALSE, untold |-> FALSE]

TypeOK ==
    /\ key \in Key /\ page \in Page
    /\ known \in BOOLEAN /\ fresh \in BOOLEAN /\ isInvalidated \in BOOLEAN
    /\ fetching \in {"no", "asked", "current", "outdated"}
    /\ call \in [Call -> Calls] /\ missed \in BOOLEAN

Mounts(p) == key \in Reads(p) \cup SidebarReads

Init ==
    /\ key \in Key /\ page = "dashboard"
    /\ known = FALSE /\ fresh = FALSE /\ isInvalidated = FALSE
    /\ fetching = IF Mounts("dashboard") THEN "asked" ELSE "no"
    /\ call = [c \in Call |-> Idle] /\ missed = FALSE

\* The query is fetched if it is not known, invalidated or older than staleTime.
Visit(p) ==
    /\ p # page
    /\ page' = p
    /\ \E old \in BOOLEAN :
           fetching' = IF key \in Reads(p) /\ fetching = "no"
                             /\ (~known \/ isInvalidated \/ old)
                       THEN "asked" ELSE fetching
    /\ UNCHANGED <<key, known, fresh, isInvalidated, call, missed>>

FetchServed ==
    /\ fetching = "asked"
    /\ fetching' = "current" /\ missed' = FALSE
    /\ UNCHANGED <<key, page, known, fresh, isInvalidated, call>>

FetchDelivered ==
    /\ fetching \in {"current", "outdated"}
    /\ known' = TRUE /\ fresh' = (fetching = "current")
    /\ isInvalidated' = FALSE /\ fetching' = "no"
    /\ UNCHANGED <<key, page, call, missed>>

\* Its retries fail as well.
FetchFails ==
    /\ fetching # "no"
    /\ fetching' = "no" /\ missed' = TRUE
    /\ UNCHANGED <<key, page, known, fresh, isInvalidated, call>>

Outdate ==
    /\ fresh' = FALSE
    /\ fetching' = IF fetching = "current" THEN "outdated" ELSE fetching
    /\ UNCHANGED <<known, isInvalidated>>

Start(c, m) ==
    /\ call[c].phase = "idle"
    /\ m \in Requests(page)
    /\ key \in Changes(m) \cup Tells(m)
    /\ call' = [call EXCEPT ![c] = [phase |-> "sent", changes |-> key \in Changes(m),
                                    tells |-> key \in Tells(m),
                                    untold |-> key \in Untold(m)]]
    /\ UNCHANGED <<key, page, query, missed>>

Served(c) ==
    /\ call[c].phase = "sent"
    /\ call' = [call EXCEPT ![c].phase = "ok"]
    /\ IF call[c].changes
       THEN Outdate /\ missed' = (missed \/ call[c].untold)
       ELSE UNCHANGED <<query, missed>>
    /\ UNCHANGED <<key, page>>

\* An error, or the request or its answer is lost.
Lost(c) ==
    /\ call[c].phase \in {"sent", "ok"}
    /\ call' = [call EXCEPT ![c].phase = "error"]
    /\ missed' = (missed \/ call[c].phase = "ok")
    /\ UNCHANGED <<key, page, query>>

\* onSuccess runs also for a page that is gone.  invalidateQueries marks the
\* query; if it is mounted it asks again and drops the answer on its way.  The
\* answer on its way to a query that is not takes the mark off again.
Succeed(c) ==
    /\ call[c].phase = "ok"
    /\ call' = [call EXCEPT ![c] = Idle]
    /\ IF call[c].tells
       THEN /\ isInvalidated' = TRUE
            /\ fetching' = IF Mounts(page) THEN "asked" ELSE fetching
            /\ missed' = (missed \/ (~Mounts(page) /\ fetching # "no"))
       ELSE UNCHANGED <<isInvalidated, fetching, missed>>
    /\ UNCHANGED <<key, page, known, fresh>>

Fail(c) ==
    /\ call[c].phase = "error"
    /\ call' = [call EXCEPT ![c] = Idle]
    /\ UNCHANGED <<key, page, query, missed>>

\* Another session, a channel or the worker.
ChangedElsewhere ==
    /\ Outdate
    /\ missed' = TRUE
    /\ UNCHANGED <<key, page, call>>

Next ==
    \/ FetchServed \/ FetchDelivered \/ FetchFails \/ ChangedElsewhere
    \/ \E p \in Page : Visit(p)
    \/ \E c \in Call :
           \/ \E m \in Request : Start(c, m)
           \/ Served(c) \/ Lost(c) \/ Succeed(c) \/ Fail(c)

Spec == Init /\ [][Next]_vars

-----------------------------------------------------------------------------
(* Properties                                                              *)

\* Once every request is answered and every fetch is over, what a mounted query
\* shows is what the server would answer now, and what one that is not mounted
\* holds is that or is marked to be fetched: in every order of answers, fetches
\* and visits, but for the gaps, what others change, and what was lost.
AnswersAreCurrent ==
    (\A c \in Call : call[c].phase = "idle") /\ fetching = "no" /\ known /\ ~missed
        => fresh \/ (isInvalidated /\ ~Mounts(page))

=============================================================================
