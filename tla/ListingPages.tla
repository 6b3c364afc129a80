----------------------------- MODULE ListingPages -----------------------------
(***************************************************************************)
(* What a seller does about one channel item and its product: the review   *)
(* of its match (MatchingList), the import modal of the products page      *)
(* (ImportProductsModal), the panel of sync issues of the channels page    *)
(* (SyncIssuePanel), and resync, images and deletion on the product's page *)
(* (ProductDetail, DeleteProductDialog), beside the handlers they call     *)
(* (api/v1/products.py) and the same review in another session.            *)
(*                                                                         *)
(* There are always other cards to review.  The query ["matches",          *)
(* "pending"] is modelled with its fetches; the status that the panel and  *)
(* the product's page show is fetched in one step (QueryCache has its      *)
(* races).  A handler is one step: its own races are in Listings.          *)
(*                                                                         *)
(* `behind`, `again` and the field hasty are history: no guard reads them. *)
(***************************************************************************)
EXTENDS Naturals

CONSTANTS
    Call,           \* requests that may be in flight together
    MaxCalls        \* bound: requests sent

VARIABLES
    match,          \* the item's listing: "none", "pending" or "decided"
    decisions,      \* how often its match was decided
    sync,           \* its sync_status
    alive,          \* its product is not deleted
    images,         \* its product has an image
    requests,       \* [Call -> a request and its answer]
    sentSoFar,      \* requests sent
    page,           \* the page that is open
    offered,        \* the cached list of pending matches has the item, or "none"
    inFlight,       \* "idle", "asked", or the answer on its way
    shownSync,      \* the status the panel and the product's page show
    modal,          \* the decline, delete or import dialog that is open, or "none"
    hasty,          \* history: the decline dialog was opened on an old list
    selected,       \* the delete dialog's channel is ticked
    channelId,      \* the import modal has a channel
    behind,         \* history: the item was decided and no answer told the list
    again           \* history: a decision was made on an old list

item == <<match, decisions, sync, alive, images>>
list == <<offered, inFlight>>
local == <<modal, hasty, selected, channelId>>
vars == <<item, requests, sentSoFar, page, list, shownSync, local, behind, again>>

\* FAILED and STALE are the same to these pages.
SyncStatus == {"SYNCED", "FAILED"}
Page == {"products", "matching", "channels", "detail"}
Kind == {"confirm", "decline", "resync", "add", "remove", "delete", "import"}
Calls == [phase : {"idle", "sent", "ok", "error"}, kind : Kind, mine : BOOLEAN,
          hasty : BOOLEAN]
Idle == [phase |-> "idle", kind |-> "import", mine |-> FALSE, hasty |-> FALSE]

TypeOK ==
    /\ match \in {"none", "pending", "decided"} /\ decisions \in Nat
    /\ sync \in SyncStatus /\ shownSync \in SyncStatus
    /\ alive \in BOOLEAN /\ images \in BOOLEAN
    /\ requests \in [Call -> Calls] /\ sentSoFar \in 0 .. MaxCalls
    /\ page \in Page
    /\ offered \in {"none", "yes", "no"}
    /\ inFlight \in {"idle", "asked", "yes", "no"}
    /\ modal \in {"none", "decline", "delete", "import"}
    /\ selected \in BOOLEAN /\ hasty \in BOOLEAN /\ channelId \in BOOLEAN
    /\ behind \in BOOLEAN /\ again \in BOOLEAN

Init ==
    /\ match \in {"none", "pending"} /\ decisions = 0
    /\ sync \in SyncStatus /\ alive = TRUE
    /\ images = FALSE
    /\ requests = [c \in Call |-> Idle] /\ sentSoFar = 0
    /\ page = "products" /\ offered = "none" /\ inFlight = "asked"
    /\ shownSync = sync
    /\ modal = "none" /\ hasty = FALSE /\ selected = FALSE /\ channelId = FALSE
    /\ behind = FALSE /\ again = FALSE

Active(c) == requests[c].phase # "idle"
Decision(c) == requests[c].kind \in {"confirm", "decline"}
Pending(kind) == \E c \in Call : Active(c) /\ requests[c].mine /\ requests[c].kind = kind

Send(c, request) ==
    /\ ~Active(c) /\ ~Pending(request.kind)
    /\ sentSoFar < MaxCalls
    /\ sentSoFar' = sentSoFar + 1
    /\ requests' = [requests EXCEPT ![c] = [request EXCEPT !.phase = "sent", !.mine = TRUE]]
    /\ UNCHANGED <<item, page, list, shownSync, local, behind, again>>

Local(m) ==
    /\ modal' = m
    /\ UNCHANGED <<item, requests, sentSoFar, page, list, shownSync, behind, again>>

-----------------------------------------------------------------------------
(* The queries                                                             *)

\* GET /products/match/pending.
Listed == alive /\ match = "pending"

FetchServed ==
    /\ inFlight = "asked"
    /\ inFlight' = IF Listed THEN "yes" ELSE "no"
    /\ behind' = FALSE
    /\ UNCHANGED <<item, requests, sentSoFar, page, offered, shownSync, local,
                   again>>

FetchDelivered ==
    /\ inFlight \in {"yes", "no"}
    /\ offered' = inFlight /\ inFlight' = "idle"
    /\ UNCHANGED <<item, requests, sentSoFar, page, shownSync, local, behind, again>>

\* The page says so instead of the list, also of one it had.
FetchFails ==
    /\ inFlight # "idle"
    /\ inFlight' = "idle" /\ offered' = "none"
    /\ behind' = TRUE
    /\ UNCHANGED <<item, requests, sentSoFar, page, shownSync, local, again>>

StatusFetched ==
    /\ page \in {"channels", "detail"} /\ shownSync # sync
    /\ shownSync' = sync
    /\ UNCHANGED <<item, requests, sentSoFar, page, list, local, behind, again>>

\* The review and the page of products ask for the list if there is none or it is
\* older than staleTime.
Asks(p, old) == old /\ p # page /\ p \in {"matching", "products"} /\ inFlight = "idle"

\* Every hook and state of the page that is left goes.
Visit(p) ==
    /\ p # page
    /\ page' = p
    /\ modal' = "none" /\ hasty' = FALSE /\ selected' = FALSE /\ channelId' = FALSE
    /\ requests' = [c \in Call |-> [requests[c] EXCEPT !.mine = FALSE]]
    /\ \E old \in BOOLEAN :
           inFlight' = IF Asks(p, old) THEN "asked" ELSE inFlight
    /\ UNCHANGED <<item, sentSoFar, offered, shownSync, behind, again>>

-----------------------------------------------------------------------------
(* The review of matches                                                   *)

Reviewing == page = "matching" /\ offered = "yes" /\ modal = "none"

\* A decision, its answer or a fetch is on its way, or the last one was lost.
OldList == behind \/ inFlight # "idle" \/ \E c \in Call : Active(c) /\ Decision(c)

\* The card's button, and those of its other candidates.
Confirm(c) ==
    /\ Reviewing
    /\ Send(c, [Idle EXCEPT !.kind = "confirm", !.hasty = OldList])

\* setDeclineTarget; not disabled while a confirmation is pending.
OpenDecline ==
    /\ Reviewing
    /\ hasty' = OldList
    /\ Local("decline") /\ UNCHANGED <<selected, channelId>>

\* The target of the dialog is a snapshot: the card may be gone by now.
Decline(c) ==
    /\ modal = "decline" /\ offered # "none"
    /\ Send(c, [Idle EXCEPT !.kind = "decline", !.hasty = hasty \/ behind])

-----------------------------------------------------------------------------
(* Resync, images, deletion, import                                        *)

\* On the product's page, and in a row of the panel.
Resync(c) ==
    /\ page \in {"channels", "detail"} /\ modal = "none" /\ shownSync # "SYNCED"
    /\ Send(c, [Idle EXCEPT !.kind = "resync"])

\* The URL is typed and sent.
AddImage(c) ==
    /\ page = "detail" /\ modal = "none"
    /\ Send(c, [Idle EXCEPT !.kind = "add"])

RemoveImage(c) ==
    /\ page = "detail" /\ modal = "none" /\ images
    /\ Send(c, [Idle EXCEPT !.kind = "remove"])

\* setShowDeleteDialog(true) does not pass handleOpenChange: what was ticked in
\* an earlier opening is still ticked.
OpenDelete ==
    /\ page = "detail" /\ modal = "none"
    /\ Local("delete") /\ UNCHANGED <<hasty, selected, channelId>>

Tick ==
    /\ modal = "delete"
    /\ selected' = ~selected
    /\ Local(modal) /\ UNCHANGED <<hasty, channelId>>

Delete(c) ==
    /\ modal = "delete"
    /\ Send(c, [Idle EXCEPT !.kind = "delete"])

OpenImport ==
    /\ page = "products" /\ modal = "none"
    /\ Local("import") /\ UNCHANGED <<hasty, selected, channelId>>

ChooseChannel ==
    /\ modal = "import" /\ ~channelId
    /\ channelId' = TRUE
    /\ Local(modal) /\ UNCHANGED <<hasty, selected>>

\* handleImport, up to its await.
Import(c) ==
    /\ modal = "import" /\ channelId
    /\ Send(c, [Idle EXCEPT !.kind = "import"])

\* Cancel, or Escape also while a request is pending: only the import's cancel
\* button clears the choice.
Close ==
    /\ modal # "none" /\ (modal = "decline" => offered # "none")
    /\ \E clears \in {FALSE, modal = "import" /\ ~Pending("import")} :
           channelId' = (channelId /\ ~clears)
    /\ Local("none") /\ UNCHANGED <<hasty, selected>>

-----------------------------------------------------------------------------
(* Answers                                                                 *)

Fault_ProductsOnly(kind) == FALSE

\* invalidateQueries(["matches"]): neither an import nor a deletion does.  The
\* sidebar mounts the query on every page, so it is always asked again at once.
TellsMatches(kind) == kind \in {"confirm", "decline"}

\* What the continuation closes, if its component is still there.
ClosedBy(kind) ==
    IF kind \in {"decline", "import"} /\ modal = kind THEN "none" ELSE modal

\* A deletion ends on the page of products, wherever the seller is by then.
Succeed(c) ==
    LET kind == requests[c].kind
        mine == requests[c].mine
        tells == TellsMatches(kind)
        p == IF kind = "delete" THEN "products" ELSE page
    IN  /\ requests[c].phase = "ok"
        /\ requests' = [d \in Call |-> IF d = c THEN Idle
                                       ELSE [requests[d] EXCEPT !.mine = @ /\ p = page]]
        /\ page' = p
        /\ \E old \in BOOLEAN :
               inFlight' = IF tells \/ Asks(p, old) THEN "asked" ELSE inFlight
        /\ modal' = IF p # page THEN "none" ELSE IF mine THEN ClosedBy(kind) ELSE modal
        /\ selected' = (selected /\ p = page)
        /\ channelId' = (channelId /\ p = page /\ ~(kind = "import" /\ mine))
        /\ UNCHANGED <<item, sentSoFar, offered, shownSync, hasty, behind, again>>

Fail(c) ==
    /\ requests[c].phase = "error"
    /\ requests' = [requests EXCEPT ![c] = Idle]
    /\ UNCHANGED <<item, sentSoFar, page, list, shownSync, local, behind, again>>

-----------------------------------------------------------------------------
(* The server                                                              *)

Serving(c, kind) == requests[c].phase = "sent" /\ requests[c].kind = kind

Answer(c, phase) ==
    /\ requests' = [requests EXCEPT ![c].phase = phase]
    /\ UNCHANGED <<sentSoFar, page, list, shownSync, local>>

\* confirm_match, and decline_match, which makes a new product: both take a
\* listing in any state.
Decided(c) ==
    /\ requests[c].phase = "sent" /\ Decision(c)
    /\ alive /\ match # "none"
    /\ match' = "decided" /\ decisions' = decisions + 1
    /\ again' = (again \/ requests[c].hasty)
    /\ Answer(c, "ok")
    /\ UNCHANGED <<sync, alive, images, behind>>

\* 200 with success or with the error in its body: the same to the queries.
Resynced(c) ==
    /\ Serving(c, "resync") /\ alive
    /\ \E s \in SyncStatus : sync' = s
    /\ Answer(c, "ok")
    /\ UNCHANGED <<match, decisions, alive, images, behind, again>>

ImageChanged(c) ==
    /\ \/ Serving(c, "add") /\ alive
       \/ Serving(c, "remove") /\ images
    /\ images' = (requests[c].kind = "add")
    /\ Answer(c, "ok")
    /\ UNCHANGED <<match, decisions, sync, alive, behind, again>>

\* The channels that were ticked first, which may fail; then the soft delete.
Deleted(c) ==
    /\ Serving(c, "delete") /\ alive
    /\ alive' = FALSE
    /\ behind' = TRUE
    /\ Answer(c, "ok")
    /\ UNCHANGED <<match, decisions, sync, images, again>>

\* The import adds a listing for the item if it has none.
Imported(c) ==
    /\ Serving(c, "import")
    /\ match' = IF match = "none" THEN "pending" ELSE match
    /\ behind' = TRUE
    /\ Answer(c, "ok")
    /\ UNCHANGED <<decisions, sync, alive, images, again>>

\* An error, a request that is lost, or an answer that is.
Refused(c) ==
    /\ requests[c].phase \in {"sent", "ok"}
    /\ behind' = (behind \/ requests[c].phase = "ok")
    /\ Answer(c, "error")
    /\ UNCHANGED <<item, again>>

\* The same review in another session.
DecidedElsewhere ==
    /\ Listed
    /\ match' = "decided" /\ decisions' = decisions + 1
    /\ behind' = TRUE /\ again' = TRUE
    /\ UNCHANGED <<sync, alive, images, requests, sentSoFar, page, list,
                   shownSync, local>>

Next ==
    \/ FetchServed \/ FetchDelivered \/ FetchFails \/ StatusFetched
    \/ \E p \in Page : Visit(p)
    \/ OpenDecline \/ OpenDelete \/ Tick \/ OpenImport \/ ChooseChannel
    \/ Close \/ DecidedElsewhere
    \/ \E c \in Call :
           \/ Confirm(c) \/ Decline(c) \/ Resync(c) \/ AddImage(c) \/ RemoveImage(c)
           \/ Delete(c) \/ Import(c) \/ Succeed(c) \/ Fail(c)
           \/ Decided(c) \/ Resynced(c) \/ ImageChanged(c) \/ Deleted(c)
           \/ Imported(c) \/ Refused(c)

Spec == Init /\ [][Next]_vars

-----------------------------------------------------------------------------
(* Properties                                                              *)

\* The match of an item is decided once, though the handlers would decide it any
\* number of times: a second decision comes from a list that was old, while a
\* decision, its answer or a fetch was on its way, or lost, or made elsewhere.
DecidedOnce == decisions > 1 => again

=============================================================================
