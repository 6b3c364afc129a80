------------------------------ MODULE OrderPage ------------------------------
(***************************************************************************)
(* The page of one order (web/app/(app)/orders/[id]/page.tsx, OrderDetail, *)
(* TrackingDialog) over the query cache, beside the two handlers it calls  *)
(* (api/v1/orders.py) and the import that changes the same row.            *)
(*                                                                         *)
(* A carrier and a number are one value: the dialog sends both or neither. *)
(* PATCH .../status commits the status first and the number in a second    *)
(* transaction.  The handler's own read and write of the status are one    *)
(* step; their interleaving is in Orders.                                  *)
(*                                                                         *)
(* `behind`, `confirmed` and `overlap` are history variables: no guard     *)
(* reads them.                                                             *)
(***************************************************************************)
EXTENDS Naturals

CONSTANTS
    Number,         \* carriers with tracking numbers
    Call,           \* requests that may be in flight together
    NoValue,        \* null
    Asked,          \* a fetch without an answer yet
    MaxCalls,       \* bound: requests sent
    MaxImports      \* bound: status changes by the import

VARIABLES
    order,          \* the row
    imports,        \* status changes the import made so far
    call,           \* [Call -> a request and its answer]
    sent,           \* requests sent so far
    mounted,        \* the page is open
    cached,         \* what the cache holds for ["orders", id]
    isInvalidated,  \* of that query
    fetching,       \* NoValue, Asked, or the answer on its way
    dialog,         \* the dialog that is open
    pendingStatus,  \* the status to confirm, "PAID" for none
    field,          \* the number in the open dialog
    behind,         \* history: the row changed and no answer told the cache
    confirmed,      \* history: the number reported as saved last
    overlap         \* history: numbers were sent while others were in flight

server == <<order, imports>>
cache == <<cached, isInvalidated, fetching>>
form == <<dialog, pendingStatus, field>>
vars == <<server, call, sent, mounted, cache, form, behind, confirmed, overlap>>

Status == {"PAID", "PREPARING", "SHIPPED", "DELIVERED", "CANCELED", "REFUNDED"}
Order == [status : Status, number : Number \cup {NoValue}]

VALID_TRANSITIONS == [s \in Status |->
    CASE s = "PAID"      -> {"PREPARING", "CANCELED"}
      [] s = "PREPARING" -> {"SHIPPED", "CANCELED"}
      [] s = "SHIPPED"   -> {"DELIVERED", "REFUNDED"}
      [] s = "DELIVERED" -> {"REFUNDED"}
      [] OTHER           -> {}]

\* from: the dialog it was sent by; mine: by the page as it is open now.
\* half: the status is committed and the number is not.
Calls == [phase : {"idle", "sent", "half", "ok", "error"},
          from : {"none", "status", "ship", "edit"}, mine : BOOLEAN,
          status : Status, number : Number \cup {NoValue}]
Idle == [phase |-> "idle", from |-> "none", mine |-> FALSE,
         status |-> "PAID", number |-> NoValue]

TypeOK ==
    /\ order \in Order
    /\ imports \in 0 .. MaxImports
    /\ call \in [Call -> Calls]
    /\ sent \in 0 .. MaxCalls
    /\ mounted \in BOOLEAN
    /\ cached \in Order \cup {NoValue}
    /\ isInvalidated \in BOOLEAN
    /\ fetching \in Order \cup {NoValue, Asked}
    /\ dialog \in {"none", "status", "ship", "edit"}
    /\ pendingStatus \in Status
    /\ field \in Number \cup {NoValue}
    /\ confirmed \in Number \cup {NoValue}
    /\ behind \in BOOLEAN /\ overlap \in BOOLEAN

Init ==
    /\ order \in [status : Status, number : {NoValue}] /\ imports = 0
    /\ call = [c \in Call |-> Idle] /\ sent = 0
    /\ mounted = TRUE
    /\ cached = NoValue /\ isInvalidated = FALSE /\ fetching = Asked
    /\ dialog = "none" /\ pendingStatus = "PAID" /\ field = NoValue
    /\ behind = FALSE /\ confirmed = NoValue /\ overlap = FALSE

\* No dialog is open; what it held is set when the next one opens.
Shut == dialog' = "none" /\ pendingStatus' = "PAID" /\ field' = NoValue

-----------------------------------------------------------------------------
(* The query and its cache                                                 *)

\* GET /orders/{id} reads the row.
FetchServed ==
    /\ fetching = Asked
    /\ fetching' = order
    /\ behind' = FALSE
    /\ UNCHANGED <<server, call, sent, mounted, cached, isInvalidated, form,
                   confirmed, overlap>>

\* A new answer draws the page again, and the edit dialog, whose
\* initialValues are a new object, takes its fields from it.
Redraw(o) ==
    /\ field' = IF dialog = "edit" THEN o.number ELSE field
    /\ UNCHANGED <<dialog, pendingStatus>>

FetchDelivered ==
    /\ fetching \in Order
    /\ cached' = fetching
    /\ isInvalidated' = FALSE
    /\ fetching' = NoValue
    /\ IF fetching = cached THEN UNCHANGED form ELSE Redraw(fetching)
    /\ UNCHANGED <<server, call, sent, mounted, behind, confirmed, overlap>>

\* The retries of the query fail as well: the old answer stays.
FetchFails ==
    /\ fetching # NoValue
    /\ fetching' = NoValue
    /\ behind' = TRUE
    /\ UNCHANGED <<server, call, sent, mounted, cached, isInvalidated, form,
                   confirmed, overlap>>

Fault_KeepsOldFetch ==
    /\ isInvalidated' = TRUE
    /\ fetching' = IF mounted /\ fetching = NoValue THEN Asked ELSE fetching
    /\ behind' = behind
    /\ UNCHANGED cached

\* invalidateQueries(["orders"]): an open page asks again and drops the
\* answer on its way; of a closed one the query is marked, and an answer on
\* its way takes the mark off again.
Invalidate ==
    /\ isInvalidated' = TRUE
    /\ fetching' = IF mounted THEN Asked ELSE fetching
    /\ behind' = (behind \/ (~mounted /\ fetching # NoValue))
    /\ UNCHANGED cached

\* The state of the dialogs goes with the page.
Leave ==
    /\ mounted
    /\ mounted' = FALSE
    /\ Shut
    /\ call' = [c \in Call |-> [call[c] EXCEPT !.mine = FALSE]]
    /\ UNCHANGED <<server, sent, cache, behind, confirmed, overlap>>

\* The page asks if the query is invalidated or older than staleTime.
Return ==
    /\ ~mounted
    /\ mounted' = TRUE
    /\ \E old \in BOOLEAN :
           fetching' = IF fetching = NoValue /\ (old \/ isInvalidated \/ cached = NoValue)
                       THEN Asked ELSE fetching
    /\ UNCHANGED <<server, call, sent, cached, isInvalidated, form, behind,
                   confirmed, overlap>>

-----------------------------------------------------------------------------
(* The page                                                                *)

\* What a dialog starts with, by the effect on `open`.
InitialField(d) == IF d = "edit" THEN cached.number ELSE NoValue

\* The page is drawn once an answer is there; a dialog covers its buttons.
Drawn == mounted /\ cached # NoValue /\ dialog = "none"

Open(d, s) ==
    /\ Drawn
    /\ dialog' = d
    /\ pendingStatus' = s
    /\ field' = InitialField(d)
    /\ UNCHANGED <<server, call, sent, mounted, cache, behind, confirmed, overlap>>

\* The menu of the statuses the shown one allows.
ChooseStatus ==
    \E s \in Status :
        /\ Drawn
        /\ s \in VALID_TRANSITIONS[cached.status]
        /\ Open(IF s = "SHIPPED" THEN "ship" ELSE "status", s)

EditTracking ==
    /\ Drawn
    /\ cached.status = "SHIPPED"
    /\ Open("edit", cached.status)

Type ==
    /\ dialog \in {"ship", "edit"}
    /\ \E n \in Number \cup {NoValue} : field' = n
    /\ UNCHANGED <<server, call, sent, mounted, cache, dialog, pendingStatus,
                   behind, confirmed, overlap>>

\* Cancel, Escape, a click beside it: also while its request is in flight.
Close ==
    /\ dialog # "none"
    /\ Shut
    /\ UNCHANGED <<server, call, sent, mounted, cache, behind, confirmed, overlap>>

Active(c) == call[c].phase # "idle"
Edits(d) == d = "edit"

\* isPending of the mutation behind dialog d.
Pending(d) == \E c \in Call : Active(c) /\ call[c].mine
                              /\ Edits(call[c].from) = Edits(d)

\* isPending turns true, which draws the edit dialog again.
Send(c, n) ==
    /\ dialog # "none" /\ ~Pending(dialog)
    /\ ~Active(c)
    /\ sent < MaxCalls
    /\ sent' = sent + 1
    /\ call' = [call EXCEPT ![c] = [phase |-> "sent", from |-> dialog, mine |-> TRUE,
                                    status |-> pendingStatus, number |-> n]]
    /\ Redraw(cached)
    /\ confirmed' = IF n = NoValue THEN confirmed ELSE NoValue
    /\ overlap' = IF n = NoValue THEN overlap
                  ELSE \E d \in Call : Active(d) /\ call[d].number # NoValue
    /\ UNCHANGED <<server, mounted, cache, behind>>

ConfirmStatus(c) == dialog = "status" /\ Send(c, NoValue)
ShipWithoutTracking(c) == dialog = "ship" /\ Send(c, NoValue)
\* hasTracking
SaveTracking(c) == dialog \in {"ship", "edit"} /\ field # NoValue /\ Send(c, field)

\* The continuation after the await closes its dialog, also one opened since.
Closes(c) == call[c].mine /\ dialog = call[c].from

Succeed(c) ==
    /\ call[c].phase = "ok"
    /\ call' = [call EXCEPT ![c] = Idle]
    /\ Invalidate
    /\ IF Closes(c) THEN Shut ELSE Redraw(cached)
    /\ confirmed' = IF call[c].number = NoValue THEN confirmed ELSE call[c].number
    /\ UNCHANGED <<server, sent, mounted, overlap>>

\* mutateAsync rejects and nobody catches: the dialog stays, nothing is
\* fetched again.
Fail(c) ==
    /\ call[c].phase = "error"
    /\ call' = [call EXCEPT ![c] = Idle]
    /\ Redraw(cached)
    /\ UNCHANGED <<server, sent, mounted, cache, behind, confirmed, overlap>>

-----------------------------------------------------------------------------
(* The server                                                              *)

Fault_WritesNull(c) ==
    call[c].phase = "sent" /\ order' = [status |-> call[c].status, number |-> NoValue]

\* The first commit of transition_order_status.
StatusCommitted(c) ==
    call[c].phase = "sent" /\ order' = [order EXCEPT !.status = call[c].status]

Transition(c) ==
    /\ call[c].phase = "sent" /\ call[c].from \in {"status", "ship"}
    /\ call[c].status \in VALID_TRANSITIONS[order.status]
    /\ StatusCommitted(c)
    /\ call' = [call EXCEPT ![c].phase = IF call[c].number = NoValue THEN "ok" ELSE "half"]
    /\ UNCHANGED <<imports, sent, mounted, cache, form, behind, confirmed, overlap>>

\* ValueError: 400.
Refuse(c) ==
    /\ call[c].phase = "sent" /\ call[c].from \in {"status", "ship"}
    /\ call[c].status \notin VALID_TRANSITIONS[order.status]
    /\ call' = [call EXCEPT ![c].phase = "error"]
    /\ UNCHANGED <<server, sent, mounted, cache, form, behind, confirmed, overlap>>

\* Its second commit, or the one of update_order_tracking.
NumberCommitted(c) ==
    /\ \/ call[c].phase = "half"
       \/ call[c].phase = "sent" /\ call[c].from = "edit"
    /\ order' = [order EXCEPT !.number = call[c].number]
    /\ call' = [call EXCEPT ![c].phase = "ok"]
    /\ UNCHANGED <<imports, sent, mounted, cache, form, behind, confirmed, overlap>>

\* The request or the answer is lost, or the handler dies between its commits.
Lose(c) ==
    /\ call[c].phase \in {"sent", "half", "ok"}
    /\ call' = [call EXCEPT ![c].phase = "error"]
    /\ behind' = (behind \/ call[c].phase # "sent")
    /\ UNCHANGED <<server, sent, mounted, cache, form, confirmed, overlap>>

\* import_from_channel writes the channel's status and leaves the number.
Import ==
    /\ imports < MaxImports
    /\ imports' = imports + 1
    /\ \E s \in Status \ {order.status} : order' = [order EXCEPT !.status = s]
    /\ behind' = TRUE
    /\ UNCHANGED <<call, sent, mounted, cache, form, confirmed, overlap>>

Next ==
    \/ FetchServed \/ FetchDelivered \/ FetchFails \/ Leave \/ Return
    \/ ChooseStatus \/ EditTracking \/ Type \/ Close \/ Import
    \/ \E c \in Call :
           \/ ConfirmStatus(c) \/ ShipWithoutTracking(c) \/ SaveTracking(c)
           \/ Transition(c) \/ Refuse(c) \/ NumberCommitted(c) \/ Lose(c)
           \/ Succeed(c) \/ Fail(c)

Spec == Init /\ [][Next]_vars

-----------------------------------------------------------------------------
(* Properties                                                              *)

\* With nothing in flight an open page shows the row as it is, unless the row
\* changed and no answer said so: the import, a lost answer, a failed fetch,
\* or an answer overtaken by a change while the page was closed.
ShownIsCurrent ==
    mounted /\ fetching = NoValue /\ (\A c \in Call : ~Active(c)) /\ ~behind
        => cached = order

\* A number reported as saved stays on the order until the seller sends
\* another one; only requests that overlap may come in the other order.
NumberKept == confirmed # NoValue /\ ~overlap => order.number = confirmed

=============================================================================
