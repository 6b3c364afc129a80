------------------------------ MODULE ListPages ------------------------------
(***************************************************************************)
(* The three lists of the web application, each with the rows a seller     *)
(* ticked and the dialogs that act on them: products (ProductsTable,       *)
(* BulkPriceEditDialog, BulkDeleteProductsDialog), orders (OrdersTable,    *)
(* BulkOrderStatusDialog, the synchronisation of the page), inventory      *)
(* (InventoryTable, BulkInventoryEditDialog), all drawn by DataTable.      *)
(*                                                                         *)
(* A list shows its rows newest first, so the greatest id first (stock in  *)
(* the order of its codes, which is any order).  What a filter tells apart *)
(* of a row is its Class.  DataTable ticks row NUMBERS.  There is one page *)
(* of a list: loading more adds rows below and moves none.                 *)
(*                                                                         *)
(* `ticked`, `moved` and `strayed` are history.                            *)
(***************************************************************************)
EXTENDS Naturals, FiniteSets

CONSTANTS
    N,              \* rows there can be: 1 .. N
    Call,           \* requests that may be in flight together
    NoValue,        \* no row
    MaxCalls,       \* bound: requests sent
    MaxForeign      \* bound: changes by others

Id == 1 .. N
\* open: an active product, an order that can be shipped, stock below ten.
Class == {"open", "closed"}
Filter == {"all", "open"}
List == [Id -> Class \cup {"gone"}]

VARIABLES
    table,          \* the list that is open
    row,            \* its rows
    foreign,        \* changes by others so far
    requests,       \* [Call -> a request and its answer]
    sentSoFar,      \* requests sent
    filter,         \* q and status, or lowStock
    shown,          \* the answer that is drawn
    rowSelection,   \* numbers of the ticked rows
    dialog,         \* the dialog that is open, or "none"
    target,         \* deleteTarget, editItem: the row of a dialog about one
    entered,        \* the bulk dialog holds a value or custom prices, or a status
    queue,          \* ids that handleBulkDelete has yet to delete
    ticked,         \* history: the rows ticked since the selection was empty
    moved,          \* history: the rows changed under the selection
    strayed         \* history: and yet one was sent for a row never ticked

list == <<filter, shown>>
form == <<dialog, target, entered>>
selection == <<rowSelection, ticked, moved>>
vars == <<table, row, foreign, requests, sentSoFar, list, form, selection, queue,
          strayed>>

BulkOf == [products |-> {"price", "bulkDelete"}, orders |-> {"status"},
           inventory |-> {"stock"}]
SingleOf == [products |-> {"delete"}, orders |-> {}, inventory |-> {"edit"}]
Kind == {"delete", "bulkDelete", "price", "undo", "status", "sync", "stock", "edit"}

Calls == [phase : {"idle", "sent", "ok", "error"}, kind : Kind, ids : SUBSET Id]
Idle == [phase |-> "idle", kind |-> "sync", ids |-> {}]

TypeOK ==
    /\ table \in DOMAIN BulkOf /\ row \in List /\ foreign \in 0 .. MaxForeign
    /\ requests \in [Call -> Calls] /\ sentSoFar \in 0 .. MaxCalls
    /\ filter \in Filter /\ shown \in List
    /\ rowSelection \subseteq Id /\ ticked \subseteq Id /\ moved \in BOOLEAN
    /\ dialog \in BulkOf[table] \cup SingleOf[table] \cup {"none"}
    /\ target \in Id \cup {NoValue} /\ entered \in BOOLEAN
    /\ queue \subseteq Id
    /\ strayed \in BOOLEAN

Init ==
    /\ table \in DOMAIN BulkOf
    /\ \E newest \in {"gone", "closed"} : row = [i \in Id |-> IF i = N THEN newest ELSE "open"]
    /\ foreign = 0
    /\ requests = [c \in Call |-> Idle] /\ sentSoFar = 0
    /\ filter = "all" /\ shown = row
    /\ rowSelection = {} /\ ticked = {} /\ moved = FALSE
    /\ dialog = "none" /\ target = NoValue /\ entered = FALSE
    /\ queue = {}
    /\ strayed = FALSE

-----------------------------------------------------------------------------
(* The list that is shown                                                  *)

Matches(r, f) == {i \in Id : r[i] # "gone" /\ (f = "open" => r[i] = "open")}

\* GET /products, /orders and /inventory: the filter of the inventory is applied
\* to its one answer, that of the others by the query.
Answer(f) == [i \in Id |-> IF table = "inventory" \/ i \in Matches(row, f)
                           THEN row[i] ELSE "gone"]

Shown == Matches(shown, filter)

\* The number of a row, and the rows of the ticked numbers: a number without a
\* row is left out.
Number(i, rows) == Cardinality({j \in rows : j >= i})
Selected == {i \in Shown : Number(i, Shown) \in rowSelection}

\* What a dialog that is no longer drawn held is lost.
Undraw == entered' = FALSE

\* An answer, after an invalidation or from staleTime on.
Fetch ==
    /\ shown' = Answer(filter)
    /\ shown' # shown
    /\ moved' = (moved \/ (rowSelection # {} /\ Shown # Matches(shown', filter)))
    /\ UNCHANGED <<table, row, foreign, requests, sentSoFar, filter, form,
                   rowSelection, ticked, queue, strayed>>

\* setQ, setStatusFilter, setLowStock: the selection stays.  Until the first
\* answer for a filter there is nothing but a spinner, and no dialog.
SetFilter(f) ==
    /\ dialog = "none" /\ f # filter
    /\ filter' = f
    /\ shown' = Answer(f)
    /\ moved' = (moved \/ rowSelection # {})
    /\ \/ table # "inventory" /\ Undraw
       \/ UNCHANGED entered
    /\ UNCHANGED <<table, row, foreign, requests, sentSoFar, dialog, target,
                   rowSelection, ticked, queue, strayed>>

-----------------------------------------------------------------------------
(* The selection                                                           *)

Select(numbers, rows) ==
    /\ dialog = "none" /\ Shown # {}
    /\ rowSelection' = numbers
    /\ ticked' = rows
    /\ moved' = (moved /\ numbers # {})
    /\ UNCHANGED <<table, row, foreign, requests, sentSoFar, list, form, queue, strayed>>

ToggleSelected(i) ==
    /\ i \in Shown
    /\ LET k == Number(i, Shown)
       IN  IF k \in rowSelection THEN Select(rowSelection \ {k}, ticked \ {i})
                                 ELSE Select(rowSelection \cup {k}, ticked \cup {i})

\* The box of the header, which leaves the numbers below the last row alone.
ToggleAllRowsSelected ==
    LET numbers == 1 .. Cardinality(Shown)
    IN  IF numbers \subseteq rowSelection
        THEN Select(rowSelection \ numbers, ticked \ Shown)
        ELSE Select(rowSelection \cup numbers, ticked \cup Shown)

\* "Cancel" in the bar of the table.
ClearSelection == rowSelection # {} /\ Select({}, {})

-----------------------------------------------------------------------------
(* The dialogs                                                             *)

Active(c) == requests[c].phase # "idle"
Mutation(kind) == IF kind = "bulkDelete" THEN "delete" ELSE kind

\* isPending of the mutation behind a button.
Pending(kind) ==
    \E c \in Call : Active(c) /\ Mutation(requests[c].kind) = Mutation(kind)

\* setShowBulkDelete(true), ...: no handleOpenChange(true) resets anything.
OpenBulk(d) ==
    /\ dialog = "none" /\ rowSelection # {}
    /\ d \in BulkOf[table]
    /\ dialog' = d
    /\ UNCHANGED <<table, row, foreign, requests, sentSoFar, list, target, entered, selection, queue, strayed>>

\* setDeleteTarget, setEditItem: a copy of the row.
OpenSingle(i) ==
    /\ dialog = "none" /\ i \in Shown
    /\ \E d \in SingleOf[table] : dialog' = d
    /\ target' = i
    /\ UNCHANGED <<table, row, foreign, requests, sentSoFar, list, entered, selection, queue, strayed>>

\* Field, mode, value, rounding, the custom price of a row, the channels; the
\* target status, with tracking numbers that are not sent.
Enter ==
    /\ dialog \in {"price", "stock", "status"}
    /\ ~entered /\ entered' = TRUE
    /\ UNCHANGED <<table, row, foreign, requests, sentSoFar, list, dialog, target,
                   selection, queue, strayed>>

\* Escape, also while the request is pending.
Close ==
    /\ dialog # "none"
    /\ dialog' = "none" /\ target' = NoValue
    /\ UNCHANGED <<table, row, foreign, requests, sentSoFar, list, entered, selection, queue, strayed>>

\* isValid; a target status that the shown status of some selected order allows.
Valid == /\ entered
         /\ dialog = "status" => \E i \in Selected : shown[i] = "open"

Request(c, kind, ids) ==
    /\ ~Active(c)
    /\ sentSoFar < MaxCalls
    /\ sentSoFar' = sentSoFar + 1
    /\ requests' = [requests EXCEPT ![c] = 
           [phase |-> "sent", kind |-> kind, ids |-> ids]]
    /\ UNCHANGED <<table, row, foreign, list, form, selection>>

\* A bulk action on rows that were not ticked, though none moved.
Strays ==
    strayed' = (strayed \/ (~moved /\ ~(Selected \subseteq ticked)))

\* handleApply of the three bulk dialogs.
Apply(c) ==
    /\ dialog \in {"price", "stock", "status"}
    /\ Valid /\ ~Pending(dialog)
    /\ Request(c, dialog, Selected)
    /\ Strays
    /\ UNCHANGED queue

First(ids) == CHOOSE i \in ids : \A j \in ids : j <= i

\* handleBulkDelete: the ids are those of this moment, one request after another.
BulkDelete(c) ==
    /\ dialog = "bulkDelete" /\ ~Pending("delete")
    /\ Selected # {}
    /\ Request(c, "bulkDelete", {First(Selected)})
    /\ queue' = Selected \ {First(Selected)}
    /\ Strays

\* handleSingleDelete, handleSaveQuantity.
Single(c) ==
    /\ dialog \in {"delete", "edit"} /\ ~Pending(dialog)
    /\ Request(c, dialog, {target})
    /\ UNCHANGED <<queue, strayed>>

\* "Synchronise orders", above the table.
SyncOrders(c) ==
    /\ table = "orders" /\ dialog = "none" /\ ~Pending("sync")
    /\ Request(c, "sync", {})
    /\ UNCHANGED <<queue, strayed>>

-----------------------------------------------------------------------------
(* Answers                                                                 *)

Fault_Keeps(kind) == FALSE

\* setRowSelection({}), by onApplied or at the end of handleBulkDelete.
ClearsSelection(kind) ==
    \/ kind \in {"price", "stock", "status"}
    \/ kind = "bulkDelete" /\ queue = {}

\* The dialogs whose state the continuation sets to closed.
Closes(kind) ==
    IF kind = "bulkDelete" /\ queue # {} THEN {}
    ELSE IF kind \in {"delete", "edit"} THEN SingleOf[table] ELSE {kind}

\* onSuccess invalidates the list (Fetch), then the handler goes on: the next id of a
\* bulk deletion, the next channel of a synchronisation, the undo of the toast.
Succeed(c) ==
    LET kind == requests[c].kind
        clears == ClearsSelection(kind)
        more == {i \in queue : kind = "bulkDelete" /\ i = First(queue)}
    IN  /\ requests[c].phase = "ok"
        /\ dialog' = IF dialog \in Closes(kind) THEN "none" ELSE dialog
        /\ target' = IF dialog \in Closes(kind) THEN NoValue ELSE target
        /\ rowSelection' = IF clears THEN {} ELSE rowSelection
        /\ ticked' = IF kind \in {"price", "stock", "status"} \/ clears THEN {} ELSE ticked
        /\ moved' = (moved /\ ~clears)
        /\ \/ /\ more = {}
              /\ requests' = [requests EXCEPT ![c] = Idle]
              /\ UNCHANGED <<sentSoFar, queue>>
           \/ /\ kind \in {"price", "sync"} \/ more # {}
              /\ sentSoFar < MaxCalls
              /\ sentSoFar' = sentSoFar + 1
              /\ requests' = [requests EXCEPT ![c] =
                     [phase |-> "sent", kind |-> IF kind = "price" THEN "undo" ELSE kind,
                      ids |-> IF kind = "price" THEN requests[c].ids ELSE more]]
              /\ queue' = queue \ more
        /\ UNCHANGED <<table, row, foreign, list, entered, strayed>>

\* A bulk deletion ends there, with its dialog and the selection; only the
\* synchronisation goes on with the next channel.
Fail(c) ==
    LET kind == requests[c].kind
    IN  /\ requests[c].phase = "error"
        /\ queue' = IF kind = "bulkDelete" THEN {} ELSE queue
        /\ \/ requests' = [requests EXCEPT ![c] = Idle] /\ UNCHANGED sentSoFar
           \/ /\ kind = "sync" /\ sentSoFar < MaxCalls
              /\ sentSoFar' = sentSoFar + 1
              /\ requests' = [requests EXCEPT ![c].phase = "sent"]
        /\ UNCHANGED <<table, row, foreign, list, form, selection, strayed>>

-----------------------------------------------------------------------------
(* The server                                                              *)

Effect(c) ==
    LET ids == {i \in requests[c].ids : row[i] # "gone"}
        kind == requests[c].kind
        Becomes(new) == row' = [i \in Id |-> IF i \in ids THEN new ELSE row[i]]
    IN  \/ kind \in {"delete", "bulkDelete"} /\ ids # {} /\ Becomes("gone")
        \/ kind \in {"price", "undo"} /\ row' = row
        \/ kind = "status" /\ Becomes("closed")
        \/ kind \in {"stock", "edit"} /\ ids # {} /\ \E new \in Class : Becomes(new)
        \/ kind = "sync" /\ \E new \in {row[N], "open"} : row' = [row EXCEPT ![N] = new]

Served(c) ==
    /\ requests[c].phase = "sent"
    /\ Effect(c)
    /\ requests' = [requests EXCEPT ![c].phase = "ok"]
    /\ UNCHANGED <<table, foreign, sentSoFar, list, form, selection, queue, strayed>>

Refused(c) ==
    /\ requests[c].phase \in {"sent", "ok"}
    /\ requests' = [requests EXCEPT ![c].phase = "error"]
    /\ UNCHANGED <<table, row, foreign, sentSoFar, list, form, selection, queue, strayed>>

\* A product or order comes or goes, in another session or a job.
ChangedElsewhere ==
    /\ foreign < MaxForeign
    /\ foreign' = foreign + 1
    /\ \E i \in Id :
           row' = [row EXCEPT ![i] = IF row[i] = "gone" THEN "open" ELSE "gone"]
    /\ UNCHANGED <<table, requests, sentSoFar, list, form, selection, queue, strayed>>

Next ==
    \/ Fetch
    \/ \E f \in Filter : SetFilter(f)
    \/ \E i \in Id : ToggleSelected(i) \/ OpenSingle(i)
    \/ ToggleAllRowsSelected \/ ClearSelection
    \/ \E d \in {"price", "bulkDelete", "status", "stock"} : OpenBulk(d)
    \/ Enter \/ Close \/ ChangedElsewhere
    \/ \E c \in Call :
           \/ Apply(c) \/ BulkDelete(c) \/ Single(c) \/ SyncOrders(c)
           \/ Succeed(c) \/ Fail(c) \/ Served(c) \/ Refused(c)

Spec == Init /\ [][Next]_vars

-----------------------------------------------------------------------------
(* Properties                                                              *)

\* A bulk action is sent for rows that were ticked since the last one, unless a
\* filter, a fetch or a load changed the rows under the ticked numbers: nothing
\* left over from an earlier selection, dialog or table is ever acted on.
SentWereTicked == ~strayed

=============================================================================
