------------------------------- MODULE Orders -------------------------------
(***************************************************************************)
(* Orders: the import of channel orders (OrderService.import_from_channel, *)
(* called by POST /channels/{id}/sync-orders and by the 15-minute cron     *)
(* job) beside the status and tracking endpoints of api/v1/orders.py.      *)
(*                                                                         *)
(* orders[x] lists the rows stored for the external order x: the schema    *)
(* has no unique constraint on (channel, external_order_id), so the code   *)
(* alone keeps it at one.  A row's `items` are the item sets it holds, each *)
(* named by a tag that is fresh when the items are inserted.               *)
(*                                                                         *)
(* Status columns are written as read-then-write: the check runs on the    *)
(* row as the session read it, the UPDATE goes out at the commit and waits *)
(* for the row lock (`holder`).  A commit is one step here; what happens    *)
(* while a session holds some of its rows is the subject of Inventory.     *)
(***************************************************************************)
EXTENDS Naturals, Sequences, FiniteSets

CONSTANTS
    Ext,            \* external order ids of one seller on one channel
    Importer,       \* imports that may overlap (cron job, manual sync)
    User,           \* status requests that may overlap
    Tracker,        \* those of them that may carry tracking numbers
    Nobody,         \* holder of an unlocked row
    Tag,            \* names of item sets, enough for a fresh one
    MaxMoves        \* bound: status changes on the channel's side

ASSUME OrdersAssumption ==
    /\ Importer \cap User = {}
    /\ Nobody \notin Importer \cup User
    /\ Tracker \subseteq User
    /\ MaxMoves \in Nat

Session == Importer \cup User
Status == {"PAID", "PREPARING", "SHIPPED", "DELIVERED", "CANCELED", "REFUNDED"}

\* VALID_TRANSITIONS
ValidTargets == [st \in Status |->
    CASE st = "PAID"      -> {"PREPARING", "CANCELED"}
      [] st = "PREPARING" -> {"SHIPPED", "CANCELED"}
      [] st = "SHIPPED"   -> {"DELIVERED", "REFUNDED"}
      [] st = "DELIVERED" -> {"REFUNDED"}
      [] OTHER            -> {}]

Fault_AnyTarget(from, to) == TRUE

Allowed(from, to) == to \in ValidTargets[from]

Row == [status : Status, items : SUBSET Tag, tracked : BOOLEAN,
        holder : Session \cup {Nobody}]
NoRow == [status |-> "PAID", items |-> {}, tracked |-> FALSE, holder |-> Nobody]

VARIABLES
    remote,     \* [Ext -> Status], the order on the channel
    moves,      \* status changes the channel made so far
    orders,     \* [Ext -> Seq(Row)], committed rows and their locks
    pc,         \* [Session -> phase]
    batch,      \* [Importer -> [Ext -> Status]], the fetched statuses
    todo,       \* [Importer -> SUBSET Ext], fetched orders not yet handled
    plan,       \* [Importer -> [Ext -> what the import will commit]]
    seen,       \* [Session -> [Ext -> Row]], rows as the session read them
    req         \* [User -> request]

vars == <<remote, moves, orders, pc, batch, todo, plan, seen, req>>

Plan == {"none", "new", "read", "update", "error"}
\* rows: the orders to change, each with the status it was read with.
Request == [rows : SUBSET (Ext \X Nat \X Status), target : Status \cup {"none"},
            track : BOOLEAN]
NoRequest == [rows |-> {}, target |-> "none", track |-> FALSE]
Phase == {"idle", "import", "write", "track"}

TypeOK ==
    /\ remote \in [Ext -> Status]
    /\ moves \in 0..MaxMoves
    /\ orders \in [Ext -> Seq(Row)]
    /\ pc \in [Session -> Phase]
    /\ batch \in [Importer -> [Ext -> Status]]
    /\ todo \in [Importer -> SUBSET Ext]
    /\ plan \in [Importer -> [Ext -> Plan]]
    /\ seen \in [Session -> [Ext -> Row]]
    /\ req \in [User -> Request]

NoBatch == [x \in Ext |-> "PAID"]
NoSeen == [x \in Ext |-> NoRow]

Init ==
    /\ remote = [x \in Ext |-> "PAID"]
    /\ moves = 0
    /\ orders = [x \in Ext |-> << >>]
    /\ pc = [s \in Session |-> "idle"]
    /\ batch = [s \in Importer |-> NoBatch]
    /\ todo = [s \in Importer |-> {}]
    /\ plan = [s \in Importer |-> [x \in Ext |-> "none"]]
    /\ seen = [s \in Session |-> NoSeen]
    /\ req = [u \in User |-> NoRequest]

-----------------------------------------------------------------------------
(* The channel: orders move on there, whatever the seller does here. *)

RemoteMove(x) ==
    /\ moves < MaxMoves
    /\ moves' = moves + 1
    /\ \E st \in ValidTargets[remote[x]] : remote' = [remote EXCEPT ![x] = st]
    /\ UNCHANGED <<orders, pc, batch, todo, plan, seen, req>>

-----------------------------------------------------------------------------
(* Import: fetch everything first, then one savepoint per order, one commit. *)

ImportFetch(s) ==
    /\ pc[s] = "idle"
    /\ pc' = [pc EXCEPT ![s] = "import"]
    /\ batch' = [batch EXCEPT ![s] = remote]
    /\ todo' = [todo EXCEPT ![s] = Ext]
    /\ UNCHANGED <<remote, moves, orders, plan, seen, req>>

Fault_NeverFinds(x) == "new"

\* scalar_one_or_none over the committed rows of x: none, one, or it raises
\* and the savepoint's order is counted as an error.
Found(x) == CASE Len(orders[x]) = 0 -> "new"
              [] Len(orders[x]) = 1 -> "read"
              [] OTHER              -> "error"

ImportRead(s, x) ==
    /\ pc[s] = "import"
    /\ x \in todo[s]
    /\ \A y \in Ext : plan[s][y] # "read"      \* one order after the other
    /\ todo' = [todo EXCEPT ![s] = @ \ {x}]
    /\ plan' = [plan EXCEPT ![s][x] = Found(x)]
    /\ seen' = IF Found(x) = "read"
               THEN [seen EXCEPT ![s][x] = [orders[x][1] EXCEPT !.holder = Nobody]]
               ELSE seen
    /\ UNCHANGED <<remote, moves, orders, pc, batch, req>>

\* UPDATE of the order and DELETE of the items it was read with: waits for
\* whoever holds the row, and holds it until the commit of the whole batch.
ImportFlush(s, x) ==
    /\ plan[s][x] = "read"
    /\ orders[x][1].holder = Nobody
    /\ orders' = [orders EXCEPT ![x][1].holder = s]
    /\ plan' = [plan EXCEPT ![s][x] = "update"]
    /\ UNCHANGED <<remote, moves, pc, batch, todo, seen, req>>

Fault_KeepsOldItems(s, x) == {}

\* The items a re-import deletes: those loaded with the order.
OldItems(s, x) == seen[s][x].items

\* A tag no row and no session knows for x.
FreshTag(x) ==
    CHOOSE t \in Tag : /\ \A i \in DOMAIN orders[x] : t \notin orders[x][i].items
                       /\ \A s \in Importer : t \notin seen[s][x].items

Fault_StatusOnlyOnCreate(s, x) == orders[x][1].status

\* The status column after the commit: written if it differs from the one read.
StatusWritten(s, x) ==
    IF batch[s][x] # seen[s][x].status THEN batch[s][x] ELSE orders[x][1].status

Imported(s, x) ==
    LET new == [status  |-> batch[s][x], items |-> {FreshTag(x)},
                tracked |-> FALSE, holder |-> Nobody]
    IN  CASE plan[s][x] = "new"    -> Append(orders[x], new)
          [] plan[s][x] = "update" ->
                [orders[x] EXCEPT
                    ![1].status = StatusWritten(s, x),
                    ![1].items = (@ \ OldItems(s, x)) \cup {FreshTag(x)},
                    ![1].holder = Nobody]
          [] OTHER -> orders[x]

EndImport(s) ==
    /\ pc' = [pc EXCEPT ![s] = "idle"]
    /\ batch' = [batch EXCEPT ![s] = NoBatch]
    /\ todo' = [todo EXCEPT ![s] = {}]
    /\ plan' = [plan EXCEPT ![s] = [x \in Ext |-> "none"]]
    /\ seen' = [seen EXCEPT ![s] = NoSeen]
    /\ UNCHANGED <<remote, moves, req>>

ImportCommit(s) ==
    /\ pc[s] = "import"
    /\ todo[s] = {}
    /\ \A x \in Ext : plan[s][x] # "read"
    /\ orders' = [x \in Ext |-> Imported(s, x)]
    /\ EndImport(s)

\* The worker dies, job_timeout fires, or the request is cancelled.
ImportAbort(s) ==
    /\ pc[s] = "import"
    /\ orders' = [x \in Ext |->
                    IF plan[s][x] = "update"
                    THEN [orders[x] EXCEPT ![1].holder = Nobody]
                    ELSE orders[x]]
    /\ EndImport(s)

-----------------------------------------------------------------------------
(* Status requests: transition_order_status with one row,                   *)
(* bulk_transition_order_status with several; rows whose transition is not  *)
(* allowed are refused or skipped.                                          *)

Rows == Ext \X (1..Cardinality(Importer))
Stored == {r \in Rows : r[2] \in DOMAIN orders[r[1]]}
AsRead(rows) == {<<r[1], r[2], orders[r[1]][r[2]].status>> : r \in rows}

TransitionRead(u, rows, target, track) ==
    LET changing == {r \in AsRead(rows) : Allowed(r[3], target)} IN
    /\ pc[u] = "idle"
    /\ rows \subseteq Stored
    /\ changing # {}
    /\ track => u \in Tracker /\ Cardinality(rows) = 1
    /\ pc' = [pc EXCEPT ![u] = "write"]
    /\ req' = [req EXCEPT ![u] = [rows |-> changing, target |-> target,
                                  track |-> track]]
    /\ UNCHANGED <<remote, moves, orders, batch, todo, plan, seen>>

Change(rows, F(_)) ==
    [x \in Ext |-> [i \in DOMAIN orders[x] |->
        IF \E r \in rows : r[1] = x /\ r[2] = i THEN F(orders[x][i]) ELSE orders[x][i]]]

Unheld(rows) == \A r \in rows : orders[r[1]][r[2]].holder = Nobody

TransitionCommit(u) ==
    LET SetStatus(row) == [row EXCEPT !.status = req[u].target] IN
    /\ pc[u] = "write"
    /\ Unheld(req[u].rows)
    /\ orders' = Change(req[u].rows, SetStatus)
    /\ pc' = [pc EXCEPT ![u] = IF req[u].track THEN "track" ELSE "idle"]
    /\ req' = IF req[u].track THEN req ELSE [req EXCEPT ![u] = NoRequest]
    /\ UNCHANGED <<remote, moves, batch, todo, plan, seen>>

\* PATCH /orders/{id}/tracking reads the row and writes the tracking columns.
TrackingRead(u, row) ==
    /\ pc[u] = "idle"
    /\ u \in Tracker
    /\ row \in Stored
    /\ pc' = [pc EXCEPT ![u] = "track"]
    /\ req' = [req EXCEPT ![u] = [rows |-> AsRead({row}), target |-> "none",
                                  track |-> TRUE]]
    /\ UNCHANGED <<remote, moves, orders, batch, todo, plan, seen>>

\* Its commit, or the second commit of a transition with tracking.
TrackingCommit(u) ==
    LET SetTracking(row) == [row EXCEPT !.tracked = TRUE] IN
    /\ pc[u] = "track"
    /\ Unheld(req[u].rows)
    /\ orders' = Change(req[u].rows, SetTracking)
    /\ pc' = [pc EXCEPT ![u] = "idle"]
    /\ req' = [req EXCEPT ![u] = NoRequest]
    /\ UNCHANGED <<remote, moves, batch, todo, plan, seen>>

UserAbort(u) ==
    /\ pc[u] # "idle"
    /\ pc' = [pc EXCEPT ![u] = "idle"]
    /\ req' = [req EXCEPT ![u] = NoRequest]
    /\ UNCHANGED <<remote, moves, orders, batch, todo, plan, seen>>

-----------------------------------------------------------------------------
ImportStep(s) ==
    \/ ImportFetch(s)
    \/ \E x \in Ext : ImportRead(s, x) \/ ImportFlush(s, x)
    \/ ImportCommit(s)

UserStep(u) == TransitionCommit(u) \/ TrackingCommit(u)

Next ==
    \/ \E x \in Ext : RemoteMove(x)
    \/ \E s \in Importer : ImportStep(s) \/ ImportAbort(s)
    \/ \E u \in User :
          \/ UserStep(u) \/ UserAbort(u)
          \/ \E rows \in SUBSET Rows, target \in Status, track \in BOOLEAN :
                TransitionRead(u, rows, target, track)
          \/ \E row \in Rows : TrackingRead(u, row)

Spec == Init /\ [][Next]_vars

(* The cron job starts an import every 15 minutes (weak).  A commit waits  *)
(* for row locks that every holder gives up, and PostgreSQL serves the     *)
(* waiters of a row in order; an import may be cut short anywhere, but not *)
(* for ever at the same step (strong).                                     *)
Fairness ==
    /\ \A s \in Importer :
          /\ WF_vars(ImportFetch(s))
          /\ \A x \in Ext : SF_vars(ImportRead(s, x)) /\ SF_vars(ImportFlush(s, x))
          /\ SF_vars(ImportCommit(s))
    /\ \A u \in User : SF_vars(UserStep(u))

FairSpec == Spec /\ Fairness

-----------------------------------------------------------------------------
(* Properties *)

\* sync_orders' docstring: an external_order_id that exists is updated, one
\* that does not is created.  So no order is ever stored twice.
OneRowPerOrder == \A x \in Ext : Len(orders[x]) <= 1

\* import_from_channel's comment: all existing items are deleted before the
\* new ones are added.  So a stored order has the items of one import.
ItemsOnce ==
    \A x \in Ext : \A i \in DOMAIN orders[x] : Cardinality(orders[x][i].items) = 1

\* VALID_TRANSITIONS leaves CANCELED and REFUNDED no transition (tested as
\* test_no_transition_from_canceled).  A stored order still leaves them, but
\* only by an import that fetched something else, or by a request that read
\* the order before it got there.
ConcludedStays ==
    [][\A x \in Ext : \A i \in DOMAIN orders[x] :
          LET old == orders[x][i].status
              new == orders'[x][i].status
          IN  old \in {"CANCELED", "REFUNDED"} /\ new # old =>
                 \/ \E s \in Importer : pc'[s] # pc[s] /\ batch[s][x] = new
                 \/ \E u \in User : /\ pc'[u] # pc[u] /\ req[u].target = new
                                    /\ \E r \in req[u].rows :
                                          r[1] = x /\ r[2] = i /\ r[3] # old]_vars

\* The channel's status of an order arrives here again and again, whatever
\* users do to the stored one and however often an import is cut short.
SyncConverges ==
    \A x \in Ext : []<>(\E i \in DOMAIN orders[x] : orders[x][i].status = remote[x])
=============================================================================
