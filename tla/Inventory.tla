----------------------------- MODULE Inventory -----------------------------
(***************************************************************************)
(* The stock rows of the API (services/inventory_service.py,               *)
(* api/v1/inventory.py, the seeding in services/product_service.py) and    *)
(* the requests that change them.                                          *)
(*                                                                         *)
(* A session is one HTTP request: one SQLAlchemy session, one READ         *)
(* COMMITTED transaction.  A plain SELECT returns committed rows; an       *)
(* attribute set on a row stays in the session until a flush sends an      *)
(* UPDATE of the changed columns, as absolute values, which takes the row  *)
(* lock; the lock is held until commit or rollback.  SELECT ... FOR UPDATE *)
(* takes the lock first and returns the row as it is then.                 *)
(*                                                                         *)
(* `promised`, `raced`, `clamped` and `drift` are history variables: no    *)
(* guard reads them, except the bound on promised.                         *)
(***************************************************************************)
EXTENDS Integers

CONSTANTS
    Sku,            \* (sku, warehouse) keys, numbered in primary-key order
    Session,        \* concurrently running requests
    NoSession,
    Ops,            \* the endpoints in use, a subset of Operation
    Qty,            \* quantities of allocate and deallocate (Field(gt=0))
    Amount,         \* totals of upsert and values of the bulk edit
    Modes,          \* modes of the bulk edit in use
    MaxPromised,    \* bound: no allocation starts above it
    MaxAvailable    \* bound: no request that adds stock starts above it

Mode == {"absolute", "inc_amount"}
Operation == {"allocate", "deallocate", "upsert", "bulk", "seed"}

ASSUME SkuAssumption == Sku \subseteq Nat
ASSUME SessionAssumption == NoSession \notin Session
ASSUME OpsAssumption == Ops \subseteq Operation
ASSUME QtyAssumption == Qty \subseteq Nat \ {0}
ASSUME AmountAssumption == Amount \subseteq Int
ASSUME ModesAssumption == Modes \subseteq Mode

VARIABLES
    present,    \* SKUs that have a row
    row,        \* [Sku -> Row], the committed columns
    lock,       \* [Sku -> Session or NoSession], the row locks
    remote,     \* [Sku -> Nat], stock the sales channel shows
    pc,         \* phase of each session
    req,        \* the request each session serves
    snap,       \* the rows as each session read them
    todo,       \* bulk edit: rows not yet edited
    dirty,      \* rows edited in the session and not flushed
    pushing,    \* bulk edit: the row whose channel call is in progress
    pushed,     \* rows whose new total a channel accepted, not yet committed
    promised,   \* history: units granted and not given back
    raced,      \* history: rows overwritten from a stale read
    clamped,    \* history: rows whose available was cut off at zero
    drift       \* history: rows whose channel stock may differ from total

stock == <<present, row, remote>>
history == <<promised, raced, clamped, drift>>
local == <<pc, req, snap, todo, dirty, pushing, pushed>>
vars == <<stock, lock, local, history>>

Row == [total : Nat, allocated : Nat, available : Nat]
EmptyRow == [total |-> 0, allocated |-> 0, available |-> 0]
NoRead == [k \in Sku |-> EmptyRow]

Request == [op : Operation, skus : SUBSET Sku, amount : Int,
            mode : Mode, sync : BOOLEAN]
NoRequest == [op |-> "seed", skus |-> {}, amount |-> 0,
              mode |-> "absolute", sync |-> FALSE]

Phase == {"idle", "wait", "locked", "insert", "edit"}

TypeOK ==
    /\ present \subseteq Sku
    /\ row \in [Sku -> Row]
    /\ lock \in [Sku -> Session \cup {NoSession}]
    /\ remote \in [Sku -> Nat]
    /\ pc \in [Session -> Phase]
    /\ req \in [Session -> Request]
    /\ snap \in [Session -> [Sku -> Row]]
    /\ todo \in [Session -> SUBSET Sku]
    /\ dirty \in [Session -> SUBSET Sku]
    /\ pushing \in [Session -> SUBSET Sku]
    /\ pushed \in [Session -> SUBSET Sku]
    /\ promised \in [Sku -> Int]
    /\ raced \subseteq Sku
    /\ clamped \subseteq Sku
    /\ drift \subseteq Sku

Init ==
    /\ present \in SUBSET Sku
    /\ row = [k \in Sku |-> EmptyRow]
    /\ lock = [k \in Sku |-> NoSession]
    /\ remote = [k \in Sku |-> 0]
    /\ pc = [s \in Session |-> "idle"]
    /\ req = [s \in Session |-> NoRequest]
    /\ snap = [s \in Session |-> NoRead]
    /\ todo = [s \in Session |-> {}]
    /\ dirty = [s \in Session |-> {}]
    /\ pushing = [s \in Session |-> {}]
    /\ pushed = [s \in Session |-> {}]
    /\ promised = [k \in Sku |-> 0]
    /\ raced = {}
    /\ clamped = {}
    /\ drift = Sku

-----------------------------------------------------------------------------
(* The arithmetic of an edit.  A definition marked Fault is the one below  *)
(* it with a mistake in it; nothing uses it except the mutation checks.     *)

NonNeg(n) == IF n < 0 THEN 0 ELSE n

\* _new_total: the total a request asks for, given the row it read.
NewTotal(r, old) ==
    NonNeg(IF r.mode = "absolute" THEN r.amount ELSE old.total + r.amount)

Fault_MovedBackwards(r, old) == old.available - NewTotal(r, old) + old.total

\* available before the cut at zero.
MovedAvailable(r, old) == old.available + NewTotal(r, old) - old.total

Fault_TotalOnly(r, old) == [old EXCEPT !.total = NewTotal(r, old)]

Edited(r, old) ==
    [old EXCEPT !.total = NewTotal(r, old),
                !.available = NonNeg(MovedAvailable(r, old))]

\* The row after session s's UPDATE: SQLAlchemy sends the columns whose value
\* changed against the read row, and leaves the others as they are by now.
Written(s, k) ==
    LET new == Edited(req[s], snap[s][k])
    IN  [row[k] EXCEPT
            !.total = new.total,
            !.available = IF new.available # snap[s][k].available
                          THEN new.available ELSE @]

Held(s) == {k \in Sku : lock[k] = s}
Fault_KeepsLocks(s) == lock

Unlocked(s) == [k \in Sku |-> IF lock[k] = s THEN NoSession ELSE lock[k]]

-----------------------------------------------------------------------------
(* The end of a request: the session is closed. *)

Close(s) ==
    /\ pc' = [pc EXCEPT ![s] = "idle"]
    /\ req' = [req EXCEPT ![s] = NoRequest]
    /\ snap' = [snap EXCEPT ![s] = NoRead]
    /\ todo' = [todo EXCEPT ![s] = {}]
    /\ dirty' = [dirty EXCEPT ![s] = {}]
    /\ pushing' = [pushing EXCEPT ![s] = {}]
    /\ pushed' = [pushed EXCEPT ![s] = {}]

\* COMMIT of the UPDATEs session s has flushed.
CommitRows(s) ==
    /\ row' = [k \in Sku |-> IF k \in Held(s) THEN Written(s, k) ELSE row[k]]
    /\ lock' = Unlocked(s)
    /\ raced' = raced \cup {k \in Held(s) : snap[s][k] # row[k]}
    /\ clamped' = clamped \cup
                    {k \in Held(s) : MovedAvailable(req[s], snap[s][k]) < 0}
    /\ drift' = (drift \ pushed[s]) \cup (Held(s) \ pushed[s])
    /\ UNCHANGED <<present, remote, promised>>

Rollback(s) ==
    /\ lock' = Unlocked(s)
    /\ drift' = drift \cup pushed[s]
    /\ Close(s)
    /\ UNCHANGED <<stock, promised, raced, clamped>>

-----------------------------------------------------------------------------
(* allocate and deallocate: SELECT ... FOR UPDATE, check, write, commit. *)

ReceiveLocked(s, op, k, q) ==
    /\ pc[s] = "idle"
    /\ op \in Ops \cap {"allocate", "deallocate"}
    /\ k \in present                      \* _ensure_sku_owned, else 404
    /\ op = "allocate" => promised[k] + q <= MaxPromised
    /\ op = "deallocate" => row[k].available <= MaxAvailable
    /\ pc' = [pc EXCEPT ![s] = "wait"]
    /\ req' = [req EXCEPT ![s] = [op |-> op, skus |-> {k}, amount |-> q,
                                  mode |-> "absolute", sync |-> FALSE]]
    /\ UNCHANGED <<stock, lock, history, snap, todo, dirty, pushing, pushed>>

Fault_NoRowLock(k) == TRUE

RowFree(k) == lock[k] = NoSession

LockRow(s, k) ==
    /\ pc[s] = "wait"
    /\ k \in req[s].skus
    /\ RowFree(k)
    /\ lock' = [lock EXCEPT ![k] = s]
    /\ snap' = [snap EXCEPT ![s][k] = row[k]]
    /\ pc' = [pc EXCEPT ![s] = "locked"]
    /\ UNCHANGED <<stock, history, req, todo, dirty, pushing, pushed>>

Fault_OnlyAllocated(old, change) == [old EXCEPT !.allocated = @ + change]

Reserved(old, change) ==
    [old EXCEPT !.allocated = @ + change, !.available = @ - change]

\* The locked write: two columns, from the row read under the lock.
WriteLocked(s, k, change) ==
    LET new == Reserved(snap[s][k], change) IN
    /\ row' = [row EXCEPT ![k].allocated = new.allocated,
                          ![k].available = new.available]
    /\ promised' = [promised EXCEPT ![k] = promised[k] + change]
    /\ lock' = Unlocked(s)
    /\ Close(s)
    /\ UNCHANGED <<present, remote, raced, clamped, drift>>

Allocate(s, k) ==
    /\ pc[s] = "locked"
    /\ k \in req[s].skus
    /\ req[s].op = "allocate"
    /\ req[s].amount <= snap[s][k].available
    /\ WriteLocked(s, k, req[s].amount)

Deallocate(s, k) ==
    /\ pc[s] = "locked"
    /\ k \in req[s].skus
    /\ req[s].op = "deallocate"
    /\ req[s].amount <= snap[s][k].allocated
    /\ WriteLocked(s, k, -req[s].amount)

\* ValueError: nothing was changed, the lock goes with the session.
Reject(s, k) ==
    /\ pc[s] = "locked"
    /\ k \in req[s].skus
    /\ \/ req[s].op = "allocate" /\ req[s].amount > snap[s][k].available
       \/ req[s].op = "deallocate" /\ req[s].amount > snap[s][k].allocated
    /\ Rollback(s)

-----------------------------------------------------------------------------
(* upsert, bulk edit and seeding: read without a lock, write later. *)

ReadRows(s, r) ==
    /\ \A k \in r.skus : NewTotal(r, row[k]) > row[k].total =>
           row[k].available <= MaxAvailable /\ row[k].total <= MaxAvailable
    /\ req' = [req EXCEPT ![s] = r]
    /\ snap' = [snap EXCEPT ![s] =
                    [k \in Sku |-> IF k \in r.skus THEN row[k] ELSE EmptyRow]]
    /\ UNCHANGED <<stock, lock, history, dirty, pushing, pushed>>

\* create_or_update: an existing row is edited, a missing one inserted.
ReceiveUpsert(s, k, t) ==
    /\ pc[s] = "idle"
    /\ "upsert" \in Ops
    /\ t >= 0
    /\ ReadRows(s, [op |-> "upsert", skus |-> {k}, amount |-> t,
                    mode |-> "absolute", sync |-> FALSE])
    /\ pc' = [pc EXCEPT ![s] = IF k \in present THEN "edit" ELSE "insert"]
    /\ todo' = [todo EXCEPT ![s] = {k} \cap present]

\* bulk_edit_inventory: one SELECT of the chosen rows that exist.
ReceiveBulk(s, ks, mode, v, sync) ==
    /\ pc[s] = "idle"
    /\ "bulk" \in Ops
    /\ ReadRows(s, [op |-> "bulk", skus |-> ks, amount |-> v,
                    mode |-> mode, sync |-> sync])
    /\ pc' = [pc EXCEPT ![s] = "edit"]
    /\ todo' = [todo EXCEPT ![s] = ks \cap present]

\* ProductService.create: a zero row, unless one is there.
ReceiveSeed(s, k) ==
    /\ pc[s] = "idle"
    /\ "seed" \in Ops
    /\ k \notin present
    /\ ReadRows(s, [op |-> "seed", skus |-> {k}, amount |-> 0,
                    mode |-> "absolute", sync |-> FALSE])
    /\ pc' = [pc EXCEPT ![s] = "insert"]
    /\ UNCHANGED todo

Insert(s, k) ==
    /\ pc[s] = "insert"
    /\ k \in req[s].skus
    /\ k \notin present
    /\ present' = present \cup {k}
    /\ row' = [row EXCEPT ![k] = [total |-> req[s].amount, allocated |-> 0,
                                  available |-> req[s].amount]]
    /\ drift' = drift \cup {k}
    /\ Close(s)
    /\ UNCHANGED <<lock, remote, promised, raced, clamped>>

\* Another request inserted the key first: IntegrityError, 500, rollback.
InsertConflict(s, k) ==
    /\ pc[s] = "insert"
    /\ k \in req[s].skus
    /\ k \in present
    /\ Close(s)
    /\ UNCHANGED <<stock, lock, promised, raced, clamped, drift>>

-----------------------------------------------------------------------------
(* The loop over the rows.  With sync the SELECT of the listings, inside    *)
(* the loop, autoflushes the edited row before the channel is called.       *)

EditRow(s, k) ==
    /\ pc[s] = "edit"
    /\ k \in todo[s]
    /\ pushing[s] = {}
    /\ LET diff == NewTotal(req[s], snap[s][k]) - snap[s][k].total
       IN  /\ dirty' = [dirty EXCEPT ![s] = IF diff # 0 THEN @ \cup {k} ELSE @]
           /\ pushing' = [pushing EXCEPT ![s] =
                              IF diff # 0 /\ req[s].sync THEN {k} ELSE {}]
    /\ todo' = [todo EXCEPT ![s] = @ \ {k}]
    /\ UNCHANGED <<stock, lock, history, pc, req, snap, pushed>>

\* UPDATE of one dirty row, in primary-key order: waits for the row lock.
FlushRow(s, k) ==
    /\ pc[s] = "edit"
    /\ k \in dirty[s]
    /\ \A j \in dirty[s] : k <= j
    /\ pushing[s] # {} \/ todo[s] = {}
    /\ RowFree(k)
    /\ lock' = [lock EXCEPT ![k] = s]
    /\ dirty' = [dirty EXCEPT ![s] = @ \ {k}]
    /\ UNCHANGED <<stock, history, pc, req, snap, todo, pushing, pushed>>

Fault_PushesOldTotal(s, k) == snap[s][k].total

PushedTotal(s, k) == NewTotal(req[s], snap[s][k])

\* gateway.update_inventory(sku, total): accepted, or failed and reported.
Push(s, k, accepted) ==
    /\ pc[s] = "edit"
    /\ k \in pushing[s]
    /\ dirty[s] = {}
    /\ pushing' = [pushing EXCEPT ![s] = {}]
    /\ remote' = IF accepted
                 THEN [remote EXCEPT ![k] = PushedTotal(s, k)]
                 ELSE remote
    /\ pushed' = IF ~accepted THEN pushed
                 ELSE IF lock[k] = s
                 THEN [pushed EXCEPT ![s] = @ \cup {k}]
                 ELSE [t \in Session |-> pushed[t] \ {k}]
    /\ drift' = IF accepted /\ lock[k] # s THEN drift \cup {k} ELSE drift
    /\ UNCHANGED <<present, row, lock, pc, req, snap, todo, dirty,
                   promised, raced, clamped>>

\* The channel client refreshed its token and the callback committed the
\* session it was given: the rows edited so far are committed early.
RefreshCommit(s) ==
    /\ pc[s] = "edit"
    /\ pushing[s] # {}
    /\ dirty[s] = {}
    /\ Held(s) # {}
    /\ CommitRows(s)
    /\ pushed' = [pushed EXCEPT ![s] = {}]
    /\ UNCHANGED <<pc, req, snap, todo, dirty, pushing>>

Commit(s) ==
    /\ pc[s] = "edit"
    /\ todo[s] = {} /\ dirty[s] = {} /\ pushing[s] = {}
    /\ CommitRows(s)
    /\ Close(s)

-----------------------------------------------------------------------------
(* The row s is waiting for, and PostgreSQL's deadlock detector: a set of   *)
(* sessions each waiting for a lock another of them holds.                  *)

WaitsFor(s, k) ==
    /\ lock[k] \notin {NoSession, s}
    /\ \/ pc[s] = "wait" /\ k \in req[s].skus
       \/ /\ pc[s] = "edit"
          /\ k \in dirty[s]
          /\ \A j \in dirty[s] : k <= j
          /\ pushing[s] # {} \/ todo[s] = {}

Deadlocked(s) ==
    \E S \in SUBSET Session :
        /\ s \in S
        /\ \A t \in S : \E k \in Sku : WaitsFor(t, k) /\ lock[k] \in S
        /\ \A t \in S : \E u \in S, k \in Sku : WaitsFor(u, k) /\ lock[k] = t

DeadlockVictim(s) ==
    /\ Deadlocked(s)
    /\ Rollback(s)

\* The process dies, the client goes away, or the handler raises.
Crash(s) ==
    /\ pc[s] # "idle"
    /\ Rollback(s)

-----------------------------------------------------------------------------
Receive(s) ==
    \/ \E op \in Ops, k \in Sku, q \in Qty : ReceiveLocked(s, op, k, q)
    \/ \E k \in Sku, t \in Amount : ReceiveUpsert(s, k, t)
    \/ \E ks \in SUBSET Sku \ {{}}, mode \in Modes,
          v \in Amount, sync \in BOOLEAN : ReceiveBulk(s, ks, mode, v, sync)
    \/ \E k \in Sku : ReceiveSeed(s, k)

\* The steps of a request that need no lock to become free.
Proceed(s) ==
    \/ \E k \in Sku : \/ Allocate(s, k) \/ Deallocate(s, k) \/ Reject(s, k)
                      \/ Insert(s, k) \/ InsertConflict(s, k)
                      \/ EditRow(s, k)
                      \/ \E accepted \in BOOLEAN : Push(s, k, accepted)
    \/ Commit(s)

TakeLock(s) == \E k \in Sku : LockRow(s, k) \/ FlushRow(s, k)

Next ==
    \E s \in Session :
        \/ Receive(s)
        \/ Proceed(s)
        \/ TakeLock(s)
        \/ RefreshCommit(s)
        \/ DeadlockVictim(s)
        \/ Crash(s)

Spec == Init /\ [][Next]_vars

(* A running handler is scheduled by the event loop, and a channel call ends
   within the HTTP client's timeout: weak fairness.  PostgreSQL grants a row
   lock to its waiters in order of arrival, so one that keeps becoming free is
   eventually granted: strong fairness.  deadlock_timeout fires: weak. *)
Fairness ==
    \A s \in Session :
        /\ WF_vars(Proceed(s))
        /\ SF_vars(TakeLock(s))
        /\ WF_vars(DeadlockVictim(s))

FairSpec == Spec /\ Fairness

-----------------------------------------------------------------------------
(* Properties *)

\* The allocated column is exactly what was granted and not given back: no
\* allocation and no release is lost or counted twice, whatever runs beside
\* it (FOR UPDATE in allocate/deallocate; no other handler writes allocated).
AllocatedIsPromised == \A k \in Sku : row[k].allocated = promised[k]

\* What a handler checks under FOR UPDATE is still the committed row when it
\* writes: no upsert, bulk edit or other allocation gets in between.
LockedReadIsCurrent ==
    \A s \in Session : pc[s] = "locked" =>
        \A k \in req[s].skus : lock[k] = s /\ snap[s][k] = row[k]

\* Stock disappears (allocated + available < total) only on a row that an
\* upsert or a bulk edit overwrote from a read that was stale by then.
StockLostOnlyByRace ==
    \A k \in Sku \ raced :
        row[k].allocated + row[k].available >= row[k].total

\* Apart from such a race, allocated + available differs from total only
\* after an edit cut available at zero (a total below what is allocated).
StockBalanced ==
    \A k \in Sku \ (raced \cup clamped) :
        row[k].allocated + row[k].available = row[k].total

\* An unlocked row's total is what the channel shows, unless its last change
\* was not pushed, was pushed and rolled back, or was pushed after a token
\* refresh had already committed and unlocked the row.
RemoteInStep ==
    \A k \in Sku \ drift : lock[k] = NoSession => remote[k] = row[k].total

\* A grant or a release moves units between allocated and available and
\* creates or destroys none, though both columns are written as absolute
\* values computed earlier.
AllocationConserves ==
    [][\A k \in Sku : row'[k].allocated # row[k].allocated =>
           /\ row'[k].allocated + row'[k].available
                = row[k].allocated + row[k].available
           /\ row'[k].total = row[k].total]_row

\* bulk_edit_inventory's docstring: available moves by the same difference
\* as the total, and is kept from becoming negative.
AvailableMovesByDiff ==
    [][\A k \in present : row'[k].total # row[k].total =>
           row'[k].available =
               NonNeg(row[k].available + row'[k].total - row[k].total)]_row

\* Every request ends: none waits for a row lock for ever, though a bulk edit
\* takes its locks in the order the rows came back and holds them through
\* channel calls.
RequestsEnd == \A s \in Session : pc[s] # "idle" ~> pc[s] = "idle"

\* The allocation endpoints implement the ledger.
Ledger == INSTANCE StockLedger
            WITH promised <- promised,
                 column <- [k \in Sku |-> row[k].allocated]
LedgerSpec == Ledger!Spec
=============================================================================
