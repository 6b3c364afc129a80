-------------------------- MODULE InventoryProofs --------------------------
(***************************************************************************)
(* What holds of Inventory for every set of rows, sessions, quantities and *)
(* amounts.  The argument goes in layers, each an inductive invariant      *)
(* relative to the ones before it: types (Typed), what a lock holder knows *)
(* (Locking), the balance of a row (Balance), the channel's stock          *)
(* (RemoteInv), and the order in which locks are taken (LockInv).          *)
(***************************************************************************)
EXTENDS Inventory, WellFoundedInduction, TLAPS

\* An allocation is of a possible quantity, an inserted total is a natural.
AmountsNat ==
    \A s \in Session :
        /\ pc[s] \in {"wait", "locked"} => req[s].amount \in Qty
        /\ pc[s] = "insert" => req[s].amount \in Nat

Typed == TypeOK /\ AmountsNat

USE SkuAssumption, SessionAssumption, OpsAssumption, QtyAssumption,
    AmountAssumption, ModesAssumption

-----------------------------------------------------------------------------
\* The arithmetic of an edit yields a row again, and leaves allocated alone.
LEMMA EditedIsRow ==
    ASSUME NEW r \in Request, NEW old \in Row
    PROVE  /\ Edited(r, old) \in Row
           /\ Edited(r, old).allocated = old.allocated
           /\ NewTotal(r, old) \in Nat
           /\ MovedAvailable(r, old) \in Int
<1>1. r.amount \in Int /\ old.total \in Nat /\ old.available \in Nat
  BY DEF Request, Row
<1>2. \A n \in Int : NonNeg(n) \in Nat
  BY DEF NonNeg
<1>3. NewTotal(r, old) \in Nat
  BY <1>1, <1>2 DEF NewTotal
<1>4. MovedAvailable(r, old) \in Int
  BY <1>1, <1>3 DEF MovedAvailable
<1>5. NonNeg(MovedAvailable(r, old)) \in Nat
  BY <1>2, <1>4
<1> QED
  BY <1>3, <1>4, <1>5 DEF Edited, Row

\* A committed UPDATE leaves a row whose allocated is untouched.
LEMMA WrittenIsRow ==
    ASSUME TypeOK, NEW s \in Session, NEW k \in Sku
    PROVE  /\ Written(s, k) \in Row
           /\ Written(s, k).allocated = row[k].allocated
           /\ Written(s, k).total = NewTotal(req[s], snap[s][k])
<1>1. req[s] \in Request /\ snap[s][k] \in Row /\ row[k] \in Row
  BY DEF TypeOK
<1>2. Edited(req[s], snap[s][k]) \in Row
  BY <1>1, EditedIsRow
<1>3. Edited(req[s], snap[s][k]).total = NewTotal(req[s], snap[s][k])
  BY <1>1 DEF Edited, Row
<1> QED
  BY <1>1, <1>2, <1>3 DEF Written, Row

-----------------------------------------------------------------------------
LEMMA QtyNat == \A q \in Qty : q \in Nat /\ q \in Int /\ -q \in Int
  OBVIOUS

\* The quantity of an allocation, and the total of an insertion.
LEMMA AmountOf ==
    ASSUME Typed, NEW s \in Session
    PROVE  /\ pc[s] \in {"wait", "locked"} =>
                 /\ req[s].amount \in Qty /\ req[s].amount \in Nat
                 /\ -req[s].amount \in Int
           /\ pc[s] = "insert" => req[s].amount \in Nat
  BY QtyNat DEF Typed, AmountsNat

LEMMA CloseTypes ==
    ASSUME TypeOK, NEW s \in Session, Close(s)
    PROVE  /\ pc' \in [Session -> Phase]
           /\ req' \in [Session -> Request]
           /\ snap' \in [Session -> [Sku -> Row]]
           /\ todo' \in [Session -> SUBSET Sku]
           /\ dirty' \in [Session -> SUBSET Sku]
           /\ pushing' \in [Session -> SUBSET Sku]
           /\ pushed' \in [Session -> SUBSET Sku]
           /\ AmountsNat => AmountsNat'
<1>1. NoRequest \in Request
  BY DEF NoRequest, Request, Mode, Operation
<1>2. NoRead \in [Sku -> Row]
  BY DEF NoRead, EmptyRow, Row
<1>3. "idle" \in Phase
  BY DEF Phase
<1>4. pc'[s] = "idle" /\ \A t \in Session \ {s} : pc'[t] = pc[t] /\ req'[t] = req[t]
  BY DEF Close, TypeOK
<1> QED
  BY <1>1, <1>2, <1>3, <1>4 DEF Close, TypeOK, AmountsNat

LEMMA UnlockedType ==
    ASSUME TypeOK, NEW s \in Session
    PROVE  Unlocked(s) \in [Sku -> Session \cup {NoSession}]
  BY DEF Unlocked, TypeOK

LEMMA CommitRowsTypes ==
    ASSUME TypeOK, NEW s \in Session, CommitRows(s)
    PROVE  /\ row' \in [Sku -> Row]
           /\ lock' \in [Sku -> Session \cup {NoSession}]
           /\ raced' \subseteq Sku /\ clamped' \subseteq Sku
           /\ drift' \subseteq Sku
           /\ present' \subseteq Sku /\ remote' \in [Sku -> Nat]
           /\ promised' \in [Sku -> Int]
<1>1. row' \in [Sku -> Row]
  BY WrittenIsRow DEF CommitRows, TypeOK
<1>2. lock' \in [Sku -> Session \cup {NoSession}]
  BY UnlockedType DEF CommitRows
<1>3. Held(s) \subseteq Sku
  BY DEF Held
<1> QED
  BY <1>1, <1>2, <1>3 DEF CommitRows, TypeOK

LEMMA RollbackTyped ==
    ASSUME Typed, NEW s \in Session, Rollback(s)
    PROVE  Typed'
<1>1. lock' \in [Sku -> Session \cup {NoSession}]
  BY UnlockedType DEF Rollback, Typed
<1>2. drift' \subseteq Sku
  BY DEF Rollback, Typed, TypeOK
<1> QED
  BY <1>1, <1>2, CloseTypes DEF Rollback, Typed, TypeOK, stock

LEMMA WriteLockedTyped ==
    ASSUME Typed, NEW s \in Session, NEW k \in Sku, NEW change \in Int,
           WriteLocked(s, k, change),
           change <= snap[s][k].available, -change <= snap[s][k].allocated
    PROVE  Typed'
<1>1. snap[s][k] \in Row /\ row[k] \in Row
  BY DEF Typed, TypeOK
<1>2. Reserved(snap[s][k], change) \in Row
  <2>1. /\ snap[s][k].allocated + change \in Nat
        /\ snap[s][k].available - change \in Nat
    BY <1>1 DEF Row
  <2> QED
    BY <1>1, <2>1 DEF Reserved, Row
<1>3. row' \in [Sku -> Row]
  BY <1>1, <1>2 DEF WriteLocked, Row, Typed, TypeOK
<1>4. promised' \in [Sku -> Int]
  BY DEF WriteLocked, Typed, TypeOK
<1>5. lock' \in [Sku -> Session \cup {NoSession}]
  BY UnlockedType DEF WriteLocked, Typed
<1>6. Close(s)
  BY DEF WriteLocked
<1> QED
  BY <1>3, <1>4, <1>5, <1>6, CloseTypes DEF WriteLocked, Typed, TypeOK

-----------------------------------------------------------------------------
\* The steps of Next, one disjunct per action: used by every induction below.
LEMMA StepCases ==
    ASSUME Next
    PROVE  \E s \in Session :
             \/ \E op \in Ops, k \in Sku, q \in Qty : ReceiveLocked(s, op, k, q)
             \/ \E k \in Sku, t \in Amount : ReceiveUpsert(s, k, t)
             \/ \E ks \in SUBSET Sku, mode \in Modes, v \in Amount,
                   sync \in BOOLEAN : ReceiveBulk(s, ks, mode, v, sync)
             \/ \E k \in Sku : ReceiveSeed(s, k)
             \/ \E k \in Sku : LockRow(s, k)
             \/ \E k \in Sku : FlushRow(s, k)
             \/ \E k \in Sku : Allocate(s, k) \/ Deallocate(s, k)
             \/ \E k \in Sku : Reject(s, k)
             \/ \E k \in Sku : Insert(s, k)
             \/ \E k \in Sku : InsertConflict(s, k)
             \/ \E k \in Sku : EditRow(s, k)
             \/ \E k \in Sku, accepted \in BOOLEAN : Push(s, k, accepted)
             \/ Commit(s)
             \/ RefreshCommit(s)
             \/ DeadlockVictim(s)
             \/ Crash(s)
<1>1. PICK s \in Session : \/ Receive(s) \/ Proceed(s) \/ TakeLock(s)
                          \/ RefreshCommit(s) \/ DeadlockVictim(s) \/ Crash(s)
  BY DEF Next
<1>2. CASE Receive(s)
  BY <1>2 DEF Receive
<1>3. CASE Proceed(s)
  BY <1>3 DEF Proceed
<1>4. CASE TakeLock(s)
  BY <1>4 DEF TakeLock
<1> QED
  BY <1>1, <1>2, <1>3, <1>4

LEMMA TypedInit == Init => Typed
<1>1. EmptyRow \in Row /\ NoRequest \in Request /\ NoRead \in [Sku -> Row]
  BY DEF EmptyRow, Row, NoRequest, Request, NoRead, Mode, Operation
<1> QED
  BY <1>1 DEF Init, Typed, TypeOK, AmountsNat, Phase

LEMMA TypedStep ==
    ASSUME Typed, [Next]_vars
    PROVE  Typed'
<1>1. CASE UNCHANGED vars
  BY <1>1 DEF vars, stock, local, history, Typed, TypeOK, AmountsNat
<1>2. ASSUME NEW s \in Session, NEW op \in Ops, NEW k \in Sku, NEW q \in Qty,
             ReceiveLocked(s, op, k, q)
      PROVE  Typed'
  <2>1. [op |-> op, skus |-> {k}, amount |-> q, mode |-> "absolute",
         sync |-> FALSE] \in Request
    BY DEF Request, Mode
  <2> QED
    BY <1>2, <2>1 DEF ReceiveLocked, Typed, TypeOK, AmountsNat, Phase,
                      stock, history
<1>3. ASSUME NEW s \in Session, NEW r \in Request, ReadRows(s, r)
      PROVE  snap' \in [Session -> [Sku -> Row]] /\ req' \in [Session -> Request]
  <2>1. [k \in Sku |-> IF k \in r.skus THEN row[k] ELSE EmptyRow] \in [Sku -> Row]
    BY DEF Typed, TypeOK, EmptyRow, Row
  <2> QED
    BY <1>3, <2>1 DEF ReadRows, Typed, TypeOK
<1>4. ASSUME NEW s \in Session, NEW k \in Sku, NEW t \in Amount,
             ReceiveUpsert(s, k, t)
      PROVE  Typed'
  <2>1. [op |-> "upsert", skus |-> {k}, amount |-> t, mode |-> "absolute",
         sync |-> FALSE] \in Request
    BY DEF Request, Mode, Operation
  <2>2. snap' \in [Session -> [Sku -> Row]] /\ req' \in [Session -> Request]
    BY <1>3, <1>4, <2>1 DEF ReceiveUpsert
  <2>3. t \in Nat
    BY <1>4 DEF ReceiveUpsert
  <2>4. \A u \in Session : \/ /\ u = s /\ req'[u].amount = t
                              /\ pc'[u] \in {"edit", "insert"}
                           \/ u # s /\ req'[u] = req[u] /\ pc'[u] = pc[u]
    BY <1>4 DEF ReceiveUpsert, ReadRows, Typed, TypeOK
  <2>5. AmountsNat'
    BY <2>3, <2>4 DEF Typed, AmountsNat
  <2> QED
    BY <1>4, <2>2, <2>5 DEF ReceiveUpsert, ReadRows, Typed, TypeOK, Phase,
                            stock, history
<1>5. ASSUME NEW s \in Session, NEW ks \in SUBSET Sku, NEW mode \in Modes,
             NEW v \in Amount, NEW sync \in BOOLEAN,
             ReceiveBulk(s, ks, mode, v, sync)
      PROVE  Typed'
  <2>1. [op |-> "bulk", skus |-> ks, amount |-> v, mode |-> mode,
         sync |-> sync] \in Request
    BY DEF Request, Operation
  <2> QED
    BY <1>3, <1>5, <2>1 DEF ReceiveBulk, ReadRows, Typed, TypeOK,
                            AmountsNat, Phase, stock, history
<1>6. ASSUME NEW s \in Session, NEW k \in Sku, ReceiveSeed(s, k)
      PROVE  Typed'
  <2>1. [op |-> "seed", skus |-> {k}, amount |-> 0, mode |-> "absolute",
         sync |-> FALSE] \in Request
    BY DEF Request, Mode, Operation
  <2> QED
    BY <1>3, <1>6, <2>1 DEF ReceiveSeed, ReadRows, Typed, TypeOK,
                            AmountsNat, Phase, stock, history
<1>7. ASSUME NEW s \in Session, NEW k \in Sku, LockRow(s, k)
      PROVE  Typed'
  BY <1>7 DEF LockRow, Typed, TypeOK, AmountsNat, Phase, stock, history
<1>8. ASSUME NEW s \in Session, NEW k \in Sku, FlushRow(s, k)
      PROVE  Typed'
  BY <1>8 DEF FlushRow, Typed, TypeOK, AmountsNat, stock, history
<1>9. ASSUME NEW s \in Session, NEW k \in Sku, Allocate(s, k)
      PROVE  Typed'
  <2>1. pc[s] = "locked"
    BY <1>9 DEF Allocate
  <2>2. req[s].amount \in Nat /\ snap[s][k] \in Row
    BY <2>1, AmountOf DEF Typed, TypeOK
  <2> QED
    BY <1>9, <2>2, WriteLockedTyped DEF Allocate, Row
<1>10. ASSUME NEW s \in Session, NEW k \in Sku, Deallocate(s, k)
       PROVE  Typed'
  <2>1. req[s].amount \in Nat /\ snap[s][k] \in Row
    BY <1>10, AmountOf DEF Deallocate, Typed, TypeOK
  <2>2. /\ -req[s].amount \in Int
        /\ -req[s].amount <= snap[s][k].available
        /\ -(-req[s].amount) <= snap[s][k].allocated
    BY <1>10, <2>1 DEF Deallocate, Row
  <2> QED
    BY <1>10, <2>2, WriteLockedTyped DEF Deallocate
<1>11. ASSUME NEW s \in Session, Rollback(s)
       PROVE  Typed'
  BY <1>11, RollbackTyped
<1>12. ASSUME NEW s \in Session, NEW k \in Sku, Insert(s, k)
       PROVE  Typed'
  <2>1. req[s].amount \in Nat
    BY <1>12, AmountOf DEF Insert
  <2>2. [total |-> req[s].amount, allocated |-> 0, available |-> req[s].amount]
            \in Row
    BY <2>1 DEF Row
  <2>3. row' \in [Sku -> Row]
    BY <1>12, <2>2 DEF Insert, Typed, TypeOK
  <2>4. Close(s)
    BY <1>12 DEF Insert
  <2> QED
    BY <1>12, <2>3, <2>4, CloseTypes DEF Insert, Typed, TypeOK
<1>13. ASSUME NEW s \in Session, NEW k \in Sku, InsertConflict(s, k)
       PROVE  Typed'
  <2>1. req[s].op \in Operation
    BY DEF Typed, TypeOK, Request
  <2>2. Close(s)
    BY <1>13 DEF InsertConflict
  <2> QED
    BY <1>13, <2>1, <2>2, CloseTypes DEF InsertConflict, Typed, TypeOK, stock
<1>14. ASSUME NEW s \in Session, NEW k \in Sku, EditRow(s, k)
       PROVE  Typed'
  BY <1>14 DEF EditRow, Typed, TypeOK, AmountsNat, stock, history
<1>15. ASSUME NEW s \in Session, NEW k \in Sku, NEW accepted \in BOOLEAN,
              Push(s, k, accepted)
       PROVE  Typed'
  <2>1. NewTotal(req[s], snap[s][k]) \in Nat
    BY EditedIsRow DEF Typed, TypeOK
  <2>2. remote' \in [Sku -> Nat]
    BY <1>15, <2>1 DEF Push, PushedTotal, Typed, TypeOK
  <2>3. pushed' \in [Session -> SUBSET Sku] /\ pushing' \in [Session -> SUBSET Sku]
    BY <1>15 DEF Push, Typed, TypeOK
  <2> QED
    BY <1>15, <2>2, <2>3 DEF Push, Typed, TypeOK, AmountsNat
<1>16. ASSUME NEW s \in Session, Commit(s)
       PROVE  Typed'
  <2>1. CommitRows(s) /\ Close(s)
    BY <1>16 DEF Commit
  <2> QED
    BY <2>1, CommitRowsTypes, CloseTypes DEF Typed, TypeOK
<1>17. ASSUME NEW s \in Session, RefreshCommit(s)
       PROVE  Typed'
  <2>1. CommitRows(s)
    BY <1>17 DEF RefreshCommit
  <2>2. pushed' \in [Session -> SUBSET Sku]
    BY <1>17 DEF RefreshCommit, Typed, TypeOK
  <2> QED
    BY <1>17, <2>1, <2>2, CommitRowsTypes
       DEF RefreshCommit, Typed, TypeOK, AmountsNat
<1>18. CASE Next
  BY <1>18, StepCases, <1>2, <1>4, <1>5, <1>6, <1>7, <1>8, <1>9, <1>10, <1>11,
     <1>12, <1>13, <1>14, <1>15, <1>16, <1>17 DEF Reject, DeadlockVictim, Crash
<1> QED
  BY <1>1, <1>18

\* Type correctness: in particular total, allocated and available never become
\* negative, whatever the requests are and however they interleave.
THEOREM TypeCorrect == Spec => []TypeOK
<1>1. Init => Typed
  BY TypedInit
<1>2. Typed /\ [Next]_vars => Typed'
  BY TypedStep
<1>3. Typed => TypeOK
  BY DEF Typed
<1> QED
  BY <1>1, <1>2, <1>3, PTL DEF Spec

-----------------------------------------------------------------------------
(* What a session that holds a row under FOR UPDATE knows. *)

\* An allocation concerns one existing row.
OneRow ==
    \A s \in Session : pc[s] \in {"wait", "locked"} =>
        \E k \in present : req[s].skus = {k}

\* A key without a row has nothing allocated.
AbsentIsEmpty == \A k \in Sku \ present : row[k].allocated = 0

Locking == OneRow /\ AbsentIsEmpty /\ LockedReadIsCurrent /\ AllocatedIsPromised

LEMMA LockingInit == Init => Locking
  BY DEF Init, Locking, OneRow, AbsentIsEmpty, LockedReadIsCurrent,
         AllocatedIsPromised, EmptyRow

\* Closing session s and releasing its locks, with the rows as they were.
LEMMA RollbackLocking ==
    ASSUME Typed, Locking, NEW s \in Session, Rollback(s)
    PROVE  Locking'
<1>1. /\ pc'[s] = "idle"
      /\ \A t \in Session \ {s} : /\ pc'[t] = pc[t] /\ req'[t] = req[t]
                                  /\ snap'[t] = snap[t]
  BY DEF Rollback, Close, Typed, TypeOK
<1>2. \A k \in Sku : lock[k] # s => lock'[k] = lock[k]
  BY DEF Rollback, Unlocked
<1>3. row' = row /\ present' = present /\ promised' = promised
  BY DEF Rollback, stock
<1>4. LockedReadIsCurrent'
  <2> SUFFICES ASSUME NEW t \in Session, pc'[t] = "locked", NEW k \in req'[t].skus
               PROVE  lock'[k] = t /\ snap'[t][k] = row'[k]
    BY DEF LockedReadIsCurrent
  <2>1. t # s /\ pc[t] = "locked" /\ req'[t] = req[t] /\ snap'[t] = snap[t]
    BY <1>1
  <2>2. lock[k] = t /\ snap[t][k] = row[k]
    BY <2>1 DEF Locking, LockedReadIsCurrent
  <2>3. k \in Sku
    BY <2>1 DEF Typed, TypeOK, Request
  <2> QED
    BY <1>2, <1>3, <2>1, <2>2, <2>3
<1> QED
  BY <1>1, <1>3, <1>4 DEF Locking, OneRow, AbsentIsEmpty, AllocatedIsPromised

\* A write of session s to rows no other session holds, followed by the
\* release of its locks: the other sessions still know their rows.
LEMMA OthersStillKnow ==
    ASSUME Typed, Locking, NEW s \in Session,
           pc'[s] # "locked",
           \A t \in Session \ {s} : /\ pc'[t] = pc[t] /\ req'[t] = req[t]
                                  /\ snap'[t] = snap[t],
           \A k \in Sku : lock[k] \in Session \ {s} => lock'[k] = lock[k],
           \A k \in present : lock[k] \in Session \ {s} => row'[k] = row[k]
    PROVE  LockedReadIsCurrent'
<1> SUFFICES ASSUME NEW t \in Session, pc'[t] = "locked", NEW k \in req'[t].skus
             PROVE  lock'[k] = t /\ snap'[t][k] = row'[k]
  BY DEF LockedReadIsCurrent
<1>1. t # s /\ pc[t] = "locked" /\ req'[t] = req[t] /\ snap'[t] = snap[t]
  OBVIOUS
<1>2. lock[k] = t /\ snap[t][k] = row[k] /\ k \in present
  BY <1>1 DEF Locking, LockedReadIsCurrent, OneRow
<1>3. k \in Sku
  BY <1>1 DEF Typed, TypeOK, Request
<1> QED
  BY <1>1, <1>2, <1>3

LEMMA CommitRowsKeepsAllocated ==
    ASSUME TypeOK, NEW s \in Session, CommitRows(s)
    PROVE  /\ \A k \in Sku : row'[k].allocated = row[k].allocated
           /\ \A k \in Sku : lock[k] # s => row'[k] = row[k] /\ lock'[k] = lock[k]
<1>1. \A k \in Sku : k \in Held(s) <=> lock[k] = s
  BY DEF Held
<1> QED
  BY <1>1, WrittenIsRow DEF CommitRows, Unlocked

LEMMA WriteLockedLocking ==
    ASSUME Typed, Locking, NEW s \in Session, NEW k \in Sku, NEW change \in Int,
           pc[s] = "locked", k \in req[s].skus, WriteLocked(s, k, change)
    PROVE  /\ Locking'
           /\ row[k].allocated = snap[s][k].allocated
           /\ row'[k].allocated = row[k].allocated + change
           /\ row'[k].available = row[k].available - change
           /\ row'[k].total = row[k].total
           /\ \A j \in Sku \ {k} : row'[j] = row[j]
<1>1. lock[k] = s /\ snap[s][k] = row[k] /\ k \in present
  BY DEF Locking, LockedReadIsCurrent, OneRow
<1>2. row[k] \in Row /\ promised[k] \in Int
  BY DEF Typed, TypeOK
<1>3. /\ row'[k].allocated = row[k].allocated + change
      /\ row'[k].available = row[k].available - change
      /\ row'[k].total = row[k].total
      /\ \A j \in Sku \ {k} : row'[j] = row[j]
  BY <1>1, <1>2 DEF WriteLocked, Reserved, Row, Typed, TypeOK
<1>4. \A j \in Sku : lock[j] # s => lock'[j] = lock[j] /\ row'[j] = row[j]
  BY <1>1, <1>3 DEF WriteLocked, Unlocked
<1>5. /\ pc'[s] = "idle"
      /\ \A t \in Session \ {s} : /\ pc'[t] = pc[t] /\ req'[t] = req[t]
                                  /\ snap'[t] = snap[t]
  BY DEF WriteLocked, Close, Typed, TypeOK
<1>6. present' = present /\ present \subseteq Sku
  BY DEF WriteLocked, Typed, TypeOK
<1>7. LockedReadIsCurrent'
  BY <1>4, <1>5, <1>6, OthersStillKnow
<1>8. AllocatedIsPromised'
  BY <1>2, <1>3 DEF WriteLocked, Locking, AllocatedIsPromised, Typed, TypeOK
<1>9. OneRow' /\ AbsentIsEmpty'
  BY <1>1, <1>3, <1>5, <1>6 DEF Locking, OneRow, AbsentIsEmpty
<1> QED
  BY <1>1, <1>3, <1>7, <1>8, <1>9 DEF Locking

LEMMA CommitRowsLocking ==
    ASSUME Typed, Locking, NEW s \in Session, CommitRows(s),
           pc'[s] \notin {"wait", "locked"},
           \A t \in Session \ {s} : /\ pc'[t] = pc[t] /\ req'[t] = req[t]
                                  /\ snap'[t] = snap[t]
    PROVE  Locking'
<1>1. /\ \A k \in Sku : row'[k].allocated = row[k].allocated
      /\ \A k \in Sku : lock[k] # s => row'[k] = row[k] /\ lock'[k] = lock[k]
  BY CommitRowsKeepsAllocated DEF Typed
<1>2. present' = present /\ promised' = promised /\ present \subseteq Sku
  BY DEF CommitRows, Typed, TypeOK
<1>3. LockedReadIsCurrent'
  BY <1>1, <1>2, OthersStillKnow
<1> QED
  BY <1>1, <1>2, <1>3 DEF Locking, OneRow, AbsentIsEmpty, AllocatedIsPromised

\* The steps that read rows or work inside the session: nothing a lock holder
\* relies on changes.
LEMMA ReadLocking ==
    ASSUME Typed, Locking, NEW s \in Session,
           pc[s] \notin {"wait", "locked"}, pc'[s] \notin {"wait", "locked"},
           \A t \in Session \ {s} : /\ pc'[t] = pc[t] /\ req'[t] = req[t]
                                  /\ snap'[t] = snap[t],
           \A k \in Sku : lock[k] \in Session \ {s} => lock'[k] = lock[k],
           row' = row, present' = present, promised' = promised
    PROVE  Locking'
<1>1. LockedReadIsCurrent'
  BY OthersStillKnow
<1> QED
  BY <1>1 DEF Locking, OneRow, AbsentIsEmpty, AllocatedIsPromised

LEMMA LockingStep ==
    ASSUME Typed, Locking, [Next]_vars
    PROVE  Locking'
<1>1. CASE UNCHANGED vars
  BY <1>1 DEF vars, stock, local, history, Locking, OneRow, AbsentIsEmpty,
              LockedReadIsCurrent, AllocatedIsPromised
<1>2. ASSUME NEW s \in Session, NEW op \in Ops, NEW k \in Sku, NEW q \in Qty,
             ReceiveLocked(s, op, k, q)
      PROVE  Locking'
  <2>1. /\ pc'[s] = "wait" /\ req'[s].skus = {k} /\ k \in present
        /\ \A t \in Session \ {s} : pc'[t] = pc[t] /\ req'[t] = req[t]
        /\ row' = row /\ present' = present /\ promised' = promised
        /\ lock' = lock /\ snap' = snap
    BY <1>2 DEF ReceiveLocked, stock, history, Typed, TypeOK
  <2>2. LockedReadIsCurrent'
    BY <2>1, OthersStillKnow
  <2> QED
    BY <2>1, <2>2 DEF Locking, OneRow, AbsentIsEmpty, AllocatedIsPromised
<1>3. ASSUME NEW s \in Session, NEW k \in Sku, NEW t \in Amount,
             ReceiveUpsert(s, k, t)
      PROVE  Locking'
  BY <1>3, ReadLocking
     DEF ReceiveUpsert, ReadRows, stock, history, Typed, TypeOK
<1>4. ASSUME NEW s \in Session, NEW ks \in SUBSET Sku, NEW mode \in Modes,
             NEW v \in Amount, NEW sync \in BOOLEAN,
             ReceiveBulk(s, ks, mode, v, sync)
      PROVE  Locking'
  BY <1>4, ReadLocking
     DEF ReceiveBulk, ReadRows, stock, history, Typed, TypeOK
<1>5. ASSUME NEW s \in Session, NEW k \in Sku, ReceiveSeed(s, k)
      PROVE  Locking'
  BY <1>5, ReadLocking
     DEF ReceiveSeed, ReadRows, stock, history, Typed, TypeOK
<1>6. ASSUME NEW s \in Session, NEW k \in Sku, LockRow(s, k)
      PROVE  Locking'
  <2>1. /\ pc[s] = "wait" /\ pc'[s] = "locked" /\ req' = req /\ k \in req[s].skus
        /\ \A t \in Session \ {s} : pc'[t] = pc[t] /\ snap'[t] = snap[t]
        /\ row' = row /\ present' = present /\ promised' = promised
        /\ lock[k] = NoSession /\ lock'[k] = s /\ snap'[s][k] = row[k]
        /\ \A j \in Sku \ {k} : lock'[j] = lock[j]
    BY <1>6 DEF LockRow, RowFree, stock, history, Typed, TypeOK
  <2>2. req[s].skus = {k}
    BY <2>1 DEF Locking, OneRow
  <2>3. ASSUME NEW t \in Session, pc'[t] = "locked", NEW j \in req'[t].skus
        PROVE  lock'[j] = t /\ snap'[t][j] = row'[j]
    <3>1. CASE t = s
      BY <2>1, <2>2, <2>3, <3>1
    <3>2. CASE t # s
      <4>1. lock[j] = t /\ snap[t][j] = row[j] /\ j \in Sku
        BY <2>1, <2>3, <3>2 DEF Locking, LockedReadIsCurrent, Typed, TypeOK, Request
      <4> QED
        BY <2>1, <3>2, <4>1
    <3> QED
      BY <3>1, <3>2
  <2>4. LockedReadIsCurrent'
    BY <2>3 DEF LockedReadIsCurrent
  <2> QED
    BY <2>1, <2>4 DEF Locking, OneRow, AbsentIsEmpty, AllocatedIsPromised
<1>7. ASSUME NEW s \in Session, NEW k \in Sku, FlushRow(s, k)
      PROVE  Locking'
  BY <1>7, ReadLocking DEF FlushRow, RowFree, stock, history, Typed, TypeOK
<1>8. ASSUME NEW s \in Session, NEW k \in Sku, Allocate(s, k) \/ Deallocate(s, k)
      PROVE  Locking'
  <2>1. pc[s] = "locked" /\ k \in req[s].skus /\ req[s].amount \in Int
    BY <1>8 DEF Allocate, Deallocate, Typed, TypeOK, Request
  <2>2. -req[s].amount \in Int
    BY <2>1
  <2> QED
    BY <1>8, <2>1, <2>2, WriteLockedLocking DEF Allocate, Deallocate
<1>9. ASSUME NEW s \in Session, Rollback(s)
      PROVE  Locking'
  BY <1>9, RollbackLocking
<1>10. ASSUME NEW s \in Session, NEW k \in Sku, Insert(s, k)
       PROVE  Locking'
  <2>1. /\ pc'[s] = "idle" /\ k \notin present /\ present' = present \cup {k}
        /\ row'[k].allocated = 0 /\ lock' = lock /\ promised' = promised
        /\ \A j \in Sku \ {k} : row'[j] = row[j]
        /\ \A t \in Session \ {s} : /\ pc'[t] = pc[t] /\ req'[t] = req[t]
                                    /\ snap'[t] = snap[t]
    BY <1>10 DEF Insert, Close, Typed, TypeOK
  <2>2. present \subseteq Sku
    BY DEF Typed, TypeOK
  <2>3. LockedReadIsCurrent'
    BY <2>1, <2>2, OthersStillKnow
  <2>4. promised[k] = 0
    BY <2>1 DEF Locking, AbsentIsEmpty, AllocatedIsPromised
  <2>5. AllocatedIsPromised'
    BY <2>1, <2>4 DEF Locking, AllocatedIsPromised
  <2> QED
    BY <2>1, <2>3, <2>5 DEF Locking, OneRow, AbsentIsEmpty
<1>11. ASSUME NEW s \in Session, NEW k \in Sku, InsertConflict(s, k)
       PROVE  Locking'
  BY <1>11, ReadLocking DEF InsertConflict, Close, stock, Typed, TypeOK
<1>12. ASSUME NEW s \in Session, NEW k \in Sku, EditRow(s, k)
       PROVE  Locking'
  BY <1>12, ReadLocking DEF EditRow, stock, history, Typed, TypeOK
<1>13. ASSUME NEW s \in Session, NEW k \in Sku, NEW accepted \in BOOLEAN,
              Push(s, k, accepted)
       PROVE  Locking'
  BY <1>13, ReadLocking DEF Push, Typed, TypeOK
<1>14. ASSUME NEW s \in Session, Commit(s)
       PROVE  Locking'
  BY <1>14, CommitRowsLocking DEF Commit, Close, Typed, TypeOK
<1>15. ASSUME NEW s \in Session, RefreshCommit(s)
       PROVE  Locking'
  BY <1>15, CommitRowsLocking DEF RefreshCommit, Typed, TypeOK
<1>16. CASE Next
  BY <1>16, StepCases, <1>2, <1>3, <1>4, <1>5, <1>6, <1>7, <1>8, <1>9, <1>10,
     <1>11, <1>12, <1>13, <1>14, <1>15 DEF Reject, DeadlockVictim, Crash
<1> QED
  BY <1>1, <1>16

LEMMA LockingAlways == Spec => [](Typed /\ Locking)
<1>1. Init => Typed /\ Locking
  BY TypedInit, LockingInit
<1>2. Typed /\ Locking /\ [Next]_vars => (Typed /\ Locking)'
  BY TypedStep, LockingStep
<1> QED
  BY <1>1, <1>2, PTL DEF Spec

\* No allocation and no release is lost: for any number of sessions and any
\* mix of endpoints the allocated column is the ledger of what was granted.
THEOREM AllocationsExact == Spec => []AllocatedIsPromised
<1>1. Typed /\ Locking => AllocatedIsPromised
  BY DEF Locking
<1> QED
  BY <1>1, LockingAlways, PTL

\* The check under FOR UPDATE and the write that follows see the same row.
THEOREM LockedReadsCurrent == Spec => []LockedReadIsCurrent
<1>1. Typed /\ Locking => LockedReadIsCurrent
  BY DEF Locking
<1> QED
  BY <1>1, LockingAlways, PTL

-----------------------------------------------------------------------------
(* What a step can do to the rows: nothing, one grant or release, one       *)
(* insertion, or the commit of one session's edits.                         *)

Moves(k, change) ==
    /\ row'[k].allocated = row[k].allocated + change
    /\ row'[k].available = row[k].available - change
    /\ row'[k].total = row[k].total
    /\ \A j \in Sku \ {k} : row'[j] = row[j]
    /\ promised' = [promised EXCEPT ![k] = promised[k] + change]
    /\ raced' = raced /\ clamped' = clamped

Inserts(k) ==
    /\ row'[k].allocated = 0 /\ row'[k].available = row'[k].total
    /\ row[k].allocated = 0
    /\ k \notin present
    /\ \A j \in Sku \ {k} : row'[j] = row[j]
    /\ promised' = promised /\ raced' = raced /\ clamped' = clamped

Keeps == /\ row' = row /\ promised' = promised
         /\ raced' = raced /\ clamped' = clamped

LEMMA MovesStep ==
    ASSUME Typed, Locking, NEW s \in Session, NEW k \in Sku
    PROVE  /\ Allocate(s, k) => \E q \in Qty : Moves(k, q)
           /\ Deallocate(s, k) =>
                 \E q \in Qty : q <= promised[k] /\ Moves(k, -q)
<1>1. ASSUME Allocate(s, k)
      PROVE  \E q \in Qty : Moves(k, q)
  <2>1. /\ pc[s] = "locked" /\ k \in req[s].skus
        /\ WriteLocked(s, k, req[s].amount)
    BY <1>1 DEF Allocate
  <2>2. req[s].amount \in Qty /\ req[s].amount \in Int
    BY <2>1, AmountOf
  <2>3. Moves(k, req[s].amount)
    BY <2>1, <2>2, WriteLockedLocking DEF Moves, WriteLocked
  <2> QED
    BY <2>2, <2>3
<1>2. ASSUME Deallocate(s, k)
      PROVE  \E q \in Qty : q <= promised[k] /\ Moves(k, -q)
  <2>1. /\ pc[s] = "locked" /\ k \in req[s].skus
        /\ WriteLocked(s, k, -req[s].amount)
        /\ req[s].amount <= snap[s][k].allocated
    BY <1>2 DEF Deallocate
  <2>2. req[s].amount \in Qty /\ -req[s].amount \in Int
    BY <2>1, AmountOf
  <2>3. Moves(k, -req[s].amount) /\ row[k].allocated = snap[s][k].allocated
    BY <2>1, <2>2, WriteLockedLocking DEF Moves, WriteLocked
  <2>4. req[s].amount <= promised[k]
    BY <2>1, <2>3 DEF Locking, AllocatedIsPromised
  <2> QED
    BY <2>2, <2>3, <2>4
<1> QED
  BY <1>1, <1>2

LEMMA RowSteps ==
    ASSUME Typed, Locking, [Next]_vars
    PROVE  \/ Keeps
           \/ \E k \in Sku, q \in Qty : Moves(k, q)
           \/ \E k \in Sku, q \in Qty : q <= promised[k] /\ Moves(k, -q)
           \/ \E k \in Sku : Inserts(k)
           \/ \E s \in Session : CommitRows(s)
<1>1. CASE UNCHANGED vars
  BY <1>1 DEF vars, stock, history, Keeps
<1>2. ASSUME NEW s \in Session, NEW k \in Sku, Insert(s, k)
      PROVE  Inserts(k)
  <2>1. row'[k] = [total |-> req[s].amount, allocated |-> 0,
                   available |-> req[s].amount]
    BY <1>2 DEF Insert, Typed, TypeOK
  <2> QED
    BY <1>2, <2>1 DEF Insert, Inserts, Typed, TypeOK, Locking, AbsentIsEmpty
<1>3. ASSUME NEW s \in Session, Rollback(s)
      PROVE  Keeps
  BY <1>3 DEF Rollback, Keeps, stock
<1>4. ASSUME NEW s \in Session, NEW op \in Ops, NEW k \in Sku, NEW q \in Qty,
             ReceiveLocked(s, op, k, q)
      PROVE  Keeps
  BY <1>4 DEF ReceiveLocked, Keeps, stock, history
<1>5. ASSUME NEW s \in Session, NEW r \in Request, ReadRows(s, r)
      PROVE  Keeps
  BY <1>5 DEF ReadRows, Keeps, stock, history
<1>6. ASSUME NEW s \in Session, NEW k \in Sku, NEW t \in Amount,
             ReceiveUpsert(s, k, t)
      PROVE  Keeps
  BY <1>6 DEF ReceiveUpsert, ReadRows, Keeps, stock, history
<1>7. ASSUME NEW s \in Session, NEW ks \in SUBSET Sku, NEW mode \in Modes,
             NEW v \in Amount, NEW sync \in BOOLEAN,
             ReceiveBulk(s, ks, mode, v, sync)
      PROVE  Keeps
  BY <1>7 DEF ReceiveBulk, ReadRows, Keeps, stock, history
<1>8. ASSUME NEW s \in Session, NEW k \in Sku,
             \/ ReceiveSeed(s, k) \/ LockRow(s, k) \/ FlushRow(s, k)
             \/ InsertConflict(s, k) \/ EditRow(s, k)
             \/ \E accepted \in BOOLEAN : Push(s, k, accepted)
      PROVE  Keeps
  BY <1>8 DEF ReceiveSeed, ReadRows, LockRow, FlushRow, InsertConflict, EditRow,
              Push, Keeps, stock, history
<1>9. ASSUME NEW s \in Session, Commit(s) \/ RefreshCommit(s)
      PROVE  CommitRows(s)
  BY <1>9 DEF Commit, RefreshCommit
<1>10. ASSUME NEW s \in Session,
              (\E k \in Sku : Reject(s, k)) \/ DeadlockVictim(s) \/ Crash(s)
       PROVE  Keeps
  BY <1>3, <1>10 DEF Reject, DeadlockVictim, Crash
<1>11. CASE Next
  BY <1>11, StepCases, MovesStep, <1>2, <1>4, <1>6, <1>7, <1>8, <1>9, <1>10
<1> QED
  BY <1>1, <1>11

\* A grant or a release moves units between allocated and available, with
\* their sum and the total as they were.
THEOREM AllocationsConserve == Spec => AllocationConserves
<1> DEFINE Conserved(k) ==
        row'[k].allocated # row[k].allocated =>
           /\ row'[k].allocated + row'[k].available
                = row[k].allocated + row[k].available
           /\ row'[k].total = row[k].total
<1>1. ASSUME Typed, Locking, [Next]_vars, NEW k \in Sku
      PROVE  Conserved(k)
  <2>1. row[k] \in Row
    BY <1>1 DEF Typed, TypeOK
  <2>2. ASSUME NEW j \in Sku, NEW c \in Int, Moves(j, c)
        PROVE  Conserved(k)
    BY <2>1, <2>2 DEF Moves, Row
  <2>3. ASSUME NEW j \in Sku, Inserts(j)
        PROVE  Conserved(k)
    BY <2>3 DEF Inserts
  <2>4. ASSUME NEW s \in Session, CommitRows(s)
        PROVE  Conserved(k)
    BY <1>1, <2>4, CommitRowsKeepsAllocated DEF Typed
  <2>5. Keeps => Conserved(k)
    BY DEF Keeps
  <2>6. \A q \in Qty : q \in Int /\ -q \in Int
    OBVIOUS
  <2> QED
    BY <1>1, <2>2, <2>3, <2>4, <2>5, <2>6, RowSteps
<1>2. Typed /\ Locking /\ [Next]_vars => [\A k \in Sku : Conserved(k)]_row
  BY <1>1
<1> QED
  BY <1>2, LockingAlways, PTL DEF Spec, AllocationConserves

-----------------------------------------------------------------------------
(* The balance of a row.  An edit that commits from a fresh read changes    *)
(* available by the change of the total, cut at zero.                       *)

LEMMA WrittenFresh ==
    ASSUME TypeOK, NEW s \in Session, NEW k \in Sku, snap[s][k] = row[k]
    PROVE  /\ Written(s, k).available = NonNeg(MovedAvailable(req[s], row[k]))
           /\ Written(s, k).total = NewTotal(req[s], row[k])
           /\ Written(s, k).allocated = row[k].allocated
<1>1. row[k] \in Row /\ req[s] \in Request
  BY DEF TypeOK
<1>2. Edited(req[s], row[k]) \in Row
  BY <1>1, EditedIsRow
<1>3. /\ Edited(req[s], row[k]).available = NonNeg(MovedAvailable(req[s], row[k]))
      /\ Edited(req[s], row[k]).total = NewTotal(req[s], row[k])
  BY <1>1 DEF Edited, Row
<1> QED
  BY <1>1, <1>2, <1>3 DEF Written, Row

Balance == StockLostOnlyByRace /\ StockBalanced

LEMMA CommitRowsBalance ==
    ASSUME TypeOK, Balance, NEW s \in Session, CommitRows(s)
    PROVE  Balance'
<1>1. ASSUME NEW k \in Sku, k \notin raced'
      PROVE  /\ row'[k].allocated + row'[k].available >= row'[k].total
             /\ k \notin clamped' =>
                   row'[k].allocated + row'[k].available = row'[k].total
  <2>1. k \notin raced /\ (k \in Held(s) => snap[s][k] = row[k])
    BY <1>1 DEF CommitRows
  <2>2. /\ row[k] \in Row /\ req[s] \in Request
        /\ row[k].allocated + row[k].available >= row[k].total
        /\ k \notin clamped => row[k].allocated + row[k].available = row[k].total
    BY <2>1 DEF TypeOK, Balance, StockLostOnlyByRace, StockBalanced
  <2>3. clamped \subseteq clamped'
    BY DEF CommitRows
  <2>4. CASE k \notin Held(s)
    BY <2>2, <2>3, <2>4 DEF CommitRows
  <2>5. CASE k \in Held(s)
    <3>1. /\ row'[k].available = NonNeg(MovedAvailable(req[s], row[k]))
          /\ row'[k].total = NewTotal(req[s], row[k])
          /\ row'[k].allocated = row[k].allocated
      BY <2>1, <2>5, WrittenFresh DEF CommitRows
    <3>2. NewTotal(req[s], row[k]) \in Nat
      BY <2>2, EditedIsRow
    <3>3. k \notin clamped' => MovedAvailable(req[s], row[k]) >= 0
      <4>1. MovedAvailable(req[s], row[k]) \in Int
        BY <2>2, EditedIsRow
      <4>2. MovedAvailable(req[s], row[k]) < 0 => k \in clamped'
        BY <2>1, <2>5 DEF CommitRows
      <4> QED
        BY <4>1, <4>2
    <3> QED
      BY <2>2, <2>3, <3>1, <3>2, <3>3 DEF MovedAvailable, NonNeg, Row
  <2> QED
    BY <2>4, <2>5
<1> QED
  BY <1>1 DEF Balance, StockLostOnlyByRace, StockBalanced

LEMMA BalanceStep ==
    ASSUME Typed, Locking, Balance, [Next]_vars
    PROVE  Balance'
<1>1. CASE Keeps
  BY <1>1 DEF Keeps, Balance, StockLostOnlyByRace, StockBalanced
<1>2. ASSUME NEW k \in Sku, NEW change \in Int, Moves(k, change)
      PROVE  Balance'
  <2>1. \A j \in Sku : /\ row[j] \in Row
                       /\ row'[j].allocated + row'[j].available
                            = row[j].allocated + row[j].available
                       /\ row'[j].total = row[j].total
    <3>1. \A j \in Sku : row[j] \in Row
      BY DEF Typed, TypeOK
    <3>2. /\ row'[k].allocated = row[k].allocated + change
          /\ row'[k].available = row[k].available - change
          /\ row'[k].total = row[k].total
          /\ \A j \in Sku \ {k} : row'[j] = row[j]
      BY <1>2 DEF Moves
    <3>3. row[k].allocated \in Int /\ row[k].available \in Int
      BY <3>1 DEF Row
    <3>4. row'[k].allocated + row'[k].available
            = row[k].allocated + row[k].available
      BY <3>2, <3>3
    <3> QED
      BY <3>1, <3>2, <3>4
  <2> QED
    BY <1>2, <2>1 DEF Moves, Balance, StockLostOnlyByRace, StockBalanced
<1>3. ASSUME NEW k \in Sku, Inserts(k)
      PROVE  Balance'
  <2>1. row'[k] \in Row
    BY TypedStep DEF Typed, TypeOK
  <2>2. /\ row'[k].allocated + row'[k].available = row'[k].total
        /\ row'[k].allocated + row'[k].available >= row'[k].total
    BY <1>3, <2>1 DEF Inserts, Row
  <2> QED
    BY <1>3, <2>2 DEF Inserts, Balance, StockLostOnlyByRace, StockBalanced
<1>4. ASSUME NEW s \in Session, CommitRows(s)
      PROVE  Balance'
  BY <1>4, CommitRowsBalance DEF Typed
<1> QED
  BY <1>1, <1>2, <1>3, <1>4, RowSteps, QtyNat

LEMMA BalanceAlways == Spec => []Balance
<1>1. Init => Balance
  BY DEF Init, Balance, StockLostOnlyByRace, StockBalanced, EmptyRow
<1>2. Typed /\ Locking /\ Balance /\ [Next]_vars => Balance'
  BY BalanceStep
<1> QED
  BY <1>1, <1>2, LockingAlways, PTL DEF Spec

\* Stock is lost only on a row overwritten from a stale read.
THEOREM LostOnlyByRace == Spec => []StockLostOnlyByRace
<1>1. Balance => StockLostOnlyByRace
  BY DEF Balance
<1> QED
  BY <1>1, BalanceAlways, PTL

\* Apart from that, the columns differ only after a cut at zero.
THEOREM RowsBalanced == Spec => []StockBalanced
<1>1. Balance => StockBalanced
  BY DEF Balance
<1> QED
  BY <1>1, BalanceAlways, PTL

-----------------------------------------------------------------------------
(* The allocation endpoints implement the ledger: the initial state maps to *)
(* its initial state, and every step to a grant, a release or a stutter.    *)

LEMMA LedgerStep ==
    ASSUME Typed, Locking, [Next]_vars
    PROVE  [Ledger!Next]_(Ledger!ledgerVars)
<1> DEFINE column == [k \in Sku |-> row[k].allocated]
<1>1. \A k \in Sku : row[k].allocated = promised[k] /\ promised[k] \in Int
  BY DEF Locking, AllocatedIsPromised, Typed, TypeOK
<1>2. ASSUME NEW k \in Sku, NEW change \in Int, Moves(k, change)
      PROVE  column' = [column EXCEPT ![k] = promised[k] + change]
  BY <1>1, <1>2 DEF Moves
<1>3. ASSUME NEW k \in Sku, NEW q \in Qty, Moves(k, q)
      PROVE  Ledger!Grant(k, q)
  <2>1. column' = [column EXCEPT ![k] = promised[k] + q]
    BY <1>2, <1>3, QtyNat
  <2> QED
    BY <1>3, <2>1 DEF Moves, Ledger!Grant
<1>4. ASSUME NEW k \in Sku, NEW q \in Qty, q <= promised[k], Moves(k, -q)
      PROVE  Ledger!Release(k, q)
  <2>1. promised[k] + (-q) = promised[k] - q
    BY <1>1, QtyNat
  <2>2. column' = [column EXCEPT ![k] = promised[k] - q]
    BY <1>2, <1>4, <2>1, QtyNat
  <2> QED
    BY <1>4, <2>1, <2>2 DEF Moves, Ledger!Release
<1>5. ASSUME \A k \in Sku : row'[k].allocated = row[k].allocated,
             promised' = promised
      PROVE  UNCHANGED Ledger!ledgerVars
  <2>1. column' = column
    BY <1>5
  <2> QED
    BY <1>5, <2>1 DEF Ledger!ledgerVars
<1>6. CASE Keeps
  BY <1>5, <1>6 DEF Keeps
<1>7. CASE \E k \in Sku : Inserts(k)
  BY <1>5, <1>7 DEF Inserts
<1>8. CASE \E s \in Session : CommitRows(s)
  BY <1>5, <1>8, CommitRowsKeepsAllocated DEF Typed, CommitRows
<1> QED
  BY <1>3, <1>4, <1>6, <1>7, <1>8, RowSteps DEF Ledger!Next

\* Whatever upserts, bulk edits, rollbacks and deadlocks run beside them, the
\* allocation endpoints behave as the ledger: one grant or release at a time.
THEOREM ImplementsLedger == Spec => LedgerSpec
<1>1. Init => Ledger!Init
  BY DEF Init, Ledger!Init, EmptyRow
<1>2. Typed /\ Locking /\ [Next]_vars => [Ledger!Next]_(Ledger!ledgerVars)
  BY LedgerStep
<1> QED
  BY <1>1, <1>2, LockingAlways, PTL DEF Spec, LedgerSpec, Ledger!Spec

-----------------------------------------------------------------------------
(* The channel's stock.  While a session holds a row whose new total the    *)
(* channel accepted, the channel is ahead of the database by that edit.     *)

PushedAhead ==
    \A s \in Session : \A k \in pushed[s] :
        /\ lock[k] = s /\ pc[s] = "edit"
        /\ remote[k] = NewTotal(req[s], snap[s][k])

InStep ==
    \A k \in Sku \ drift :
        (\A s \in Session : k \notin pushed[s]) => remote[k] = row[k].total

RemoteInv == PushedAhead /\ InStep

LEMMA CommitRowsRemote ==
    ASSUME Typed, RemoteInv, NEW s \in Session, CommitRows(s), pushed'[s] = {},
           \A t \in Session \ {s} : /\ pc'[t] = pc[t] /\ req'[t] = req[t]
                                  /\ snap'[t] = snap[t] /\ pushed'[t] = pushed[t]
    PROVE  RemoteInv'
<1>1. /\ \A k \in Sku : lock[k] # s => row'[k] = row[k] /\ lock'[k] = lock[k]
      /\ \A k \in Sku : k \in Held(s) <=> lock[k] = s
      /\ remote' = remote
  BY CommitRowsKeepsAllocated DEF Typed, CommitRows, Held
<1>2. \A t \in Session : pushed[t] \subseteq Sku
  BY DEF Typed, TypeOK
<1>3. ASSUME NEW t \in Session, NEW k \in pushed'[t]
      PROVE  /\ lock'[k] = t /\ pc'[t] = "edit"
             /\ remote'[k] = NewTotal(req'[t], snap'[t][k])
  <2>1. t # s /\ k \in pushed[t] /\ k \in Sku
    BY <1>2, <1>3
  <2>2. lock[k] = t /\ pc[t] = "edit" /\ remote[k] = NewTotal(req[t], snap[t][k])
    BY <2>1 DEF RemoteInv, PushedAhead
  <2> QED
    BY <1>1, <2>1, <2>2
<1>4. ASSUME NEW k \in Sku, k \notin drift'
      PROVE  remote'[k] = row'[k].total \/ \E t \in Session : k \in pushed'[t]
  <2>1. CASE k \in pushed[s]
    <3>1. k \in Held(s) /\ remote[k] = NewTotal(req[s], snap[s][k])
      BY <1>1, <2>1 DEF RemoteInv, PushedAhead
    <3>2. row'[k].total = NewTotal(req[s], snap[s][k])
      BY <3>1, WrittenIsRow DEF CommitRows, Typed
    <3> QED
      BY <1>1, <3>1, <3>2
  <2>2. CASE k \notin pushed[s]
    <3>1. k \notin drift /\ lock[k] # s
      BY <1>1, <1>4, <2>2 DEF CommitRows
    <3> QED
      BY <1>1, <2>2, <3>1 DEF RemoteInv, InStep
  <2> QED
    BY <2>1, <2>2
<1>5. InStep'
  BY <1>4 DEF InStep
<1>6. PushedAhead'
  BY <1>3 DEF PushedAhead
<1> QED
  BY <1>5, <1>6 DEF RemoteInv

\* A step of s, with nothing pushed by s before or after, that takes no lock
\* from another session and changes no total the channel is in step with.
LEMMA OtherRemote ==
    ASSUME Typed, RemoteInv, NEW s \in Session, pushed[s] = {}, pushed'[s] = {},
           \A t \in Session \ {s} : /\ pc'[t] = pc[t] /\ req'[t] = req[t]
                                  /\ snap'[t] = snap[t] /\ pushed'[t] = pushed[t],
           \A k \in Sku : lock[k] \in Session \ {s} => lock'[k] = lock[k],
           drift \subseteq drift', remote' = remote,
           \A k \in Sku \ drift' : row'[k].total = row[k].total
    PROVE  RemoteInv'
<1>1. \A t \in Session : pushed[t] \subseteq Sku
  BY DEF Typed, TypeOK
<1>2. ASSUME NEW t \in Session, NEW k \in pushed'[t]
      PROVE  /\ lock'[k] = t /\ pc'[t] = "edit"
             /\ remote'[k] = NewTotal(req'[t], snap'[t][k])
  <2>1. t # s /\ k \in pushed[t] /\ k \in Sku
    BY <1>1, <1>2
  <2>2. lock[k] = t /\ pc[t] = "edit" /\ remote[k] = NewTotal(req[t], snap[t][k])
    BY <2>1 DEF RemoteInv, PushedAhead
  <2> QED
    BY <2>1, <2>2
<1>3. \A t \in Session : pushed'[t] = pushed[t]
  OBVIOUS
<1>4. InStep'
  BY <1>3 DEF RemoteInv, InStep
<1>5. PushedAhead'
  BY <1>2 DEF PushedAhead
<1> QED
  BY <1>4, <1>5 DEF RemoteInv

LEMMA PushRemote ==
    ASSUME Typed, RemoteInv, NEW s \in Session, NEW k \in Sku,
           NEW accepted \in BOOLEAN, Push(s, k, accepted)
    PROVE  RemoteInv'
<1>1. /\ row' = row /\ lock' = lock /\ pc' = pc /\ req' = req /\ snap' = snap
      /\ pc[s] = "edit"
  BY DEF Push
<1>2. \A t \in Session : pushed[t] \subseteq Sku
  BY DEF Typed, TypeOK
<1>3. CASE ~accepted
  BY <1>1, <1>3 DEF Push, RemoteInv, PushedAhead, InStep
<1>4. CASE accepted /\ lock[k] = s
  <2>1. /\ remote'[k] = NewTotal(req[s], snap[s][k])
        /\ \A j \in Sku \ {k} : remote'[j] = remote[j]
        /\ pushed'[s] = pushed[s] \cup {k}
        /\ \A t \in Session \ {s} : pushed'[t] = pushed[t]
        /\ drift' = drift
    BY <1>4 DEF Push, PushedTotal, Typed, TypeOK
  <2>2. ASSUME NEW t \in Session, NEW j \in pushed'[t]
        PROVE  lock[j] = t /\ pc[t] = "edit" /\ remote'[j] = NewTotal(req[t], snap[t][j])
    <3>1. CASE j = k /\ t = s
      BY <1>1, <1>4, <2>1, <3>1
    <3>2. CASE j # k \/ t # s
      <4>1. j \in pushed[t] /\ j \in Sku
        BY <1>2, <2>1, <2>2, <3>2
      <4>2. lock[j] = t /\ pc[t] = "edit" /\ remote[j] = NewTotal(req[t], snap[t][j])
        BY <4>1 DEF RemoteInv, PushedAhead
      <4> QED
        BY <1>4, <2>1, <3>2, <4>1, <4>2
    <3> QED
      BY <3>1, <3>2
  <2>3. InStep'
    BY <1>1, <1>2, <2>1 DEF RemoteInv, InStep
  <2>4. PushedAhead'
    BY <1>1, <2>2 DEF PushedAhead
  <2> QED
    BY <2>3, <2>4 DEF RemoteInv
<1>5. CASE accepted /\ lock[k] # s
  <2>1. /\ \A j \in Sku \ {k} : remote'[j] = remote[j]
        /\ \A t \in Session : pushed'[t] = pushed[t] \ {k}
        /\ drift' = drift \cup {k}
    BY <1>5 DEF Push, Typed, TypeOK
  <2>2. ASSUME NEW t \in Session, NEW j \in pushed'[t]
        PROVE  lock[j] = t /\ pc[t] = "edit" /\ remote'[j] = NewTotal(req[t], snap[t][j])
    <3>1. j \in pushed[t] /\ j \in Sku \ {k}
      BY <1>2, <2>1, <2>2
    <3>2. lock[j] = t /\ pc[t] = "edit" /\ remote[j] = NewTotal(req[t], snap[t][j])
      BY <3>1 DEF RemoteInv, PushedAhead
    <3> QED
      BY <2>1, <3>1, <3>2
  <2>3. InStep'
    BY <1>1, <2>1 DEF RemoteInv, InStep
  <2>4. PushedAhead'
    BY <1>1, <2>2 DEF PushedAhead
  <2> QED
    BY <2>3, <2>4 DEF RemoteInv
<1> QED
  BY <1>3, <1>4, <1>5

LEMMA RollbackRemote ==
    ASSUME Typed, RemoteInv, NEW s \in Session, Rollback(s)
    PROVE  RemoteInv'
<1>1. /\ \A t \in Session \ {s} : /\ pc'[t] = pc[t] /\ req'[t] = req[t]
                                  /\ snap'[t] = snap[t] /\ pushed'[t] = pushed[t]
      /\ pushed'[s] = {} /\ row' = row /\ remote' = remote
      /\ drift' = drift \cup pushed[s]
  BY DEF Rollback, Close, stock, Typed, TypeOK
<1>2. \A k \in Sku : lock[k] # s => lock'[k] = lock[k]
  BY DEF Rollback, Unlocked
<1>3. \A t \in Session : pushed[t] \subseteq Sku
  BY DEF Typed, TypeOK
<1>4. PushedAhead'
  BY <1>1, <1>2, <1>3 DEF RemoteInv, PushedAhead
<1>5. InStep'
  BY <1>1 DEF RemoteInv, InStep
<1> QED
  BY <1>4, <1>5 DEF RemoteInv

LEMMA RemoteStep ==
    ASSUME Typed, Locking, RemoteInv, [Next]_vars
    PROVE  RemoteInv'
<1> USE DEF Typed, TypeOK
<1>0. \A s \in Session : pc[s] # "edit" => pushed[s] = {}
  BY DEF RemoteInv, PushedAhead
<1>1. CASE UNCHANGED vars
  BY <1>1 DEF vars, stock, local, history, RemoteInv, PushedAhead, InStep
<1>2. ASSUME NEW s \in Session, NEW op \in Ops, NEW k \in Sku, NEW q \in Qty,
             ReceiveLocked(s, op, k, q)
      PROVE  RemoteInv'
  BY <1>0, <1>2, OtherRemote DEF ReceiveLocked, stock, history
<1>3. ASSUME NEW s \in Session, NEW k \in Sku, NEW t \in Amount,
             ReceiveUpsert(s, k, t)
      PROVE  RemoteInv'
  BY <1>0, <1>3, OtherRemote DEF ReceiveUpsert, ReadRows, stock, history
<1>4. ASSUME NEW s \in Session, NEW ks \in SUBSET Sku, NEW mode \in Modes,
             NEW v \in Amount, NEW sync \in BOOLEAN,
             ReceiveBulk(s, ks, mode, v, sync)
      PROVE  RemoteInv'
  BY <1>0, <1>4, OtherRemote DEF ReceiveBulk, ReadRows, stock, history
<1>5. ASSUME NEW s \in Session, NEW k \in Sku, ReceiveSeed(s, k)
      PROVE  RemoteInv'
  BY <1>0, <1>5, OtherRemote DEF ReceiveSeed, ReadRows, stock, history
<1>6. ASSUME NEW s \in Session, NEW k \in Sku, LockRow(s, k)
      PROVE  RemoteInv'
  BY <1>0, <1>6, OtherRemote DEF LockRow, RowFree, stock, history
<1>7. ASSUME NEW s \in Session, NEW k \in Sku, FlushRow(s, k)
      PROVE  RemoteInv'
  BY <1>7 DEF FlushRow, RowFree, stock, history, RemoteInv, PushedAhead, InStep
<1>8. ASSUME NEW s \in Session, NEW k \in Sku, Allocate(s, k) \/ Deallocate(s, k)
      PROVE  RemoteInv'
  <2>1. /\ pc[s] = "locked" /\ k \in req[s].skus
        /\ req[s].amount \in Int /\ -req[s].amount \in Int
        /\ \/ WriteLocked(s, k, req[s].amount)
           \/ WriteLocked(s, k, -req[s].amount)
    BY <1>8, AmountOf DEF Allocate, Deallocate
  <2>2. \A j \in Sku : row'[j].total = row[j].total
    BY <2>1, WriteLockedLocking
  <2>3. /\ \A t \in Session \ {s} : /\ pc'[t] = pc[t] /\ req'[t] = req[t]
                                    /\ snap'[t] = snap[t] /\ pushed'[t] = pushed[t]
        /\ pushed'[s] = {}
    BY <2>1, <1>0 DEF WriteLocked, Close, Typed, TypeOK
  <2>4. /\ remote' = remote /\ drift' = drift
        /\ \A j \in Sku : lock[j] # s => lock'[j] = lock[j]
    BY <2>1 DEF WriteLocked, Unlocked
  <2>5. /\ pushed[s] = {} /\ drift \subseteq drift'
        /\ \A j \in Sku : lock[j] \in Session \ {s} => lock'[j] = lock[j]
        /\ \A j \in Sku \ drift' : row'[j].total = row[j].total
    BY <1>0, <2>1, <2>2, <2>4
  <2> HIDE DEF Typed, TypeOK
  <2> QED
    BY <2>3, <2>4, <2>5, OtherRemote
<1>9. ASSUME NEW s \in Session, Rollback(s)
      PROVE  RemoteInv'
  BY <1>9, RollbackRemote
<1>10. ASSUME NEW s \in Session, NEW k \in Sku, Insert(s, k)
       PROVE  RemoteInv'
  <2>1. /\ pc[s] # "edit" /\ remote' = remote /\ drift' = drift \cup {k}
        /\ lock' = lock /\ \A j \in Sku \ {k} : row'[j] = row[j]
        /\ pushed'[s] = {}
        /\ \A t \in Session \ {s} : /\ pc'[t] = pc[t] /\ req'[t] = req[t]
                                    /\ snap'[t] = snap[t] /\ pushed'[t] = pushed[t]
    BY <1>10 DEF Insert, Close
  <2> QED
    BY <1>0, <2>1, OtherRemote
<1>11. ASSUME NEW s \in Session, NEW k \in Sku, InsertConflict(s, k)
       PROVE  RemoteInv'
  BY <1>0, <1>11, OtherRemote DEF InsertConflict, Close, stock
<1>12. ASSUME NEW s \in Session, NEW k \in Sku, EditRow(s, k)
       PROVE  RemoteInv'
  BY <1>12 DEF EditRow, stock, history, RemoteInv, PushedAhead, InStep
<1>13. ASSUME NEW s \in Session, NEW k \in Sku, NEW accepted \in BOOLEAN,
              Push(s, k, accepted)
       PROVE  RemoteInv'
  BY <1>13, PushRemote
<1>14. ASSUME NEW s \in Session, Commit(s)
       PROVE  RemoteInv'
  BY <1>14, CommitRowsRemote DEF Commit, Close
<1>15. ASSUME NEW s \in Session, RefreshCommit(s)
       PROVE  RemoteInv'
  BY <1>15, CommitRowsRemote DEF RefreshCommit
<1>16. CASE Next
  BY <1>16, StepCases, <1>2, <1>3, <1>4, <1>5, <1>6, <1>7, <1>8, <1>9, <1>10,
     <1>11, <1>12, <1>13, <1>14, <1>15 DEF Reject, DeadlockVictim, Crash
<1> QED
  BY <1>1, <1>16

\* A row that no session holds shows its total on the channel, unless its last
\* change was not pushed, was rolled back after the push, or was pushed after
\* an early commit.
THEOREM RemoteStaysInStep == Spec => []RemoteInStep
<1>1. Init => RemoteInv
  BY DEF Init, RemoteInv, PushedAhead, InStep
<1>2. Typed /\ Locking /\ RemoteInv /\ [Next]_vars => RemoteInv'
  BY RemoteStep
<1>3. RemoteInv => RemoteInStep
  BY DEF RemoteInv, PushedAhead, InStep, RemoteInStep
<1> QED
  BY <1>1, <1>2, <1>3, LockingAlways, PTL DEF Spec

-----------------------------------------------------------------------------
(* Deadlocks.  A request that waits for a row lock holds none, unless it is *)
(* a bulk edit; one that calls no channel takes its locks in the order of   *)
(* the keys.                                                                *)

Chosen(s) == req[s].skus

\* The locks of a session are of rows its request chose, and end with it.
LocksAreChosen ==
    \A s \in Session :
        /\ Held(s) \cup dirty[s] \cup todo[s] \subseteq Chosen(s)
        /\ pc[s] \in {"idle", "wait", "insert"} => Held(s) = {}
        /\ pc[s] # "edit" => dirty[s] = {} /\ todo[s] = {} /\ pushing[s] = {}
        /\ pc[s] = "idle" => Chosen(s) = {} /\ req[s].op # "bulk" /\ ~req[s].sync

\* Only a bulk edit chooses several rows, and only it calls a channel.
OneRowUnlessBulk ==
    \A s \in Session : req[s].op # "bulk" =>
        ~req[s].sync /\ \A j, k \in Chosen(s) : j = k

\* Without channel calls every row is edited before the first UPDATE, and the
\* UPDATEs go out in the order of the keys.
LocksInKeyOrder ==
    \A s \in Session : ~req[s].sync =>
        /\ pushing[s] = {}
        /\ Held(s) # {} => todo[s] = {}
        /\ \A j \in Held(s), k \in dirty[s] : j < k

LockInv == LocksAreChosen /\ OneRowUnlessBulk /\ LocksInKeyOrder

\* A victim of the deadlock detector is a bulk edit.
VictimsAreBulkEdits == \A s \in Session : Deadlocked(s) => req[s].op = "bulk"

\* Sessions that wait for each other's locks, whoever is chosen among them.
Cycle(S) ==
    /\ S \subseteq Session /\ S # {}
    /\ \A t \in S : \E k \in Sku : WaitsFor(t, k) /\ lock[k] \in S
    /\ \A t \in S : \E u \in S, k \in Sku : WaitsFor(u, k) /\ lock[k] = t

\* One of them calls its channel between its locks.
CyclesPush == \A S \in SUBSET Session : Cycle(S) => \E s \in S : req[s].sync

\* The end of a session, whose locks are free by then.
LEMMA CloseLocks ==
    ASSUME Typed, LockInv, NEW s \in Session, Close(s),
           \/ lock' = Unlocked(s)
           \/ lock' = lock /\ Held(s) = {}
    PROVE  LockInv'
<1>1. /\ pc'[s] = "idle" /\ req'[s] = NoRequest /\ todo'[s] = {} /\ dirty'[s] = {}
      /\ pushing'[s] = {}
      /\ \A t \in Session \ {s} : /\ pc'[t] = pc[t] /\ req'[t] = req[t] /\ todo'[t] = todo[t]
                                  /\ dirty'[t] = dirty[t] /\ pushing'[t] = pushing[t]
  BY DEF Close, Typed, TypeOK
<1>2. Held(s)' = {} /\ \A t \in Session \ {s} : Held(t)' = Held(t)
  BY DEF Held, Unlocked, Typed, TypeOK
<1> QED
  BY <1>1, <1>2 DEF LockInv, LocksAreChosen, OneRowUnlessBulk, LocksInKeyOrder, Chosen,
                    NoRequest

\* A request that starts holds nothing.
LEMMA ReadLocks ==
    ASSUME Typed, LockInv, NEW s \in Session, pc[s] = "idle", NEW r \in Request,
           req' = [req EXCEPT ![s] = r],
           NEW p \in {"wait", "insert", "edit"}, pc' = [pc EXCEPT ![s] = p],
           NEW todos \in SUBSET r.skus, todo' = [todo EXCEPT ![s] = todos],
           p # "edit" => todos = {},
           r.op # "bulk" => ~r.sync /\ \A j, k \in r.skus : j = k,
           UNCHANGED <<lock, dirty, pushing>>
    PROVE  LockInv'
<1>1. /\ pc'[s] = p /\ req'[s] = r /\ todo'[s] = todos
      /\ dirty'[s] = {} /\ pushing'[s] = {} /\ Held(s)' = {}
  BY DEF LockInv, LocksAreChosen, Held, Typed, TypeOK
<1>2. \A t \in Session \ {s} : /\ pc'[t] = pc[t] /\ req'[t] = req[t] /\ todo'[t] = todo[t]
                               /\ dirty'[t] = dirty[t] /\ pushing'[t] = pushing[t]
                               /\ Held(t)' = Held(t)
  BY DEF Held, Typed, TypeOK
<1> QED
  BY <1>1, <1>2 DEF LockInv, LocksAreChosen, OneRowUnlessBulk, LocksInKeyOrder, Chosen

\* A lock that is taken was free.
LEMMA TakenLocks ==
    ASSUME Typed, NEW s \in Session, NEW k \in Sku, RowFree(k),
           lock' = [lock EXCEPT ![k] = s]
    PROVE  /\ Held(s)' = Held(s) \cup {k}
           /\ \A t \in Session \ {s} : Held(t)' = Held(t)
  BY DEF RowFree, Held, Typed, TypeOK

LEMMA LockRowLocks ==
    ASSUME Typed, Locking, LockInv, NEW s \in Session, NEW k \in Sku, LockRow(s, k)
    PROVE  LockInv'
<1>1. /\ pc[s] = "wait" /\ pc'[s] = "locked" /\ k \in Chosen(s) /\ req' = req
      /\ UNCHANGED <<todo, dirty, pushing>>
      /\ \A t \in Session \ {s} : pc'[t] = pc[t]
  BY DEF LockRow, Chosen, Typed, TypeOK
<1>2. Held(s)' = Held(s) \cup {k} /\ \A t \in Session \ {s} : Held(t)' = Held(t)
  BY TakenLocks DEF LockRow
<1> QED
  BY <1>1, <1>2 DEF LockInv, LocksAreChosen, OneRowUnlessBulk, LocksInKeyOrder, Chosen

LEMMA FlushRowLocks ==
    ASSUME Typed, LockInv, NEW s \in Session, NEW k \in Sku, FlushRow(s, k)
    PROVE  LockInv'
<1>1. /\ pc[s] = "edit" /\ k \in dirty[s] /\ \A j \in dirty[s] : k <= j
      /\ pushing[s] # {} \/ todo[s] = {}
      /\ dirty'[s] = dirty[s] \ {k}
      /\ \A t \in Session \ {s} : dirty'[t] = dirty[t]
      /\ UNCHANGED <<pc, req, todo, pushing>>
  BY DEF FlushRow, Typed, TypeOK
<1>2. Held(s)' = Held(s) \cup {k} /\ \A t \in Session \ {s} : Held(t)' = Held(t)
  BY TakenLocks DEF FlushRow
<1>3. dirty[s] \subseteq Nat
  BY DEF Typed, TypeOK
<1>4. \A j \in dirty[s] \ {k} : k < j
  BY <1>1, <1>3
<1>5. LocksAreChosen' /\ OneRowUnlessBulk'
  BY <1>1, <1>2 DEF LockInv, LocksAreChosen, OneRowUnlessBulk, Chosen
<1>6. LocksInKeyOrder'
  BY <1>1, <1>2, <1>4 DEF LockInv, LocksInKeyOrder
<1> QED
  BY <1>5, <1>6 DEF LockInv

LEMMA EditRowLocks ==
    ASSUME Typed, LockInv, NEW s \in Session, NEW k \in Sku, EditRow(s, k)
    PROVE  LockInv'
<1>1. /\ pc[s] = "edit" /\ k \in todo[s]
      /\ dirty'[s] \in {dirty[s], dirty[s] \cup {k}} /\ todo'[s] = todo[s] \ {k}
      /\ pushing'[s] = {} \/ req[s].sync
      /\ \A t \in Session \ {s} : /\ dirty'[t] = dirty[t] /\ todo'[t] = todo[t]
                                  /\ pushing'[t] = pushing[t]
      /\ UNCHANGED <<pc, req, lock>>
  BY DEF EditRow, Typed, TypeOK
<1>2. \A t \in Session : Held(t)' = Held(t)
  BY <1>1 DEF Held
<1>3. ~req[s].sync => Held(s) = {}
  BY <1>1 DEF LockInv, LocksInKeyOrder
<1>4. LocksAreChosen' /\ OneRowUnlessBulk'
  BY <1>1, <1>2 DEF LockInv, LocksAreChosen, OneRowUnlessBulk, Chosen
<1>5. LocksInKeyOrder'
  BY <1>1, <1>2, <1>3 DEF LockInv, LocksInKeyOrder
<1> QED
  BY <1>4, <1>5 DEF LockInv

LEMMA PushLocks ==
    ASSUME Typed, LockInv, NEW s \in Session, NEW k \in Sku, NEW accepted \in BOOLEAN,
           Push(s, k, accepted)
    PROVE  LockInv'
<1>1. /\ pushing'[s] = {} /\ \A t \in Session \ {s} : pushing'[t] = pushing[t]
      /\ UNCHANGED <<pc, req, lock, todo, dirty>>
  BY DEF Push, Typed, TypeOK
<1>2. \A t \in Session : Held(t)' = Held(t)
  BY <1>1 DEF Held
<1> QED
  BY <1>1, <1>2 DEF LockInv, LocksAreChosen, OneRowUnlessBulk, LocksInKeyOrder, Chosen

LEMMA RefreshLocks ==
    ASSUME Typed, LockInv, NEW s \in Session, RefreshCommit(s)
    PROVE  LockInv'
<1>1. pc[s] = "edit" /\ UNCHANGED <<pc, req, todo, dirty, pushing>> /\ lock' = Unlocked(s)
  BY DEF RefreshCommit, CommitRows
<1>2. Held(s)' = {} /\ \A t \in Session \ {s} : Held(t)' = Held(t)
  BY <1>1 DEF Held, Unlocked, Typed, TypeOK
<1> QED
  BY <1>1, <1>2 DEF LockInv, LocksAreChosen, OneRowUnlessBulk, LocksInKeyOrder, Chosen

LEMMA LockInitInv == Init => LockInv
  BY DEF Init, LockInv, LocksAreChosen, OneRowUnlessBulk, LocksInKeyOrder, Chosen, Held,
         NoRequest

LEMMA LockStep ==
    ASSUME Typed, Locking, LockInv, [Next]_vars
    PROVE  LockInv'
<1>1. CASE UNCHANGED vars
  BY <1>1 DEF vars, local, LockInv, LocksAreChosen, OneRowUnlessBulk, LocksInKeyOrder,
              Chosen, Held
<1>2. ASSUME NEW s \in Session, NEW op \in Ops, NEW k \in Sku, NEW q \in Qty,
             ReceiveLocked(s, op, k, q)
      PROVE  LockInv'
  <2> DEFINE r == [op |-> op, skus |-> {k}, amount |-> q, mode |-> "absolute", sync |-> FALSE]
  <2>1. r \in Request
    BY DEF Request, Mode
  <2>2. /\ pc[s] = "idle" /\ req' = [req EXCEPT ![s] = r] /\ pc' = [pc EXCEPT ![s] = "wait"]
        /\ UNCHANGED <<lock, dirty, pushing, todo>>
    BY <1>2 DEF ReceiveLocked
  <2>3. {} \in SUBSET r.skus /\ todo' = [todo EXCEPT ![s] = {}]
    BY <2>2 DEF LockInv, LocksAreChosen, Typed, TypeOK
  <2>4. ~r.sync /\ \A i, j \in r.skus : i = j
    OBVIOUS
  <2> HIDE DEF r
  <2> QED
    BY <2>1, <2>2, <2>3, <2>4, ReadLocks
<1>3. ASSUME NEW s \in Session, NEW k \in Sku, NEW t \in Amount,
             ReceiveUpsert(s, k, t)
      PROVE  LockInv'
  <2> DEFINE r == [op |-> "upsert", skus |-> {k}, amount |-> t, mode |-> "absolute",
                   sync |-> FALSE]
  <2>1. r \in Request
    BY DEF Request, Mode, Operation
  <2> DEFINE p == IF k \in present THEN "edit" ELSE "insert"
  <2>2. /\ pc[s] = "idle" /\ req' = [req EXCEPT ![s] = r] /\ pc' = [pc EXCEPT ![s] = p]
        /\ todo' = [todo EXCEPT ![s] = {k} \cap present]
        /\ UNCHANGED <<lock, dirty, pushing>>
    BY <1>3 DEF ReceiveUpsert, ReadRows
  <2>3. /\ {k} \cap present \in SUBSET r.skus
        /\ p \in {"wait", "insert", "edit"} /\ (p # "edit" => {k} \cap present = {})
    OBVIOUS
  <2>4. ~r.sync /\ \A i, j \in r.skus : i = j
    OBVIOUS
  <2> HIDE DEF r, p
  <2> QED
    BY <2>1, <2>2, <2>3, <2>4, ReadLocks
<1>4. ASSUME NEW s \in Session, NEW ks \in SUBSET Sku, NEW mode \in Modes,
             NEW v \in Amount, NEW sync \in BOOLEAN,
             ReceiveBulk(s, ks, mode, v, sync)
      PROVE  LockInv'
  <2> DEFINE r == [op |-> "bulk", skus |-> ks, amount |-> v, mode |-> mode, sync |-> sync]
  <2>1. r \in Request
    BY DEF Request, Operation
  <2>2. /\ pc[s] = "idle" /\ req' = [req EXCEPT ![s] = r] /\ pc' = [pc EXCEPT ![s] = "edit"]
        /\ todo' = [todo EXCEPT ![s] = ks \cap present]
        /\ UNCHANGED <<lock, dirty, pushing>>
    BY <1>4 DEF ReceiveBulk, ReadRows
  <2>3. ks \cap present \in SUBSET r.skus /\ r.op = "bulk"
    OBVIOUS
  <2> HIDE DEF r
  <2> QED
    BY <2>1, <2>2, <2>3, ReadLocks
<1>5. ASSUME NEW s \in Session, NEW k \in Sku, ReceiveSeed(s, k)
      PROVE  LockInv'
  <2> DEFINE r == [op |-> "seed", skus |-> {k}, amount |-> 0, mode |-> "absolute",
                   sync |-> FALSE]
  <2>1. r \in Request
    BY DEF Request, Mode, Operation
  <2>2. /\ pc[s] = "idle" /\ req' = [req EXCEPT ![s] = r] /\ pc' = [pc EXCEPT ![s] = "insert"]
        /\ UNCHANGED <<lock, dirty, pushing, todo>>
    BY <1>5 DEF ReceiveSeed, ReadRows
  <2>3. {} \in SUBSET r.skus /\ todo' = [todo EXCEPT ![s] = {}]
    BY <2>2 DEF LockInv, LocksAreChosen, Typed, TypeOK
  <2>4. ~r.sync /\ \A i, j \in r.skus : i = j
    OBVIOUS
  <2> HIDE DEF r
  <2> QED
    BY <2>1, <2>2, <2>3, <2>4, ReadLocks
<1>6. ASSUME NEW s \in Session, NEW k \in Sku,
             Allocate(s, k) \/ Deallocate(s, k) \/ Insert(s, k) \/ InsertConflict(s, k)
      PROVE  LockInv'
  <2>1. CASE Allocate(s, k) \/ Deallocate(s, k)
    <3>1. Close(s) /\ lock' = Unlocked(s)
      BY <2>1 DEF Allocate, Deallocate, WriteLocked
    <3> QED
      BY <3>1, CloseLocks
  <2>2. CASE Insert(s, k) \/ InsertConflict(s, k)
    <3>1. Close(s) /\ pc[s] = "insert" /\ lock' = lock
      BY <2>2 DEF Insert, InsertConflict
    <3>2. Held(s) = {}
      BY <3>1 DEF LockInv, LocksAreChosen
    <3> QED
      BY <3>1, <3>2, CloseLocks
  <2> QED
    BY <1>6, <2>1, <2>2
<1>7. ASSUME NEW s \in Session, Rollback(s) \/ Commit(s)
      PROVE  LockInv'
  <2>1. Close(s) /\ lock' = Unlocked(s)
    BY <1>7 DEF Rollback, Commit, CommitRows
  <2> QED
    BY <2>1, CloseLocks
<1>8. CASE Next
  BY <1>8, StepCases, <1>2, <1>3, <1>4, <1>5, <1>6, <1>7, LockRowLocks, FlushRowLocks,
     EditRowLocks, PushLocks, RefreshLocks DEF Reject, DeadlockVictim, Crash
<1> QED
  BY <1>1, <1>8

LEMMA LocksAlways == Spec => []LockInv
<1>1. Typed /\ Locking /\ LockInv /\ [Next]_vars => LockInv'
  BY LockStep
<1> QED
  BY <1>1, LockInitInv, LockingAlways, PTL DEF Spec

\* A session of a cycle holds a row and waits for another.
LEMMA CycleMember ==
    ASSUME Typed, LockInv, NEW S, Cycle(S), NEW s \in S
    PROVE  /\ s \in Session /\ req[s].op = "bulk"
           /\ \E j, k \in Sku : /\ j \in Held(s) /\ k \in dirty[s] /\ WaitsFor(s, k)
                                /\ \E u \in S : WaitsFor(u, j)
<1>1. s \in Session
  BY DEF Cycle
<1>2. PICK k \in Sku : WaitsFor(s, k) /\ lock[k] \in S
  BY DEF Cycle
<1>3. PICK u \in S, j \in Sku : WaitsFor(u, j) /\ lock[j] = s
  BY DEF Cycle
<1>4. j \in Held(s) /\ k \notin Held(s)
  BY <1>2, <1>3 DEF Held, WaitsFor
<1>5. pc[s] = "edit" /\ k \in dirty[s]
  BY <1>1, <1>2, <1>4 DEF WaitsFor, LockInv, LocksAreChosen
<1>6. j \in Chosen(s) /\ k \in Chosen(s)
  BY <1>1, <1>4, <1>5 DEF LockInv, LocksAreChosen
<1>7. req[s].op = "bulk"
  BY <1>1, <1>4, <1>6 DEF LockInv, OneRowUnlessBulk
<1>8. k \in Sku /\ j \in Sku /\ u \in S /\ WaitsFor(s, k) /\ WaitsFor(u, j)
  BY <1>2, <1>3
<1> QED
  BY <1>1, <1>4, <1>5, <1>7, <1>8

\* Whoever the deadlock detector may abort is a bulk edit: an allocation, a
\* release, an upsert or a seeding never is, whatever runs beside it.
THEOREM VictimsAreBulk == Spec => []VictimsAreBulkEdits
<1>1. Typed /\ LockInv => VictimsAreBulkEdits
  <2> SUFFICES ASSUME Typed, LockInv, NEW s \in Session, Deadlocked(s)
               PROVE  req[s].op = "bulk"
    BY DEF VictimsAreBulkEdits
  <2>1. PICK S \in SUBSET Session : s \in S /\ Cycle(S)
    BY DEF Deadlocked, Cycle
  <2> QED
    BY <2>1, CycleMember
<1> QED
  BY <1>1, LocksAlways, LockingAlways, PTL

\* There is no deadlock among requests that call no channel: it takes a bulk
\* edit that takes a lock between two pushes.
THEOREM DeadlocksPush == Spec => []CyclesPush
<1>1. Typed /\ LockInv => CyclesPush
  <2> SUFFICES ASSUME Typed, LockInv, NEW S \in SUBSET Session, Cycle(S),
                      \A s \in S : ~req[s].sync
               PROVE  FALSE
    BY DEF CyclesPush
  <2> DEFINE Awaited == {k \in Sku : \E s \in S : WaitsFor(s, k)}
  <2>1. Awaited # {} /\ Awaited \subseteq Nat
    BY CycleMember DEF Cycle
  <2>2. ASSUME NEW k \in Awaited
        PROVE  \E j \in Awaited : j < k
    <3>1. PICK s \in S : WaitsFor(s, k)
      BY <2>2
    <3>2. PICK i, j \in Sku : /\ j \in Held(s) /\ i \in dirty[s] /\ WaitsFor(s, i)
                              /\ j \in Awaited
      BY CycleMember
    <3>3. s \in Session /\ k \in Sku /\ ~req[s].sync
      BY <2>2 DEF Cycle
    <3>4. k \in dirty[s]
      <4>1. pc[s] = "edit"
        BY <3>2, <3>3 DEF LockInv, LocksAreChosen
      <4> QED
        BY <3>1, <4>1 DEF WaitsFor
    <3> QED
      BY <3>2, <3>3, <3>4 DEF LockInv, LocksInKeyOrder
  <2> HIDE DEF Awaited
  <2>3. PICK k \in Awaited : \A j \in Awaited : ~(<<j, k>> \in OpToRel(<, Nat))
    BY <2>1, NatLessThanWellFounded, WFMin
  <2> QED
    BY <2>1, <2>2, <2>3 DEF OpToRel
<1> QED
  BY <1>1, LocksAlways, LockingAlways, PTL
=============================================================================
