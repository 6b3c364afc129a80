----------------------------- MODULE OrdersProofs -----------------------------
(***************************************************************************)
(* Proofs about the orders: for any number of orders, user requests and    *)
(* moves of the channel.  What needs that imports do not overlap says so    *)
(* (OneImporter); the rest holds of imports that do, too.                  *)
(***************************************************************************)
EXTENDS Orders, SequenceTheorems, FiniteSetTheorems, TLAPS

\* Imports do not overlap: there is one importer, whatever it is.
OneImporter == \A s, t \in Importer : s = t

\* One item set is stored while the next one is named.
TwoTags == \E t, u \in Tag : t # u

\* Tags do not run out.
EnoughTags == \/ OneImporter /\ TwoTags
              \/ ~IsFiniteSet(Tag)

\* A row to update is there.
RowsFound ==
    \A s \in Importer, x \in Ext :
        plan[s][x] \in {"read", "update"} => Len(orders[x]) # 0

\* An import plans an order once.
Unplanned ==
    \A s \in Importer, x \in Ext :
        pc[s] # "import" \/ x \in todo[s] => plan[s][x] = "none"

\* A locked row is one that an import in progress updates.
RowsHeld ==
    \A x \in Ext : \A i \in 1 .. Len(orders[x]) :
        orders[x][i].holder # Nobody =>
            /\ i = 1 /\ orders[x][i].holder \in Importer
            /\ plan[orders[x][i].holder][x] = "update"

\* A request writes what was allowed when it read.
WritesWereAllowed ==
    \A u \in User : pc[u] = "write" =>
        /\ req[u].target \in Status
        /\ \A r \in req[u].rows : Allowed(r[3], req[u].target)

\* What holds however imports overlap.
Common == TypeOK /\ RowsFound /\ Unplanned /\ RowsHeld /\ WritesWereAllowed

\* The tags in use are finitely many.
TagsInUse ==
    \A x \in Ext : \E F \in SUBSET Tag :
        /\ IsFiniteSet(F)
        /\ \A i \in 1 .. Len(orders[x]) : orders[x][i].items \subseteq F
        /\ \A s \in Importer : seen[s][x].items \subseteq F

FreshTags == \A x \in Ext : FreshTag(x) \in Tag

OneSet ==
    \A x \in Ext : \A i \in 1 .. Len(orders[x]) : \E t \in Tag : orders[x][i].items = {t}

\* What an import found is still so.
FoundIsStored ==
    \A s \in Importer, x \in Ext :
        /\ plan[s][x] = "new" => Len(orders[x]) = 0
        /\ plan[s][x] \in {"read", "update"} =>
               Len(orders[x]) = 1 /\ seen[s][x].items = orders[x][1].items
        /\ plan[s][x] \notin {"read", "update"} => seen[s][x].items = {}

Alone == OneRowPerOrder /\ OneSet /\ FoundIsStored
IInv == Common /\ Alone

-----------------------------------------------------------------------------
(* Rows                                                                    *)

\* The statuses of VALID_TRANSITIONS lead to statuses.
LEMMA TargetTypes == \A st \in Status : ValidTargets[st] \subseteq Status
BY DEF ValidTargets, Status

\* No transition leaves a concluded order.
LEMMA ConcludedHasNoTarget ==
    ASSUME NEW st \in {"CANCELED", "REFUNDED"}, NEW to
    PROVE  ~Allowed(st, to)
BY DEF Allowed, ValidTargets, Status

\* The empty row is a row.
LEMMA NoRowType == NoRow \in Row
BY DEF NoRow, Row, Status

\* A row stays one when a column is written.
LEMMA RowWritten ==
    ASSUME NEW row \in Row
    PROVE  /\ \A h \in Session \cup {Nobody} :
                  /\ [row EXCEPT !.holder = h] \in Row
                  /\ [row EXCEPT !.holder = h].items = row.items
                  /\ [row EXCEPT !.holder = h].status = row.status
                  /\ [row EXCEPT !.holder = h].holder = h
           /\ \A st \in Status :
                  /\ [row EXCEPT !.status = st] \in Row
                  /\ [row EXCEPT !.status = st].items = row.items
                  /\ [row EXCEPT !.status = st].status = st
                  /\ [row EXCEPT !.status = st].holder = row.holder
           /\ /\ [row EXCEPT !.tracked = TRUE] \in Row
              /\ [row EXCEPT !.tracked = TRUE].items = row.items
              /\ [row EXCEPT !.tracked = TRUE].status = row.status
              /\ [row EXCEPT !.tracked = TRUE].holder = row.holder
BY DEF Row

\* The rows of an order are a sequence, whose length is a number.
LEMMA RowsAreStored ==
    ASSUME TypeOK, NEW x \in Ext
    PROVE  /\ orders[x] \in Seq(Row) /\ Len(orders[x]) \in Nat
           /\ DOMAIN orders[x] = 1 .. Len(orders[x])
           /\ \A i \in 1 .. Len(orders[x]) : orders[x][i] \in Row
<1>1. orders[x] \in Seq(Row)
    BY DEF TypeOK
<1> QED
    BY <1>1, LenProperties, ElementOfSeq

\* There is none, or there is one.
LEMMA NoneOrOne ==
    ASSUME TypeOK, OneRowPerOrder, NEW x \in Ext
    PROVE  Len(orders[x]) = 0 \/ Len(orders[x]) = 1
<1>1. Len(orders[x]) \in Nat
    BY RowsAreStored
<1>2. Len(orders[x]) <= 1
    BY DEF OneRowPerOrder
<1>3. \A n \in Nat : n <= 1 => n = 0 \/ n = 1
    OBVIOUS
<1> QED
    BY <1>1, <1>2, <1>3, Zenon

\* What a step leaves of the rows of x that hold the items they held.
SameItems(x) ==
    /\ orders'[x] \in Seq(Row)
    /\ Len(orders'[x]) = Len(orders[x])
    /\ \A i \in 1 .. Len(orders[x]) : orders'[x][i].items = orders[x][i].items

\* A flush takes a row and leaves its columns.
LEMMA FlushedRows ==
    ASSUME TypeOK, NEW s \in Importer, NEW x \in Ext, ImportFlush(s, x),
           Len(orders[x]) # 0
    PROVE  /\ orders' \in [Ext -> Seq(Row)]
           /\ \A y \in Ext : SameItems(y)
           /\ \A y \in Ext : \A i \in 1 .. Len(orders[y]) :
                  /\ orders'[y][i].status = orders[y][i].status
                  /\ orders'[y][i].holder = IF y = x /\ i = 1 THEN s ELSE orders[y][i].holder
<1> DEFINE row == [orders[x][1] EXCEPT !.holder = s]
           new == [orders[x] EXCEPT ![1] = row]
<1>1. orders[x] \in Seq(Row) /\ 1 \in 1 .. Len(orders[x])
    BY RowsAreStored
<1>2. orders[x][1] \in Row
    BY <1>1, ElementOfSeq
<1>3. /\ row \in Row /\ row.items = orders[x][1].items
      /\ row.status = orders[x][1].status /\ row.holder = s
    BY <1>2, RowWritten DEF Session
<1>4. orders' = [orders EXCEPT ![x] = new]
    BY DEF ImportFlush
<1> HIDE DEF row
<1>5. /\ new \in Seq(Row) /\ Len(new) = Len(orders[x])
      /\ \A i \in 1 .. Len(orders[x]) : new[i] = IF i = 1 THEN row ELSE orders[x][i]
    BY <1>1, <1>3, ExceptSeq
<1> HIDE DEF new
<1>6. \A y \in Ext : orders'[y] = IF y = x THEN new ELSE orders[y]
    BY <1>4 DEF TypeOK
<1>7. orders' \in [Ext -> Seq(Row)]
    BY <1>4, <1>5 DEF TypeOK
<1> QED
    BY <1>3, <1>5, <1>6, <1>7 DEF SameItems, TypeOK

\* A commit of a user's request writes columns of rows and no more.
LEMMA ChangedRows ==
    ASSUME TypeOK, NEW u \in User, TransitionCommit(u) \/ TrackingCommit(u),
           req[u].target \in Status \/ TrackingCommit(u)
    PROVE  /\ orders' \in [Ext -> Seq(Row)]
           /\ \A x \in Ext : SameItems(x)
           /\ \A x \in Ext : \A i \in 1 .. Len(orders[x]) :
                 orders'[x][i].holder = orders[x][i].holder
           /\ \A x \in Ext : \A i \in 1 .. Len(orders[x]) :
                 \/ orders'[x][i].status = orders[x][i].status
                 \/ /\ TransitionCommit(u)
                    /\ orders'[x][i].status = req[u].target
                    /\ \E r \in req[u].rows : r[1] = x /\ r[2] = i
<1> DEFINE Named(x, i) == \E r \in req[u].rows : r[1] = x /\ r[2] = i
           Moved(row) == [row EXCEPT !.status = req[u].target]
           Tracked(row) == [row EXCEPT !.tracked = TRUE]
<1>1. \A x \in Ext : /\ orders[x] \in Seq(Row) /\ Len(orders[x]) \in Nat
                     /\ DOMAIN orders[x] = 1 .. Len(orders[x])
                     /\ \A i \in 1 .. Len(orders[x]) : orders[x][i] \in Row
    BY RowsAreStored
<1>2. \/ /\ TransitionCommit(u) /\ req[u].target \in Status
         /\ orders' = [x \in Ext |-> [i \in DOMAIN orders[x] |->
                IF Named(x, i) THEN Moved(orders[x][i]) ELSE orders[x][i]]]
      \/ /\ TrackingCommit(u)
         /\ orders' = [x \in Ext |-> [i \in DOMAIN orders[x] |->
                IF Named(x, i) THEN Tracked(orders[x][i]) ELSE orders[x][i]]]
    BY Zenon DEF TransitionCommit, TrackingCommit, Change
<1>3. \A row \in Row :
         /\ Tracked(row) \in Row /\ Tracked(row).items = row.items
         /\ Tracked(row).status = row.status /\ Tracked(row).holder = row.holder
         /\ req[u].target \in Status =>
               /\ Moved(row) \in Row /\ Moved(row).items = row.items
               /\ Moved(row).status = req[u].target /\ Moved(row).holder = row.holder
    BY RowWritten
<1> HIDE DEF Named, Moved, Tracked
<1>4. ASSUME NEW x \in Ext
      PROVE  /\ orders'[x] \in [1 .. Len(orders[x]) -> Row]
             /\ \A i \in 1 .. Len(orders[x]) :
                   /\ orders'[x][i].items = orders[x][i].items
                   /\ orders'[x][i].holder = orders[x][i].holder
                   /\ \/ orders'[x][i].status = orders[x][i].status
                      \/ /\ TransitionCommit(u) /\ Named(x, i)
                         /\ orders'[x][i].status = req[u].target
    <2>1. CASE TransitionCommit(u) /\ req[u].target \in Status
               /\ orders'[x] = [i \in 1 .. Len(orders[x]) |->
                     IF Named(x, i) THEN Moved(orders[x][i]) ELSE orders[x][i]]
        BY <2>1, <1>1, <1>3
    <2>2. CASE orders'[x] = [i \in 1 .. Len(orders[x]) |->
                     IF Named(x, i) THEN Tracked(orders[x][i]) ELSE orders[x][i]]
        BY <2>2, <1>1, <1>3
    <2> QED
        BY <2>1, <2>2, <1>1, <1>2
<1>5. ASSUME NEW x \in Ext
      PROVE  orders'[x] \in Seq(Row) /\ Len(orders'[x]) = Len(orders[x])
    BY <1>1, <1>4, SeqDef
<1>6. orders' \in [Ext -> Seq(Row)]
    BY <1>2, <1>5
<1> QED
    BY <1>4, <1>5, <1>6 DEF SameItems, Named

\* An import that is cut short gives its rows back as they were.
LEMMA ReturnedRows ==
    ASSUME TypeOK, RowsFound, NEW s \in Importer, ImportAbort(s)
    PROVE  /\ orders' \in [Ext -> Seq(Row)]
           /\ \A x \in Ext : SameItems(x)
           /\ \A x \in Ext : \A i \in 1 .. Len(orders[x]) :
                 /\ orders'[x][i].status = orders[x][i].status
                 /\ orders'[x][i].holder = IF plan[s][x] = "update" /\ i = 1
                                           THEN Nobody ELSE orders[x][i].holder
<1> DEFINE row(x) == [orders[x][1] EXCEPT !.holder = Nobody]
           new(x) == [orders[x] EXCEPT ![1] = row(x)]
<1>1. orders' = [x \in Ext |-> IF plan[s][x] = "update" THEN new(x) ELSE orders[x]]
    BY DEF ImportAbort
<1>2. ASSUME NEW x \in Ext, plan[s][x] = "update"
      PROVE  /\ new(x) \in Seq(Row) /\ Len(new(x)) = Len(orders[x])
             /\ \A i \in 1 .. Len(orders[x]) :
                   /\ new(x)[i].items = orders[x][i].items
                   /\ new(x)[i].status = orders[x][i].status
                   /\ new(x)[i].holder = IF i = 1 THEN Nobody ELSE orders[x][i].holder
    <2>1. orders[x] \in Seq(Row) /\ 1 \in 1 .. Len(orders[x])
        BY <1>2, RowsAreStored DEF RowsFound
    <2>2. orders[x][1] \in Row
        BY <2>1, ElementOfSeq
    <2>3. /\ row(x) \in Row /\ row(x).items = orders[x][1].items
          /\ row(x).status = orders[x][1].status /\ row(x).holder = Nobody
        BY <2>2, RowWritten
    <2> HIDE DEF row
    <2> QED
        BY <2>1, <2>3, ExceptSeq
<1> HIDE DEF new
<1>3. ASSUME NEW x \in Ext
      PROVE  /\ orders'[x] \in Seq(Row) /\ Len(orders'[x]) = Len(orders[x])
             /\ \A i \in 1 .. Len(orders[x]) :
                   /\ orders'[x][i].items = orders[x][i].items
                   /\ orders'[x][i].status = orders[x][i].status
                   /\ orders'[x][i].holder = IF plan[s][x] = "update" /\ i = 1
                                             THEN Nobody ELSE orders[x][i].holder
    <2>1. CASE plan[s][x] = "update"
        BY <1>1, <1>2, <2>1
    <2>2. CASE plan[s][x] # "update"
        BY <1>1, <2>2 DEF TypeOK
    <2> QED
        BY <2>1, <2>2
<1> QED
    BY <1>1, <1>3 DEF SameItems

\* What a commit of an import makes of the rows of an order: it writes the first
\* or adds one.
LEMMA ImportedRows ==
    ASSUME TypeOK, RowsFound, NEW s \in Importer, NEW x \in Ext,
           plan[s][x] # "read", FreshTag(x) \in Tag
    PROVE  /\ Imported(s, x) \in Seq(Row)
           /\ Len(Imported(s, x)) = IF plan[s][x] = "new" THEN Len(orders[x]) + 1
                                    ELSE Len(orders[x])
           /\ \A i \in 1 .. Len(orders[x]) :
                 /\ Imported(s, x)[i].status \in {orders[x][i].status, batch[s][x]}
                 /\ plan[s][x] = "update" /\ i = 1 =>
                       /\ Imported(s, x)[i].holder = Nobody
                       /\ Imported(s, x)[i].items =
                             (orders[x][i].items \ seen[s][x].items) \cup {FreshTag(x)}
                 /\ ~(plan[s][x] = "update" /\ i = 1) =>
                       Imported(s, x)[i] = orders[x][i]
           /\ plan[s][x] = "new" =>
                 /\ Imported(s, x)[Len(orders[x]) + 1].items = {FreshTag(x)}
                 /\ Imported(s, x)[Len(orders[x]) + 1].holder = Nobody
<1>1. /\ orders[x] \in Seq(Row) /\ Len(orders[x]) \in Nat
      /\ batch[s][x] \in Status /\ plan[s][x] \in Plan
    BY RowsAreStored DEF TypeOK
<1>2. PICK t \in Tag : t = FreshTag(x)
    OBVIOUS
<1>3. CASE plan[s][x] = "new"
    <2> DEFINE new == [status |-> batch[s][x], items |-> {t}, tracked |-> FALSE,
                       holder |-> Nobody]
    <2>1. new \in Row /\ new.items = {t} /\ new.holder = Nobody
        BY <1>1 DEF Row
    <2>2. Imported(s, x) = Append(orders[x], new)
        BY <1>2, <1>3 DEF Imported
    <2> HIDE DEF new
    <2>3. /\ Imported(s, x) \in Seq(Row) /\ Len(Imported(s, x)) = Len(orders[x]) + 1
          /\ \A i \in 1 .. Len(orders[x]) : Imported(s, x)[i] = orders[x][i]
          /\ Imported(s, x)[Len(orders[x]) + 1] = new
        BY <1>1, <2>1, <2>2, AppendProperties
    <2> QED
        BY <1>2, <1>3, <2>1, <2>3
<1>4. CASE plan[s][x] = "update"
    <2> DEFINE row == [orders[x][1] EXCEPT
                          !.status = StatusWritten(s, x),
                          !.items = (orders[x][1].items \ OldItems(s, x)) \cup {t},
                          !.holder = Nobody]
    <2>1. 1 \in 1 .. Len(orders[x]) /\ OldItems(s, x) = seen[s][x].items
        BY <1>1, <1>4 DEF RowsFound, OldItems
    <2>2. orders[x][1] \in Row
        BY <1>1, <2>1, ElementOfSeq
    <2>3. StatusWritten(s, x) \in {orders[x][1].status, batch[s][x]}
        BY DEF StatusWritten
    <2>4. StatusWritten(s, x) \in Status
        BY <1>1, <2>2, <2>3 DEF Row
    <2>5. /\ row \in Row /\ row.status = StatusWritten(s, x) /\ row.holder = Nobody
          /\ row.items = (orders[x][1].items \ seen[s][x].items) \cup {t}
        BY <2>1, <2>2, <2>4 DEF Row
    <2>6. Imported(s, x) = [orders[x] EXCEPT ![1] = row]
        BY <1>2, <1>4 DEF Imported
    <2> HIDE DEF row
    <2>7. /\ Imported(s, x) \in Seq(Row) /\ Len(Imported(s, x)) = Len(orders[x])
          /\ Imported(s, x)[1] = row
          /\ \A i \in 1 .. Len(orders[x]) : i # 1 => Imported(s, x)[i] = orders[x][i]
        BY <1>1, <2>1, <2>5, <2>6, ExceptSeq
    <2> QED
        BY <1>2, <1>4, <2>3, <2>5, <2>7
<1>5. CASE plan[s][x] \in {"none", "error"}
    <2>1. Imported(s, x) = orders[x]
        BY <1>5 DEF Imported
    <2> QED
        BY <1>1, <1>5, <2>1
<1> QED
    BY <1>1, <1>3, <1>4, <1>5 DEF Plan

\* The rows as a request reads them are rows of orders with their statuses.
LEMMA ReadRows ==
    ASSUME TypeOK, NEW rows, rows \subseteq Stored
    PROVE  AsRead(rows) \subseteq Ext \X Nat \X Status
<1> SUFFICES ASSUME NEW r \in rows
             PROVE  /\ r[1] \in Ext /\ r[2] \in Nat
                    /\ orders[r[1]][r[2]].status \in Status
    BY DEF AsRead
<1>1. r[1] \in Ext /\ r[2] \in DOMAIN orders[r[1]]
    BY DEF Stored, Rows
<1>2. r[2] \in 1 .. Len(orders[r[1]]) /\ Len(orders[r[1]]) \in Nat
    BY <1>1, RowsAreStored
<1>3. orders[r[1]][r[2]] \in Row
    BY <1>1, <1>2, RowsAreStored
<1> QED
    BY <1>1, <1>2, <1>3 DEF Row

-----------------------------------------------------------------------------
(* What holds however imports overlap                                      *)

\* The invariant holds at the start.
LEMMA InitIInv == Init => IInv /\ TagsInUse
<1> SUFFICES ASSUME Init PROVE IInv /\ TagsInUse
    OBVIOUS
<1>1. << >> \in Seq(Row) /\ Len(<< >>) = 0 /\ 1 .. 0 = {}
    BY EmptySeq
<1>2. NoRow \in Row /\ NoRow.items = {}
    BY NoRowType DEF NoRow
<1>3. NoRequest \in Request
    BY DEF NoRequest, Request
<1>4. TypeOK
    BY <1>1, <1>2, <1>3, OrdersAssumption
    DEF Init, TypeOK, NoBatch, NoSeen, Status, Phase, Plan, Session
<1>5. RowsFound /\ Unplanned /\ RowsHeld /\ WritesWereAllowed
    BY <1>1 DEF Init, RowsFound, Unplanned, RowsHeld, WritesWereAllowed, Session
<1>6. Alone
    BY <1>1, <1>2 DEF Init, Alone, OneRowPerOrder, OneSet, FoundIsStored, NoSeen, Session
<1>7. TagsInUse
    <2>1. IsFiniteSet({}) /\ {} \in SUBSET Tag
        BY FS_EmptySet
    <2>2. \A x \in Ext, s \in Importer : seen[s][x].items = {}
        BY <1>2 DEF Init, NoSeen, Session
    <2>3. \A x \in Ext : 1 .. Len(orders[x]) = {}
        BY <1>1 DEF Init
    <2> QED
        BY <2>1, <2>2, <2>3 DEF TagsInUse
<1> QED
    BY <1>4, <1>5, <1>6, <1>7 DEF IInv, Common

\* Rows whose holders stay, or are let go, keep what is said of the held ones.
LEMMA HeldKept ==
    ASSUME Common, \A x \in Ext : SameItems(x),
           \A x \in Ext : \A i \in 1 .. Len(orders[x]) :
               orders'[x][i].holder \in {orders[x][i].holder, Nobody},
           UNCHANGED plan
    PROVE  RowsFound' /\ RowsHeld'
<1>1. \A x \in Ext : Len(orders[x]) \in Nat
    BY RowsAreStored DEF Common
<1>2. RowsFound'
    BY DEF Common, RowsFound, SameItems
<1>3. ASSUME NEW x \in Ext, NEW i \in 1 .. Len(orders'[x]), orders'[x][i].holder # Nobody
      PROVE  /\ i = 1 /\ orders'[x][i].holder \in Importer
             /\ plan'[orders'[x][i].holder][x] = "update"
    <2>1. i \in 1 .. Len(orders[x])
        BY <1>3 DEF SameItems
    <2>2. orders'[x][i].holder = orders[x][i].holder
        BY <1>3, <2>1
    <2> QED
        BY <1>3, <2>1, <2>2 DEF Common, RowsHeld
<1> QED
    BY <1>2, <1>3 DEF RowsHeld

\* A step on the channel touches no row.
LEMMA RemoteMoveKeeps ==
    ASSUME Common, NEW x \in Ext, RemoteMove(x)
    PROVE  Common'
<1>1. PICK st \in ValidTargets[remote[x]] : remote' = [remote EXCEPT ![x] = st]
    BY DEF RemoteMove
<1>2. st \in Status
    BY TargetTypes DEF Common, TypeOK
<1>3. remote' \in [Ext -> Status] /\ moves' \in 0 .. MaxMoves
    BY <1>1, <1>2, OrdersAssumption DEF RemoteMove, Common, TypeOK
<1>4. TypeOK'
    BY <1>3 DEF RemoteMove, Common, TypeOK
<1> QED
    BY <1>4 DEF RemoteMove, Common, RowsFound, Unplanned, RowsHeld, WritesWereAllowed

\* An import starts with nothing planned.
LEMMA ImportFetchKeeps ==
    ASSUME Common, NEW s \in Importer, ImportFetch(s)
    PROVE  Common'
<1>1. TypeOK'
    <2>1. pc' \in [Session -> Phase]
        BY DEF ImportFetch, Common, TypeOK, Phase
    <2>2. batch' \in [Importer -> [Ext -> Status]] /\ todo' \in [Importer -> SUBSET Ext]
        BY DEF ImportFetch, Common, TypeOK
    <2> QED
        BY <2>1, <2>2 DEF ImportFetch, Common, TypeOK
<1>2. WritesWereAllowed'
    BY OrdersAssumption DEF ImportFetch, Common, TypeOK, WritesWereAllowed, Session
<1>3. Unplanned'
    <2> SUFFICES ASSUME NEW t \in Importer, NEW x \in Ext,
                        pc'[t] # "import" \/ x \in todo'[t]
                 PROVE  plan[t][x] = "none"
        BY DEF ImportFetch, Unplanned
    <2>1. CASE t = s
        BY <2>1 DEF ImportFetch, Common, Unplanned
    <2>2. CASE t # s
        <3>1. pc'[t] = pc[t] /\ todo'[t] = todo[t]
            BY <2>2 DEF ImportFetch, Common, TypeOK, Session
        <3> QED
            BY <3>1 DEF Common, Unplanned
    <2> QED
        BY <2>1, <2>2
<1> QED
    BY <1>1, <1>2, <1>3 DEF ImportFetch, Common, RowsFound, RowsHeld

\* A lookup plans what it found.
LEMMA ImportReadKeeps ==
    ASSUME Common, NEW s \in Importer, NEW x \in Ext, ImportRead(s, x)
    PROVE  Common'
<1> DEFINE row == [orders[x][1] EXCEPT !.holder = Nobody]
<1>1. /\ orders[x] \in Seq(Row) /\ Len(orders[x]) \in Nat
      /\ Found(x) \in {"new", "read", "error"}
      /\ Found(x) = "read" => Len(orders[x]) # 0
    BY RowsAreStored DEF Common, Found
<1>2. plan' = [plan EXCEPT ![s] = [plan[s] EXCEPT ![x] = Found(x)]]
    BY DEF ImportRead
<1>3. plan' \in [Importer -> [Ext -> Plan]]
    BY <1>1, <1>2 DEF Common, TypeOK, Plan
<1>4. seen' \in [Session -> [Ext -> Row]]
    <2>1. CASE Found(x) = "read"
        <3>1. orders[x][1] \in Row
            BY <1>1, <2>1, ElementOfSeq
        <3>2. row \in Row
            BY <3>1, RowWritten
        <3>3. seen' = [seen EXCEPT ![s] = [seen[s] EXCEPT ![x] = row]]
            BY <2>1 DEF ImportRead
        <3> HIDE DEF row
        <3> QED
            BY <3>2, <3>3 DEF Common, TypeOK, Session
    <2>2. CASE Found(x) # "read"
        BY <2>2 DEF ImportRead, Common, TypeOK
    <2> QED
        BY <2>1, <2>2
<1>5. todo' \in [Importer -> SUBSET Ext]
    BY DEF ImportRead, Common, TypeOK
<1>6. TypeOK'
    BY <1>3, <1>4, <1>5 DEF ImportRead, Common, TypeOK
<1>7. pc[s] = "import" /\ x \in todo[s] /\ plan[s][x] = "none" /\ todo'[s] = todo[s] \ {x}
    BY DEF ImportRead, Common, Unplanned, TypeOK
<1>8. \A t \in Importer, y \in Ext :
         /\ t = s /\ y = x => plan'[t][y] = Found(x) /\ y \notin todo'[t]
         /\ ~(t = s /\ y = x) => plan'[t][y] = plan[t][y]
         /\ todo'[t] \subseteq todo[t]
    BY <1>2, <1>7 DEF ImportRead, Common, TypeOK
<1>9. RowsFound'
    BY <1>1, <1>8 DEF ImportRead, Common, RowsFound
<1>10. Unplanned'
    BY <1>7, <1>8 DEF ImportRead, Common, Unplanned
<1>11. RowsHeld'
    <2> SUFFICES ASSUME NEW y \in Ext, NEW i \in 1 .. Len(orders[y]),
                        orders[y][i].holder # Nobody
                 PROVE  /\ i = 1 /\ orders[y][i].holder \in Importer
                        /\ plan'[orders[y][i].holder][y] = "update"
        BY DEF ImportRead, RowsHeld
    <2>1. /\ i = 1 /\ orders[y][i].holder \in Importer
          /\ plan[orders[y][i].holder][y] = "update"
        BY DEF Common, RowsHeld
    <2> QED
        BY <1>7, <1>8, <2>1
<1> QED
    BY <1>6, <1>9, <1>10, <1>11 DEF ImportRead, Common, WritesWereAllowed

\* A flush takes the lock of a row that was found.
LEMMA ImportFlushKeeps ==
    ASSUME Common, NEW s \in Importer, NEW x \in Ext, ImportFlush(s, x)
    PROVE  Common'
<1>1. plan[s][x] = "read" /\ Len(orders[x]) # 0
    BY DEF ImportFlush, Common, RowsFound
<1>2. /\ orders' \in [Ext -> Seq(Row)] /\ \A y \in Ext : SameItems(y)
      /\ \A y \in Ext : \A i \in 1 .. Len(orders[y]) :
            orders'[y][i].holder = IF y = x /\ i = 1 THEN s ELSE orders[y][i].holder
    BY <1>1, FlushedRows DEF Common
<1>3. plan' = [plan EXCEPT ![s] = [plan[s] EXCEPT ![x] = "update"]]
    BY DEF ImportFlush
<1>4. TypeOK'
    BY <1>2, <1>3 DEF ImportFlush, Common, TypeOK, Plan
<1>5. \A t \in Importer, y \in Ext :
         plan'[t][y] = IF t = s /\ y = x THEN "update" ELSE plan[t][y]
    BY <1>3 DEF Common, TypeOK
<1>6. RowsFound'
    BY <1>1, <1>2, <1>5 DEF Common, RowsFound, SameItems
<1>7. Unplanned'
    BY <1>1, <1>5 DEF ImportFlush, Common, Unplanned
<1>8. RowsHeld'
    <2> SUFFICES ASSUME NEW y \in Ext, NEW i \in 1 .. Len(orders'[y]),
                        orders'[y][i].holder # Nobody
                 PROVE  /\ i = 1 /\ orders'[y][i].holder \in Importer
                        /\ plan'[orders'[y][i].holder][y] = "update"
        BY DEF RowsHeld
    <2>1. i \in 1 .. Len(orders[y])
        BY <1>2 DEF SameItems
    <2>2. CASE y = x /\ i = 1
        BY <1>2, <1>5, <2>1, <2>2
    <2>3. CASE ~(y = x /\ i = 1)
        <3>1. orders'[y][i].holder = orders[y][i].holder
            BY <1>2, <2>1, <2>3
        <3> QED
            BY <1>1, <1>5, <2>1, <3>1 DEF Common, RowsHeld
    <2> QED
        BY <2>2, <2>3
<1> QED
    BY <1>4, <1>6, <1>7, <1>8 DEF ImportFlush, Common, WritesWereAllowed

\* The end of an import leaves nothing of it planned.
LEMMA EndedImport ==
    ASSUME Common, NEW s \in Importer, EndImport(s)
    PROVE  /\ remote' \in [Ext -> Status] /\ moves' \in 0 .. MaxMoves
           /\ pc' \in [Session -> Phase] /\ batch' \in [Importer -> [Ext -> Status]]
           /\ todo' \in [Importer -> SUBSET Ext] /\ plan' \in [Importer -> [Ext -> Plan]]
           /\ seen' \in [Session -> [Ext -> Row]] /\ req' \in [User -> Request]
           /\ Unplanned' /\ WritesWereAllowed'
           /\ \A x \in Ext : plan'[s][x] = "none" /\ seen'[s][x].items = {}
           /\ \A t \in Importer \ {s} : plan'[t] = plan[t] /\ seen'[t] = seen[t]
<1>1. NoSeen \in [Ext -> Row] /\ \A x \in Ext : NoSeen[x].items = {}
    BY NoRowType DEF NoSeen, NoRow
<1>2. pc' \in [Session -> Phase] /\ seen' \in [Session -> [Ext -> Row]]
    BY <1>1 DEF EndImport, Common, TypeOK, Session, Phase
<1>3. /\ batch' \in [Importer -> [Ext -> Status]] /\ todo' \in [Importer -> SUBSET Ext]
      /\ plan' \in [Importer -> [Ext -> Plan]]
    BY DEF EndImport, Common, TypeOK, NoBatch, Status, Plan
<1>4. /\ \A x \in Ext : plan'[s][x] = "none" /\ seen'[s][x].items = {}
      /\ \A t \in Importer \ {s} : plan'[t] = plan[t] /\ seen'[t] = seen[t]
      /\ \A t \in Importer \ {s} : pc'[t] = pc[t] /\ todo'[t] = todo[t]
    BY <1>1 DEF EndImport, Common, TypeOK, Session
<1>5. Unplanned'
    BY <1>4 DEF Common, Unplanned
<1>6. WritesWereAllowed'
    BY OrdersAssumption DEF EndImport, Common, TypeOK, WritesWereAllowed, Session
<1> QED
    BY <1>2, <1>3, <1>4, <1>5, <1>6 DEF EndImport, Common, TypeOK

\* A commit of an import lets its rows go.
LEMMA ImportCommitKeeps ==
    ASSUME Common, FreshTags, NEW s \in Importer, ImportCommit(s)
    PROVE  Common'
<1>1. orders' = [x \in Ext |-> Imported(s, x)] /\ \A x \in Ext : plan[s][x] # "read"
    BY DEF ImportCommit
<1>2. EndImport(s)
    BY DEF ImportCommit
<1>3. ASSUME NEW x \in Ext
      PROVE  /\ orders'[x] \in Seq(Row) /\ Len(orders[x]) \in Nat
             /\ Len(orders'[x]) \in {Len(orders[x]), Len(orders[x]) + 1}
             /\ \A i \in 1 .. Len(orders'[x]) :
                   \/ orders'[x][i].holder = Nobody
                   \/ /\ i \in 1 .. Len(orders[x]) /\ orders'[x][i] = orders[x][i]
                      /\ ~(plan[s][x] = "update" /\ i = 1)
    <2>1. orders'[x] = Imported(s, x) /\ Len(orders[x]) \in Nat
        BY <1>1, RowsAreStored DEF Common
    <2>2. FreshTag(x) \in Tag
        BY DEF FreshTags
    <2>3. /\ Imported(s, x) \in Seq(Row)
          /\ Len(Imported(s, x)) = IF plan[s][x] = "new" THEN Len(orders[x]) + 1
                                   ELSE Len(orders[x])
          /\ \A i \in 1 .. Len(orders[x]) :
                /\ plan[s][x] = "update" /\ i = 1 => Imported(s, x)[i].holder = Nobody
                /\ ~(plan[s][x] = "update" /\ i = 1) => Imported(s, x)[i] = orders[x][i]
          /\ plan[s][x] = "new" => Imported(s, x)[Len(orders[x]) + 1].holder = Nobody
        BY <1>1, <2>2, ImportedRows DEF Common
    <2>4. CASE plan[s][x] = "new"
        <3>1. \A i \in 1 .. Len(orders[x]) + 1 :
                 i \in 1 .. Len(orders[x]) \/ i = Len(orders[x]) + 1
            BY <2>1
        <3> QED
            BY <2>1, <2>3, <2>4, <3>1
    <2>5. CASE plan[s][x] # "new"
        BY <2>1, <2>3, <2>5
    <2> QED
        BY <2>4, <2>5
<1>4. orders' \in [Ext -> Seq(Row)]
    BY <1>1, <1>3
<1>5. RowsFound'
    <2> SUFFICES ASSUME NEW t \in Importer, NEW x \in Ext, plan'[t][x] \in {"read", "update"}
                 PROVE  Len(orders'[x]) # 0
        BY DEF RowsFound
    <2>1. plan[t][x] = plan'[t][x]
        BY <1>2, EndedImport
    <2>2. Len(orders[x]) # 0
        BY <2>1 DEF Common, RowsFound
    <2> QED
        BY <1>3, <2>2
<1>6. RowsHeld'
    <2> SUFFICES ASSUME NEW x \in Ext, NEW i \in 1 .. Len(orders'[x]),
                        orders'[x][i].holder # Nobody
                 PROVE  /\ i = 1 /\ orders'[x][i].holder \in Importer
                        /\ plan'[orders'[x][i].holder][x] = "update"
        BY DEF RowsHeld
    <2>1. /\ i \in 1 .. Len(orders[x]) /\ orders'[x][i] = orders[x][i]
          /\ ~(plan[s][x] = "update" /\ i = 1)
        BY <1>3
    <2>2. /\ i = 1 /\ orders[x][i].holder \in Importer
          /\ plan[orders[x][i].holder][x] = "update"
        BY <2>1 DEF Common, RowsHeld
    <2>3. plan'[orders[x][i].holder] = plan[orders[x][i].holder]
        BY <1>2, <2>1, <2>2, EndedImport
    <2> QED
        BY <2>1, <2>2, <2>3
<1> QED
    BY <1>2, <1>4, <1>5, <1>6, EndedImport DEF Common, TypeOK

\* So does one that is cut short.
LEMMA ImportAbortKeeps ==
    ASSUME Common, NEW s \in Importer, ImportAbort(s)
    PROVE  Common'
<1>1. /\ orders' \in [Ext -> Seq(Row)] /\ \A x \in Ext : SameItems(x)
      /\ \A x \in Ext : \A i \in 1 .. Len(orders[x]) :
            orders'[x][i].holder = IF plan[s][x] = "update" /\ i = 1
                                   THEN Nobody ELSE orders[x][i].holder
    BY ReturnedRows DEF Common
<1>2. EndImport(s)
    BY DEF ImportAbort
<1>3. RowsFound'
    <2> SUFFICES ASSUME NEW t \in Importer, NEW x \in Ext, plan'[t][x] \in {"read", "update"}
                 PROVE  Len(orders'[x]) # 0
        BY DEF RowsFound
    <2>1. plan[t][x] = plan'[t][x]
        BY <1>2, EndedImport
    <2> QED
        BY <1>1, <2>1 DEF Common, RowsFound, SameItems
<1>4. RowsHeld'
    <2> SUFFICES ASSUME NEW x \in Ext, NEW i \in 1 .. Len(orders'[x]),
                        orders'[x][i].holder # Nobody
                 PROVE  /\ i = 1 /\ orders'[x][i].holder \in Importer
                        /\ plan'[orders'[x][i].holder][x] = "update"
        BY DEF RowsHeld
    <2>1. i \in 1 .. Len(orders[x])
        BY <1>1 DEF SameItems
    <2>2. orders'[x][i].holder = orders[x][i].holder /\ ~(plan[s][x] = "update" /\ i = 1)
        BY <1>1, <2>1
    <2>3. /\ i = 1 /\ orders[x][i].holder \in Importer
          /\ plan[orders[x][i].holder][x] = "update"
        BY <2>1, <2>2 DEF Common, RowsHeld
    <2>4. plan'[orders[x][i].holder] = plan[orders[x][i].holder]
        BY <1>2, <2>2, <2>3, EndedImport
    <2> QED
        BY <2>2, <2>3, <2>4
<1> QED
    BY <1>1, <1>2, <1>3, <1>4, EndedImport DEF Common, TypeOK

\* A transition that is read writes what it found allowed.
LEMMA TransitionReadKeeps ==
    ASSUME Common, NEW u \in User, NEW rows, NEW target \in Status, NEW track \in BOOLEAN,
           TransitionRead(u, rows, target, track)
    PROVE  Common'
<1> DEFINE changing == {r \in AsRead(rows) : Allowed(r[3], target)}
           new == [rows |-> changing, target |-> target, track |-> track]
<1>1. req' = [req EXCEPT ![u] = new]
    BY DEF TransitionRead
<1>2. changing \subseteq Ext \X Nat \X Status
    BY ReadRows DEF TransitionRead, Common
<1>3. /\ new.target \in Status
      /\ \A r \in new.rows : Allowed(r[3], new.target)
    OBVIOUS
<1> HIDE DEF changing
<1>4. new \in Request
    BY <1>2 DEF Request
<1> HIDE DEF new
<1>5. pc' \in [Session -> Phase] /\ req' \in [User -> Request]
    <2>1. pc' = [pc EXCEPT ![u] = "write"]
        BY DEF TransitionRead
    <2> QED
        BY <1>1, <1>4, <2>1 DEF Common, TypeOK, Phase
<1>6. TypeOK'
    BY <1>5 DEF TransitionRead, Common, TypeOK
<1>7. WritesWereAllowed'
    BY <1>1, <1>3 DEF TransitionRead, Common, TypeOK, WritesWereAllowed, Session
<1>8. Unplanned'
    BY OrdersAssumption DEF TransitionRead, Common, TypeOK, Unplanned, Session
<1> QED
    BY <1>6, <1>7, <1>8 DEF TransitionRead, Common, RowsFound, RowsHeld

\* A tracking request reads the row.
LEMMA TrackingReadKeeps ==
    ASSUME Common, NEW u \in User, NEW row, TrackingRead(u, row)
    PROVE  Common'
<1> DEFINE new == [rows |-> AsRead({row}), target |-> "none", track |-> TRUE]
<1>1. req' = [req EXCEPT ![u] = new]
    BY DEF TrackingRead
<1>2. AsRead({row}) \subseteq Ext \X Nat \X Status
    BY ReadRows DEF TrackingRead, Common
<1>3. new \in Request
    BY <1>2 DEF Request
<1> HIDE DEF new
<1>4. pc' \in [Session -> Phase] /\ req' \in [User -> Request]
    BY <1>1, <1>3 DEF TrackingRead, Common, TypeOK, Phase
<1>5. TypeOK'
    BY <1>4 DEF TrackingRead, Common, TypeOK
<1>6. WritesWereAllowed'
    BY <1>1 DEF TrackingRead, Common, TypeOK, WritesWereAllowed, Session
<1>7. Unplanned'
    BY OrdersAssumption DEF TrackingRead, Common, TypeOK, Unplanned, Session
<1> QED
    BY <1>5, <1>6, <1>7 DEF TrackingRead, Common, RowsFound, RowsHeld

\* What a request leaves in pc and req when it moves on.
LEMMA RequestMoved ==
    ASSUME Common, NEW u \in User, NEW phase \in {"idle", "track"},
           pc' = [pc EXCEPT ![u] = phase],
           req' = req \/ req' = [req EXCEPT ![u] = NoRequest],
           UNCHANGED <<todo, plan>>
    PROVE  /\ pc' \in [Session -> Phase] /\ req' \in [User -> Request]
           /\ WritesWereAllowed' /\ Unplanned'
<1>1. NoRequest \in Request
    BY DEF NoRequest, Request
<1>2. pc' \in [Session -> Phase] /\ req' \in [User -> Request]
    BY <1>1 DEF Common, TypeOK, Phase
<1>3. \A v \in User : pc'[v] = "write" => pc[v] = "write" /\ req'[v] = req[v]
    BY DEF Common, TypeOK, Session
<1>4. \A s \in Importer : pc'[s] = pc[s]
    BY OrdersAssumption DEF Common, TypeOK, Session
<1> QED
    BY <1>2, <1>3, <1>4 DEF Common, WritesWereAllowed, Unplanned

\* A commit of a request leaves the rows where they are.
LEMMA UserStepRows ==
    ASSUME Common, NEW u \in User, UserStep(u)
    PROVE  /\ orders' \in [Ext -> Seq(Row)] /\ \A x \in Ext : SameItems(x)
           /\ \A x \in Ext : \A i \in 1 .. Len(orders[x]) :
                 orders'[x][i].holder = orders[x][i].holder
           /\ UNCHANGED <<remote, moves, batch, todo, plan, seen>>
<1>1. TransitionCommit(u) \/ TrackingCommit(u)
    BY DEF UserStep
<1>2. req[u].target \in Status \/ TrackingCommit(u)
    BY <1>1 DEF TransitionCommit, Common, WritesWereAllowed
<1>3. UNCHANGED <<remote, moves, batch, todo, plan, seen>>
    BY <1>1 DEF TransitionCommit, TrackingCommit
<1> QED
    BY <1>1, <1>2, <1>3, ChangedRows DEF Common

LEMMA UserStepKeeps ==
    ASSUME Common, NEW u \in User, UserStep(u)
    PROVE  Common'
<1>1. TransitionCommit(u) \/ TrackingCommit(u)
    BY DEF UserStep
<1>2. \E phase \in {"idle", "track"} : pc' = [pc EXCEPT ![u] = phase]
    <2>1. CASE TransitionCommit(u)
        BY <2>1 DEF TransitionCommit
    <2>2. CASE TrackingCommit(u)
        BY <2>2 DEF TrackingCommit
    <2> QED
        BY <1>1, <2>1, <2>2
<1>3. req' = req \/ req' = [req EXCEPT ![u] = NoRequest]
    BY <1>1 DEF TransitionCommit, TrackingCommit
<1>4. /\ pc' \in [Session -> Phase] /\ req' \in [User -> Request]
      /\ WritesWereAllowed' /\ Unplanned'
    BY <1>2, <1>3, UserStepRows, RequestMoved
<1>5. RowsFound' /\ RowsHeld'
    BY UserStepRows, HeldKept
<1>6. TypeOK'
    BY <1>4, UserStepRows DEF Common, TypeOK
<1> QED
    BY <1>4, <1>5, <1>6 DEF Common

\* A request that ends early changes nothing.
LEMMA UserAbortKeeps ==
    ASSUME Common, NEW u \in User, UserAbort(u)
    PROVE  Common'
<1>1. /\ pc' \in [Session -> Phase] /\ req' \in [User -> Request]
      /\ WritesWereAllowed' /\ Unplanned'
    BY RequestMoved DEF UserAbort
<1>2. TypeOK'
    BY <1>1 DEF UserAbort, Common, TypeOK
<1> QED
    BY <1>1, <1>2 DEF UserAbort, Common, RowsFound, RowsHeld

\* Every step keeps what holds of overlapping imports.
LEMMA CommonStep ==
    ASSUME Common, FreshTags, [Next]_vars
    PROVE  Common'
<1>1. CASE UNCHANGED vars
    BY <1>1 DEF vars, Common, TypeOK, RowsFound, Unplanned, RowsHeld, WritesWereAllowed
<1>2. ASSUME NEW x \in Ext, RemoteMove(x) PROVE Common'
    BY <1>2, RemoteMoveKeeps
<1>3. ASSUME NEW s \in Importer, ImportStep(s) \/ ImportAbort(s) PROVE Common'
    BY <1>3, ImportFetchKeeps, ImportReadKeeps, ImportFlushKeeps, ImportCommitKeeps,
       ImportAbortKeeps DEF ImportStep
<1>4. ASSUME NEW u \in User, UserStep(u) \/ UserAbort(u) PROVE Common'
    BY <1>4, UserStepKeeps, UserAbortKeeps
<1>5. ASSUME NEW u \in User, NEW rows \in SUBSET Rows, NEW target \in Status,
             NEW track \in BOOLEAN, TransitionRead(u, rows, target, track)
      PROVE  Common'
    BY <1>5, TransitionReadKeeps
<1>6. ASSUME NEW u \in User, NEW row \in Rows, TrackingRead(u, row) PROVE Common'
    BY <1>6, TrackingReadKeeps
<1> QED
    BY <1>1, <1>2, <1>3, <1>4, <1>5, <1>6 DEF Next


-----------------------------------------------------------------------------
(* A fresh tag                                                             *)

\* One row and one importer know one tag at most.
LEMMA SecondTag ==
    ASSUME TypeOK, Alone, TwoTags
    PROVE  FreshTags
<1> SUFFICES ASSUME NEW x \in Ext PROVE FreshTag(x) \in Tag
    BY DEF FreshTags
<1>1. \E t \in Tag : /\ \A i \in DOMAIN orders[x] : t \notin orders[x][i].items
                     /\ \A s \in Importer : t \notin seen[s][x].items
    <2>1. DOMAIN orders[x] = 1 .. Len(orders[x]) /\ Len(orders[x]) \in {0, 1}
        BY RowsAreStored, NoneOrOne DEF Alone
    <2>2. \A s \in Importer : \/ seen[s][x].items = {}
                              \/ Len(orders[x]) = 1 /\ seen[s][x].items = orders[x][1].items
        BY DEF Alone, FoundIsStored
    <2>3. CASE Len(orders[x]) = 0
        <3>1. PICK t \in Tag : TRUE
            BY DEF TwoTags
        <3>2. \A i \in DOMAIN orders[x] : t \notin orders[x][i].items
            BY <2>1, <2>3
        <3>3. \A s \in Importer : t \notin seen[s][x].items
            BY <2>2, <2>3
        <3> QED
            BY <3>1, <3>2, <3>3
    <2>4. CASE Len(orders[x]) = 1
        <3>1. PICK t \in Tag : orders[x][1].items = {t}
            BY <2>4 DEF Alone, OneSet
        <3>2. PICK other \in Tag : other # t
            BY DEF TwoTags
        <3>3. other \notin {t}
            BY <3>2
        <3>4. \A i \in DOMAIN orders[x] : other \notin orders[x][i].items
            BY <2>1, <2>4, <3>1, <3>3
        <3> QED
            BY <2>2, <2>4, <3>1, <3>3, <3>4
    <2> QED
        BY <2>1, <2>3, <2>4
<1> QED
    BY <1>1 DEF FreshTag

\* Finitely many tags in use leave one of infinitely many.
LEMMA UnusedTag ==
    ASSUME TypeOK, TagsInUse, ~IsFiniteSet(Tag)
    PROVE  FreshTags
<1> SUFFICES ASSUME NEW x \in Ext PROVE FreshTag(x) \in Tag
    BY DEF FreshTags
<1>1. PICK F \in SUBSET Tag :
         /\ IsFiniteSet(F)
         /\ \A i \in 1 .. Len(orders[x]) : orders[x][i].items \subseteq F
         /\ \A s \in Importer : seen[s][x].items \subseteq F
    BY DEF TagsInUse
<1>2. F # Tag
    BY <1>1
<1>3. PICK t \in Tag : t \notin F
    BY <1>2
<1>4. DOMAIN orders[x] = 1 .. Len(orders[x])
    BY RowsAreStored
<1>5. /\ \A i \in DOMAIN orders[x] : t \notin orders[x][i].items
      /\ \A s \in Importer : t \notin seen[s][x].items
    BY <1>1, <1>3, <1>4
<1> QED
    BY <1>3, <1>5 DEF FreshTag

\* A step brings one tag into use.
LEMMA TagsStep ==
    ASSUME Common, FreshTags, TagsInUse, [Next]_vars
    PROVE  TagsInUse'
<1> SUFFICES ASSUME NEW x \in Ext
             PROVE  \E G \in SUBSET Tag :
                       /\ IsFiniteSet(G)
                       /\ \A i \in 1 .. Len(orders'[x]) : orders'[x][i].items \subseteq G
                       /\ \A s \in Importer : seen'[s][x].items \subseteq G
    BY DEF TagsInUse
<1>1. PICK F \in SUBSET Tag :
         /\ IsFiniteSet(F)
         /\ \A i \in 1 .. Len(orders[x]) : orders[x][i].items \subseteq F
         /\ \A s \in Importer : seen[s][x].items \subseteq F
    BY DEF TagsInUse
<1> DEFINE G == F \cup {FreshTag(x)}
<1>2. G \in SUBSET Tag /\ IsFiniteSet(G) /\ F \subseteq G /\ FreshTag(x) \in G
    BY <1>1, FS_AddElement DEF FreshTags
<1> HIDE DEF G
<1>3. SameItems(x) => \A i \in 1 .. Len(orders'[x]) : orders'[x][i].items \subseteq G
    BY <1>1, <1>2 DEF SameItems
<1>4. UNCHANGED orders => \A i \in 1 .. Len(orders'[x]) : orders'[x][i].items \subseteq G
    BY <1>1, <1>2
<1>5. ASSUME NEW s \in Importer, EndImport(s)
      PROVE  \A t \in Importer : seen'[t][x].items \subseteq G
    BY <1>1, <1>2, <1>5, EndedImport
<1>6. ASSUME NEW s \in Importer, ImportCommit(s)
      PROVE  \A i \in 1 .. Len(orders'[x]) : orders'[x][i].items \subseteq G
    <2>1. orders'[x] = Imported(s, x) /\ plan[s][x] # "read" /\ Len(orders[x]) \in Nat
        BY <1>6, RowsAreStored DEF ImportCommit, Common
    <2>2. /\ Len(Imported(s, x)) = IF plan[s][x] = "new" THEN Len(orders[x]) + 1
                                   ELSE Len(orders[x])
          /\ \A i \in 1 .. Len(orders[x]) :
                /\ plan[s][x] = "update" /\ i = 1 =>
                      Imported(s, x)[i].items =
                         (orders[x][i].items \ seen[s][x].items) \cup {FreshTag(x)}
                /\ ~(plan[s][x] = "update" /\ i = 1) => Imported(s, x)[i] = orders[x][i]
          /\ plan[s][x] = "new" =>
                Imported(s, x)[Len(orders[x]) + 1].items = {FreshTag(x)}
        BY <2>1, ImportedRows DEF Common, FreshTags
    <2>3. \A i \in 1 .. Len(orders[x]) : Imported(s, x)[i].items \subseteq G
        BY <1>1, <1>2, <2>2
    <2>4. CASE plan[s][x] = "new"
        <3>1. \A i \in 1 .. Len(orders[x]) + 1 :
                 i \in 1 .. Len(orders[x]) \/ i = Len(orders[x]) + 1
            BY <2>1
        <3> QED
            BY <1>2, <2>1, <2>2, <2>3, <2>4, <3>1
    <2>5. CASE plan[s][x] # "new"
        BY <2>1, <2>2, <2>3, <2>5
    <2> QED
        BY <2>4, <2>5
<1>7. ASSUME NEW s \in Importer, NEW y \in Ext, ImportRead(s, y)
      PROVE  \A t \in Importer : seen'[t][x].items \subseteq G
    <2>1. CASE Found(y) = "read"
        <3> DEFINE row == [orders[y][1] EXCEPT !.holder = Nobody]
        <3>1. /\ orders[y] \in Seq(Row) /\ Len(orders[y]) = 1 /\ 1 \in 1 .. Len(orders[y])
            BY <2>1, RowsAreStored DEF Common, Found
        <3>2. orders[y][1] \in Row
            BY <3>1, ElementOfSeq
        <3>3. row.items = orders[y][1].items
            BY <3>2, RowWritten
        <3>4. seen' = [seen EXCEPT ![s] = [seen[s] EXCEPT ![y] = row]]
            BY <1>7, <2>1 DEF ImportRead
        <3> HIDE DEF row
        <3>5. ASSUME NEW t \in Importer
              PROVE  seen'[t][x] = seen[t][x] \/ (y = x /\ seen'[t][x] = row)
            BY <3>4 DEF Common, TypeOK, Session
        <3> QED
            BY <1>1, <1>2, <3>1, <3>3, <3>5
    <2>2. CASE Found(y) # "read"
        BY <1>1, <1>2, <1>7, <2>2 DEF ImportRead
    <2> QED
        BY <2>1, <2>2
<1>8. ASSUME UNCHANGED seen
      PROVE  \A t \in Importer : seen'[t][x].items \subseteq G
    BY <1>1, <1>2, <1>8
<1>9. ASSUME NEW s \in Importer, ImportStep(s) \/ ImportAbort(s)
      PROVE  /\ \A i \in 1 .. Len(orders'[x]) : orders'[x][i].items \subseteq G
             /\ \A t \in Importer : seen'[t][x].items \subseteq G
    <2>1. CASE ImportFetch(s)
        BY <1>4, <1>8, <2>1 DEF ImportFetch
    <2>2. ASSUME NEW y \in Ext, ImportRead(s, y)
          PROVE  /\ \A i \in 1 .. Len(orders'[x]) : orders'[x][i].items \subseteq G
                 /\ \A t \in Importer : seen'[t][x].items \subseteq G
        BY <1>4, <1>7, <2>2 DEF ImportRead
    <2>3. ASSUME NEW y \in Ext, ImportFlush(s, y)
          PROVE  /\ \A i \in 1 .. Len(orders'[x]) : orders'[x][i].items \subseteq G
                 /\ \A t \in Importer : seen'[t][x].items \subseteq G
        <3>1. Len(orders[y]) # 0 /\ UNCHANGED seen
            BY <2>3 DEF ImportFlush, Common, RowsFound
        <3>2. SameItems(x)
            BY <2>3, <3>1, FlushedRows DEF Common
        <3> QED
            BY <1>3, <1>8, <3>1, <3>2
    <2>4. CASE ImportCommit(s)
        BY <1>5, <1>6, <2>4 DEF ImportCommit
    <2>5. CASE ImportAbort(s)
        <3>1. SameItems(x)
            BY <2>5, ReturnedRows DEF Common
        <3> QED
            BY <1>3, <1>5, <2>5, <3>1 DEF ImportAbort
    <2> QED
        BY <1>9, <2>1, <2>2, <2>3, <2>4, <2>5 DEF ImportStep
<1>10. ASSUME NEW u \in User, UserStep(u)
       PROVE  /\ \A i \in 1 .. Len(orders'[x]) : orders'[x][i].items \subseteq G
              /\ \A t \in Importer : seen'[t][x].items \subseteq G
    BY <1>3, <1>8, <1>10, UserStepRows
<1>11. \/ \E s \in Importer : ImportStep(s) \/ ImportAbort(s)
       \/ \E u \in User : UserStep(u)
       \/ UNCHANGED <<orders, seen>>
    BY DEF Next, vars, RemoteMove, UserAbort, TransitionRead, TrackingRead
<1>12. /\ \A i \in 1 .. Len(orders'[x]) : orders'[x][i].items \subseteq G
       /\ \A t \in Importer : seen'[t][x].items \subseteq G
    BY <1>4, <1>8, <1>9, <1>10, <1>11
<1> QED
    BY <1>2, <1>12

-----------------------------------------------------------------------------
(* What holds of imports that do not overlap                               *)

\* Rows that keep their items keep what is said of them.
LEMMA SameItemsKept ==
    ASSUME IInv, \A x \in Ext : SameItems(x)
    PROVE  OneRowPerOrder' /\ OneSet'
<1>1. \A x \in Ext : orders[x] \in Seq(Row) /\ Len(orders[x]) \in Nat
    BY RowsAreStored DEF IInv, Common
<1> QED
    BY <1>1 DEF IInv, Alone, OneRowPerOrder, OneSet, SameItems

\* So do the plans of the imports, if these are as before.
LEMMA PlansKept ==
    ASSUME IInv, \A x \in Ext : SameItems(x), UNCHANGED <<plan, seen>>
    PROVE  FoundIsStored'
<1>1. \A x \in Ext : Len(orders[x]) = 1 => 1 \in 1 .. Len(orders[x])
    OBVIOUS
<1> QED
    BY <1>1 DEF IInv, Alone, FoundIsStored, SameItems

\* A lookup finds what is stored.
LEMMA ImportReadFinds ==
    ASSUME IInv, NEW s \in Importer, NEW x \in Ext, ImportRead(s, x)
    PROVE  Alone'
<1> DEFINE row == [orders[x][1] EXCEPT !.holder = Nobody]
<1>1. /\ orders[x] \in Seq(Row) /\ Len(orders[x]) \in {0, 1}
      /\ Found(x) = IF Len(orders[x]) = 0 THEN "new" ELSE "read"
    BY RowsAreStored, NoneOrOne DEF IInv, Common, Alone, Found
<1>2. plan' = [plan EXCEPT ![s] = [plan[s] EXCEPT ![x] = Found(x)]]
    BY DEF ImportRead
<1>3. plan[s][x] \notin {"read", "update"} \/ Len(orders[x]) = 1
    BY DEF IInv, Alone, FoundIsStored
<1>4. CASE Len(orders[x]) = 1
    <2>1. orders[x][1] \in Row
        BY <1>1, <1>4, ElementOfSeq
    <2>2. row.items = orders[x][1].items
        BY <2>1, RowWritten
    <2>3. seen' = [seen EXCEPT ![s] = [seen[s] EXCEPT ![x] = row]]
        BY <1>1, <1>4 DEF ImportRead
    <2> HIDE DEF row
    <2>4. FoundIsStored'
        <3> SUFFICES ASSUME NEW t \in Importer, NEW y \in Ext
                     PROVE  /\ plan'[t][y] = "new" => Len(orders[y]) = 0
                            /\ plan'[t][y] \in {"read", "update"} =>
                                   Len(orders[y]) = 1 /\ seen'[t][y].items = orders[y][1].items
                            /\ plan'[t][y] \notin {"read", "update"} => seen'[t][y].items = {}
            BY DEF ImportRead, FoundIsStored
        <3>1. CASE t = s /\ y = x
            BY <1>1, <1>2, <1>4, <2>2, <2>3, <3>1 DEF IInv, Common, TypeOK, Session
        <3>2. CASE ~(t = s /\ y = x)
            <4>1. plan'[t][y] = plan[t][y] /\ seen'[t][y] = seen[t][y]
                BY <1>2, <2>3, <3>2 DEF IInv, Common, TypeOK, Session
            <4> QED
                BY <4>1 DEF IInv, Alone, FoundIsStored
        <3> QED
            BY <3>1, <3>2
    <2> QED
        BY <2>4 DEF ImportRead, IInv, Alone, OneRowPerOrder, OneSet
<1>5. CASE Len(orders[x]) = 0
    <2>1. UNCHANGED <<orders, seen>>
        BY <1>1, <1>5 DEF ImportRead
    <2>2. FoundIsStored'
        BY <1>1, <1>2, <1>3, <1>5, <2>1 DEF IInv, Common, TypeOK, Alone, FoundIsStored
    <2> QED
        BY <2>1, <2>2 DEF IInv, Alone, OneRowPerOrder, OneSet
<1> QED
    BY <1>1, <1>4, <1>5

\* A flush updates what was found.
LEMMA ImportFlushFinds ==
    ASSUME IInv, NEW s \in Importer, NEW x \in Ext, ImportFlush(s, x)
    PROVE  Alone'
<1>1. plan[s][x] = "read" /\ Len(orders[x]) = 1
    BY DEF ImportFlush, IInv, Alone, FoundIsStored
<1>2. \A y \in Ext : SameItems(y)
    BY <1>1, FlushedRows DEF IInv, Common
<1>3. plan' = [plan EXCEPT ![s] = [plan[s] EXCEPT ![x] = "update"]]
    BY DEF ImportFlush
<1>4. FoundIsStored'
    <2>1. \A y \in Ext : Len(orders[y]) = 1 => 1 \in 1 .. Len(orders[y])
        OBVIOUS
    <2> SUFFICES ASSUME NEW t \in Importer, NEW y \in Ext
                 PROVE  /\ plan'[t][y] = "new" => Len(orders'[y]) = 0
                        /\ plan'[t][y] \in {"read", "update"} =>
                               /\ Len(orders'[y]) = 1
                               /\ seen[t][y].items = orders'[y][1].items
                        /\ plan'[t][y] \notin {"read", "update"} => seen[t][y].items = {}
        BY DEF ImportFlush, FoundIsStored
    <2>2. plan'[t][y] = plan[t][y] \/ (plan[t][y] = "read" /\ plan'[t][y] = "update")
        BY <1>1, <1>3 DEF IInv, Common, TypeOK
    <2> QED
        BY <1>2, <2>1, <2>2 DEF IInv, Alone, FoundIsStored, SameItems
<1> QED
    BY <1>2, <1>4, SameItemsKept DEF Alone

\* The end of the one import leaves nothing planned.
LEMMA EndedAlone ==
    ASSUME IInv, OneImporter, NEW s \in Importer, EndImport(s)
    PROVE  FoundIsStored'
<1>1. \A t \in Importer : t = s
    BY DEF OneImporter
<1> QED
    BY <1>1, EndedImport DEF IInv, FoundIsStored

\* A commit of the one importer stores every order once, with one item set.
LEMMA ImportCommitAlone ==
    ASSUME IInv, FreshTags, OneImporter, NEW s \in Importer, ImportCommit(s)
    PROVE  Alone'
<1>1. ASSUME NEW x \in Ext
      PROVE  /\ Len(orders'[x]) <= 1
             /\ \A i \in 1 .. Len(orders'[x]) : \E t \in Tag : orders'[x][i].items = {t}
    <2>1. orders'[x] = Imported(s, x) /\ plan[s][x] # "read" /\ Len(orders[x]) \in {0, 1}
        BY NoneOrOne DEF ImportCommit, IInv, Common, Alone
    <2>2. /\ Len(Imported(s, x)) = IF plan[s][x] = "new" THEN Len(orders[x]) + 1
                                   ELSE Len(orders[x])
          /\ \A i \in 1 .. Len(orders[x]) :
                /\ plan[s][x] = "update" /\ i = 1 =>
                      Imported(s, x)[i].items =
                         (orders[x][i].items \ seen[s][x].items) \cup {FreshTag(x)}
                /\ ~(plan[s][x] = "update" /\ i = 1) => Imported(s, x)[i] = orders[x][i]
          /\ plan[s][x] = "new" =>
                Imported(s, x)[Len(orders[x]) + 1].items = {FreshTag(x)}
        BY <2>1, ImportedRows DEF IInv, Common, FreshTags
    <2>3. /\ plan[s][x] = "new" => Len(orders[x]) = 0
          /\ plan[s][x] = "update" => Len(orders[x]) = 1 /\ seen[s][x].items = orders[x][1].items
        BY DEF IInv, Alone, FoundIsStored
    <2>4. FreshTag(x) \in Tag
        BY DEF FreshTags
    <2>5. CASE plan[s][x] = "new"
        BY <2>1, <2>2, <2>3, <2>4, <2>5
    <2>6. CASE plan[s][x] = "update"
        <3>1. Imported(s, x)[1].items = {FreshTag(x)}
            BY <2>2, <2>3, <2>6
        <3> QED
            BY <2>1, <2>2, <2>3, <2>4, <2>6, <3>1
    <2>7. CASE plan[s][x] \notin {"new", "update"}
        BY <2>1, <2>2, <2>7 DEF IInv, Alone, OneSet
    <2> QED
        BY <2>5, <2>6, <2>7
<1>2. OneRowPerOrder' /\ OneSet'
    BY <1>1 DEF OneRowPerOrder, OneSet
<1> QED
    BY <1>2, EndedAlone DEF ImportCommit, Alone

\* Every step keeps what holds of imports that do not overlap.
LEMMA AloneStep ==
    ASSUME IInv, FreshTags, OneImporter, [Next]_vars
    PROVE  Alone'
<1>1. CASE UNCHANGED <<orders, plan, seen>>
    BY <1>1 DEF IInv, Alone, OneRowPerOrder, OneSet, FoundIsStored
<1>2. ASSUME NEW s \in Importer, ImportAbort(s) PROVE Alone'
    BY <1>2, ReturnedRows, SameItemsKept, EndedAlone DEF ImportAbort, IInv, Common, Alone
<1>3. ASSUME NEW s \in Importer, NEW x \in Ext, ImportRead(s, x) \/ ImportFlush(s, x)
      PROVE  Alone'
    BY <1>3, ImportReadFinds, ImportFlushFinds
<1>4. ASSUME NEW s \in Importer, ImportCommit(s) PROVE Alone'
    BY <1>4, ImportCommitAlone
<1>5. ASSUME NEW u \in User, UserStep(u) PROVE Alone'
    BY <1>5, UserStepRows, SameItemsKept, PlansKept DEF IInv, Alone
<1>6. \/ \E s \in Importer : \/ ImportAbort(s) \/ ImportCommit(s)
                             \/ \E x \in Ext : ImportRead(s, x) \/ ImportFlush(s, x)
      \/ \E u \in User : UserStep(u)
      \/ UNCHANGED <<orders, plan, seen>>
    BY DEF Next, vars, RemoteMove, ImportStep, ImportFetch, UserAbort, TransitionRead,
           TrackingRead
<1> QED
    BY <1>1, <1>2, <1>3, <1>4, <1>5, <1>6

-----------------------------------------------------------------------------
(* The invariants hold of every behaviour                                  *)

LEMMA Invariant == ASSUME OneImporter, TwoTags PROVE Spec => []IInv
<1>1. IInv /\ [Next]_vars => IInv'
    <2> SUFFICES ASSUME IInv, [Next]_vars PROVE IInv'
        OBVIOUS
    <2>1. FreshTags
        BY SecondTag DEF IInv, Common
    <2> QED
        BY <2>1, CommonStep, AloneStep DEF IInv
<1> QED
    BY <1>1, InitIInv, PTL DEF Spec

\* There always is a fresh tag, and what does not depend on overlaps holds.
LEMMA CommonAlways == ASSUME EnoughTags PROVE Spec => [](Common /\ FreshTags)
<1>1. ASSUME OneImporter, TwoTags PROVE Spec => [](Common /\ FreshTags)
    <2>1. IInv => Common /\ FreshTags
        BY <1>1, SecondTag DEF IInv, Common
    <2>2. Spec => []IInv
        BY <1>1, Invariant
    <2> QED
        BY <2>1, <2>2, PTL
<1>2. ASSUME ~IsFiniteSet(Tag) PROVE Spec => [](Common /\ FreshTags)
    <2>1. Init => Common /\ TagsInUse
        BY InitIInv DEF IInv
    <2>2. Common /\ TagsInUse => FreshTags
        BY <1>2, UnusedTag DEF Common
    <2>3. Common /\ TagsInUse /\ [Next]_vars => Common' /\ TagsInUse'
        BY <2>2, CommonStep, TagsStep
    <2> QED
        BY <2>1, <2>2, <2>3, PTL DEF Spec
<1> QED
    BY <1>1, <1>2 DEF EnoughTags

-----------------------------------------------------------------------------
(* Theorems                                                                *)

\* Every variable keeps its type, however imports overlap.
THEOREM TypeCorrect == ASSUME EnoughTags PROVE Spec => []TypeOK
BY CommonAlways, PTL DEF Common

\* Imports that do not overlap never store an order of the channel twice
\* (order_service.py:93), whatever users and the channel do meanwhile.
THEOREM StoredOnce == ASSUME OneImporter, TwoTags PROVE Spec => []OneRowPerOrder
BY Invariant, PTL DEF IInv, Alone

\* A stored order has the items of exactly one import (order_service.py:129).
THEOREM ItemsOfOneImport == ASSUME OneImporter, TwoTags PROVE Spec => []ItemsOnce
<1>1. IInv => ItemsOnce
    <2> SUFFICES ASSUME IInv, NEW x \in Ext, NEW i \in DOMAIN orders[x]
                 PROVE  Cardinality(orders[x][i].items) = 1
        BY DEF ItemsOnce
    <2>1. i \in 1 .. Len(orders[x])
        BY RowsAreStored DEF IInv, Common
    <2>2. PICK t \in Tag : orders[x][i].items = {t}
        BY <2>1 DEF IInv, Alone, OneSet
    <2> QED
        BY <2>2, FS_Singleton
<1> QED
    BY <1>1, Invariant, PTL

\* A locked row waits for an import in progress, so nothing holds a row after
\* its import ended, committed or cut short.
LocksOfImports ==
    \A x \in Ext : \A i \in DOMAIN orders[x] :
        orders[x][i].holder # Nobody =>
            orders[x][i].holder \in Importer /\ pc[orders[x][i].holder] = "import"

\* No import leaves a lock behind (order_service.py:93: the rows its savepoints
\* updated stay locked until the one commit, or until it is cut short): what a
\* waiting commit waits for is still running.
THEOREM LocksEnd == ASSUME EnoughTags PROVE Spec => []LocksOfImports
<1>1. Common => LocksOfImports
    <2> SUFFICES ASSUME Common, NEW x \in Ext, NEW i \in DOMAIN orders[x],
                        orders[x][i].holder # Nobody
                 PROVE  /\ orders[x][i].holder \in Importer
                        /\ pc[orders[x][i].holder] = "import"
        BY DEF LocksOfImports
    <2>1. i \in 1 .. Len(orders[x])
        BY RowsAreStored DEF Common
    <2>2. /\ orders[x][i].holder \in Importer
          /\ plan[orders[x][i].holder][x] = "update"
        BY <2>1 DEF Common, RowsHeld
    <2> QED
        BY <2>2 DEF Common, Unplanned
<1> QED
    BY <1>1, CommonAlways, PTL

\* Imports that will add a row for x.
Adding(x) == {s \in Importer : plan[s][x] = "new"}

\* Every row of an order was added by an import of its own.
RowsAdd == \A x \in Ext : Len(orders[x]) + Cardinality(Adding(x)) <= Cardinality(Importer)

\* Imports that overlap store an order as often as there are imports and no
\* oftener: a later one finds the order, or fails on it.
RowsPerImport == \A x \in Ext : Len(orders[x]) <= Cardinality(Importer)

\* What adds no row and no import that will keeps the bound.
LEMMA NoRowAdded ==
    ASSUME TypeOK, RowsAdd, IsFiniteSet(Importer), NEW x \in Ext,
           Len(orders'[x]) = Len(orders[x]), Adding(x)' \subseteq Adding(x)
    PROVE  Len(orders'[x]) + Cardinality(Adding(x))' <= Cardinality(Importer)
<1>1. IsFiniteSet(Adding(x)) /\ IsFiniteSet(Adding(x)')
    BY FS_Subset DEF Adding
<1>2. Cardinality(Adding(x)') <= Cardinality(Adding(x))
    BY <1>1, FS_Subset
<1>3. /\ Cardinality(Adding(x)') \in Nat /\ Cardinality(Adding(x)) \in Nat
      /\ Cardinality(Importer) \in Nat /\ Len(orders[x]) \in Nat
    BY <1>1, FS_CardinalityType, RowsAreStored
<1>4. Len(orders[x]) + Cardinality(Adding(x)) <= Cardinality(Importer)
    BY DEF RowsAdd
<1> QED
    BY <1>2, <1>3, <1>4

LEMMA RowsAddStep ==
    ASSUME Common, FreshTags, RowsAdd, IsFiniteSet(Importer), [Next]_vars
    PROVE  RowsAdd'
<1> SUFFICES ASSUME NEW x \in Ext
             PROVE  Len(orders'[x]) + Cardinality(Adding(x))' <= Cardinality(Importer)
    BY DEF RowsAdd
<1>1. UNCHANGED plan => Adding(x)' = Adding(x)
    BY DEF Adding
<1>2. CASE UNCHANGED <<orders, plan>>
    BY <1>1, <1>2, NoRowAdded DEF Common
<1>3. ASSUME NEW s \in Importer, EndImport(s)
      PROVE  Adding(x)' = Adding(x) \ {s}
    BY <1>3, EndedImport DEF Adding
<1>4. ASSUME NEW s \in Importer, ImportAbort(s)
      PROVE  Len(orders'[x]) + Cardinality(Adding(x))' <= Cardinality(Importer)
    <2>1. Len(orders'[x]) = Len(orders[x])
        BY <1>4, ReturnedRows DEF Common, SameItems
    <2>2. Adding(x)' \subseteq Adding(x)
        BY <1>3, <1>4 DEF ImportAbort
    <2> QED
        BY <2>1, <2>2, NoRowAdded DEF Common
<1>5. ASSUME NEW s \in Importer, NEW y \in Ext, ImportFlush(s, y)
      PROVE  Len(orders'[x]) + Cardinality(Adding(x))' <= Cardinality(Importer)
    <2>1. Len(orders[y]) # 0
        BY <1>5 DEF ImportFlush, Common, RowsFound
    <2>2. Len(orders'[x]) = Len(orders[x])
        BY <1>5, <2>1, FlushedRows DEF Common, SameItems
    <2>3. plan' = [plan EXCEPT ![s] = [plan[s] EXCEPT ![y] = "update"]]
        BY <1>5 DEF ImportFlush
    <2>4. Adding(x)' \subseteq Adding(x)
        BY <2>3 DEF Adding, Common, TypeOK
    <2> QED
        BY <2>2, <2>4, NoRowAdded DEF Common
<1>6. ASSUME NEW s \in Importer, NEW y \in Ext, ImportRead(s, y)
      PROVE  Len(orders'[x]) + Cardinality(Adding(x))' <= Cardinality(Importer)
    <2>1. plan' = [plan EXCEPT ![s] = [plan[s] EXCEPT ![y] = Found(y)]] /\ UNCHANGED orders
        BY <1>6 DEF ImportRead
    <2>2. CASE y = x /\ Len(orders[x]) = 0
        <3>1. Adding(x)' \subseteq Importer
            BY DEF Adding
        <3>2. /\ Cardinality(Adding(x)') <= Cardinality(Importer)
              /\ Cardinality(Adding(x)') \in Nat /\ Cardinality(Importer) \in Nat
            BY <3>1, FS_Subset, FS_CardinalityType
        <3> QED
            BY <2>1, <2>2, <3>2
    <2>3. CASE ~(y = x /\ Len(orders[x]) = 0)
        <3>1. y = x => Found(y) # "new"
            BY <2>3 DEF Found
        <3>2. Adding(x)' \subseteq Adding(x)
            BY <2>1, <3>1 DEF Adding, Common, TypeOK
        <3> QED
            BY <2>1, <3>2, NoRowAdded DEF Common
    <2> QED
        BY <2>2, <2>3
<1>7. ASSUME NEW s \in Importer, ImportCommit(s)
      PROVE  Len(orders'[x]) + Cardinality(Adding(x))' <= Cardinality(Importer)
    <2>1. orders'[x] = Imported(s, x) /\ plan[s][x] # "read"
        BY <1>7 DEF ImportCommit
    <2>2. Len(orders'[x]) = IF plan[s][x] = "new" THEN Len(orders[x]) + 1
                            ELSE Len(orders[x])
        BY <2>1, ImportedRows DEF Common, FreshTags
    <2>3. Adding(x)' = Adding(x) \ {s}
        BY <1>3, <1>7 DEF ImportCommit
    <2>4. CASE plan[s][x] = "new"
        <3>1. IsFiniteSet(Adding(x)) /\ s \in Adding(x)
            BY <2>4, FS_Subset DEF Adding
        <3>2. Cardinality(Adding(x)') = Cardinality(Adding(x)) - 1
            BY <2>3, <3>1, FS_RemoveElement
        <3>3. /\ Cardinality(Adding(x)) \in Nat /\ Cardinality(Importer) \in Nat
              /\ Len(orders[x]) \in Nat
            BY <3>1, FS_CardinalityType, RowsAreStored DEF Common
        <3>4. Len(orders[x]) + Cardinality(Adding(x)) <= Cardinality(Importer)
            BY DEF RowsAdd
        <3> QED
            BY <2>2, <2>4, <3>2, <3>3, <3>4
    <2>5. CASE plan[s][x] # "new"
        BY <2>2, <2>3, <2>5, NoRowAdded DEF Common
    <2> QED
        BY <2>4, <2>5
<1>8. ASSUME NEW u \in User, UserStep(u)
      PROVE  Len(orders'[x]) + Cardinality(Adding(x))' <= Cardinality(Importer)
    <2>1. Len(orders'[x]) = Len(orders[x]) /\ UNCHANGED plan
        BY <1>8, UserStepRows DEF SameItems
    <2> QED
        BY <1>1, <2>1, NoRowAdded DEF Common
<1>9. \/ \E s \in Importer : \/ ImportAbort(s) \/ ImportCommit(s)
                             \/ \E y \in Ext : ImportRead(s, y) \/ ImportFlush(s, y)
      \/ \E u \in User : UserStep(u)
      \/ UNCHANGED <<orders, plan>>
    BY DEF Next, vars, RemoteMove, ImportStep, ImportFetch, UserAbort, TransitionRead,
           TrackingRead
<1> QED
    BY <1>2, <1>4, <1>5, <1>6, <1>7, <1>8, <1>9

\* However imports overlap, an order has at most one row per importer: the
\* duplicates of two that both found none (order_service.py:93) do not grow
\* with every sync, for a later one finds several and fails on the order.
THEOREM RowsBounded ==
    ASSUME EnoughTags, IsFiniteSet(Importer)
    PROVE  Spec => []RowsPerImport
<1>1. Init => RowsAdd
    <2> SUFFICES ASSUME Init, NEW x \in Ext
                 PROVE  Len(orders[x]) + Cardinality(Adding(x)) <= Cardinality(Importer)
        BY DEF RowsAdd
    <2>1. Adding(x) = {} /\ orders[x] = << >>
        BY DEF Init, Adding
    <2>2. Cardinality(Adding(x)) = 0 /\ Cardinality(Importer) \in Nat
        BY <2>1, FS_EmptySet, FS_CardinalityType
    <2>3. Len(orders[x]) = 0
        BY <2>1, EmptySeq
    <2> QED
        BY <2>2, <2>3
<1>2. Common /\ FreshTags /\ RowsAdd /\ [Next]_vars => RowsAdd'
    BY RowsAddStep
<1>3. Common /\ RowsAdd => RowsPerImport
    <2> SUFFICES ASSUME Common, RowsAdd, NEW x \in Ext
                 PROVE  Len(orders[x]) <= Cardinality(Importer)
        BY DEF RowsPerImport
    <2>1. IsFiniteSet(Adding(x))
        BY FS_Subset DEF Adding
    <2>2. /\ Cardinality(Adding(x)) \in Nat /\ Cardinality(Importer) \in Nat
          /\ Len(orders[x]) \in Nat
        BY <2>1, FS_CardinalityType, RowsAreStored DEF Common
    <2> QED
        BY <2>2 DEF RowsAdd
<1> QED
    BY <1>1, <1>2, <1>3, CommonAlways, PTL DEF Spec

\* A step that moves a user's request or an import moves its pc.
LEMMA CommitMoves ==
    ASSUME TypeOK
    PROVE  /\ \A s \in Importer : ImportCommit(s) => pc'[s] # pc[s]
           /\ \A u \in User : TransitionCommit(u) => pc'[u] # pc[u]
BY DEF ImportCommit, EndImport, TransitionCommit, TypeOK, Session

\* CANCELED and REFUNDED are left only by an import that fetched something else
\* or by a request that read the order before (VALID_TRANSITIONS), however
\* imports overlap.
THEOREM ConcludedOrdersStay == ASSUME EnoughTags PROVE Spec => ConcludedStays
<1> DEFINE Left(x, i) ==
        \/ \E s \in Importer : pc'[s] # pc[s] /\ batch[s][x] = orders'[x][i].status
        \/ \E u \in User : /\ pc'[u] # pc[u] /\ req[u].target = orders'[x][i].status
                           /\ \E r \in req[u].rows :
                                 r[1] = x /\ r[2] = i /\ r[3] # orders[x][i].status
<1>1. ASSUME Common, FreshTags, Next, NEW x \in Ext, NEW i \in DOMAIN orders[x],
             orders[x][i].status \in {"CANCELED", "REFUNDED"}
      PROVE  orders'[x][i].status = orders[x][i].status \/ Left(x, i)
    <2>1. i \in 1 .. Len(orders[x])
        BY <1>1, RowsAreStored DEF Common
    <2>2. ASSUME NEW s \in Importer, ImportStep(s) \/ ImportAbort(s)
          PROVE  orders'[x][i].status = orders[x][i].status \/ Left(x, i)
        <3>1. CASE ImportFetch(s) \/ \E y \in Ext : ImportRead(s, y)
            BY <3>1 DEF ImportFetch, ImportRead
        <3>2. ASSUME NEW y \in Ext, ImportFlush(s, y)
              PROVE  orders'[x][i].status = orders[x][i].status
            <4>1. Len(orders[y]) # 0
                BY <1>1, <3>2 DEF ImportFlush, Common, RowsFound
            <4> QED
                BY <1>1, <2>1, <3>2, <4>1, FlushedRows DEF Common
        <3>3. CASE ImportAbort(s)
            BY <1>1, <2>1, <3>3, ReturnedRows DEF Common
        <3>4. CASE ImportCommit(s)
            <4>1. orders'[x] = Imported(s, x) /\ plan[s][x] # "read"
                BY <3>4 DEF ImportCommit
            <4>2. Imported(s, x)[i].status \in {orders[x][i].status, batch[s][x]}
                BY <1>1, <2>1, <4>1, ImportedRows DEF Common, FreshTags
            <4>3. pc'[s] # pc[s]
                BY <1>1, <3>4, CommitMoves DEF Common
            <4> QED
                BY <4>1, <4>2, <4>3
        <3> QED
            BY <2>2, <3>1, <3>2, <3>3, <3>4 DEF ImportStep
    <2>3. ASSUME NEW u \in User, UserStep(u)
          PROVE  orders'[x][i].status = orders[x][i].status \/ Left(x, i)
        <3>1. TransitionCommit(u) \/ TrackingCommit(u)
            BY <2>3 DEF UserStep
        <3>2. TransitionCommit(u) =>
                 /\ req[u].target \in Status
                 /\ \A r \in req[u].rows : Allowed(r[3], req[u].target)
            BY <1>1 DEF TransitionCommit, Common, WritesWereAllowed
        <3>3. \/ orders'[x][i].status = orders[x][i].status
              \/ /\ TransitionCommit(u)
                 /\ orders'[x][i].status = req[u].target
                 /\ \E r \in req[u].rows : r[1] = x /\ r[2] = i
            BY <1>1, <2>1, <3>1, <3>2, ChangedRows DEF Common
        <3>4. CASE orders'[x][i].status = orders[x][i].status
            BY <3>4
        <3>5. CASE /\ TransitionCommit(u) /\ orders'[x][i].status = req[u].target
                   /\ \E r \in req[u].rows : r[1] = x /\ r[2] = i
            <4>1. PICK r \in req[u].rows : r[1] = x /\ r[2] = i
                BY <3>5
            <4>2. r[3] # orders[x][i].status
                BY <1>1, <3>2, <3>5, ConcludedHasNoTarget
            <4>3. pc'[u] # pc[u]
                BY <1>1, <3>5, CommitMoves DEF Common
            <4> QED
                BY <3>5, <4>1, <4>2, <4>3
        <3> QED
            BY <3>3, <3>4, <3>5
    <2>4. CASE UNCHANGED orders
        BY <2>4
    <2>5. \/ \E s \in Importer : ImportStep(s) \/ ImportAbort(s)
          \/ \E u \in User : UserStep(u)
          \/ UNCHANGED orders
        BY <1>1 DEF Next, RemoteMove, UserAbort, TransitionRead, TrackingRead
    <2> QED
        BY <2>2, <2>3, <2>4, <2>5
<1>2. Common /\ FreshTags /\ Next => \A x \in Ext : \A i \in DOMAIN orders[x] :
          LET old == orders[x][i].status
              new == orders'[x][i].status
          IN  old \in {"CANCELED", "REFUNDED"} /\ new # old =>
                 \/ \E s \in Importer : pc'[s] # pc[s] /\ batch[s][x] = new
                 \/ \E u \in User : /\ pc'[u] # pc[u] /\ req[u].target = new
                                    /\ \E r \in req[u].rows :
                                          r[1] = x /\ r[2] = i /\ r[3] # old
    BY <1>1
<1> HIDE DEF Left
<1>3. Common /\ FreshTags /\ [Next]_vars =>
          [\A x \in Ext : \A i \in DOMAIN orders[x] :
             LET old == orders[x][i].status
                 new == orders'[x][i].status
             IN  old \in {"CANCELED", "REFUNDED"} /\ new # old =>
                    \/ \E s \in Importer : pc'[s] # pc[s] /\ batch[s][x] = new
                    \/ \E u \in User : /\ pc'[u] # pc[u] /\ req[u].target = new
                                       /\ \E r \in req[u].rows :
                                             r[1] = x /\ r[2] = i /\ r[3] # old]_vars
    BY <1>2
<1> QED
    BY <1>3, CommonAlways, PTL DEF Spec, ConcludedStays
===============================================================================
