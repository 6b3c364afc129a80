----------------------------- MODULE PricesProofs -----------------------------
(***************************************************************************)
(* Proofs about the price requests: for any number of products, requests,  *)
(* changes and deletions.                                                  *)
(***************************************************************************)
EXTENDS Prices, TLAPS

Recorded(b, p) == history[b][p].state # "none"

\* The products a request may still write a history row for.
MayRecord(q) == q.todo \cup q.noted \cup {q.at}

\* An edit has its change, an undo the batch it undoes.
KindIsKnown(r, q) ==
    /\ q.kind = "edit" /\ q.phase # "idle" => q.change \in Change
    /\ IF q.kind = "revert" THEN q.target \in Request \ {r} ELSE q.target = None
    /\ q.phase = "idle" => q.kind = "edit"

\* A product waits, is at the channel, or is finished; what is assigned is one of
\* the last two, and nothing is left of a request that has ended.
WorkInOrder(q) ==
    /\ q.phase \notin {"loop", "call", "resend"} =>
           q.todo = {} /\ q.noted = {} /\ q.dirty = {}
    /\ q.phase \in {"call", "resend"} <=> q.at # None
    /\ q.at \notin q.noted
    /\ q.todo \cap q.noted = {}
    /\ q.dirty \subseteq q.noted \cup {q.at}
    /\ ~Notes(q) => q.dirty = {} /\ q.noted = {}

\* What a request may still record is not recorded, an undo undoes what is, and
\* what it has undone is marked.
RowsInOrder(r, q) ==
    /\ q.phase = "idle" => \A p \in Product : ~Recorded(r, p)
    /\ Notes(q) => \A p \in Product : p \in MayRecord(q) => ~Recorded(r, p)
    /\ \A p \in q.dirty : Differs(q, p)
    /\ q.kind = "revert" => \A p \in Product : p \in MayRecord(q) => Recorded(q.target, p)
    /\ q.kind = "revert" => \A p \in Product :
           Recorded(r, p) => history[q.target][p].state = "reverted"

InOrder(r) ==
    KindIsKnown(r, request[r]) /\ WorkInOrder(request[r]) /\ RowsInOrder(r, request[r])

\* Requests in flight together are noted as such.
OverlapsAreNoted ==
    \A r, o \in Request : r # o /\ InFlight(r) /\ InFlight(o) => {r, o} \in crossed

\* What an undo may still record, none of the same batch that it did not overlap
\* has recorded.
UndosAreApart ==
    \A r, o \in Request :
        ( /\ r # o /\ {r, o} \notin crossed /\ InFlight(o)
          /\ request[r].kind = "revert" /\ request[o].kind = "revert"
          /\ request[r].target = request[o].target )
        => \A p \in Product : p \in MayRecord(request[o]) => ~Recorded(r, p)

\* What an edit or an undo wrote is recorded; or it is committed ahead of its row,
\* which is still to come unless the request was lost.
WriteIsFollowed(r, p, f) ==
    LET q == request[r] IN
    \/ Recorded(r, p) /\ history[r][p].new = product[p][f]
    \/ <<r, p>> \in bare /\ q.phase = "lost"
    \/ /\ <<r, p>> \in bare /\ InFlight(r)
       /\ Differs(q, p) /\ product[p][f] = New(q, p)
       /\ p \in q.noted \cup {q.at}

WritesAreFollowed ==
    \A p \in Product, f \in Field :
        LET r == writer[p][f] IN
        r # None /\ Notes(request[r]) => WriteIsFollowed(r, p, f)

IInv == /\ TypeOK /\ \A r \in Request : InOrder(r)
        /\ LocksAreHeld /\ OverlapsAreNoted
        /\ UndosAreApart /\ UndoneOnce /\ WritesAreFollowed

-----------------------------------------------------------------------------
(* The records of a request                                                *)

\* A request that has not begun is one.
LEMMA IdleState == Idle \in State
BY PricesAssumption DEF Idle, State, Kind, Phase, Field, Columns, Value, Marks, Sync

\* What Concluded leaves and changes.
LEMMA ConcludedState ==
    ASSUME NEW q \in State, NEW p \in Product, NEW status \in Marks
    PROVE  LET c == Concluded(q, p, status) IN
           /\ c \in State
           /\ c.phase = "loop" /\ c.at = None /\ c.todo = q.todo \ {p}
           /\ c.noted = IF Notes(q) THEN q.noted \cup {p} ELSE q.noted
           /\ c.kind = q.kind /\ c.field = q.field /\ c.change = q.change
           /\ c.push = q.push /\ c.target = q.target /\ c.seen = q.seen
           /\ c.dirty = q.dirty /\ c.off = q.off
<1> DEFINE noted == IF Notes(q) THEN q.noted \cup {p} ELSE q.noted
           marks == [q.marks EXCEPT ![p] = status]
           todo == q.todo \ {p}
           c == [q EXCEPT !.phase = "loop", !.at = None, !.todo = todo,
                          !.noted = noted, !.marks = marks]
<1>1. Concluded(q, p, status) = c
    BY DEF Concluded
<1>2. noted \subseteq Product /\ todo \subseteq Product
    BY DEF State
<1>3. marks \in [Product -> Marks]
    BY DEF State
<1> HIDE DEF noted, marks, todo
<1>4. /\ c \in State
      /\ c.phase = "loop" /\ c.at = None /\ c.todo = todo /\ c.noted = noted
      /\ c.kind = q.kind /\ c.field = q.field /\ c.change = q.change
      /\ c.push = q.push /\ c.target = q.target /\ c.seen = q.seen
      /\ c.dirty = q.dirty /\ c.off = q.off
    BY <1>2, <1>3 DEF State, Phase
<1> QED
    BY <1>1, <1>4 DEF noted, todo

\* Concluded marks its product.
LEMMA ConcludedMarks ==
    ASSUME NEW q \in State, NEW p \in Product, NEW status \in Marks
    PROVE  \A o \in Product :
               Concluded(q, p, status).marks[o] = IF o = p THEN status ELSE q.marks[o]
<1> DEFINE marks == [q.marks EXCEPT ![p] = status]
           noted == IF Notes(q) THEN q.noted \cup {p} ELSE q.noted
           todo == q.todo \ {p}
<1>1. Concluded(q, p, status) =
          [q EXCEPT !.phase = "loop", !.at = None, !.todo = todo, !.noted = noted,
                    !.marks = marks]
    BY DEF Concluded
<1>2. \A o \in Product : marks[o] = IF o = p THEN status ELSE q.marks[o]
    BY DEF State
<1> HIDE DEF marks, noted, todo
<1>3. Concluded(q, p, status).marks = marks
    BY <1>1 DEF State
<1> QED
    BY <1>2, <1>3

\* What Written leaves and changes.
LEMMA WrittenState ==
    ASSUME NEW q \in State, NEW phase \in Phase
    PROVE  LET c == Written(q, phase) IN
           /\ c \in State
           /\ c.phase = phase /\ c.dirty = {} /\ c.noted = {}
           /\ c.at = q.at /\ c.todo = q.todo /\ c.seen = q.seen
           /\ c.kind = q.kind /\ c.field = q.field /\ c.change = q.change
           /\ c.push = q.push /\ c.target = q.target
           /\ \A o \in Product : c.marks[o] = "none"
<1> DEFINE marks == [p \in Product |-> "none"]
           c == [q EXCEPT !.phase = phase, !.dirty = {}, !.noted = {},
                          !.marks = marks, !.off = FALSE]
<1>1. Written(q, phase) = c
    BY DEF Written
<1>2. marks \in [Product -> Marks] /\ \A o \in Product : marks[o] = "none"
    BY DEF Marks
<1> HIDE DEF marks
<1> QED
    BY <1>1, <1>2 DEF State

\* What Closed leaves and changes.
LEMMA ClosedState ==
    ASSUME NEW q \in State, NEW phase \in Phase
    PROVE  LET c == Closed(q, phase) IN
           /\ c \in State
           /\ c.phase = phase /\ c.dirty = {} /\ c.noted = {}
           /\ c.at = None /\ c.todo = {}
           /\ c.kind = q.kind /\ c.field = q.field /\ c.change = q.change
           /\ c.target = q.target
           /\ q.kind = "edit" => c.seen = q.seen
<1> DEFINE w == Written(q, phase)
           seen == IF q.kind = "edit" THEN w.seen ELSE Initial
           c == [w EXCEPT !.todo = {}, !.at = None, !.seen = seen]
<1>1. Closed(q, phase) = c
    BY DEF Closed
<1>2. /\ w \in State /\ w.seen = q.seen
      /\ w.phase = phase /\ w.dirty = {} /\ w.noted = {}
      /\ w.kind = q.kind /\ w.field = q.field /\ w.change = q.change
      /\ w.target = q.target
    BY WrittenState
<1>3. seen \in [Product -> Columns]
    BY <1>2, PricesAssumption DEF State, Columns, Value
<1>4. q.kind = "edit" => seen = q.seen
    BY <1>2
<1> HIDE DEF w, seen
<1> QED
    BY <1>1, <1>2, <1>3, <1>4 DEF State

\* A revert loads the product when its turn comes.
LEMMA LoadedState ==
    ASSUME TypeOK, NEW r \in Request, NEW p \in Product
    PROVE  LET q == request[r] c == Loaded(r, p) IN
           /\ c \in State
           /\ c.phase = q.phase /\ c.kind = q.kind /\ c.field = q.field
           /\ c.change = q.change /\ c.push = q.push /\ c.target = q.target
           /\ c.todo = q.todo /\ c.at = q.at /\ c.dirty = q.dirty /\ c.noted = q.noted
           /\ \A o \in Product : o # p => c.seen[o] = q.seen[o]
           /\ q.kind # "revert" => c = q
<1> DEFINE q == request[r]
           seen == [q.seen EXCEPT ![p] = product[p]]
           c == [q EXCEPT !.seen = seen]
<1>1. q \in State /\ product[p] \in Columns
    BY DEF TypeOK
<1>2. seen \in [Product -> Columns] /\ \A o \in Product : o # p => seen[o] = q.seen[o]
    BY <1>1 DEF State
<1>3. Loaded(r, p) = IF q.kind = "revert" THEN c ELSE q
    BY DEF Loaded
<1> HIDE DEF q, seen
<1>4. /\ c \in State /\ c.seen = seen
      /\ c.phase = q.phase /\ c.kind = q.kind /\ c.field = q.field
      /\ c.change = q.change /\ c.push = q.push /\ c.target = q.target
      /\ c.todo = q.todo /\ c.at = q.at /\ c.dirty = q.dirty /\ c.noted = q.noted
    BY <1>1, <1>2 DEF State
<1> HIDE DEF c
<1>5. CASE q.kind = "revert"
    BY <1>2, <1>3, <1>4, <1>5 DEF q
<1>6. CASE q.kind # "revert"
    BY <1>1, <1>3, <1>6 DEF q
<1> QED
    BY <1>5, <1>6

-----------------------------------------------------------------------------
(* The arithmetic stays within the natural numbers                          *)

\* Products of natural numbers are natural numbers.
LEMMA Products == \A a, b \in Nat : a * b \in Nat
OBVIOUS

\* So are products of integers.
LEMMA IntProducts == \A a, b \in Int : a * b \in Int
OBVIOUS

\* The quotient and the rest.
LEMMA Division ==
    ASSUME NEW n \in Nat, NEW d \in Nat \ {0}
    PROVE  n \div d \in Nat /\ n % d \in 0 .. (d - 1) /\ n = d * (n \div d) + (n % d)
OBVIOUS

\* _apply_change clamps at zero.
LEMMA RawIsNat ==
    ASSUME NEW current \in Value, NEW c \in Change
    PROVE  Raw(current, c) \in Nat
<1> DEFINE base == IF current = None THEN 0 ELSE current
           next == CASE c.mode = "absolute"    -> 100 * c.value
                     [] c.mode = "inc_amount"  -> 100 * (base + c.value)
                     [] c.mode = "inc_percent" -> base * (100 + c.value)
<1>1. base \in Int
    BY DEF Value
<1>2. c.value \in Int /\ c.mode \in Mode
    BY PricesAssumption
<1>3. 100 + c.value \in Int /\ base + c.value \in Int
    BY <1>1, <1>2
<1>4. base * (100 + c.value) \in Int
    BY <1>1, <1>3, IntProducts
<1>5. next \in Int
    BY <1>2, <1>3, <1>4 DEF Mode
<1>6. Raw(current, c) = IF next < 0 THEN 0 ELSE next
    BY DEF Raw
<1> HIDE DEF next
<1> QED
    BY <1>5, <1>6

\* Rounding a natural number gives one.
LEMMA HalfEvenIsNat ==
    ASSUME NEW n \in Nat, NEW d \in Nat \ {0}
    PROVE  HalfEven(n, d) \in Nat
<1>1. n \div d \in Nat /\ n % d \in Nat
    BY Division
<1> QED
    BY <1>1 DEF HalfEven

\* What an edit writes is a price.
LEMMA AppliedIsNat ==
    ASSUME NEW current \in Value, NEW c \in Change
    PROVE  Applied(current, c) \in Nat
<1>1. Raw(current, c) \in Nat
    BY RawIsNat
<1>2. c.round_to \in Nat \ {0}
    BY PricesAssumption
<1>3. 100 * c.round_to \in Nat \ {0}
    BY <1>2
<1>4. HalfEven(Raw(current, c), 100 * c.round_to) \in Nat
    BY <1>1, <1>3, HalfEvenIsNat
<1>5. HalfEven(Raw(current, c), 100 * c.round_to) * c.round_to \in Nat
    BY <1>2, <1>4, Products
<1>6. Raw(current, c) \div 100 \in Nat
    BY <1>1, Division
<1> QED
    BY <1>5, <1>6 DEF Applied

\* What a session assigns fits the column.
LEMMA NewIsValue ==
    ASSUME TypeOK, NEW q \in State, NEW p \in Product,
           q.kind = "edit" => q.change \in Change,
           q.kind = "revert" => q.target \in Request
    PROVE  New(q, p) \in IF q.field = "price" THEN Nat ELSE Value
<1>1. /\ q.seen[p][q.field] \in Value
      /\ q.field = "price" => q.seen[p][q.field] \in Nat
    BY DEF State, Columns, Field, Value
<1>2. CASE q.kind = "edit"
    <2>1. New(q, p) = Applied(q.seen[p][q.field], q.change)
        BY <1>2 DEF New
    <2> QED
        BY <1>1, <1>2, <2>1, AppliedIsNat DEF Value
<1>3. CASE q.kind = "revert"
    <2>1. history[q.target][p].old \in Value
        BY <1>3 DEF TypeOK, Row
    <2>2. New(q, p) = IF history[q.target][p].old = None THEN q.seen[p][q.field]
                      ELSE history[q.target][p].old
        BY <1>3 DEF New
    <2> QED
        BY <1>1, <2>1, <2>2 DEF Value
<1>4. CASE q.kind \notin {"edit", "revert"}
    <2>1. New(q, p) = q.seen[p][q.field]
        BY <1>4 DEF New
    <2> QED
        BY <1>1, <2>1
<1> QED
    BY <1>2, <1>3, <1>4

\* The history row a session adds is one, and live.
LEMMA NotedIsRow ==
    ASSUME TypeOK, NEW q \in State, NEW p \in Product, Notes(q),
           q.kind = "edit" => q.change \in Change,
           q.kind = "revert" => q.target \in Request
    PROVE  /\ Noted(q, p) \in Row /\ Noted(q, p).state = "live"
           /\ Differs(q, p) => Noted(q, p).new = New(q, p)
<1>1. q.seen[p][q.field] \in Value
    BY DEF State, Columns, Field, Value
<1>2. CASE q.kind = "edit"
    <2>1. New(q, p) = Applied(q.seen[p][q.field], q.change)
        BY <1>2 DEF New
    <2>2. New(q, p) \in Nat
        BY <1>1, <1>2, <2>1, AppliedIsNat
    <2> QED
        BY <1>1, <1>2, <2>2 DEF Noted, Row
<1>3. CASE q.kind = "revert"
    <2> DEFINE h == history[q.target][p]
    <2>1. h.old \in Value /\ h.new \in Nat
        BY <1>3 DEF TypeOK, Row
    <2>2. Noted(q, p) = [old |-> h.new, new |-> IF h.old = None THEN 0 ELSE h.old,
                         state |-> "live"]
        BY <1>3 DEF Noted
    <2>3. New(q, p) = IF h.old = None THEN q.seen[p][q.field] ELSE h.old
        BY <1>3 DEF New
    <2> HIDE DEF h
    <2> QED
        BY <2>1, <2>2, <2>3 DEF Row, Value, Differs
<1> QED
    BY <1>2, <1>3 DEF Notes

-----------------------------------------------------------------------------
(* What a commit changes                                                   *)

\* The history after a step of r: its own rows are added, what is recorded keeps
\* its values, and what is undone stays so.
HistoryGrows(r) ==
    /\ history' \in [Request -> [Product -> Row]]
    /\ \A b \in Request, p \in Product :
          /\ Recorded(b, p) =>
                /\ Recorded(b, p)'
                /\ history'[b][p].old = history[b][p].old
                /\ history'[b][p].new = history[b][p].new
                /\ history[b][p].state = "reverted" => history'[b][p].state = "reverted"
          /\ b # r /\ Recorded(b, p)' => Recorded(b, p)

\* A step that leaves the history alone lets it grow.
LEMMA HistoryStays ==
    ASSUME TypeOK, UNCHANGED history
    PROVE  \A r \in Request : HistoryGrows(r)
BY DEF TypeOK, HistoryGrows, Recorded

\* A commit records what is noted, and marks what that undoes.
LEMMA PersistedHistory ==
    ASSUME TypeOK, NEW r \in Request, InOrder(r), request[r].phase # "idle", Persisted(r)
    PROVE  /\ HistoryGrows(r)
           /\ \A p \in Product :
                 /\ p \in request[r].noted => history'[r][p] = Noted(request[r], p)
                 /\ p \in request[r].noted => Recorded(r, p)'
                 /\ Recorded(r, p)' => Recorded(r, p) \/ p \in request[r].noted
                 /\ request[r].kind = "revert" /\ p \in request[r].noted =>
                        history'[request[r].target][p].state = "reverted"
<1> DEFINE q == request[r]
           Undone(b, p) == [history[b][p] EXCEPT !.state = "reverted"]
           n == Noted(q, r)
<1>1. q \in State /\ history \in [Request -> [Product -> Row]]
    BY DEF TypeOK
<1>2. /\ q.kind = "revert" => q.target \in Request /\ q.target # r
      /\ q.kind # "revert" => \A b \in Request : b # q.target
      /\ \A p \in Product : q.kind = "revert" /\ p \in q.noted =>
                               history[q.target][p].state # "none"
    BY PricesAssumption DEF InOrder, KindIsKnown, RowsInOrder, MayRecord, Recorded
<1> DEFINE Cell(b, p) == CASE p \in q.noted /\ b = r -> Noted(q, p)
                             [] p \in q.noted /\ b = q.target -> Undone(b, p)
                             [] OTHER -> history[b][p]
<1>6. history' = [b \in Request |-> [p \in Product |-> Cell(b, p)]]
    BY DEF Persisted
<1>7. ASSUME NEW b \in Request, NEW p \in Product
      PROVE  Cell(b, p) = IF p \in q.noted /\ b = r THEN Noted(q, p)
                          ELSE IF p \in q.noted /\ b = q.target THEN Undone(b, p)
                          ELSE history[b][p]
    <2>1. b = r => b # q.target
        BY <1>2
    <2> HIDE DEF Undone, q
    <2> QED
        BY <2>1
<1>3. \A p \in q.noted : Notes(q) /\ Noted(q, p) \in Row /\ Noted(q, p).state = "live"
    <2> SUFFICES ASSUME NEW p \in q.noted
                 PROVE  Notes(q) /\ Noted(q, p) \in Row /\ Noted(q, p).state = "live"
        OBVIOUS
    <2>1. p \in Product /\ Notes(q)
        BY <1>1 DEF InOrder, WorkInOrder, State
    <2> QED
        BY <1>1, <2>1, NotedIsRow DEF InOrder, KindIsKnown
<1>4. \A b \in Request, p \in Product :
         /\ Undone(b, p) \in Row /\ Undone(b, p).state = "reverted"
         /\ Undone(b, p).old = history[b][p].old /\ Undone(b, p).new = history[b][p].new
    BY <1>1 DEF Row
<1>5. \A p \in Product : p \in q.noted => history[r][p].state = "none"
    BY <1>3 DEF InOrder, RowsInOrder, MayRecord, Recorded
<1> HIDE DEF q, Undone, Cell
<1>9. ASSUME NEW b \in Request, NEW p \in Product
      PROVE  history'[b][p] = IF p \in q.noted /\ b = r THEN Noted(q, p)
                              ELSE IF p \in q.noted /\ b = q.target THEN Undone(b, p)
                              ELSE history[b][p]
    BY <1>6, <1>7
<1>10. \A b \in Request, p \in Product : Cell(b, p) \in Row
    BY <1>1, <1>3, <1>4, <1>7
<1>11. history' \in [Request -> [Product -> Row]]
    BY <1>6, <1>10
<1>12. HistoryGrows(r)
    BY <1>2, <1>3, <1>4, <1>5, <1>9, <1>11 DEF HistoryGrows, Recorded
<1> QED
    BY <1>2, <1>3, <1>4, <1>9, <1>12 DEF Recorded, q

\* A commit writes what the session assigned, and releases its rows.
LEMMA PersistedColumns ==
    ASSUME TypeOK, NEW r \in Request, InOrder(r), request[r].phase # "idle", Persisted(r)
    PROVE  /\ product' \in [Product -> Columns]
           /\ writer' \in [Product -> [Field -> Request \cup {None}]]
           /\ listing' \in [Product -> Marks] /\ active' \in BOOLEAN
           /\ holder' \in [Product -> Request \cup {None}]
           /\ \A p \in Product : holder'[p] = IF holder[p] = r THEN None ELSE holder[p]
           /\ \A p \in Product, f \in Field :
                 IF p \in request[r].dirty /\ f = request[r].field
                 THEN product'[p][f] = New(request[r], p) /\ writer'[p][f] = r
                 ELSE product'[p][f] = product[p][f] /\ writer'[p][f] = writer[p][f]
<1> DEFINE q == request[r]
           Column(p) == [product[p] EXCEPT ![q.field] = New(q, p)]
           Author(p) == [writer[p] EXCEPT ![q.field] = r]
<1>1. /\ q \in State /\ q.field \in Field /\ q.marks \in [Product -> Marks]
      /\ q.off \in BOOLEAN
    BY DEF TypeOK, State
<1>2. /\ product' = [p \in Product |-> IF p \in q.dirty THEN Column(p) ELSE product[p]]
      /\ writer' = [p \in Product |-> IF p \in q.dirty THEN Author(p) ELSE writer[p]]
      /\ listing' = [p \in Product |-> IF q.marks[p] # "none" /\ listing[p] # "none"
                                       THEN q.marks[p] ELSE listing[p]]
      /\ active' = (active /\ ~q.off)
      /\ holder' = [p \in Product |-> IF holder[p] = r THEN None ELSE holder[p]]
    BY DEF Persisted, Released
<1>3. \A p \in Product : New(q, p) \in IF q.field = "price" THEN Nat ELSE Value
    BY <1>1, NewIsValue DEF InOrder, KindIsKnown
<1>4. ASSUME NEW p \in Product
      PROVE  /\ Column(p) \in Columns
             /\ \A f \in Field : Column(p)[f] = IF f = q.field THEN New(q, p)
                                                 ELSE product[p][f]
    <2>1. product[p] \in Columns
        BY DEF TypeOK
    <2> HIDE DEF q
    <2> QED
        BY <1>1, <1>3, <2>1 DEF Columns, Field
<1>5. ASSUME NEW p \in Product
      PROVE  /\ Author(p) \in [Field -> Request \cup {None}]
             /\ \A f \in Field : Author(p)[f] = IF f = q.field THEN r ELSE writer[p][f]
    <2>1. writer[p] \in [Field -> Request \cup {None}]
        BY DEF TypeOK
    <2> HIDE DEF q
    <2> QED
        BY <1>1, <2>1
<1> HIDE DEF Column, Author
<1>6. /\ product' \in [Product -> Columns]
      /\ writer' \in [Product -> [Field -> Request \cup {None}]]
    BY <1>2, <1>4, <1>5 DEF TypeOK
<1>7. listing' \in [Product -> Marks] /\ holder' \in [Product -> Request \cup {None}]
    BY <1>1, <1>2 DEF TypeOK
<1>8. active' \in BOOLEAN
    BY <1>1, <1>2 DEF TypeOK
<1> QED
    BY <1>2, <1>4, <1>5, <1>6, <1>7, <1>8

-----------------------------------------------------------------------------
(* What a step of one request leaves of the others                         *)

\* r moves on to n.
Moves(r, n) == request' = [request EXCEPT ![r] = n]

\* The others are what they were.
LEMMA Moved ==
    ASSUME TypeOK, NEW r \in Request, NEW n \in State, Moves(r, n)
    PROVE  /\ request' \in [Request -> State] /\ request'[r] = n
           /\ \A o \in Request : o # r => request'[o] = request[o]
BY DEF TypeOK, Moves

\* The others stay in order.
LEMMA OthersInOrder ==
    ASSUME TypeOK, NEW r \in Request, NEW o \in Request, o # r, InOrder(o),
           request'[o] = request[o], HistoryGrows(r)
    PROVE  InOrder(o)'
<1> DEFINE q == request[o]
<1>1. q \in State /\ request'[o] = q
    BY DEF TypeOK
<1>2. KindIsKnown(o, q) /\ WorkInOrder(q) /\ RowsInOrder(o, q)
    BY DEF InOrder
<1>3. KindIsKnown(o, request[o])'
    BY <1>1, <1>2 DEF KindIsKnown
<1>4. WorkInOrder(request[o])'
    BY <1>1, <1>2 DEF WorkInOrder, Notes
<1>5. RowsInOrder(o, request[o])'
    <2>1. q.dirty \subseteq Product /\ \A p \in q.dirty : p \in MayRecord(q) /\ Notes(q)
        BY <1>1, <1>2 DEF WorkInOrder, MayRecord, State
    <2>2. ASSUME NEW p \in q.dirty
          PROVE  Differs(request[o], p)'
        <3>1. Differs(q, p) /\ p \in Product
            BY <1>2, <2>1 DEF RowsInOrder
        <3>2. q.kind = "revert" => /\ q.target \in Request
                                   /\ history'[q.target][p].old = history[q.target][p].old
            BY <1>2, <2>1, <3>1 DEF KindIsKnown, RowsInOrder, HistoryGrows
        <3> QED
            BY <1>1, <3>1, <3>2 DEF Differs, New
    <2>3. \A b \in Request, p \in Product :
              /\ Recorded(b, p) => Recorded(b, p)'
              /\ b = o /\ Recorded(b, p)' => Recorded(b, p)
              /\ Recorded(b, p) /\ history[b][p].state = "reverted" =>
                     history'[b][p].state = "reverted"
        BY DEF HistoryGrows
    <2>4. \A b \in Request, p \in Product :
              history[b][p].state = "reverted" => Recorded(b, p)
        BY DEF Recorded
    <2>5. q.kind = "revert" => q.target \in Request
        BY <1>2 DEF KindIsKnown
    <2> HIDE DEF q
    <2> QED
        BY <1>1, <1>2, <2>2, <2>3, <2>4, <2>5 DEF RowsInOrder, Recorded, MayRecord, Notes
<1> QED
    BY <1>3, <1>4, <1>5 DEF InOrder

-----------------------------------------------------------------------------
(* What a step of a request in flight keeps of the relations between requests *)

\* A step of r, in flight, that may record no more than before and records at most
\* what it has noted.
LEMMA Continues ==
    ASSUME IInv, NEW r \in Request, NEW n \in State, Moves(r, n), crossed' = crossed,
           HistoryGrows(r), InFlight(r),
           n.kind = request[r].kind, n.target = request[r].target,
           \A p \in Product : p \in MayRecord(n) => p \in MayRecord(request[r]),
           \A p \in Product : Recorded(r, p)' => Recorded(r, p) \/ p \in request[r].noted
    PROVE  OverlapsAreNoted' /\ UndosAreApart' /\ UndoneOnce'
<1>1. /\ request'[r] = n
      /\ \A o \in Request : o # r => request'[o] = request[o]
    BY Moved DEF IInv
<1>2. \A o \in Request : /\ request'[o].kind = request[o].kind
                         /\ request'[o].target = request[o].target
                         /\ InFlight(o)' => InFlight(o)
                         /\ \A p \in Product : p \in MayRecord(request'[o]) =>
                                                   p \in MayRecord(request[o])
    BY <1>1 DEF InFlight
<1>3. ASSUME NEW o \in Request, NEW p \in Product, Recorded(o, p)'
      PROVE  Recorded(o, p) \/ (o = r /\ p \in request[r].noted)
    <2>1. CASE o # r
        BY <1>3, <2>1 DEF HistoryGrows
    <2>2. CASE o = r
        <3>1. Recorded(r, p)'
            BY <1>3, <2>2 DEF Recorded
        <3> QED
            BY <2>2, <3>1 DEF Recorded
    <2> QED
        BY <2>1, <2>2
<1>4. OverlapsAreNoted'
    BY <1>2 DEF IInv, OverlapsAreNoted
<1>5. UndosAreApart'
    <2> SUFFICES ASSUME NEW x \in Request, NEW o \in Request, x # o,
                        {x, o} \notin crossed', InFlight(o)',
                        request'[x].kind = "revert", request'[o].kind = "revert",
                        request'[x].target = request'[o].target,
                        NEW p \in Product, p \in MayRecord(request'[o]), Recorded(x, p)'
                 PROVE  FALSE
        BY DEF UndosAreApart
    <2>1. ~Recorded(x, p) /\ InFlight(o)
        BY <1>2 DEF IInv, UndosAreApart
    <2>2. x = r
        BY <1>3, <2>1
    <2> QED
        BY <2>1, <2>2 DEF IInv, OverlapsAreNoted
<1>6. UndoneOnce'
    <2> SUFFICES ASSUME NEW x \in Request, NEW o \in Request, NEW p \in Product, x # o,
                        request'[x].kind = "revert", request'[o].kind = "revert",
                        request'[x].target = request'[o].target,
                        Recorded(x, p)', Recorded(o, p)', {x, o} \notin crossed
                 PROVE  FALSE
        BY DEF UndoneOnce, Recorded
    <2>1. /\ request[x].kind = "revert" /\ request[o].kind = "revert"
          /\ request[x].target = request[o].target
        BY <1>2
    <2>2. ~(Recorded(x, p) /\ Recorded(o, p))
        BY <2>1 DEF IInv, UndoneOnce, Recorded
    <2>3. p \in request[r].noted => p \in MayRecord(request[r])
        BY DEF MayRecord
    <2>4. CASE ~Recorded(x, p)
        <3>1. x = r /\ p \in MayRecord(request[x]) /\ Recorded(o, p)
            BY <1>3, <2>3, <2>4
        <3>2. {o, x} = {x, o}
            OBVIOUS
        <3> QED
            BY <2>1, <3>1, <3>2 DEF IInv, UndosAreApart
    <2>5. CASE ~Recorded(o, p)
        <3>1. o = r /\ p \in MayRecord(request[o]) /\ Recorded(x, p)
            BY <1>3, <2>3, <2>5
        <3> QED
            BY <2>1, <3>1 DEF IInv, UndosAreApart
    <2> QED
        BY <2>2, <2>4, <2>5
<1> QED
    BY <1>4, <1>5, <1>6

\* A value of another request that r leaves alone stays followed.
LEMMA OthersFollowed ==
    ASSUME IInv, NEW r \in Request, NEW o \in Request, o # r, NEW p \in Product,
           NEW f \in Field, request'[o] = request[o], HistoryGrows(r), bare \subseteq bare',
           product'[p][f] = product[p][f], Notes(request[o]), WriteIsFollowed(o, p, f)
    PROVE  WriteIsFollowed(o, p, f)'
<1> DEFINE q == request[o]
<1>1. CASE Recorded(o, p) /\ history[o][p].new = product[p][f]
    BY <1>1 DEF WriteIsFollowed, HistoryGrows
<1>2. CASE <<o, p>> \in bare /\ q.phase = "lost"
    BY <1>2 DEF WriteIsFollowed
<1>3. CASE /\ <<o, p>> \in bare /\ InFlight(o)
           /\ Differs(q, p) /\ product[p][f] = New(q, p)
           /\ p \in q.noted \cup {q.at}
    <2>1. q.kind = "revert" => /\ q.target \in Request
                               /\ history'[q.target][p].old = history[q.target][p].old
        BY <1>3 DEF IInv, InOrder, KindIsKnown, RowsInOrder, MayRecord, HistoryGrows
    <2>2. New(request[o], p)' = New(q, p)
        BY <2>1 DEF New
    <2>3. Differs(request[o], p)' <=> Differs(q, p)
        BY <2>2 DEF Differs
    <2> QED
        BY <1>3, <2>2, <2>3 DEF WriteIsFollowed, InFlight
<1> QED
    BY <1>1, <1>2, <1>3 DEF WriteIsFollowed

\* A request that starts overlaps those in flight; it has no lock, no row and no value.
LEMMA Starts ==
    ASSUME IInv, NEW r \in Request, NEW q \in State, Started(r, q), UNCHANGED history,
           q.kind = "revert" => \A p \in Product :
               p \in MayRecord(q) => history[q.target][p].state # "reverted"
    PROVE  /\ request' \in [Request -> State] /\ request'[r] = q
           /\ \A o \in Request : o # r => request'[o] = request[o]
           /\ crossed' \subseteq SUBSET Request
           /\ \A p \in Product : holder[p] # r /\ ~Recorded(r, p)
           /\ \A p \in Product, f \in Field : writer[p][f] # r
           /\ OverlapsAreNoted' /\ UndosAreApart' /\ UndoneOnce'
<1>1. request[r].phase = "idle" /\ Moves(r, q)
    BY DEF Started, Moves
<1>2. /\ request' \in [Request -> State] /\ request'[r] = q
      /\ \A o \in Request : o # r => request'[o] = request[o]
    BY <1>1, Moved DEF IInv
<1>3. /\ crossed \subseteq crossed' /\ crossed' \subseteq SUBSET Request
      /\ \A o \in Request : InFlight(o) => {r, o} \in crossed'
    BY DEF Started, IInv, TypeOK
<1>4. \A p \in Product : holder[p] # r /\ ~Recorded(r, p)
    BY <1>1, PricesAssumption DEF IInv, LocksAreHeld, InFlight, InOrder, RowsInOrder
<1>5. \A p \in Product, f \in Field : writer[p][f] # r
    <2> SUFFICES ASSUME NEW p \in Product, NEW f \in Field, writer[p][f] = r
                 PROVE  FALSE
        OBVIOUS
    <2>1. Notes(request[r]) /\ r # None
        BY <1>1, PricesAssumption DEF IInv, InOrder, KindIsKnown, Notes
    <2>2. WriteIsFollowed(r, p, f)
        BY <2>1 DEF IInv, WritesAreFollowed
    <2> QED
        BY <1>1, <1>4, <2>2 DEF WriteIsFollowed, InFlight
<1>6. \A x, y \in Request : {x, y} = {y, x}
    OBVIOUS
<1>7. OverlapsAreNoted'
    <2> SUFFICES ASSUME NEW x \in Request, NEW o \in Request, x # o,
                        InFlight(x)', InFlight(o)'
                 PROVE  {x, o} \in crossed'
        BY DEF OverlapsAreNoted
    <2>1. \A y \in Request : y # r => (InFlight(y)' <=> InFlight(y))
        BY <1>2 DEF InFlight
    <2>2. CASE x = r
        BY <1>3, <2>1, <2>2
    <2>3. CASE o = r
        BY <1>3, <1>6, <2>1, <2>3
    <2>4. CASE x # r /\ o # r
        BY <1>3, <2>1, <2>4 DEF IInv, OverlapsAreNoted
    <2> QED
        BY <2>2, <2>3, <2>4
<1>8. \A o \in Request, p \in Product : Recorded(o, p)' <=> Recorded(o, p)
    BY DEF Recorded
<1>9. UndosAreApart'
    <2> SUFFICES ASSUME NEW x \in Request, NEW o \in Request, x # o,
                        {x, o} \notin crossed', InFlight(o)',
                        request'[x].kind = "revert", request'[o].kind = "revert",
                        request'[x].target = request'[o].target,
                        NEW p \in Product, p \in MayRecord(request'[o]), Recorded(x, p)
                 PROVE  FALSE
        BY <1>8 DEF UndosAreApart
    <2>1. x # r
        BY <1>4
    <2>2. CASE o = r
        <3>1. history[q.target][p].state # "reverted" /\ request[x].target = q.target
            BY <1>2, <2>1, <2>2
        <3>2. history[request[x].target][p].state = "reverted"
            BY <1>2, <2>1 DEF IInv, InOrder, RowsInOrder
        <3> QED
            BY <3>1, <3>2
    <2>3. CASE o # r
        <3>1. request'[x] = request[x] /\ request'[o] = request[o] /\ InFlight(o)
            BY <1>2, <2>1, <2>3 DEF InFlight
        <3> QED
            BY <1>3, <3>1 DEF IInv, UndosAreApart
    <2> QED
        BY <2>2, <2>3
<1>10. UndoneOnce'
    <2> SUFFICES ASSUME NEW x \in Request, NEW o \in Request, NEW p \in Product, x # o,
                        request'[x].kind = "revert", request'[o].kind = "revert",
                        request'[x].target = request'[o].target,
                        Recorded(x, p), Recorded(o, p), {x, o} \notin crossed'
                 PROVE  FALSE
        BY <1>8 DEF UndoneOnce, Recorded
    <2>1. x # r /\ o # r
        BY <1>4
    <2>2. request'[x] = request[x] /\ request'[o] = request[o] /\ {x, o} \notin crossed
        BY <1>2, <1>3, <2>1
    <2> QED
        BY <2>2 DEF IInv, UndoneOnce, Recorded
<1> QED
    BY <1>2, <1>3, <1>4, <1>5, <1>7, <1>9, <1>10

-----------------------------------------------------------------------------
(* Every kind of step keeps the invariant                                   *)

\* A request that starts.
LEMMA Begun ==
    ASSUME IInv, NEW r \in Request, NEW q \in State, Started(r, q),
           UNCHANGED <<live, holder, listing, active, shop, history, bare>>,
           q.phase \in {"loop", "call"}, KindIsKnown(r, q), WorkInOrder(q),
           q.noted = {}, q.dirty = {},
           q.kind = "revert" => \A p \in Product :
               p \in MayRecord(q) => history[q.target][p].state = "live",
           product' \in [Product -> Columns],
           writer' \in [Product -> [Field -> Request \cup {None}]],
           \A p \in Product, f \in Field :
               \/ writer'[p][f] = writer[p][f] /\ product'[p][f] = product[p][f]
               \/ writer'[p][f] = r /\ q.kind = "update"
    PROVE  IInv'
<1>1. /\ request' \in [Request -> State] /\ request'[r] = q
      /\ \A o \in Request : o # r => request'[o] = request[o]
      /\ crossed' \subseteq SUBSET Request
      /\ \A p \in Product : holder[p] # r /\ ~Recorded(r, p)
      /\ \A p \in Product, f \in Field : writer[p][f] # r
      /\ OverlapsAreNoted' /\ UndosAreApart' /\ UndoneOnce'
    BY Starts
<1>2. TypeOK'
    BY <1>1 DEF IInv, TypeOK
<1>3. HistoryGrows(r)
    BY HistoryStays DEF IInv
<1>4. InOrder(r)'
    <2>1. KindIsKnown(r, request[r])' /\ WorkInOrder(request[r])'
        BY <1>1 DEF KindIsKnown, WorkInOrder, Notes
    <2>2. RowsInOrder(r, request[r])'
        BY <1>1 DEF RowsInOrder, Recorded, MayRecord, Notes
    <2> QED
        BY <2>1, <2>2 DEF InOrder
<1>5. \A o \in Request : InOrder(o)'
    <2> SUFFICES ASSUME NEW o \in Request, o # r
                 PROVE  InOrder(o)'
        BY <1>4
    <2> QED
        BY <1>1, <1>3, OthersInOrder DEF IInv
<1>6. LocksAreHeld'
    <2> SUFFICES ASSUME NEW p \in Product, holder[p] # None
                 PROVE  InFlight(holder[p])' /\ p \in request'[holder[p]].dirty
        BY DEF LocksAreHeld
    <2>1. holder[p] \in Request /\ holder[p] # r
        BY <1>1 DEF IInv, TypeOK
    <2>2. InFlight(holder[p]) /\ p \in request[holder[p]].dirty
        BY DEF IInv, LocksAreHeld
    <2> QED
        BY <1>1, <2>1, <2>2 DEF InFlight
<1>7. WritesAreFollowed'
    <2> SUFFICES ASSUME NEW p \in Product, NEW f \in Field, NEW o \in Request,
                        o = writer'[p][f], Notes(request'[o])
                 PROVE  WriteIsFollowed(o, p, f)'
        BY <1>2, PricesAssumption DEF WritesAreFollowed, TypeOK
    <2>1. o # r /\ writer[p][f] = o /\ product'[p][f] = product[p][f]
        BY <1>1 DEF Notes
    <2>2. Notes(request[o]) /\ o # None
        BY <1>1, <2>1, PricesAssumption
    <2>3. WriteIsFollowed(o, p, f)
        BY <2>1, <2>2 DEF IInv, WritesAreFollowed
    <2> QED
        BY <1>1, <1>3, <2>1, <2>2, <2>3, OthersFollowed
<1> QED
    BY <1>1, <1>2, <1>5, <1>6, <1>7 DEF IInv

\* A turn of the loop, or the channel's answer.
LEMMA Works ==
    ASSUME IInv, NEW r \in Request, NEW n \in State, Moves(r, n), InFlight(r),
           UNCHANGED <<product, live, listing, active, history, crossed, bare, writer>>,
           shop' \in [Product -> Value], holder' \in [Product -> Request \cup {None}],
           n.phase \in {"loop", "call"}, WorkInOrder(n),
           n.kind = request[r].kind, n.field = request[r].field,
           n.change = request[r].change, n.target = request[r].target,
           request[r].dirty \subseteq n.dirty,
           \A p \in Product : p \in MayRecord(n) => p \in MayRecord(request[r]),
           \A p \in Product : p \in request[r].noted \cup {request[r].at} =>
               (Notes(n) => p \in n.noted \cup {n.at}) /\ n.seen[p] = request[r].seen[p],
           \A p \in n.dirty : p \in request[r].dirty \/ Differs(n, p),
           \A p \in Product : holder'[p] = holder[p] \/ (holder'[p] = r /\ p \in n.dirty)
    PROVE  IInv'
<1> DEFINE q == request[r]
<1>1. /\ request' \in [Request -> State] /\ request'[r] = n
      /\ \A o \in Request : o # r => request'[o] = request[o]
    BY Moved DEF IInv
<1>2. TypeOK'
    BY <1>1 DEF IInv, TypeOK
<1>3. HistoryGrows(r)
    BY HistoryStays DEF IInv
<1>4. OverlapsAreNoted' /\ UndosAreApart' /\ UndoneOnce'
    <2>1. \A p \in Product : Recorded(r, p)' => Recorded(r, p) \/ p \in request[r].noted
        BY DEF Recorded
    <2> QED
        BY <1>3, <2>1, Continues
<1>5. KindIsKnown(r, q) /\ WorkInOrder(q) /\ RowsInOrder(r, q) /\ q \in State
    BY DEF IInv, InOrder, TypeOK
<1>6. \A p \in Product : p \in q.noted \cup {q.at} =>
          New(n, p) = New(q, p) /\ (Differs(n, p) <=> Differs(q, p))
    BY DEF New, Differs
<1>7. InOrder(r)'
    <2>1. KindIsKnown(r, request[r])'
        BY <1>1, <1>5 DEF KindIsKnown, InFlight
    <2>2. WorkInOrder(request[r])'
        BY <1>1 DEF WorkInOrder, Notes
    <2>3. ASSUME NEW p \in n.dirty
          PROVE  Differs(request[r], p)'
        <3>1. Differs(n, p)
            <4>1. CASE p \in q.dirty
                BY <1>5, <1>6, <4>1 DEF WorkInOrder, RowsInOrder, State
            <4> QED
                BY <4>1
        <3> QED
            BY <1>1, <3>1 DEF Differs, New
    <2>4. RowsInOrder(r, request[r])'
        BY <1>1, <1>5, <2>3 DEF RowsInOrder, Recorded, Notes
    <2> QED
        BY <2>1, <2>2, <2>4 DEF InOrder
<1>8. \A o \in Request : InOrder(o)'
    <2> SUFFICES ASSUME NEW o \in Request, o # r
                 PROVE  InOrder(o)'
        BY <1>7
    <2> QED
        BY <1>1, <1>3, OthersInOrder DEF IInv
<1>9. LocksAreHeld'
    <2> SUFFICES ASSUME NEW p \in Product, NEW o \in Request, holder'[p] = o
                 PROVE  InFlight(o)' /\ p \in request'[o].dirty
        BY <1>2 DEF LocksAreHeld, TypeOK
    <2>1. CASE o = r /\ p \in n.dirty
        BY <1>1, <2>1 DEF InFlight
    <2>2. CASE holder[p] = o
        <3>1. InFlight(o) /\ p \in request[o].dirty
            BY <2>2, PricesAssumption DEF IInv, LocksAreHeld
        <3>2. CASE o = r
            BY <1>1, <3>1, <3>2 DEF InFlight
        <3>3. CASE o # r
            BY <1>1, <3>1, <3>3 DEF InFlight
        <3> QED
            BY <3>2, <3>3
    <2> QED
        BY <2>1, <2>2
<1>10. WritesAreFollowed'
    <2>0. writer' \in [Product -> [Field -> Request \cup {None}]]
        BY <1>2 DEF TypeOK
    <2> SUFFICES ASSUME NEW p \in Product, NEW f \in Field, NEW o \in Request,
                        o = writer'[p][f], Notes(request'[o])
                 PROVE  WriteIsFollowed(o, p, f)'
        BY <2>0 DEF WritesAreFollowed
    <2>1. Notes(request[o]) /\ o # None /\ o = writer[p][f]
        BY <1>1, PricesAssumption DEF Notes
    <2>2. WriteIsFollowed(o, p, f)
        BY <2>1 DEF IInv, WritesAreFollowed
    <2>3. CASE o # r
        BY <1>1, <1>3, <2>1, <2>2, <2>3, OthersFollowed
    <2>4. CASE o = r
        <3>1. CASE Recorded(r, p) /\ history[r][p].new = product[p][f]
            BY <2>4, <3>1 DEF WriteIsFollowed, Recorded
        <3>2. CASE /\ <<r, p>> \in bare /\ Differs(q, p) /\ product[p][f] = New(q, p)
                   /\ p \in q.noted \cup {q.at}
            <4>1. Differs(n, p) /\ New(n, p) = New(q, p) /\ p \in n.noted \cup {n.at}
                BY <1>1, <1>6, <2>4, <3>2 DEF Notes
            <4>2. Differs(request[r], p)' /\ New(request[r], p)' = New(n, p)
                BY <1>1, <4>1 DEF Differs, New
            <4> QED
                BY <1>1, <2>4, <3>2, <4>1, <4>2 DEF WriteIsFollowed, InFlight
        <3> QED
            BY <2>2, <2>4, <3>1, <3>2 DEF WriteIsFollowed, InFlight
    <2> QED
        BY <2>3, <2>4
<1> QED
    BY <1>2, <1>4, <1>8, <1>9, <1>10 DEF IInv

\* A commit, at the end or in the middle of a call.
LEMMA Saves ==
    ASSUME IInv, NEW r \in Request, NEW n \in State, Moves(r, n), InFlight(r),
           Persisted(r), UNCHANGED <<live, shop, crossed>>,
           bare \subseteq bare', bare' \subseteq Request \X Product,
           n.phase \in {"resend", "done"}, n.noted = {}, n.dirty = {},
           n.at = request[r].at, n.todo = request[r].todo, n.kind = request[r].kind,
           n.field = request[r].field, n.change = request[r].change,
           n.target = request[r].target,
           IF n.phase = "done" THEN n.at = None /\ n.todo = {}
           ELSE /\ n.at # None /\ n.seen = request[r].seen
                /\ Notes(n) /\ n.at \in request[r].dirty => <<r, n.at>> \in bare'
    PROVE  IInv'
<1> DEFINE q == request[r]
<1>1. /\ request' \in [Request -> State] /\ request'[r] = n
      /\ \A o \in Request : o # r => request'[o] = request[o]
    BY Moved DEF IInv
<1>2. /\ KindIsKnown(r, q) /\ WorkInOrder(q) /\ RowsInOrder(r, q) /\ q \in State
      /\ InOrder(r) /\ TypeOK /\ q.phase # "idle" /\ q.phase # "lost"
    BY DEF IInv, InOrder, TypeOK, InFlight
<1>3. /\ HistoryGrows(r)
      /\ \A p \in Product :
             /\ p \in q.noted => history'[r][p] = Noted(q, p)
             /\ p \in q.noted => Recorded(r, p)'
             /\ Recorded(r, p)' => Recorded(r, p) \/ p \in q.noted
             /\ q.kind = "revert" /\ p \in q.noted =>
                    history'[q.target][p].state = "reverted"
    BY <1>2, PersistedHistory
<1>4. /\ product' \in [Product -> Columns]
      /\ writer' \in [Product -> [Field -> Request \cup {None}]]
      /\ listing' \in [Product -> Marks] /\ active' \in BOOLEAN
      /\ holder' \in [Product -> Request \cup {None}]
      /\ \A p \in Product : holder'[p] = IF holder[p] = r THEN None ELSE holder[p]
      /\ \A p \in Product, f \in Field :
            IF p \in q.dirty /\ f = q.field
            THEN product'[p][f] = New(q, p) /\ writer'[p][f] = r
            ELSE product'[p][f] = product[p][f] /\ writer'[p][f] = writer[p][f]
    BY <1>2, PersistedColumns
<1>5. history' \in [Request -> [Product -> Row]]
    BY <1>3 DEF HistoryGrows
<1>6. TypeOK'
    BY <1>1, <1>2, <1>4, <1>5 DEF TypeOK
<1>7. \A p \in Product : p \in MayRecord(n) => p \in MayRecord(q) /\ p \notin q.noted
    BY <1>2 DEF MayRecord, WorkInOrder
<1>8. OverlapsAreNoted' /\ UndosAreApart' /\ UndoneOnce'
    BY <1>3, <1>7, Continues
<1>9. InOrder(r)'
    <2>1. KindIsKnown(r, request[r])'
        BY <1>1, <1>2 DEF KindIsKnown
    <2>2. WorkInOrder(request[r])'
        BY <1>1 DEF WorkInOrder, Notes
    <2>3. Notes(n) => \A p \in Product : p \in MayRecord(n) => ~Recorded(r, p)'
        BY <1>2, <1>3, <1>7 DEF RowsInOrder, Notes
    <2>4. n.kind = "revert" => n.target \in Request
        BY <1>2 DEF KindIsKnown
    <2>5. n.kind = "revert" =>
              \A p \in Product : p \in MayRecord(n) => history'[n.target][p].state # "none"
        <3> SUFFICES ASSUME n.kind = "revert", NEW p \in Product, p \in MayRecord(n)
                     PROVE  history'[n.target][p].state # "none"
            OBVIOUS
        <3>1. Recorded(n.target, p)
            BY <1>2, <1>7 DEF RowsInOrder
        <3> QED
            BY <1>3, <2>4, <3>1 DEF HistoryGrows, Recorded
    <2>6. n.kind = "revert" =>
              \A p \in Product : Recorded(r, p)' => history'[n.target][p].state = "reverted"
        <3> SUFFICES ASSUME n.kind = "revert", NEW p \in Product, Recorded(r, p)'
                     PROVE  history'[n.target][p].state = "reverted"
            OBVIOUS
        <3>1. CASE p \in q.noted
            BY <1>3, <3>1
        <3>2. CASE Recorded(r, p)
            <4>1. history[n.target][p].state = "reverted"
                BY <1>2, <3>2 DEF RowsInOrder
            <4>2. Recorded(n.target, p)
                BY <4>1 DEF Recorded
            <4> QED
                BY <1>3, <2>4, <4>1, <4>2 DEF HistoryGrows
        <3> QED
            BY <1>3, <3>1, <3>2
    <2>7. RowsInOrder(r, request[r])'
        BY <1>1, <2>3, <2>5, <2>6 DEF RowsInOrder, Recorded, MayRecord, Notes
    <2> QED
        BY <2>1, <2>2, <2>7 DEF InOrder
<1>10. \A o \in Request : InOrder(o)'
    <2> SUFFICES ASSUME NEW o \in Request, o # r
                 PROVE  InOrder(o)'
        BY <1>9
    <2> QED
        BY <1>1, <1>3, OthersInOrder DEF IInv
<1>11. LocksAreHeld'
    <2> SUFFICES ASSUME NEW p \in Product, NEW o \in Request, holder'[p] = o
                 PROVE  InFlight(o)' /\ p \in request'[o].dirty
        BY <1>4 DEF LocksAreHeld
    <2>1. o # r /\ holder[p] = o /\ o # None
        BY <1>4, PricesAssumption
    <2>2. InFlight(o) /\ p \in request[o].dirty
        BY <2>1 DEF IInv, LocksAreHeld
    <2> QED
        BY <1>1, <2>1, <2>2 DEF InFlight
<1>12. ASSUME NEW p \in Product, p \in q.noted, NEW f \in Field, Differs(q, p),
              product'[p][f] = New(q, p)
       PROVE  WriteIsFollowed(r, p, f)'
    <2>1. Notes(q) /\ Noted(q, p).new = New(q, p)
        BY <1>2, <1>12, NotedIsRow DEF WorkInOrder, KindIsKnown
    <2> QED
        BY <1>3, <1>12, <2>1 DEF WriteIsFollowed
<1>13. ASSUME NEW p \in Product, p = q.at, NEW f \in Field, Differs(q, p),
              product'[p][f] = New(q, p), <<r, p>> \in bare'
       PROVE  WriteIsFollowed(r, p, f)'
    <2>1. n.phase = "resend" /\ n.at = p /\ n.seen = q.seen
        BY <1>2, <1>13, PricesAssumption
    <2>2. q.kind = "revert" => /\ q.target \in Request
                               /\ history'[q.target][p].old = history[q.target][p].old
        BY <1>2, <1>3, <1>13 DEF KindIsKnown, RowsInOrder, MayRecord, HistoryGrows
    <2>3. New(request[r], p)' = New(q, p) /\ (Differs(request[r], p)' <=> Differs(q, p))
        BY <1>1, <2>1, <2>2 DEF Differs, New
    <2> QED
        BY <1>1, <1>13, <2>1, <2>3 DEF WriteIsFollowed, InFlight
<1>14. WritesAreFollowed'
    <2> SUFFICES ASSUME NEW p \in Product, NEW f \in Field, NEW o \in Request,
                        o = writer'[p][f], Notes(request'[o])
                 PROVE  WriteIsFollowed(o, p, f)'
        BY <1>4 DEF WritesAreFollowed
    <2>1. Notes(request[o]) /\ o # None
        BY <1>1, PricesAssumption DEF Notes
    <2>2. CASE o # r
        <3>1. o = writer[p][f] /\ product'[p][f] = product[p][f]
            BY <1>4, <2>2
        <3>2. WriteIsFollowed(o, p, f)
            BY <2>1, <3>1 DEF IInv, WritesAreFollowed
        <3> QED
            BY <1>1, <1>3, <2>1, <2>2, <3>1, <3>2, OthersFollowed
    <2>3. CASE o = r /\ p \in q.dirty /\ f = q.field
        <3>1. Differs(q, p) /\ product'[p][f] = New(q, p) /\ p \in q.noted \cup {q.at}
            BY <1>2, <1>4, <2>3 DEF RowsInOrder, WorkInOrder
        <3>2. CASE p \in q.noted
            BY <1>12, <2>3, <3>1, <3>2
        <3>3. CASE p = q.at
            <4>1. p # None
                BY PricesAssumption
            <4>2. <<r, p>> \in bare'
                BY <1>1, <2>1, <2>3, <3>3, <4>1 DEF Notes
            <4> QED
                BY <1>13, <2>3, <3>1, <3>3, <4>2
        <3> QED
            BY <3>1, <3>2, <3>3
    <2>4. CASE o = r /\ ~(p \in q.dirty /\ f = q.field)
        <3>1. o = writer[p][f] /\ product'[p][f] = product[p][f]
            BY <1>4, <2>4
        <3>2. WriteIsFollowed(r, p, f)
            BY <2>1, <2>4, <3>1 DEF IInv, WritesAreFollowed
        <3>3. CASE Recorded(r, p) /\ history[r][p].new = product[p][f]
            <4>1. Recorded(r, p)' /\ history'[r][p].new = history[r][p].new
                BY <1>3, <3>3 DEF HistoryGrows
            <4> QED
                BY <2>4, <3>1, <3>3, <4>1 DEF WriteIsFollowed, Recorded
        <3>4. CASE /\ <<r, p>> \in bare /\ Differs(q, p) /\ product[p][f] = New(q, p)
                   /\ p \in q.noted \cup {q.at}
            BY <1>12, <1>13, <2>4, <3>1, <3>4
        <3> QED
            BY <1>2, <3>2, <3>3, <3>4 DEF WriteIsFollowed
    <2> QED
        BY <2>2, <2>3, <2>4
<1> QED
    BY <1>6, <1>8, <1>10, <1>11, <1>14 DEF IInv

\* A request that is lost.
LEMMA Loses ==
    ASSUME IInv, NEW r \in Request, Lose(r)
    PROVE  IInv'
<1> DEFINE q == request[r] n == Closed(q, "lost")
<1>1. /\ KindIsKnown(r, q) /\ WorkInOrder(q) /\ RowsInOrder(r, q) /\ q \in State
      /\ InFlight(r) /\ q.phase # "idle" /\ TypeOK
    BY DEF IInv, InOrder, TypeOK, InFlight, Lose
<1>2. /\ n \in State /\ n.phase = "lost" /\ n.dirty = {} /\ n.noted = {}
      /\ n.at = None /\ n.todo = {} /\ n.kind = q.kind /\ n.change = q.change
      /\ n.target = q.target
    BY <1>1, ClosedState DEF Phase
<1>3. /\ Moves(r, n) /\ UNCHANGED <<product, live, listing, active, shop, history>>
      /\ UNCHANGED <<crossed, bare, writer>>
      /\ holder' = [p \in Product |-> IF holder[p] = r THEN None ELSE holder[p]]
    BY DEF Lose, Moves, Released
<1> HIDE DEF n
<1>4. /\ request' \in [Request -> State] /\ request'[r] = n
      /\ \A o \in Request : o # r => request'[o] = request[o]
    BY <1>1, <1>2, <1>3, Moved
<1>5. holder' \in [Product -> Request \cup {None}]
    BY <1>1, <1>3 DEF TypeOK
<1>6. TypeOK'
    BY <1>1, <1>3, <1>4, <1>5 DEF TypeOK
<1>7. HistoryGrows(r)
    BY <1>1, <1>3, HistoryStays
<1>8. \A p \in Product : p \notin MayRecord(n)
    BY <1>2, PricesAssumption DEF MayRecord
<1>9. \A p \in Product : Recorded(r, p)' <=> Recorded(r, p)
    BY <1>3 DEF Recorded
<1>10. OverlapsAreNoted' /\ UndosAreApart' /\ UndoneOnce'
    BY <1>1, <1>2, <1>3, <1>7, <1>8, <1>9, Continues
<1>11. InOrder(r)'
    <2>1. KindIsKnown(r, request[r])'
        BY <1>1, <1>2, <1>4 DEF KindIsKnown
    <2>2. WorkInOrder(request[r])'
        BY <1>2, <1>4 DEF WorkInOrder, Notes
    <2>3. RowsInOrder(r, request[r])'
        BY <1>1, <1>2, <1>3, <1>4, <1>8 DEF RowsInOrder, Recorded, MayRecord, Notes
    <2> QED
        BY <2>1, <2>2, <2>3 DEF InOrder
<1>12. \A o \in Request : InOrder(o)'
    <2> SUFFICES ASSUME NEW o \in Request, o # r
                 PROVE  InOrder(o)'
        BY <1>11
    <2> QED
        BY <1>1, <1>4, <1>7, OthersInOrder DEF IInv
<1>13. LocksAreHeld'
    <2> SUFFICES ASSUME NEW p \in Product, NEW o \in Request, holder'[p] = o
                 PROVE  InFlight(o)' /\ p \in request'[o].dirty
        BY <1>5 DEF LocksAreHeld
    <2>1. o # r /\ holder[p] = o /\ o # None
        BY <1>3, PricesAssumption
    <2>2. InFlight(o) /\ p \in request[o].dirty
        BY <2>1 DEF IInv, LocksAreHeld
    <2> QED
        BY <1>4, <2>1, <2>2 DEF InFlight
<1>14. WritesAreFollowed'
    <2>0. writer' \in [Product -> [Field -> Request \cup {None}]]
        BY <1>6 DEF TypeOK
    <2> SUFFICES ASSUME NEW p \in Product, NEW f \in Field, NEW o \in Request,
                        o = writer'[p][f], Notes(request'[o])
                 PROVE  WriteIsFollowed(o, p, f)'
        BY <2>0 DEF WritesAreFollowed
    <2>1. Notes(request[o]) /\ o # None /\ o = writer[p][f]
        BY <1>2, <1>3, <1>4, PricesAssumption DEF Notes
    <2>2. WriteIsFollowed(o, p, f)
        BY <2>1 DEF IInv, WritesAreFollowed
    <2>3. CASE o # r
        BY <1>3, <1>4, <1>7, <2>1, <2>2, <2>3, OthersFollowed
    <2>4. CASE o = r
        <3>1. CASE Recorded(r, p) /\ history[r][p].new = product[p][f]
            BY <1>3, <2>4, <3>1 DEF WriteIsFollowed, Recorded
        <3>2. CASE <<r, p>> \in bare
            BY <1>2, <1>3, <1>4, <2>4, <3>2 DEF WriteIsFollowed
        <3> QED
            BY <2>2, <2>4, <3>1, <3>2 DEF WriteIsFollowed
    <2> QED
        BY <2>3, <2>4
<1> QED
    BY <1>6, <1>10, <1>12, <1>13, <1>14 DEF IInv

-----------------------------------------------------------------------------
(* The actions                                                             *)

\* The initial state.
LEMMA Starting == Init => IInv
<1> SUFFICES ASSUME Init PROVE IInv
    OBVIOUS
<1>1. Idle \in State
    BY IdleState
<1>2. /\ Idle.kind = "edit" /\ Idle.phase = "idle" /\ Idle.target = None /\ Idle.at = None
      /\ Idle.todo = {} /\ Idle.noted = {} /\ Idle.dirty = {}
    BY DEF Idle
<1>3. request = [r \in Request |-> Idle] /\ history = [r \in Request |-> [p \in Product |-> NoRow]]
    BY DEF Init
<1>4. TypeOK
    <2>1. Initial \in [Product -> Columns]
        BY PricesAssumption DEF Columns, Value
    <2>2. listing \in [Product -> Marks]
        BY DEF Init, Marks, Sync
    <2>3. shop \in [Product -> Value]
        BY PricesAssumption DEF Init, Value
    <2>4. NoRow \in Row
        BY DEF NoRow, Row, Value
    <2>5. /\ holder \in [Product -> Request \cup {None}]
          /\ writer \in [Product -> [Field -> Request \cup {None}]]
        BY DEF Init
    <2>6. request \in [Request -> State] /\ history \in [Request -> [Product -> Row]]
        BY <1>1, <1>3, <2>4
    <2>7. /\ product \in [Product -> Columns] /\ live \subseteq Product /\ active \in BOOLEAN
          /\ crossed \subseteq SUBSET Request /\ bare \subseteq Request \X Product
        BY <2>1 DEF Init
    <2> QED
        BY <2>2, <2>3, <2>5, <2>6, <2>7 DEF TypeOK
<1>5. \A r \in Request, p \in Product : ~Recorded(r, p)
    BY <1>3 DEF Recorded, NoRow
<1>6. ASSUME NEW r \in Request
      PROVE  InOrder(r) /\ ~InFlight(r)
    <2>1. request[r] = Idle
        BY <1>3
    <2>2. KindIsKnown(r, Idle) /\ WorkInOrder(Idle)
        BY <1>2 DEF KindIsKnown, WorkInOrder, Notes
    <2>3. RowsInOrder(r, Idle)
        BY <1>2, <1>5 DEF RowsInOrder
    <2> QED
        BY <1>2, <2>1, <2>2, <2>3 DEF InOrder, InFlight
<1>7. \A p \in Product : holder[p] = None /\ \A f \in Field : writer[p][f] = None
    BY DEF Init
<1>8. LocksAreHeld /\ WritesAreFollowed
    BY <1>7 DEF LocksAreHeld, WritesAreFollowed
<1>9. OverlapsAreNoted /\ UndosAreApart /\ UndoneOnce
    BY <1>5, <1>6 DEF OverlapsAreNoted, UndosAreApart, UndoneOnce, Recorded
<1> QED
    BY <1>4, <1>6, <1>8, <1>9 DEF IInv

\* A bulk edit.
LEMMA EditBegins ==
    ASSUME IInv, NEW r \in Request, NEW c \in Change, NEW selected \in SUBSET Product,
           BeginEdit(r, c, selected)
    PROVE  IInv'
<1> DEFINE q == [Idle EXCEPT !.phase = "loop", !.field = c.field, !.change = c,
                             !.push = c.push, !.todo = selected \cap live,
                             !.seen = product]
<1>1. c.field \in Field /\ c.push \in BOOLEAN
    BY PricesAssumption
<1>2. selected \cap live \subseteq Product /\ product \in [Product -> Columns]
    BY DEF IInv, TypeOK
<1>3. q \in State
    BY <1>1, <1>2, IdleState DEF State, Phase
<1>4. /\ q.phase = "loop" /\ q.kind = "edit" /\ q.change = c /\ q.target = None
      /\ q.at = None /\ q.noted = {} /\ q.dirty = {}
    BY DEF Idle
<1>5. /\ Started(r, q)
      /\ UNCHANGED <<product, live, holder, listing, active, shop, history, bare, writer>>
    BY DEF BeginEdit
<1> HIDE DEF q
<1>6. KindIsKnown(r, q) /\ WorkInOrder(q)
    BY <1>4 DEF KindIsKnown, WorkInOrder, Notes
<1>7. writer' \in [Product -> [Field -> Request \cup {None}]]
    BY <1>5 DEF IInv, TypeOK
<1> QED
    BY <1>2, <1>3, <1>4, <1>5, <1>6, <1>7, Begun

\* An undo.
LEMMA RevertBegins ==
    ASSUME IInv, NEW r \in Request, NEW b \in Request, BeginRevert(r, b)
    PROVE  IInv'
<1> DEFINE q == [Idle EXCEPT !.kind = "revert", !.phase = "loop",
                             !.field = request[b].field, !.push = TRUE,
                             !.target = b, !.todo = Unreverted(b)]
<1>1. request[b].field \in Field
    BY DEF IInv, TypeOK, State
<1>2. Unreverted(b) \subseteq Product
    BY DEF Unreverted
<1>3. q \in State
    BY <1>1, <1>2, IdleState DEF State, Phase, Kind
<1>4. /\ q.phase = "loop" /\ q.kind = "revert" /\ q.target = b
      /\ q.todo = Unreverted(b) /\ q.at = None /\ q.noted = {} /\ q.dirty = {}
    BY DEF Idle
<1>5. /\ Started(r, q) /\ Unreverted(b) # {}
      /\ UNCHANGED <<product, live, holder, listing, active, shop, history, bare, writer>>
    BY DEF BeginRevert
<1> HIDE DEF q
<1>6. r # b
    <2>1. request[r].phase = "idle"
        BY <1>5 DEF Started
    <2>2. \A p \in Product : ~Recorded(r, p)
        BY <2>1 DEF IInv, InOrder, RowsInOrder
    <2> QED
        BY <1>5, <2>2 DEF Unreverted, Recorded
<1>7. KindIsKnown(r, q) /\ WorkInOrder(q)
    BY <1>4, <1>6 DEF KindIsKnown, WorkInOrder, Notes
<1>8. \A p \in Product : p \in MayRecord(q) => history[q.target][p].state = "live"
    BY <1>4, PricesAssumption DEF MayRecord, Unreverted
<1>9. /\ product' \in [Product -> Columns]
      /\ writer' \in [Product -> [Field -> Request \cup {None}]]
    BY <1>5 DEF IInv, TypeOK
<1> QED
    BY <1>3, <1>4, <1>5, <1>7, <1>8, <1>9, Begun

\* The edit of one product.
LEMMA UpdateBegins ==
    ASSUME IInv, NEW r \in Request, NEW p \in Product, NEW f \in Field, NEW v \in NewPrice,
           BeginUpdate(r, p, f, v)
    PROVE  IInv'
<1> DEFINE col == [product[p] EXCEPT ![f] = v]
           row == [product EXCEPT ![p] = col]
           aut == [writer[p] EXCEPT ![f] = r]
           wri == [writer EXCEPT ![p] = aut]
           q == [Idle EXCEPT !.kind = "update", !.phase = "loop", !.field = f,
                             !.push = TRUE, !.todo = {p}, !.seen = row]
<1>1. /\ product \in [Product -> Columns]
      /\ writer \in [Product -> [Field -> Request \cup {None}]]
    BY DEF IInv, TypeOK
<1>2. v \in Nat
    BY PricesAssumption
<1>3. col \in Columns /\ \A g \in Field : g # f => col[g] = product[p][g]
    BY <1>1, <1>2 DEF Columns, Field, Value
<1>4. aut \in [Field -> Request \cup {None}]
      /\ \A g \in Field : aut[g] = IF g = f THEN r ELSE writer[p][g]
    BY <1>1
<1>5. /\ Started(r, q) /\ product' = row
      /\ writer' = IF row = product THEN writer ELSE wri
      /\ UNCHANGED <<live, holder, listing, active, shop, history, bare>>
    BY DEF BeginUpdate
<1> HIDE DEF col, aut
<1>6. row \in [Product -> Columns] /\ wri \in [Product -> [Field -> Request \cup {None}]]
    BY <1>1, <1>3, <1>4
<1>7. \A o \in Product, g \in Field :
          \/ wri[o][g] = writer[o][g] /\ row[o][g] = product[o][g]
          \/ wri[o][g] = r
    BY <1>1, <1>3, <1>4
<1> HIDE DEF row, wri
<1>8. q \in State
    BY <1>6, IdleState DEF State, Phase, Kind
<1>9. /\ q.phase = "loop" /\ q.kind = "update" /\ q.target = None /\ q.at = None
      /\ q.noted = {} /\ q.dirty = {}
    BY DEF Idle
<1> HIDE DEF q
<1>10. KindIsKnown(r, q) /\ WorkInOrder(q)
    BY <1>9 DEF KindIsKnown, WorkInOrder, Notes
<1>11. /\ product' \in [Product -> Columns]
       /\ writer' \in [Product -> [Field -> Request \cup {None}]]
    BY <1>1, <1>5, <1>6
<1>12. \A o \in Product, g \in Field :
           \/ writer'[o][g] = writer[o][g] /\ product'[o][g] = product[o][g]
           \/ writer'[o][g] = r /\ q.kind = "update"
    BY <1>5, <1>7, <1>9
<1> QED
    BY <1>5, <1>8, <1>9, <1>10, <1>11, <1>12, Begun

\* The forced resync.
LEMMA ResyncBegins ==
    ASSUME IInv, NEW r \in Request, NEW p \in Product, BeginResync(r, p)
    PROVE  IInv'
<1> DEFINE q == [Idle EXCEPT !.kind = "resync", !.phase = "call", !.push = TRUE,
                             !.at = p, !.seen = product]
<1>1. product \in [Product -> Columns]
    BY DEF IInv, TypeOK
<1>2. q \in State
    BY <1>1, IdleState DEF State, Phase, Kind
<1>3. /\ q.phase = "call" /\ q.kind = "resync" /\ q.target = None /\ q.at = p
      /\ q.todo = {} /\ q.noted = {} /\ q.dirty = {}
    BY DEF Idle
<1>4. /\ Started(r, q)
      /\ UNCHANGED <<product, live, holder, listing, active, shop, history, bare, writer>>
    BY DEF BeginResync
<1> HIDE DEF q
<1>5. KindIsKnown(r, q) /\ WorkInOrder(q)
    BY <1>3, PricesAssumption DEF KindIsKnown, WorkInOrder, Notes
<1>6. writer' \in [Product -> [Field -> Request \cup {None}]]
    BY <1>4 DEF IInv, TypeOK
<1> QED
    BY <1>1, <1>2, <1>3, <1>4, <1>5, <1>6, Begun

\* The channel's answers conclude a product.
LEMMA Concludes ==
    ASSUME IInv, NEW r \in Request, NEW status \in Sync, NEW off \in BOOLEAN,
           request[r].phase \in {"call", "resend"},
           request' = [request EXCEPT ![r] =
               IF off THEN [Concluded(request[r], request[r].at, status) EXCEPT !.off = TRUE]
               ELSE Concluded(request[r], request[r].at, status)],
           UNCHANGED <<product, live, holder, listing, active, history, crossed, bare, writer>>,
           shop' \in [Product -> Value]
    PROVE  IInv'
<1> DEFINE q == request[r] c == Concluded(q, q.at, status)
           n == IF off THEN [c EXCEPT !.off = TRUE] ELSE c
<1>1. /\ q \in State /\ WorkInOrder(q) /\ InFlight(r)
      /\ holder \in [Product -> Request \cup {None}]
    BY DEF IInv, TypeOK, InOrder, InFlight
<1>2. q.at \in Product /\ status \in Marks
    BY <1>1 DEF WorkInOrder, State, Marks
<1>4. Moves(r, n)
    BY DEF Moves
<1> HIDE DEF q
<1>3. /\ c \in State
      /\ c.phase = "loop" /\ c.at = None /\ c.todo = q.todo \ {q.at}
      /\ c.noted = IF Notes(q) THEN q.noted \cup {q.at} ELSE q.noted
      /\ c.kind = q.kind /\ c.field = q.field /\ c.change = q.change
      /\ c.push = q.push /\ c.target = q.target /\ c.seen = q.seen
      /\ c.dirty = q.dirty /\ c.off = q.off
    BY <1>1, <1>2, ConcludedState
<1> HIDE DEF c
<1>5. /\ n \in State
      /\ n.phase = "loop" /\ n.at = None /\ n.todo = q.todo \ {q.at}
      /\ n.noted = IF Notes(q) THEN q.noted \cup {q.at} ELSE q.noted
      /\ n.kind = q.kind /\ n.field = q.field /\ n.change = q.change
      /\ n.target = q.target /\ n.seen = q.seen /\ n.dirty = q.dirty
    BY <1>3 DEF State
<1> HIDE DEF n
<1>6. WorkInOrder(n)
    <2>1. q.todo \cap q.noted = {} /\ q.dirty \subseteq q.noted \cup {q.at}
        BY <1>1 DEF WorkInOrder
    <2>2. CASE Notes(q)
        <3>1. n.noted = q.noted \cup {q.at} /\ n.at = None /\ n.todo = q.todo \ {q.at}
            BY <1>5, <2>2
        <3>2. /\ n.at \notin n.noted
              /\ n.todo \cap n.noted = {} /\ n.dirty \subseteq n.noted \cup {n.at}
            BY <1>1, <1>2, <1>5, <2>1, <3>1, PricesAssumption DEF State
        <3>3. Notes(n)
            BY <1>5, <2>2 DEF Notes
        <3> QED
            BY <1>5, <3>2, <3>3 DEF WorkInOrder
    <2>3. CASE ~Notes(q)
        BY <1>1, <1>5, <2>3 DEF WorkInOrder, Notes
    <2> QED
        BY <2>2, <2>3
<1>7. \A p \in Product : p \in MayRecord(n) => p \in MayRecord(q)
    BY <1>5, PricesAssumption DEF MayRecord
<1>8. \A p \in Product : p \in q.noted \cup {q.at} =>
          (Notes(n) => p \in n.noted \cup {n.at}) /\ n.seen[p] = q.seen[p]
    BY <1>5 DEF Notes
<1> QED
    BY <1>1, <1>4, <1>5, <1>6, <1>7, <1>8, Works DEF q

\* A turn of the loop.
LEMMA Turns ==
    ASSUME IInv, NEW r \in Request, NEW p \in Product, Turn(r, p)
    PROVE  IInv'
<1> DEFINE b == request[r]
           q == Loaded(r, p)
           d == IF Differs(q, p) THEN {p} ELSE {}
           dirty == q.dirty \cup d
           todo == q.todo \ {p}
           next == [q EXCEPT !.dirty = dirty]
           skip == [q EXCEPT !.todo = todo]
           call == [next EXCEPT !.phase = "call", !.at = p]
           over == Concluded(next, p, "none")
           n == IF Skips(q, p) THEN skip ELSE IF Calls(q, p) THEN call ELSE over
<1>1. /\ b.phase = "loop" /\ p \in b.todo /\ Moves(r, n) /\ InFlight(r)
      /\ UNCHANGED <<product, live, listing, active, shop, history, crossed, bare, writer>>
      /\ holder' = IF ~Skips(q, p) /\ q.push /\ Differs(q, p)
                   THEN [holder EXCEPT ![p] = r] ELSE holder
    BY DEF Turn, Moves, InFlight
<1>2. /\ b \in State /\ WorkInOrder(b) /\ TypeOK
    BY DEF IInv, InOrder, TypeOK
<1>3. /\ q \in State
      /\ q.phase = b.phase /\ q.kind = b.kind /\ q.field = b.field
      /\ q.change = b.change /\ q.push = b.push /\ q.target = b.target
      /\ q.todo = b.todo /\ q.at = b.at /\ q.dirty = b.dirty /\ q.noted = b.noted
      /\ \A o \in Product : o # p => q.seen[o] = b.seen[o]
    BY <1>2, LoadedState
<1> HIDE DEF q, b
<1>4. d \subseteq {p} /\ (p \in d => Differs(q, p)) /\ (~Notes(q) => d = {})
    BY DEF Differs, New, Notes
<1>5. (~Skips(q, p) /\ Differs(q, p)) => d = {p}
    OBVIOUS
<1> HIDE DEF d
<1>6. dirty \subseteq Product /\ todo \subseteq Product
    BY <1>3, <1>4 DEF State
<1>7. /\ next \in State
      /\ next.phase = b.phase /\ next.kind = b.kind /\ next.field = b.field
      /\ next.change = b.change /\ next.target = b.target /\ next.seen = q.seen
      /\ next.todo = b.todo /\ next.at = b.at /\ next.dirty = dirty
      /\ next.noted = b.noted
    <2> HIDE DEF dirty
    <2> QED
        BY <1>3, <1>6 DEF State
<1>8. b.at = None /\ p \notin b.noted /\ b.todo \cap b.noted = {} /\ b.dirty \subseteq b.noted
    <2>1. b.at = None /\ b.todo \cap b.noted = {} /\ b.dirty \subseteq b.noted \cup {b.at}
        BY <1>1, <1>2 DEF WorkInOrder
    <2>2. b.dirty \subseteq Product
        BY <1>2 DEF State
    <2> QED
        BY <1>1, <2>1, <2>2, PricesAssumption
<1>9. ~Notes(b) => b.dirty = {} /\ b.noted = {}
    BY <1>2 DEF WorkInOrder
<1>10. Notes(q) <=> Notes(b)
    BY <1>3 DEF Notes
<1> HIDE DEF next
\* The three ways a turn ends, in the terms of Works.
<1>11. /\ n \in State /\ n.phase \in {"loop", "call"} /\ WorkInOrder(n)
       /\ n.kind = b.kind /\ n.field = b.field /\ n.change = b.change
       /\ n.target = b.target /\ n.seen = q.seen
       /\ b.dirty \subseteq n.dirty /\ n.dirty \subseteq dirty
       /\ ~Skips(q, p) => n.dirty = dirty
       /\ \A o \in Product : o \in MayRecord(n) => o \in MayRecord(b)
       /\ b.noted \subseteq n.noted
    <2>1. CASE Skips(q, p)
        <3>1. n = skip
            BY <2>1
        <3> HIDE DEF n
        <3>2. /\ skip \in State /\ skip.phase = "loop" /\ skip.todo = todo
              /\ skip.kind = b.kind /\ skip.field = b.field /\ skip.change = b.change
              /\ skip.target = b.target /\ skip.seen = q.seen /\ skip.at = None
              /\ skip.noted = b.noted /\ skip.dirty = b.dirty
            <4> HIDE DEF todo
            <4> QED
                BY <1>1, <1>3, <1>6, <1>8 DEF State
        <3> HIDE DEF skip
        <3>3. WorkInOrder(skip)
            BY <1>3, <1>8, <1>9, <3>2, PricesAssumption DEF WorkInOrder, Notes, State
        <3>4. \A o \in Product : o \in MayRecord(skip) => o \in MayRecord(b)
            BY <1>3, <3>2, PricesAssumption DEF MayRecord
        <3> QED
            BY <1>3, <2>1, <3>1, <3>2, <3>3, <3>4
    <2>2. CASE ~Skips(q, p) /\ Calls(q, p)
        <3>1. n = call
            BY <2>2
        <3> HIDE DEF n
        <3>2. /\ call \in State /\ call.phase = "call" /\ call.todo = b.todo
              /\ call.kind = b.kind /\ call.field = b.field /\ call.change = b.change
              /\ call.target = b.target /\ call.seen = q.seen /\ call.at = p
              /\ call.noted = b.noted /\ call.dirty = dirty
            BY <1>7 DEF State, Phase
        <3> HIDE DEF call
        <3>3. WorkInOrder(call)
            <4>1. call.dirty \subseteq call.noted \cup {call.at}
                BY <1>3, <1>4, <1>8, <3>2
            <4>2. ~Notes(call) => call.dirty = {} /\ call.noted = {}
                BY <1>3, <1>4, <1>9, <1>10, <3>2 DEF Notes
            <4>3. p # None
                BY PricesAssumption
            <4> QED
                BY <1>8, <3>2, <4>1, <4>2, <4>3 DEF WorkInOrder
        <3>4. \A o \in Product : o \in MayRecord(call) => o \in MayRecord(b)
            BY <1>1, <3>2 DEF MayRecord
        <3> QED
            BY <1>3, <2>2, <3>1, <3>2, <3>3, <3>4
    <2>3. CASE ~Skips(q, p) /\ ~Calls(q, p)
        <3>1. n = over
            BY <2>3
        <3> HIDE DEF n
        <3>2. /\ over \in State /\ over.phase = "loop" /\ over.at = None
              /\ over.todo = b.todo \ {p}
              /\ over.noted = IF Notes(next) THEN b.noted \cup {p} ELSE b.noted
              /\ over.kind = b.kind /\ over.field = b.field /\ over.change = b.change
              /\ over.target = b.target /\ over.seen = q.seen /\ over.dirty = dirty
            <4>1. "none" \in Marks
                BY DEF Marks
            <4>2. /\ over \in State
                  /\ over.phase = "loop" /\ over.at = None /\ over.todo = next.todo \ {p}
                  /\ over.noted = IF Notes(next) THEN next.noted \cup {p} ELSE next.noted
                  /\ over.kind = next.kind /\ over.field = next.field
                  /\ over.change = next.change /\ over.target = next.target
                  /\ over.seen = next.seen /\ over.dirty = next.dirty
                BY <1>7, <4>1, ConcludedState
            <4> HIDE DEF over, dirty
            <4> QED
                BY <1>7, <4>2
        <3>3. Notes(next) <=> Notes(b)
            BY <1>7 DEF Notes
        <3> HIDE DEF over
        <3>4. WorkInOrder(over)
            <4>1. Notes(over) <=> Notes(b)
                BY <3>2 DEF Notes
            <4>2. CASE Notes(b)
                <5>1. over.noted = b.noted \cup {p}
                    BY <3>2, <3>3, <4>2
                <5>2. /\ over.at \notin over.noted /\ over.todo \cap over.noted = {}
                      /\ over.dirty \subseteq over.noted
                    BY <1>2, <1>3, <1>4, <1>8, <3>2, <5>1, PricesAssumption DEF State
                <5> QED
                    BY <3>2, <4>1, <4>2, <5>2 DEF WorkInOrder
            <4>3. CASE ~Notes(b)
                BY <1>3, <1>4, <1>9, <1>10, <3>2, <3>3, <4>1, <4>3 DEF WorkInOrder
            <4> QED
                BY <4>2, <4>3
        <3>5. \A o \in Product : o \in MayRecord(over) => o \in MayRecord(b)
            BY <1>1, <3>2, PricesAssumption DEF MayRecord
        <3> QED
            BY <1>3, <2>3, <3>1, <3>2, <3>4, <3>5
    <2> QED
        BY <2>1, <2>2, <2>3
<1> HIDE DEF n
<1>12. \A o \in Product : o \in b.noted \cup {b.at} =>
           (Notes(n) => o \in n.noted \cup {n.at}) /\ n.seen[o] = b.seen[o]
    BY <1>3, <1>8, <1>11, PricesAssumption
<1>13. \A o \in n.dirty : o \in b.dirty \/ Differs(n, o)
    <2> SUFFICES ASSUME NEW o \in n.dirty, o \notin b.dirty
                 PROVE  Differs(n, o)
        OBVIOUS
    <2>1. o = p /\ Differs(q, p)
        BY <1>3, <1>4, <1>11
    <2> QED
        BY <1>3, <1>11, <2>1 DEF Differs, New
<1>14. /\ holder' \in [Product -> Request \cup {None}]
       /\ \A o \in Product : holder'[o] = holder[o] \/ (holder'[o] = r /\ o \in n.dirty)
    <2>1. holder \in [Product -> Request \cup {None}]
        BY <1>2 DEF TypeOK
    <2>2. ~Skips(q, p) /\ Differs(q, p) => p \in n.dirty
        BY <1>5, <1>11
    <2> QED
        BY <1>1, <2>1, <2>2
<1>15. shop' \in [Product -> Value]
    BY <1>1, <1>2 DEF TypeOK
<1> HIDE DEF b
<1> QED
    BY <1>1, <1>11, <1>12, <1>13, <1>14, <1>15, Works DEF b

\* What a session sends is a price.
LEMMA SentIsValue ==
    ASSUME IInv, NEW r \in Request, request[r].at \in Product
    PROVE  Sent(request[r], request[r].at) \in Value
<1> DEFINE q == request[r]
<1>1. q \in State /\ KindIsKnown(r, q) /\ TypeOK
    BY DEF IInv, TypeOK, InOrder
<1>2. CASE q.field = "price"
    <2>1. q.phase # "idle" => New(q, q.at) \in Nat
        BY <1>1, <1>2, NewIsValue DEF KindIsKnown
    <2>2. q.phase # "idle"
        BY PricesAssumption DEF IInv, InOrder, WorkInOrder
    <2> QED
        BY <1>2, <2>1, <2>2 DEF Sent, Value
<1>3. CASE q.field # "price"
    BY <1>1, <1>3 DEF Sent, State, Columns, Value
<1> QED
    BY <1>2, <1>3

\* The answers, a deletion, and a removal at the channel.
LEMMA Answers ==
    ASSUME IInv, NEW r \in Request,
           Accepted(r) \/ NotFound(r) \/ Failed(r) \/ Refused(r)
    PROVE  IInv'
<1>1. request[r].phase \in {"call", "resend"}
    BY DEF Accepted, NotFound, Failed, Refused, Answer
<1>2. request[r].at \in Product
    BY <1>1 DEF IInv, InOrder, WorkInOrder, TypeOK, State
<1>3. shop \in [Product -> Value]
    BY DEF IInv, TypeOK
<1>4. CASE Accepted(r)
    <2>1. shop' \in [Product -> Value]
        BY <1>2, <1>3, <1>4, SentIsValue DEF Accepted
    <2>2. /\ request' = [request EXCEPT ![r] = Concluded(request[r], request[r].at, "SYNCED")]
          /\ UNCHANGED <<product, live, holder, listing, active, history, crossed, bare, writer>>
        BY <1>4 DEF Accepted, Answer
    <2> QED
        BY <1>1, <2>1, <2>2, Concludes DEF Sync
<1>5. CASE NotFound(r)
    <2>1. /\ request' = [request EXCEPT ![r] = Concluded(request[r], request[r].at, "STALE")]
          /\ UNCHANGED <<product, live, holder, listing, active, history, crossed, bare, writer>>
          /\ shop' = shop
        BY <1>5 DEF NotFound, Answer
    <2> QED
        BY <1>1, <1>3, <2>1, Concludes DEF Sync
<1>6. CASE Failed(r)
    <2>1. shop' \in [Product -> Value]
        BY <1>2, <1>3, <1>6, SentIsValue DEF Failed
    <2>2. /\ request' = [request EXCEPT ![r] = Concluded(request[r], request[r].at, "FAILED")]
          /\ UNCHANGED <<product, live, holder, listing, active, history, crossed, bare, writer>>
        BY <1>6 DEF Failed, Answer
    <2> QED
        BY <1>1, <2>1, <2>2, Concludes DEF Sync
<1>7. CASE Refused(r)
    <2>1. /\ request' = [request EXCEPT ![r] =
                 [Concluded(request[r], request[r].at, "FAILED") EXCEPT !.off = TRUE]]
          /\ UNCHANGED <<product, live, holder, listing, active, history, crossed, bare, writer>>
          /\ shop' = shop
        BY <1>7 DEF Refused
    <2> QED
        BY <1>1, <1>3, <2>1, Concludes DEF Sync
<1> QED
    BY <1>4, <1>5, <1>6, <1>7

\* A step that leaves the requests and their rows alone.
LEMMA Untouched ==
    ASSUME IInv, UNCHANGED <<product, holder, history, request, crossed, bare, writer>>,
           TypeOK'
    PROVE  IInv'
<1>1. \A r \in Request : InOrder(r)'
    <2> SUFFICES ASSUME NEW r \in Request
                 PROVE  InOrder(r)'
        OBVIOUS
    <2>1. KindIsKnown(r, request[r]) /\ WorkInOrder(request[r]) /\ RowsInOrder(r, request[r])
        BY DEF IInv, InOrder
    <2>2. KindIsKnown(r, request[r])' /\ WorkInOrder(request[r])'
        BY <2>1 DEF KindIsKnown, WorkInOrder, Notes
    <2>3. RowsInOrder(r, request[r])'
        BY <2>1 DEF RowsInOrder, Recorded, MayRecord, Notes, Differs, New
    <2> QED
        BY <2>2, <2>3 DEF InOrder
<1>2. LocksAreHeld'
    BY DEF IInv, LocksAreHeld, InFlight
<1>3. OverlapsAreNoted' /\ UndosAreApart' /\ UndoneOnce'
    BY DEF IInv, OverlapsAreNoted, UndosAreApart, UndoneOnce, Recorded, MayRecord, InFlight
<1>4. ASSUME NEW r \in Request, NEW p \in Product, NEW f \in Field, WriteIsFollowed(r, p, f)
      PROVE  WriteIsFollowed(r, p, f)'
    <2>1. New(request[r], p)' = New(request[r], p)
        BY DEF New
    <2> QED
        BY <1>4, <2>1 DEF WriteIsFollowed, Recorded, Differs, InFlight
<1>5. WritesAreFollowed'
    <2> SUFFICES ASSUME NEW p \in Product, NEW f \in Field, NEW o \in Request,
                        o = writer[p][f], Notes(request[o])
                 PROVE  WriteIsFollowed(o, p, f)'
        BY DEF IInv, TypeOK, WritesAreFollowed, Notes
    <2>1. o # None
        BY PricesAssumption
    <2> QED
        BY <1>4, <2>1 DEF IInv, WritesAreFollowed
<1> QED
    BY <1>1, <1>2, <1>3, <1>5 DEF IInv

\* What goes away, here or at the channel, is part of no request's state.
LEMMA Goes ==
    ASSUME IInv, NEW p \in Product, SoftDelete(p) \/ RemovedAtChannel(p)
    PROVE  IInv'
<1>1. UNCHANGED <<product, holder, history, request, crossed, bare, writer>>
    BY DEF SoftDelete, RemovedAtChannel
<1>2. TypeOK
    BY DEF IInv
<1>3. live' \subseteq Product /\ active' \in BOOLEAN
    BY <1>2 DEF SoftDelete, RemovedAtChannel, TypeOK
<1>4. listing' \in [Product -> Marks]
    BY <1>2 DEF SoftDelete, RemovedAtChannel, TypeOK, Marks
<1>5. shop' \in [Product -> Value]
    BY <1>2 DEF SoftDelete, RemovedAtChannel, TypeOK, Value
<1>6. TypeOK'
    BY <1>1, <1>2, <1>3, <1>4, <1>5 DEF TypeOK
<1> QED
    BY <1>1, <1>6, Untouched

\* The end of a handler.
LEMMA Commits ==
    ASSUME IInv, NEW r \in Request, Commit(r)
    PROVE  IInv'
<1> DEFINE q == request[r] n == Closed(q, "done")
<1>1. /\ q \in State /\ WorkInOrder(q) /\ InFlight(r) /\ bare \subseteq Request \X Product
      /\ q.phase = "loop" /\ q.todo = {} /\ Persisted(r)
      /\ UNCHANGED <<live, shop, crossed>> /\ bare' = bare
    BY DEF IInv, TypeOK, InOrder, InFlight, Commit
<1>2. q.at = None
    BY <1>1 DEF WorkInOrder
<1>3. /\ n \in State /\ n.phase = "done" /\ n.dirty = {} /\ n.noted = {}
      /\ n.at = None /\ n.todo = {} /\ n.kind = q.kind /\ n.change = q.change
      /\ n.target = q.target /\ n.field = q.field
    BY <1>1, ClosedState DEF Phase
<1>4. Moves(r, n)
    BY DEF Commit, Moves
<1> HIDE DEF n, q
<1> QED
    BY <1>1, <1>2, <1>3, <1>4, Saves DEF q

\* The commit of a refreshed token.
LEMMA TokenSaves ==
    ASSUME IInv, NEW r \in Request, TokenSaved(r)
    PROVE  IInv'
<1> DEFINE q == request[r] n == Written(q, "resend")
<1>1. /\ q \in State /\ WorkInOrder(q) /\ InFlight(r) /\ bare \subseteq Request \X Product
      /\ q.phase = "call" /\ Persisted(r) /\ UNCHANGED <<live, shop, crossed>>
      /\ bare' = IF Notes(q) /\ q.at \in q.dirty THEN bare \cup {<<r, q.at>>} ELSE bare
    BY DEF IInv, TypeOK, InOrder, InFlight, TokenSaved
<1>2. q.at # None /\ q.at \in Product
    BY <1>1 DEF WorkInOrder, State
<1>3. /\ n \in State /\ n.phase = "resend" /\ n.dirty = {} /\ n.noted = {}
      /\ n.at = q.at /\ n.todo = q.todo /\ n.seen = q.seen /\ n.kind = q.kind
      /\ n.field = q.field /\ n.change = q.change /\ n.target = q.target
    BY <1>1, WrittenState DEF Phase
<1>4. Moves(r, n)
    BY DEF TokenSaved, Moves
<1> HIDE DEF n, q
<1>5. bare \subseteq bare' /\ bare' \subseteq Request \X Product
    BY <1>1, <1>2
<1>6. Notes(n) /\ n.at \in q.dirty => <<r, n.at>> \in bare'
    BY <1>1, <1>3 DEF Notes
<1> QED
    BY <1>1, <1>2, <1>3, <1>4, <1>5, <1>6, Saves DEF q

\* Every step keeps the invariant.
LEMMA NextIInv == IInv /\ [Next]_vars => IInv'
<1> SUFFICES ASSUME IInv, [Next]_vars PROVE IInv'
    OBVIOUS
<1>1. ASSUME NEW r \in Request, Begin(r) PROVE IInv'
    BY <1>1, EditBegins, RevertBegins, UpdateBegins, ResyncBegins DEF Begin
<1>2. ASSUME NEW r \in Request, Progress(r) PROVE IInv'
    BY <1>2, Turns, Answers, Commits DEF Progress
<1>3. ASSUME NEW r \in Request, TokenSaved(r) PROVE IInv'
    BY <1>3, TokenSaves
<1>4. ASSUME NEW r \in Request, Lose(r) PROVE IInv'
    BY <1>4, Loses
<1>5. ASSUME NEW p \in Product, SoftDelete(p) \/ RemovedAtChannel(p) PROVE IInv'
    BY <1>5, Goes
<1>6. ASSUME UNCHANGED vars PROVE IInv'
    <2>1. TypeOK'
        BY <1>6 DEF vars, IInv, TypeOK
    <2> QED
        BY <1>6, <2>1, Untouched DEF vars
<1> QED
    BY <1>1, <1>2, <1>3, <1>4, <1>5, <1>6 DEF Next

-----------------------------------------------------------------------------
\* In every state a reachable request has, prices are natural numbers and the
\* requests' records have their shape.
THEOREM TypeCorrect == Spec => []TypeOK
<1>1. IInv => TypeOK
    BY DEF IInv
<1> QED
    BY Starting, NextIInv, <1>1, PTL DEF Spec

\* A row lock belongs to a request in flight that is about to write the row.
THEOREM LocksOfTheLiving == Spec => []LocksAreHeld
<1>1. IInv => LocksAreHeld
    BY DEF IInv
<1> QED
    BY Starting, NextIInv, <1>1, PTL DEF Spec

\* Two undos of the same row overlapped.
THEOREM UndoneByOne == Spec => []UndoneOnce
<1>1. IInv => UndoneOnce
    BY DEF IInv
<1> QED
    BY Starting, NextIInv, <1>1, PTL DEF Spec

\* What a bulk edit or an undo left in a column can be undone, unless the request
\* was lost between the commit of a token and the row.
THEOREM EveryChangeRecorded == Spec => []ChangesAreRecorded
<1>1. IInv => ChangesAreRecorded
    BY DEF IInv, WritesAreFollowed, WriteIsFollowed, ChangesAreRecorded, Recorded
<1> QED
    BY Starting, NextIInv, <1>1, PTL DEF Spec

-----------------------------------------------------------------------------
(* The dialog's preview and the server's rounding                           *)

\* A row of an edit says what the edit found, and what _apply_change made of it.
EditsApply ==
    \A r \in Request, p \in Product :
        request[r].kind = "edit" /\ Recorded(r, p) =>
            /\ history[r][p].old = request[r].seen[p][request[r].field]
            /\ history[r][p].new = Applied(history[r][p].old, request[r].change)

\* n is a later state of the request q.
Continued(q, n) ==
    /\ n.kind = q.kind /\ n.change = q.change /\ n.field = q.field /\ n.target = q.target
    /\ q.kind = "edit" => n.seen = q.seen

\* A quotient, from what it multiplies to and what is left.
LEMMA Quotient ==
    ASSUME NEW n \in Nat, NEW d \in Nat \ {0}, NEW k \in Nat, NEW m \in Nat,
           n = d * k + m, m < d
    PROVE  n \div d = k
OBVIOUS

\* Math.round and Python's round differ at a tie above an even step only, by one.
LEMMA RoundsApart ==
    ASSUME NEW n \in Nat, NEW d \in Nat \ {0}
    PROVE  \/ HalfEven(n, d) = HalfUp(n, d)
           \/ /\ HalfEven(n, d) = HalfUp(n, d) - 1
              /\ 2 * n = d * (HalfEven(n, d) + HalfUp(n, d))
<1> DEFINE k == n \div d m == n % d
<1>1. k \in Nat /\ m \in Nat /\ m < d /\ n = d * k + m
    BY Division
<1>2. HalfEven(n, d) = IF 2 * m > d \/ (2 * m = d /\ k % 2 = 1) THEN k + 1 ELSE k
    BY DEF HalfEven
<1>3. HalfUp(n, d) = (2 * n + d) \div (2 * d)
    BY DEF HalfUp
<1> HIDE DEF k, m
<1>4. 2 * n + d = (2 * d) * k + (2 * m + d) /\ 2 * d \in Nat \ {0} /\ 2 * n + d \in Nat
    BY <1>1
<1>5. CASE 2 * m < d
    <2>1. 2 * m + d \in Nat /\ 2 * m + d < 2 * d
        BY <1>1, <1>5
    <2>2. HalfUp(n, d) = k
        BY <1>1, <1>3, <1>4, <2>1, Quotient
    <2> QED
        BY <1>1, <1>2, <1>5, <2>2
<1>6. CASE 2 * m >= d
    <2>1. 2 * m - d \in Nat /\ 2 * m - d < 2 * d /\ k + 1 \in Nat
        BY <1>1, <1>6
    <2>2. (2 * d) * (k + 1) = (2 * d) * k + 2 * d
        BY <1>1
    <2>3. 2 * n + d = (2 * d) * (k + 1) + (2 * m - d)
        BY <1>1, <1>4, <2>2
    <2>4. HalfUp(n, d) = k + 1
        BY <1>3, <1>4, <2>1, <2>3, Quotient
    <2>5. CASE 2 * m > d \/ k % 2 = 1
        BY <1>2, <1>6, <2>4, <2>5, <1>1
    <2>6. CASE 2 * m = d /\ k % 2 # 1
        <3>1. HalfEven(n, d) = k
            BY <1>2, <2>6
        <3>2. d * (2 * k + 1) = 2 * (d * k) + d
            BY <1>1
        <3>3. 2 * n = d * (2 * k + 1)
            BY <1>1, <2>6, <3>2
        <3>4. k + (k + 1) = 2 * k + 1 /\ k = (k + 1) - 1
            BY <1>1
        <3> QED
            BY <2>4, <3>1, <3>3, <3>4
    <2> QED
        BY <1>1, <1>6, <2>5, <2>6
<1> QED
    BY <1>1, <1>5, <1>6

\* What the server writes is what the dialog shows, or a step below it at a tie.
LEMMA PreviewApart ==
    ASSUME NEW old \in Nat, NEW c \in Change
    PROVE  \/ Applied(old, c) = Previewed(old, c)
           \/ /\ Applied(old, c) = Previewed(old, c) - c.round_to
              /\ 2 * Raw(old, c) = 100 * (Applied(old, c) + Previewed(old, c))
<1> DEFINE s == c.round_to
           w == Raw(old, c)
           e == HalfEven(w, 100 * s)
           u == HalfUp(w, 100 * s)
<1>1. w \in Nat /\ s \in Nat \ {0} /\ old # None
    BY RawIsNat, PricesAssumption DEF Value
<1>2. /\ Applied(old, c) = IF s = 1 THEN w \div 100 ELSE e * s
      /\ Previewed(old, c) = IF s = 1 THEN w \div 100 ELSE u * s
    BY <1>1 DEF Applied, Previewed
<1> HIDE DEF s, w
<1>3. 100 * s \in Nat \ {0}
    BY <1>1
<1>4. \/ e = u
      \/ e = u - 1 /\ 2 * w = (100 * s) * (e + u)
    BY <1>1, <1>3, RoundsApart
<1>5. e \in Nat /\ u \in Nat
    <2>1. 2 * w + 100 * s \in Nat /\ 2 * (100 * s) \in Nat \ {0}
        BY <1>1, <1>3
    <2> QED
        BY <1>1, <1>3, <2>1, HalfEvenIsNat, Division DEF HalfUp
<1> HIDE DEF e, u
<1>6. CASE e = u
    BY <1>2, <1>6
<1>7. CASE e = u - 1 /\ 2 * w = (100 * s) * (e + u) /\ s # 1
    <2>1. u = e + 1
        BY <1>5, <1>7
    <2>2. (e + 1) * s = e * s + s
        BY <1>1, <1>5
    <2>3. (100 * s) * (e + (e + 1)) = 100 * (e * s + (e + 1) * s)
        BY <1>1, <1>5
    <2>4. e * s = (e * s + s) - s
        BY <1>1, <1>5
    <2> QED
        BY <1>2, <1>7, <2>1, <2>2, <2>3, <2>4 DEF s, w
<1>8. CASE s = 1
    BY <1>2, <1>8
<1> QED
    BY <1>4, <1>6, <1>7, <1>8

\* The rows of an edit are kept as they are, whatever is committed.
LEMMA EditsKept ==
    ASSUME IInv, IInv', EditsApply, NEW r \in Request, HistoryGrows(r),
           \A o \in Request : Continued(request[o], request'[o]),
           \A p \in Product : Recorded(r, p)' => Recorded(r, p)
               \/ (Notes(request[r]) /\ history'[r][p] = Noted(request[r], p))
    PROVE  EditsApply'
<1> SUFFICES ASSUME NEW o \in Request, NEW p \in Product, request[o].kind = "edit",
                    Recorded(o, p)'
             PROVE  /\ history'[o][p].old = request[o].seen[p][request[o].field]
                    /\ history'[o][p].new = Applied(history'[o][p].old, request[o].change)
    BY DEF EditsApply, Continued
<1>1. CASE Recorded(o, p)
    <2>1. /\ history'[o][p].old = history[o][p].old
          /\ history'[o][p].new = history[o][p].new
        BY <1>1 DEF HistoryGrows
    <2> QED
        BY <1>1, <2>1 DEF EditsApply
<1>2. CASE ~Recorded(o, p)
    <2>1. o = r
        BY <1>2 DEF HistoryGrows
    <2>2. Recorded(r, p)' /\ ~Recorded(r, p)
        BY <1>2, <2>1 DEF Recorded
    <2>3. history'[r][p] = Noted(request[r], p) /\ request[r].kind = "edit"
        BY <2>1, <2>2
    <2>4. /\ Noted(request[r], p).old = request[r].seen[p][request[r].field]
          /\ Noted(request[r], p).new = New(request[r], p)
        BY <2>3 DEF Noted
    <2>5. New(request[r], p) = Applied(request[r].seen[p][request[r].field], request[r].change)
        BY <2>3 DEF New
    <2> QED
        BY <2>1, <2>3, <2>4, <2>5
<1> QED
    BY <1>1, <1>2

\* A step of r that leaves the history alone keeps the rows of edits.
LEMMA EditsUntouched ==
    ASSUME EditsApply, UNCHANGED history,
           \A o \in Request : \/ Continued(request[o], request'[o])
                              \/ \A p \in Product : ~Recorded(o, p)
    PROVE  EditsApply'
BY DEF EditsApply, Recorded, Continued

\* A turn continues its request.
LEMMA TurnContinues ==
    ASSUME IInv, NEW r \in Request, NEW p \in Product, Turn(r, p)
    PROVE  \A o \in Request : Continued(request[o], request'[o])
<1> DEFINE q == Loaded(r, p)
           d == IF Differs(q, p) THEN {p} ELSE {}
           next == [q EXCEPT !.dirty = @ \cup d]
           n == IF Skips(q, p) THEN [q EXCEPT !.todo = @ \ {p}]
                ELSE IF Calls(q, p) THEN [next EXCEPT !.phase = "call", !.at = p]
                ELSE Concluded(next, p, "none")
<1>1. request' = [request EXCEPT ![r] = n] /\ TypeOK
    BY DEF Turn, IInv
<1>2. q \in State /\ Continued(request[r], q)
    BY <1>1, LoadedState DEF Continued
<1> HIDE DEF q, d
<1>3. Continued(q, n)
    BY <1>2 DEF State, Concluded, Continued
<1> HIDE DEF n
<1> QED
    BY <1>1, <1>2, <1>3 DEF TypeOK, Continued

\* So does the channel's answer.
LEMMA ConcludedContinues ==
    ASSUME NEW q \in State, NEW p \in Product, NEW status \in {"SYNCED", "STALE", "FAILED"}
    PROVE  Concluded(q, p, status) \in State /\ Continued(q, Concluded(q, p, status))
<1>1. status \in Marks
    BY DEF Marks, Sync
<1> QED
    BY <1>1, ConcludedState DEF Continued

\* Every step keeps the rows of edits.
LEMMA NextEditsApply == IInv /\ IInv' /\ EditsApply /\ [Next]_vars => EditsApply'
<1> SUFFICES ASSUME IInv, IInv', EditsApply, [Next]_vars PROVE EditsApply'
    OBVIOUS
<1>1. TypeOK
    BY DEF IInv
<1>2. ASSUME NEW r \in Request, Begin(r) PROVE EditsApply'
    <2>1. UNCHANGED history /\ request[r].phase = "idle"
        BY <1>2 DEF Begin, BeginEdit, BeginRevert, BeginUpdate, BeginResync, Started
    <2>2. \A o \in Request : o # r => request'[o] = request[o]
        BY <1>1, <1>2 DEF Begin, BeginEdit, BeginRevert, BeginUpdate, BeginResync, Started,
                          TypeOK
    <2>3. \A p \in Product : ~Recorded(r, p)
        BY <2>1 DEF IInv, InOrder, RowsInOrder
    <2> QED
        BY <2>1, <2>2, <2>3, EditsUntouched DEF Continued
<1>3. ASSUME NEW r \in Request, NEW n \in State, Moves(r, n), UNCHANGED history,
             Continued(request[r], n)
      PROVE  EditsApply'
    <2>1. request'[r] = n /\ \A o \in Request : o # r => request'[o] = request[o]
        BY <1>1, <1>3, Moved
    <2> QED
        BY <1>3, <2>1, EditsUntouched DEF Continued
<1>4. ASSUME NEW r \in Request, NEW p \in Product, Turn(r, p) PROVE EditsApply'
    <2>1. UNCHANGED history /\ TypeOK'
        BY <1>4 DEF Turn, IInv
    <2>2. \A o \in Request : Continued(request[o], request'[o])
        BY <1>4, TurnContinues
    <2> QED
        BY <2>1, <2>2, EditsUntouched
<1>5. ASSUME NEW r \in Request, Accepted(r) \/ NotFound(r) \/ Failed(r) \/ Refused(r)
      PROVE  EditsApply'
    <2> DEFINE c(status) == Concluded(request[r], request[r].at, status)
    <2>1. /\ UNCHANGED history
          /\ \E status \in {"SYNCED", "STALE", "FAILED"} :
                 \/ Moves(r, c(status))
                 \/ Moves(r, [c(status) EXCEPT !.off = TRUE])
        BY <1>5 DEF Accepted, NotFound, Failed, Refused, Answer, Moves
    <2>2. request[r].at \in Product /\ request[r] \in State
        BY <1>5 DEF Accepted, NotFound, Failed, Refused, Answer, IInv, InOrder, WorkInOrder,
                    TypeOK, State
    <2>3. ASSUME NEW status \in {"SYNCED", "STALE", "FAILED"}
          PROVE  c(status) \in State /\ Continued(request[r], c(status))
        BY <2>2, ConcludedContinues
    <2> HIDE DEF c
    <2>4. ASSUME NEW status \in {"SYNCED", "STALE", "FAILED"}
          PROVE  /\ [c(status) EXCEPT !.off = TRUE] \in State
                 /\ Continued(request[r], [c(status) EXCEPT !.off = TRUE])
        BY <2>3 DEF State, Continued
    <2> QED
        BY <2>1, <2>3, <2>4, <1>3
<1>6. ASSUME NEW r \in Request, NEW n \in State, Moves(r, n), Persisted(r), InFlight(r),
             Continued(request[r], n)
      PROVE  EditsApply'
    <2>1. InOrder(r) /\ request[r].phase # "idle"
        BY <1>6 DEF IInv, InFlight
    <2>2. /\ HistoryGrows(r)
          /\ \A p \in Product :
                 /\ p \in request[r].noted => history'[r][p] = Noted(request[r], p)
                 /\ Recorded(r, p)' => Recorded(r, p) \/ p \in request[r].noted
        BY <1>1, <1>6, <2>1, PersistedHistory
    <2>3. \A p \in Product : p \in request[r].noted => Notes(request[r])
        BY <2>1 DEF InOrder, WorkInOrder
    <2>4. request'[r] = n /\ \A o \in Request : o # r => request'[o] = request[o]
        BY <1>1, <1>6, Moved
    <2> QED
        BY <1>6, <2>2, <2>3, <2>4, EditsKept DEF Continued
<1>7. ASSUME NEW r \in Request, Commit(r) PROVE EditsApply'
    <2>1. request[r] \in State /\ InFlight(r) /\ Persisted(r)
        BY <1>1, <1>7 DEF Commit, InFlight, TypeOK
    <2>2. Moves(r, Closed(request[r], "done"))
        BY <1>7 DEF Commit, Moves
    <2>3. LET n == Closed(request[r], "done") IN
          n \in State /\ Continued(request[r], n)
        BY <2>1, ClosedState DEF Phase, Continued
    <2> QED
        BY <1>6, <2>1, <2>2, <2>3
<1>8. ASSUME NEW r \in Request, TokenSaved(r) PROVE EditsApply'
    <2>1. request[r] \in State /\ InFlight(r) /\ Persisted(r)
        BY <1>1, <1>8 DEF TokenSaved, InFlight, TypeOK
    <2>2. Moves(r, Written(request[r], "resend"))
        BY <1>8 DEF TokenSaved, Moves
    <2>3. LET n == Written(request[r], "resend") IN
          n \in State /\ Continued(request[r], n)
        BY <2>1, WrittenState DEF Phase, Continued
    <2> QED
        BY <1>6, <2>1, <2>2, <2>3
<1>9. ASSUME NEW r \in Request, Lose(r) PROVE EditsApply'
    <2>1. request[r] \in State /\ UNCHANGED history
        BY <1>1, <1>9 DEF Lose, TypeOK
    <2>2. Moves(r, Closed(request[r], "lost"))
        BY <1>9 DEF Lose, Moves
    <2>3. LET n == Closed(request[r], "lost") IN
          n \in State /\ Continued(request[r], n)
        BY <2>1, ClosedState DEF Phase, Continued
    <2> QED
        BY <1>3, <2>1, <2>2, <2>3
<1>10. CASE UNCHANGED <<history, request>>
    BY <1>10, EditsUntouched DEF Continued
<1>11. ASSUME NEW p \in Product, SoftDelete(p) \/ RemovedAtChannel(p)
       PROVE  UNCHANGED <<history, request>>
    BY <1>11 DEF SoftDelete, RemovedAtChannel
<1> QED
    BY <1>2, <1>4, <1>5, <1>7, <1>8, <1>9, <1>10, <1>11 DEF Next, Progress, vars

\* What a bulk edit writes is what its dialog showed, except for ties and empty costs.
THEOREM PreviewHolds == Spec => []PreviewOffAtTies
<1>1. Init => EditsApply
    BY Starting DEF Init, EditsApply, Recorded, NoRow
<1>2. IInv /\ EditsApply => PreviewOffAtTies
    <2> SUFFICES ASSUME IInv, EditsApply, NEW r \in Request, request[r].kind = "edit",
                        NEW p \in Product, Recorded(r, p), history[r][p].old # None
                 PROVE  LET h == history[r][p] c == request[r].change IN
                        \/ h.new = Previewed(h.old, c)
                        \/ /\ h.new = Previewed(h.old, c) - c.round_to
                           /\ 2 * Raw(h.old, c) = 100 * (h.new + Previewed(h.old, c))
        BY DEF PreviewOffAtTies, Rows, Recorded
    <2>1. history[r][p].old \in Nat
        BY DEF IInv, TypeOK, Row, Value
    <2>2. request[r].change \in Change
        BY DEF IInv, InOrder, KindIsKnown, RowsInOrder
    <2>3. history[r][p].new = Applied(history[r][p].old, request[r].change)
        BY DEF EditsApply
    <2> QED
        BY <2>1, <2>2, <2>3, PreviewApart
<1> QED
    BY Starting, NextIInv, NextEditsApply, <1>1, <1>2, PTL DEF Spec

-----------------------------------------------------------------------------
(* A request that nothing overlaps                                          *)

\* The session of r has reached p.
Reached(r, p) == p \in request[r].noted \cup {request[r].at} \/ Recorded(r, p)

\* What such a request has loaded is what is stored.
LoadedIsStored(r, q, p) ==
    /\ (q.kind # "revert" \/ Reached(r, p)) =>
           \A g \in Field : g # q.field => product[p][g] = q.seen[p][g]
    /\ (~Notes(q) \/ (q.kind = "edit" /\ p \in q.todo /\ p # q.at)) =>
           product[p][q.field] = q.seen[p][q.field]

\* What it has written, or found as it would write it, stays.
WrittenIsStored(r, q, p) ==
    Notes(q) /\ Reached(r, p) /\ p \notin q.dirty => product[p][q.field] = New(q, p)

\* What it has marked it has reached, and what it has marked SYNCED the channel shows.
MarkedIsShown(r, q, p) ==
    /\ q.marks[p] # "none" => p \notin q.todo /\ (Notes(q) => Reached(r, p))
    /\ q.marks[p] = "SYNCED" => shop[p] \in {None, Sent(q, p)}

AloneInOrder(r) ==
    InFlight(r) /\ Alone(r) =>
        \A p \in Product :
            /\ LoadedIsStored(r, request[r], p) /\ WrittenIsStored(r, request[r], p)
            /\ MarkedIsShown(r, request[r], p)

\* An undo works on the field of the batch it undoes.
UndosFollow ==
    \A r \in Request :
        LET b == request[r].target IN
        request[r].kind = "revert" => /\ request[b].phase # "idle"
                                      /\ request[r].field = request[b].field

AInv == UndosFollow /\ \A r \in Request : AloneInOrder(r)

\* Whoever moves while r is in flight overlaps it.
LEMMA OthersOverlap ==
    ASSUME IInv, NEW r \in Request, NEW o \in Request, r # o, request'[r] = request[r],
           crossed \subseteq crossed', InFlight(o) \/ (InFlight(r) => {o, r} \in crossed')
    PROVE  AloneInOrder(r)'
<1>1. {o, r} = {r, o}
    OBVIOUS
<1>2. InFlight(r) => {r, o} \in crossed'
    BY <1>1 DEF IInv, OverlapsAreNoted
<1> QED
    BY <1>2 DEF AloneInOrder, Alone, InFlight

\* The products a step of r does not work on keep what is said of them.
LEMMA RestAlone ==
    ASSUME IInv, NEW r \in Request, NEW n \in State, NEW p \in Product,
           request'[r] = n, UNCHANGED <<product, history>>, shop'[p] = shop[p],
           n.kind = request[r].kind, n.field = request[r].field,
           n.change = request[r].change, n.target = request[r].target,
           n.seen[p] = request[r].seen[p], n.marks[p] = request[r].marks[p],
           p \in n.todo <=> p \in request[r].todo,
           p \in n.noted <=> p \in request[r].noted,
           p \in n.dirty <=> p \in request[r].dirty,
           p # n.at, p # request[r].at,
           LoadedIsStored(r, request[r], p), WrittenIsStored(r, request[r], p),
           MarkedIsShown(r, request[r], p)
    PROVE  /\ LoadedIsStored(r, request[r], p)' /\ WrittenIsStored(r, request[r], p)'
           /\ MarkedIsShown(r, request[r], p)'
<1>1. Reached(r, p)' <=> Reached(r, p)
    BY DEF Reached, Recorded
<1>2. New(request[r], p)' = New(request[r], p) /\ Sent(request[r], p)' = Sent(request[r], p)
    BY DEF New, Sent
<1>3. Notes(n) <=> Notes(request[r])
    BY DEF Notes
<1>4. LoadedIsStored(r, request[r], p)'
    BY <1>1, <1>3 DEF LoadedIsStored, Notes
<1>5. WrittenIsStored(r, request[r], p)'
    BY <1>1, <1>2, <1>3 DEF WrittenIsStored, Notes
<1>6. MarkedIsShown(r, request[r], p)'
    BY <1>1, <1>2, <1>3 DEF MarkedIsShown, Notes
<1> QED
    BY <1>4, <1>5, <1>6

\* What a turn makes of a request.
LEMMA TurnRecord ==
    ASSUME IInv, NEW r \in Request, NEW p \in Product, Turn(r, p)
    PROVE  LET q == Loaded(r, p) b == request[r] n == request'[r] IN
           /\ n \in State /\ n.seen = q.seen /\ n.phase \in {"loop", "call"}
           /\ n.kind = b.kind /\ n.field = b.field /\ n.change = b.change
           /\ n.target = b.target /\ n.at \in {None, p} /\ (p \in n.todo => n.at = p)
           /\ n.marks[p] \in {"none", b.marks[p]}
           /\ Skips(q, p) => p \notin n.noted /\ n.at = None
           /\ ~Skips(q, p) /\ Differs(q, p) => p \in n.dirty
           /\ \A o \in Product : o # p =>
                 /\ n.seen[o] = b.seen[o] /\ n.marks[o] = b.marks[o]
                 /\ o \in n.todo <=> o \in b.todo
                 /\ o \in n.noted <=> o \in b.noted
                 /\ o \in n.dirty <=> o \in b.dirty
<1> DEFINE b == request[r]
           q == Loaded(r, p)
           d == IF Differs(q, p) THEN {p} ELSE {}
           dirty == q.dirty \cup d
           todo == q.todo \ {p}
           next == [q EXCEPT !.dirty = dirty]
           skip == [q EXCEPT !.todo = todo]
           call == [next EXCEPT !.phase = "call", !.at = p]
           over == Concluded(next, p, "none")
           n == IF Skips(q, p) THEN skip ELSE IF Calls(q, p) THEN call ELSE over
<1>1. /\ b.phase = "loop" /\ p \in b.todo /\ Moves(r, n) /\ b \in State /\ WorkInOrder(b)
      /\ TypeOK
    BY DEF Turn, Moves, IInv, InOrder, TypeOK
<1>2. /\ q \in State
      /\ q.phase = b.phase /\ q.kind = b.kind /\ q.field = b.field
      /\ q.change = b.change /\ q.push = b.push /\ q.target = b.target
      /\ q.todo = b.todo /\ q.at = b.at /\ q.dirty = b.dirty /\ q.noted = b.noted
      /\ \A o \in Product : o # p => q.seen[o] = b.seen[o]
      /\ q.marks = b.marks
    BY <1>1, LoadedState DEF Loaded, State
<1>3. b.at = None /\ p \notin b.noted
    BY <1>1 DEF WorkInOrder
<1> HIDE DEF q, b
<1>4. d \subseteq {p} /\ (Differs(q, p) => p \in d)
    OBVIOUS
<1> HIDE DEF d
<1>5. /\ dirty \subseteq Product /\ todo \subseteq Product
      /\ \A o \in Product : o # p => (o \in dirty <=> o \in b.dirty)
      /\ Differs(q, p) => p \in dirty
      /\ \A o \in Product : o \in todo <=> (o # p /\ o \in b.todo)
    BY <1>2, <1>4 DEF State
<1> HIDE DEF dirty, todo
<1>6. /\ next \in State
      /\ next.phase = b.phase /\ next.kind = b.kind /\ next.field = b.field
      /\ next.change = b.change /\ next.target = b.target /\ next.seen = q.seen
      /\ next.todo = b.todo /\ next.at = b.at /\ next.dirty = dirty
      /\ next.noted = b.noted /\ next.marks = b.marks
    BY <1>2, <1>5 DEF State
<1> HIDE DEF next
<1>7. CASE Skips(q, p)
    <2>1. n = skip
        BY <1>7
    <2> HIDE DEF n
    <2>2. /\ skip \in State /\ skip.phase = "loop" /\ skip.todo = todo
          /\ skip.kind = b.kind /\ skip.field = b.field /\ skip.change = b.change
          /\ skip.target = b.target /\ skip.seen = q.seen /\ skip.at = None
          /\ skip.noted = b.noted /\ skip.dirty = b.dirty /\ skip.marks = b.marks
        BY <1>1, <1>2, <1>3, <1>5 DEF State
    <2> HIDE DEF skip
    <2>3. request'[r] = skip
        BY <1>1, <2>1, <2>2, Moved
    <2> QED
        BY <1>2, <1>3, <1>5, <1>7, <2>2, <2>3 DEF b, q
<1>8. CASE ~Skips(q, p) /\ Calls(q, p)
    <2>1. n = call
        BY <1>8
    <2> HIDE DEF n
    <2>2. /\ call \in State /\ call.phase = "call" /\ call.todo = b.todo
          /\ call.kind = b.kind /\ call.field = b.field /\ call.change = b.change
          /\ call.target = b.target /\ call.seen = q.seen /\ call.at = p
          /\ call.noted = b.noted /\ call.dirty = dirty /\ call.marks = b.marks
        BY <1>6 DEF State, Phase
    <2> HIDE DEF call
    <2>3. request'[r] = call
        BY <1>1, <2>1, <2>2, Moved
    <2> QED
        BY <1>2, <1>3, <1>5, <1>8, <2>2, <2>3 DEF b, q
<1>9. CASE ~Skips(q, p) /\ ~Calls(q, p)
    <2>1. n = over
        BY <1>9
    <2> HIDE DEF n
    <2>2. "none" \in Marks
        BY DEF Marks
    <2>3. /\ over \in State /\ over.phase = "loop" /\ over.at = None
          /\ over.todo = next.todo \ {p}
          /\ over.noted = IF Notes(next) THEN next.noted \cup {p} ELSE next.noted
          /\ over.kind = next.kind /\ over.field = next.field /\ over.change = next.change
          /\ over.target = next.target /\ over.seen = next.seen /\ over.dirty = next.dirty
        <3>1. next \in State
            BY <1>6
        <3>2. over \in State /\ over.phase = "loop" /\ over.at = None
            BY <2>2, <3>1, ConcludedState
        <3>3. /\ over.todo = next.todo \ {p}
              /\ over.noted = IF Notes(next) THEN next.noted \cup {p} ELSE next.noted
            BY <2>2, <3>1, ConcludedState
        <3>4. /\ over.kind = next.kind /\ over.field = next.field
              /\ over.change = next.change /\ over.target = next.target
              /\ over.seen = next.seen /\ over.dirty = next.dirty
            BY <2>2, <3>1, ConcludedState
        <3> QED
            BY <3>2, <3>3, <3>4
    <2>5. \A o \in Product : over.marks[o] = IF o = p THEN "none" ELSE next.marks[o]
        BY <1>6, <2>2, ConcludedMarks
    <2> HIDE DEF over
    <2>4. request'[r] = over
        BY <1>1, <2>1, <2>3, Moved
    <2> QED
        BY <1>2, <1>3, <1>5, <1>6, <1>9, <2>3, <2>4, <2>5 DEF b, q
<1> QED
    BY <1>7, <1>8, <1>9

\* A turn of the loop.
LEMMA TurnsAlone ==
    ASSUME IInv, NEW r \in Request, AloneInOrder(r), NEW x \in Product, Turn(r, x)
    PROVE  AloneInOrder(r)'
<1> DEFINE b == request[r] q == Loaded(r, x) n == request'[r]
<1>1. /\ b.phase = "loop" /\ x \in b.todo /\ InFlight(r) /\ b \in State /\ TypeOK
      /\ UNCHANGED <<product, live, listing, active, shop, history, crossed, bare, writer>>
      /\ WorkInOrder(b) /\ RowsInOrder(r, b)
    BY DEF Turn, InFlight, IInv, InOrder, TypeOK
<1>2. b.at = None /\ x \notin b.noted
    BY <1>1 DEF WorkInOrder
<1>3. /\ n \in State /\ n.seen = q.seen /\ n.phase \in {"loop", "call"}
      /\ n.kind = b.kind /\ n.field = b.field /\ n.change = b.change
      /\ n.target = b.target /\ n.at \in {None, x} /\ (x \in n.todo => n.at = x)
      /\ n.marks[x] \in {"none", b.marks[x]}
      /\ Skips(q, x) => x \notin n.noted /\ n.at = None
      /\ ~Skips(q, x) /\ Differs(q, x) => x \in n.dirty
      /\ \A o \in Product : o # x =>
            /\ n.seen[o] = b.seen[o] /\ n.marks[o] = b.marks[o]
            /\ o \in n.todo <=> o \in b.todo
            /\ o \in n.noted <=> o \in b.noted
            /\ o \in n.dirty <=> o \in b.dirty
    BY TurnRecord
<1>4. q.kind = b.kind /\ q.field = b.field /\ q.change = b.change /\ q.target = b.target
    BY <1>1, LoadedState
<1>5. IF b.kind = "revert" THEN q.seen[x] = product[x] ELSE q = b
    BY <1>1 DEF Loaded, State
<1> SUFFICES ASSUME Alone(r), NEW p \in Product
             PROVE  /\ LoadedIsStored(r, request[r], p)' /\ WrittenIsStored(r, request[r], p)'
                    /\ MarkedIsShown(r, request[r], p)'
    BY <1>1 DEF AloneInOrder, Alone
<1>6. /\ LoadedIsStored(r, b, p) /\ WrittenIsStored(r, b, p) /\ MarkedIsShown(r, b, p)
    BY <1>1 DEF AloneInOrder
<1>7. CASE p # x
    <2>1. p # n.at /\ p # b.at
        BY <1>2, <1>3, <1>7, PricesAssumption
    <2> HIDE DEF n
    <2> QED
        BY <1>1, <1>3, <1>6, <1>7, <2>1, RestAlone DEF n
<1>8. CASE p = x
    <2>1. b.marks[x] = "none"
        BY <1>1, <1>6, <1>8 DEF MarkedIsShown
    <2>2. MarkedIsShown(r, request[r], p)'
        BY <1>3, <1>8, <2>1 DEF MarkedIsShown
    <2>3. /\ \A g \in Field : g # q.field => product[x][g] = q.seen[x][g]
          /\ b.kind # "resync" => product[x][q.field] = q.seen[x][q.field]
        <3>1. CASE b.kind = "revert"
            BY <1>1, <1>4, <1>5, <3>1 DEF TypeOK, State
        <3>2. CASE b.kind # "revert"
            BY <1>1, <1>2, <1>4, <1>5, <1>6, <1>8, <3>2, PricesAssumption
               DEF LoadedIsStored, Notes
        <3> QED
            BY <3>1, <3>2
    <2>4. LoadedIsStored(r, request[r], p)'
        <3>1. \A g \in Field : g # n.field => product'[x][g] = n.seen[x][g]
            BY <1>1, <1>3, <1>4, <2>3
        <3>2. ~Notes(n) => product'[x][n.field] = n.seen[x][n.field]
            BY <1>1, <1>3, <1>4, <1>5, <1>6, <1>8 DEF Notes, LoadedIsStored
        <3>3. ~(x \in n.todo /\ x # n.at)
            BY <1>3
        <3> QED
            BY <1>8, <3>1, <3>2, <3>3 DEF LoadedIsStored, Notes
    <2>5. WrittenIsStored(r, request[r], p)'
        <3> SUFFICES ASSUME Notes(n), Reached(r, x)', x \notin n.dirty
                     PROVE  product'[x][n.field] = New(request[r], x)'
            BY <1>8 DEF WrittenIsStored, Notes
        <3>1. ~Recorded(r, x)'
            <4>1. Notes(b)
                BY <1>3 DEF Notes
            <4> QED
                BY <1>1, <4>1 DEF RowsInOrder, MayRecord, Recorded
        <3>2. ~Skips(q, x)
            BY <1>3, <3>1, PricesAssumption DEF Reached
        <3>3. ~Differs(q, x)
            BY <1>3, <3>2
        <3>4. product[x][q.field] = New(q, x)
            BY <1>3, <2>3, <3>3 DEF Differs, Notes
        <3>5. New(request[r], x)' = New(q, x)
            BY <1>1, <1>3, <1>4 DEF New
        <3> QED
            BY <1>1, <1>3, <1>4, <3>4, <3>5
    <2> QED
        BY <2>2, <2>4, <2>5
<1> QED
    BY <1>7, <1>8

\* A product concluded with a status.
LEMMA AnswerAlone ==
    ASSUME IInv, NEW r \in Request, AloneInOrder(r), InFlight(r),
           NEW status \in Sync, NEW x \in Product, x = request[r].at,
           NEW n \in State, request'[r] = n,
           n.at = None, n.todo = request[r].todo \ {x},
           n.noted = IF Notes(request[r]) THEN request[r].noted \cup {x}
                     ELSE request[r].noted,
           n.kind = request[r].kind, n.field = request[r].field,
           n.change = request[r].change, n.target = request[r].target,
           n.seen = request[r].seen, n.dirty = request[r].dirty,
           \A o \in Product : n.marks[o] = IF o = x THEN status ELSE request[r].marks[o],
           product' = product, history' = history, crossed' = crossed,
           \A p \in Product : p # x => shop'[p] = shop[p],
           status = "SYNCED" => shop'[x] = Sent(request[r], x)
    PROVE  AloneInOrder(r)'
<1> DEFINE b == request[r]
<1> SUFFICES ASSUME Alone(r), NEW p \in Product
             PROVE  /\ LoadedIsStored(r, request[r], p)' /\ WrittenIsStored(r, request[r], p)'
                    /\ MarkedIsShown(r, request[r], p)'
    BY DEF AloneInOrder, Alone
<1>1. /\ LoadedIsStored(r, b, p) /\ WrittenIsStored(r, b, p) /\ MarkedIsShown(r, b, p)
    BY DEF AloneInOrder
<1>2. CASE p # x
    <2>1. p # n.at /\ p # b.at
        BY <1>2, PricesAssumption
    <2>2. /\ p \in n.todo <=> p \in b.todo
          /\ p \in n.noted <=> p \in b.noted
          /\ n.marks[p] = b.marks[p] /\ shop'[p] = shop[p]
        BY <1>2
    <2> QED
        BY <1>1, <2>1, <2>2, RestAlone
<1>3. CASE p = x
    <2>1. Reached(r, p) /\ (Notes(n) <=> Notes(b))
        BY <1>3 DEF Reached, Notes
    <2>2. Notes(b) => Reached(r, p)'
        BY <1>3 DEF Reached
    <2>3. New(request[r], p)' = New(b, p)
        BY DEF New
    <2>4. Sent(request[r], p)' = Sent(b, p)
        BY <2>3 DEF Sent
    <2>5. LoadedIsStored(r, request[r], p)'
        BY <1>1, <1>3, <2>1 DEF LoadedIsStored, Notes
    <2>6. WrittenIsStored(r, request[r], p)'
        BY <1>1, <1>3, <2>1, <2>3 DEF WrittenIsStored, Notes
    <2>7. MarkedIsShown(r, request[r], p)'
        <3>1. p \notin n.todo /\ n.marks[p] = status
            BY <1>3
        <3>2. status = "SYNCED" => shop'[p] = Sent(b, p)
            BY <1>3
        <3> QED
            BY <2>1, <2>2, <2>4, <3>1, <3>2 DEF MarkedIsShown, Notes
    <2> QED
        BY <2>5, <2>6, <2>7
<1> QED
    BY <1>2, <1>3

\* The channel's answer.
LEMMA ConcludesAlone ==
    ASSUME IInv, NEW r \in Request, AloneInOrder(r), NEW status \in Sync, NEW off \in BOOLEAN,
           request[r].phase \in {"call", "resend"},
           request' = [request EXCEPT ![r] =
               IF off THEN [Concluded(request[r], request[r].at, status) EXCEPT !.off = TRUE]
               ELSE Concluded(request[r], request[r].at, status)],
           UNCHANGED <<product, live, holder, listing, active, history, crossed, bare, writer>>,
           \A p \in Product : p # request[r].at => shop'[p] = shop[p],
           status = "SYNCED" => shop'[request[r].at] = Sent(request[r], request[r].at)
    PROVE  AloneInOrder(r)'
<1> DEFINE b == request[r] x == b.at c == Concluded(b, x, status)
           n == IF off THEN [c EXCEPT !.off = TRUE] ELSE c
<1>1. b \in State /\ WorkInOrder(b) /\ InFlight(r) /\ TypeOK
    BY DEF IInv, TypeOK, InOrder, InFlight
<1>2. x \in Product /\ status \in Marks /\ x \notin b.noted
    BY <1>1 DEF WorkInOrder, State, Marks
<1>3. Moves(r, n) /\ b.at = x
    BY DEF Moves
<1>4. status = "SYNCED" => shop'[x] = Sent(b, x)
    OBVIOUS
<1> HIDE DEF b, x
<1>5. c \in State /\ c.phase = "loop" /\ c.at = None
    BY <1>1, <1>2, ConcludedState
<1>6. /\ c.todo = b.todo \ {x}
      /\ c.noted = IF Notes(b) THEN b.noted \cup {x} ELSE b.noted
    BY <1>1, <1>2, ConcludedState
<1>7. /\ c.kind = b.kind /\ c.field = b.field /\ c.change = b.change
      /\ c.target = b.target /\ c.seen = b.seen /\ c.dirty = b.dirty
    <2>1. c.kind = b.kind /\ c.field = b.field /\ c.change = b.change
        BY <1>1, <1>2, ConcludedState
    <2>2. c.target = b.target /\ c.seen = b.seen /\ c.dirty = b.dirty
        BY <1>1, <1>2, ConcludedState
    <2> QED
        BY <2>1, <2>2
<1>8. \A o \in Product : c.marks[o] = IF o = x THEN status ELSE b.marks[o]
    BY <1>1, <1>2, ConcludedMarks
<1> HIDE DEF c
<1>9. /\ n \in State /\ n.phase = "loop" /\ n.at = None /\ n.todo = b.todo \ {x}
      /\ n.noted = IF Notes(b) THEN b.noted \cup {x} ELSE b.noted
      /\ n.kind = b.kind /\ n.field = b.field /\ n.change = b.change
      /\ n.target = b.target /\ n.seen = b.seen /\ n.dirty = b.dirty
      /\ \A o \in Product : n.marks[o] = IF o = x THEN status ELSE b.marks[o]
    BY <1>5, <1>6, <1>7, <1>8 DEF State
<1> HIDE DEF n
<1>10. request'[r] = n
    BY <1>1, <1>3, <1>9, Moved
<1>11. \A p \in Product : p # x => shop'[p] = shop[p]
    BY DEF b, x
<1> QED
    BY <1>1, <1>2, <1>3, <1>4, <1>9, <1>10, <1>11, AnswerAlone DEF b

\* The commit of a refreshed token.
LEMMA TokenSavesAlone ==
    ASSUME IInv, NEW r \in Request, AloneInOrder(r), TokenSaved(r)
    PROVE  AloneInOrder(r)'
<1> DEFINE b == request[r] n == Written(b, "resend")
<1>1. /\ b \in State /\ WorkInOrder(b) /\ RowsInOrder(r, b) /\ KindIsKnown(r, b)
      /\ InFlight(r) /\ InOrder(r) /\ b.phase # "idle" /\ Persisted(r) /\ TypeOK
      /\ UNCHANGED <<live, shop, crossed>> /\ Moves(r, n)
    BY DEF IInv, TypeOK, InOrder, InFlight, TokenSaved, Moves
<1>2. /\ n \in State /\ n.dirty = {} /\ n.noted = {}
      /\ n.at = b.at /\ n.todo = b.todo /\ n.seen = b.seen /\ n.kind = b.kind
      /\ n.field = b.field /\ n.change = b.change /\ n.target = b.target
      /\ \A o \in Product : n.marks[o] = "none"
    BY <1>1, WrittenState DEF Phase
<1> HIDE DEF n
<1>3. request'[r] = n
    BY <1>1, <1>2, Moved
<1>4. \A p \in Product, f \in Field :
          product'[p][f] = IF p \in b.dirty /\ f = b.field THEN New(b, p) ELSE product[p][f]
    BY <1>1, PersistedColumns
<1>5. /\ HistoryGrows(r)
      /\ \A p \in Product : /\ p \in b.noted => Recorded(r, p)'
                            /\ Recorded(r, p)' => Recorded(r, p) \/ p \in b.noted
    BY <1>1, PersistedHistory
<1> SUFFICES ASSUME Alone(r), NEW p \in Product
             PROVE  /\ LoadedIsStored(r, request[r], p)' /\ WrittenIsStored(r, request[r], p)'
                    /\ MarkedIsShown(r, request[r], p)'
    BY <1>1 DEF AloneInOrder, Alone
<1>6. /\ LoadedIsStored(r, b, p) /\ WrittenIsStored(r, b, p)
    BY <1>1 DEF AloneInOrder
<1>7. b.field \in Field
    BY <1>1 DEF State
<1>8. Reached(r, p)' <=> Reached(r, p)
    <2>1. Recorded(r, p) => Recorded(r, p)'
        BY <1>5 DEF HistoryGrows
    <2> QED
        BY <1>2, <1>3, <1>5, <2>1 DEF Reached
<1>9. MarkedIsShown(r, request[r], p)'
    BY <1>2, <1>3 DEF MarkedIsShown
<1>10. LoadedIsStored(r, request[r], p)'
    <2>1. ~Notes(b) => p \notin b.dirty
        BY <1>1 DEF WorkInOrder
    <2>2. p \in b.todo /\ p # b.at => p \notin b.dirty
        BY <1>1 DEF WorkInOrder
    <2> QED
        BY <1>2, <1>3, <1>4, <1>6, <1>7, <1>8, <2>1, <2>2 DEF LoadedIsStored, Notes
<1>11. WrittenIsStored(r, request[r], p)'
    <2> SUFFICES ASSUME Notes(b), Reached(r, p)
                 PROVE  product'[p][b.field] = New(request[r], p)'
        BY <1>2, <1>3, <1>8 DEF WrittenIsStored, Notes
    <2>1. product'[p][b.field] = New(b, p)
        BY <1>4, <1>6, <1>7 DEF WrittenIsStored
    <2>2. b.kind = "revert" => b.target \in Request /\ Recorded(b.target, p)
        BY <1>1 DEF KindIsKnown, RowsInOrder, Reached, MayRecord, Recorded
    <2>3. b.kind = "revert" => history'[b.target][p].old = history[b.target][p].old
        BY <1>5, <2>2 DEF HistoryGrows
    <2>4. New(request[r], p)' = New(b, p)
        BY <1>2, <1>3, <2>3 DEF New
    <2> QED
        BY <2>1, <2>4
<1> QED
    BY <1>9, <1>10, <1>11

\* A request that starts.
LEMMA BegunAlone ==
    ASSUME IInv, NEW r \in Request, NEW q \in State, Started(r, q), UNCHANGED history,
           q.noted = {}, \A p \in Product : q.marks[p] = "none",
           Notes(q) => q.at = None, q.kind # "revert" => product' = q.seen
    PROVE  AloneInOrder(r)'
<1>1. request[r].phase = "idle" /\ Moves(r, q)
    BY DEF Started, Moves
<1>2. request'[r] = q
    BY <1>1, Moved DEF IInv
<1>3. \A p \in Product : ~Recorded(r, p)'
    BY <1>1 DEF IInv, InOrder, RowsInOrder, Recorded
<1> SUFFICES ASSUME NEW p \in Product
             PROVE  /\ LoadedIsStored(r, request[r], p)' /\ WrittenIsStored(r, request[r], p)'
                    /\ MarkedIsShown(r, request[r], p)'
    BY DEF AloneInOrder
<1>4. Notes(q) => ~Reached(r, p)'
    BY <1>2, <1>3, PricesAssumption DEF Reached
<1>5. Notes(q) <=> q.kind \in {"edit", "revert"}
    BY DEF Notes
<1>6. LoadedIsStored(r, request[r], p)'
    BY <1>2, <1>4, <1>5 DEF LoadedIsStored, Notes
<1>7. WrittenIsStored(r, request[r], p)'
    BY <1>2, <1>4 DEF WrittenIsStored, Notes
<1>8. MarkedIsShown(r, request[r], p)'
    BY <1>2 DEF MarkedIsShown
<1> QED
    BY <1>6, <1>7, <1>8

\* What every step of a request in flight makes of it.
LEMMA StepsContinue ==
    ASSUME IInv, NEW r \in Request, Progress(r) \/ TokenSaved(r) \/ Lose(r)
    PROVE  /\ InFlight(r) /\ crossed' = crossed
           /\ Continued(request[r], request'[r]) /\ request'[r].phase # "idle"
           /\ \A o \in Request : o # r => request'[o] = request[o]
           /\ request'[r].phase = "done" => Commit(r)
<1>1. TypeOK /\ request[r] \in State /\ WorkInOrder(request[r])
    BY DEF IInv, TypeOK, InOrder
<1>2. ASSUME NEW n \in State, Moves(r, n)
      PROVE  request'[r] = n /\ \A o \in Request : o # r => request'[o] = request[o]
    BY <1>1, <1>2, Moved
<1>3. ASSUME NEW p \in Product, Turn(r, p)
      PROVE  /\ Continued(request[r], request'[r]) /\ request'[r].phase \in {"loop", "call"}
             /\ \A o \in Request : o # r => request'[o] = request[o]
             /\ InFlight(r) /\ crossed' = crossed
    <2>1. Continued(request[r], request'[r])
        BY <1>3, TurnContinues
    <2>2. request'[r].phase \in {"loop", "call"}
        BY <1>3, TurnRecord
    <2> QED
        BY <1>1, <1>3, <2>1, <2>2 DEF Turn, TypeOK, InFlight
<1>4. CASE Accepted(r) \/ NotFound(r) \/ Failed(r) \/ Refused(r)
    <2> DEFINE c(status) == Concluded(request[r], request[r].at, status)
    <2>1. /\ crossed' = crossed /\ InFlight(r)
          /\ \E status \in {"SYNCED", "STALE", "FAILED"} :
                 \/ Moves(r, c(status))
                 \/ Moves(r, [c(status) EXCEPT !.off = TRUE])
        BY <1>4 DEF Accepted, NotFound, Failed, Refused, Answer, Moves, InFlight
    <2>2. request[r].at \in Product
        BY <1>1, <1>4 DEF Accepted, NotFound, Failed, Refused, Answer, WorkInOrder, State
    <2>3. ASSUME NEW status \in {"SYNCED", "STALE", "FAILED"}
          PROVE  /\ c(status) \in State /\ Continued(request[r], c(status))
                 /\ c(status).phase = "loop"
        <3>1. status \in Marks
            BY DEF Marks, Sync
        <3>2. c(status).phase = "loop"
            BY <1>1, <2>2, <3>1, ConcludedState
        <3> QED
            BY <1>1, <2>2, <3>2, ConcludedContinues
    <2> HIDE DEF c
    <2>4. ASSUME NEW status \in {"SYNCED", "STALE", "FAILED"}
          PROVE  /\ [c(status) EXCEPT !.off = TRUE] \in State
                 /\ Continued(request[r], [c(status) EXCEPT !.off = TRUE])
                 /\ [c(status) EXCEPT !.off = TRUE].phase = "loop"
        BY <2>3 DEF State, Continued
    <2>5. PICK n \in State : Moves(r, n) /\ Continued(request[r], n) /\ n.phase = "loop"
        BY <2>1, <2>3, <2>4
    <2>6. request'[r] = n /\ \A o \in Request : o # r => request'[o] = request[o]
        BY <1>2, <2>5
    <2> QED
        BY <2>1, <2>5, <2>6
<1>5. CASE Commit(r)
    <2>1. LET n == Closed(request[r], "done") IN
          n \in State /\ Continued(request[r], n) /\ n.phase = "done"
        BY <1>1, ClosedState DEF Phase, Continued
    <2>2. Moves(r, Closed(request[r], "done")) /\ crossed' = crossed /\ InFlight(r)
        BY <1>5 DEF Commit, Moves, InFlight
    <2> QED
        BY <1>2, <1>5, <2>1, <2>2
<1>6. CASE TokenSaved(r)
    <2>1. LET n == Written(request[r], "resend") IN
          n \in State /\ Continued(request[r], n) /\ n.phase = "resend"
        BY <1>1, WrittenState DEF Phase, Continued
    <2>2. Moves(r, Written(request[r], "resend")) /\ crossed' = crossed /\ InFlight(r)
        BY <1>6 DEF TokenSaved, Moves, InFlight
    <2> QED
        BY <1>2, <2>1, <2>2
<1>7. CASE Lose(r)
    <2>1. LET n == Closed(request[r], "lost") IN
          n \in State /\ Continued(request[r], n) /\ n.phase = "lost"
        BY <1>1, ClosedState DEF Phase, Continued
    <2>2. Moves(r, Closed(request[r], "lost")) /\ crossed' = crossed /\ InFlight(r)
        BY <1>7 DEF Lose, Moves
    <2> QED
        BY <1>2, <2>1, <2>2
<1> QED
    BY <1>3, <1>4, <1>5, <1>6, <1>7 DEF Progress

\* A step of a request in flight keeps those alone in order, and the undos.
LEMMA StepsAlone ==
    ASSUME IInv, AInv, NEW r \in Request, Progress(r) \/ TokenSaved(r) \/ Lose(r)
    PROVE  AInv'
<1>1. /\ InFlight(r) /\ crossed' = crossed
      /\ Continued(request[r], request'[r]) /\ request'[r].phase # "idle"
      /\ \A o \in Request : o # r => request'[o] = request[o]
    BY StepsContinue
<1>2. UndosFollow'
    <2> SUFFICES ASSUME NEW o \in Request, request'[o].kind = "revert"
                 PROVE  /\ request'[request'[o].target].phase # "idle"
                        /\ request'[o].field = request'[request'[o].target].field
        BY DEF UndosFollow
    <2>1. /\ request[o].kind = "revert" /\ request'[o].field = request[o].field
          /\ request'[o].target = request[o].target
        BY <1>1 DEF Continued
    <2>2. request[o].target \in Request
        BY <2>1 DEF IInv, InOrder, KindIsKnown
    <2>3. /\ request[request[o].target].phase # "idle"
          /\ request[o].field = request[request[o].target].field
        BY <2>1 DEF AInv, UndosFollow
    <2> QED
        BY <1>1, <2>1, <2>2, <2>3 DEF Continued
<1>3. AloneInOrder(r)'
    <2>1. AloneInOrder(r)
        BY DEF AInv
    <2>2. ASSUME NEW p \in Product, Turn(r, p) PROVE AloneInOrder(r)'
        BY <2>1, <2>2, TurnsAlone
    <2>3. CASE Accepted(r)
        <3>1. \A p \in Product : p # request[r].at => shop'[p] = shop[p]
            BY <2>3 DEF Accepted, IInv, TypeOK
        <3>2. request[r].phase \in {"call", "resend"}
            BY <2>3 DEF Accepted, Answer
        <3>3. request[r].at \in Product
            BY <3>2 DEF IInv, InOrder, WorkInOrder, TypeOK, State
        <3>4. shop'[request[r].at] = Sent(request[r], request[r].at)
            BY <2>3, <3>3 DEF Accepted, IInv, TypeOK
        <3>5. /\ request' = [request EXCEPT ![r] =
                     Concluded(request[r], request[r].at, "SYNCED")]
              /\ UNCHANGED <<product, live, holder, listing, active, history, crossed, bare,
                             writer>>
            BY <2>3 DEF Accepted, Answer
        <3> QED
            BY <2>1, <3>1, <3>2, <3>4, <3>5, ConcludesAlone DEF Sync
    <2>4. CASE NotFound(r)
        <3>1. /\ request' = [request EXCEPT ![r] =
                     Concluded(request[r], request[r].at, "STALE")]
              /\ UNCHANGED <<product, live, holder, listing, active, history, crossed, bare,
                             writer>>
              /\ shop' = shop /\ request[r].phase \in {"call", "resend"}
            BY <2>4 DEF NotFound, Answer
        <3> QED
            BY <2>1, <3>1, ConcludesAlone DEF Sync
    <2>5. CASE Failed(r)
        <3>1. \A p \in Product : p # request[r].at => shop'[p] = shop[p]
            BY <2>5 DEF Failed, IInv, TypeOK
        <3>2. /\ request' = [request EXCEPT ![r] =
                     Concluded(request[r], request[r].at, "FAILED")]
              /\ UNCHANGED <<product, live, holder, listing, active, history, crossed, bare,
                             writer>>
              /\ request[r].phase \in {"call", "resend"}
            BY <2>5 DEF Failed, Answer
        <3> QED
            BY <2>1, <3>1, <3>2, ConcludesAlone DEF Sync
    <2>6. CASE Refused(r)
        <3>1. /\ request' = [request EXCEPT ![r] =
                     [Concluded(request[r], request[r].at, "FAILED") EXCEPT !.off = TRUE]]
              /\ UNCHANGED <<product, live, holder, listing, active, history, crossed, bare,
                             writer>>
              /\ shop' = shop /\ request[r].phase \in {"call", "resend"}
            BY <2>6 DEF Refused
        <3> QED
            BY <2>1, <3>1, ConcludesAlone DEF Sync
    <2>7. CASE TokenSaved(r)
        BY <2>1, <2>7, TokenSavesAlone
    <2>8. CASE Commit(r) \/ Lose(r)
        <3>1. request[r] \in State /\ TypeOK
            BY DEF IInv, TypeOK
        <3>2. \E phase \in {"done", "lost"} : Moves(r, Closed(request[r], phase))
            BY <2>8 DEF Commit, Lose, Moves
        <3>3. ASSUME NEW phase \in {"done", "lost"}
              PROVE  LET n == Closed(request[r], phase) IN n \in State /\ n.phase = phase
            BY <3>1, ClosedState DEF Phase
        <3>4. request'[r].phase \in {"done", "lost"}
            BY <3>1, <3>2, <3>3, Moved
        <3> QED
            BY <3>4 DEF AloneInOrder, InFlight
    <2> QED
        BY <2>2, <2>3, <2>4, <2>5, <2>6, <2>7, <2>8 DEF Progress
<1>4. \A o \in Request : AloneInOrder(o)'
    <2> SUFFICES ASSUME NEW o \in Request, o # r
                 PROVE  AloneInOrder(o)'
        BY <1>3
    <2> QED
        BY <1>1, OthersOverlap
<1> QED
    BY <1>2, <1>4 DEF AInv

\* So does the start of a request.
LEMMA BeginsAlone ==
    ASSUME IInv, AInv, NEW r \in Request, NEW q \in State, Started(r, q), UNCHANGED history,
           q.noted = {}, \A p \in Product : q.marks[p] = "none", q.phase # "idle",
           Notes(q) => q.at = None, q.kind # "revert" => product' = q.seen,
           q.kind = "revert" => /\ q.target \in Request /\ request[q.target].phase # "idle"
                                /\ q.field = request[q.target].field
    PROVE  AInv'
<1>1. request[r].phase = "idle" /\ Moves(r, q)
    BY DEF Started, Moves
<1>2. request'[r] = q /\ \A o \in Request : o # r => request'[o] = request[o]
    BY <1>1, Moved DEF IInv
<1>3. AloneInOrder(r)'
    BY BegunAlone
<1>4. \A o \in Request : AloneInOrder(o)'
    <2> SUFFICES ASSUME NEW o \in Request, o # r
                 PROVE  AloneInOrder(o)'
        BY <1>3
    <2>1. crossed \subseteq crossed' /\ (InFlight(o) => {r, o} \in crossed')
        BY DEF Started
    <2> QED
        BY <1>2, <2>1, OthersOverlap
<1>5. UndosFollow'
    <2> SUFFICES ASSUME NEW o \in Request, request'[o].kind = "revert"
                 PROVE  /\ request'[request'[o].target].phase # "idle"
                        /\ request'[o].field = request'[request'[o].target].field
        BY DEF UndosFollow
    <2>1. CASE o = r
        BY <1>1, <1>2, <2>1
    <2>2. CASE o # r
        <3>1. request[o].target \in Request /\ request[o].kind = "revert"
            BY <1>2, <2>2 DEF IInv, InOrder, KindIsKnown
        <3>2. /\ request[request[o].target].phase # "idle"
              /\ request[o].field = request[request[o].target].field
            BY <3>1 DEF AInv, UndosFollow
        <3> QED
            BY <1>1, <1>2, <2>2, <3>1, <3>2
    <2> QED
        BY <2>1, <2>2
<1> QED
    BY <1>4, <1>5 DEF AInv

\* The four kinds of request.
LEMMA BeginsAreAlone ==
    ASSUME IInv, AInv, NEW r \in Request, Begin(r)
    PROVE  AInv'
<1>1. product \in [Product -> Columns] /\ TypeOK
    BY DEF IInv, TypeOK
<1>2. \A p \in Product : Idle.marks[p] = "none"
    BY DEF Idle
<1>3. ASSUME NEW c \in Change, NEW selected \in SUBSET Product, BeginEdit(r, c, selected)
      PROVE  AInv'
    <2> DEFINE q == [Idle EXCEPT !.phase = "loop", !.field = c.field, !.change = c,
                                 !.push = c.push, !.todo = selected \cap live,
                                 !.seen = product]
    <2>1. c.field \in Field /\ c.push \in BOOLEAN /\ selected \cap live \subseteq Product
        BY PricesAssumption
    <2>2. q \in State
        BY <1>1, <2>1, IdleState DEF State, Phase
    <2>3. /\ q.phase = "loop" /\ q.kind = "edit" /\ q.at = None /\ q.noted = {}
          /\ q.seen = product /\ q.marks = Idle.marks
        BY DEF Idle
    <2>4. Started(r, q) /\ UNCHANGED history /\ product' = product
        BY <1>3 DEF BeginEdit
    <2> HIDE DEF q
    <2> QED
        BY <1>2, <2>2, <2>3, <2>4, BeginsAlone
<1>4. ASSUME NEW b \in Request, BeginRevert(r, b)
      PROVE  AInv'
    <2> DEFINE q == [Idle EXCEPT !.kind = "revert", !.phase = "loop",
                                 !.field = request[b].field, !.push = TRUE,
                                 !.target = b, !.todo = Unreverted(b)]
    <2>1. request[b].field \in Field /\ Unreverted(b) \subseteq Product
        BY <1>1 DEF TypeOK, State, Unreverted
    <2>2. q \in State
        BY <2>1, IdleState DEF State, Phase, Kind
    <2>3. /\ q.phase = "loop" /\ q.kind = "revert" /\ q.at = None /\ q.noted = {}
          /\ q.target = b /\ q.field = request[b].field /\ q.marks = Idle.marks
        BY DEF Idle
    <2>4. Started(r, q) /\ UNCHANGED history /\ Unreverted(b) # {}
        BY <1>4 DEF BeginRevert
    <2>5. request[b].phase # "idle"
        BY <2>4 DEF Unreverted, IInv, InOrder, RowsInOrder, Recorded
    <2> HIDE DEF q
    <2> QED
        BY <1>2, <2>2, <2>3, <2>4, <2>5, BeginsAlone
<1>5. ASSUME NEW p \in Product, NEW f \in Field, NEW v \in NewPrice, BeginUpdate(r, p, f, v)
      PROVE  AInv'
    <2> DEFINE col == [product[p] EXCEPT ![f] = v]
               row == [product EXCEPT ![p] = col]
               q == [Idle EXCEPT !.kind = "update", !.phase = "loop", !.field = f,
                                 !.push = TRUE, !.todo = {p}, !.seen = row]
    <2>1. v \in Nat
        BY PricesAssumption
    <2>2. col \in Columns
        BY <1>1, <2>1 DEF Columns, Field, Value
    <2>3. Started(r, q) /\ product' = row /\ UNCHANGED history
        BY <1>5 DEF BeginUpdate
    <2> HIDE DEF col
    <2>4. row \in [Product -> Columns]
        BY <1>1, <2>2
    <2> HIDE DEF row
    <2>5. q \in State
        BY <2>4, IdleState DEF State, Phase, Kind
    <2>6. /\ q.phase = "loop" /\ q.kind = "update" /\ q.at = None /\ q.noted = {}
          /\ q.seen = row /\ q.marks = Idle.marks
        BY DEF Idle
    <2> HIDE DEF q
    <2> QED
        BY <1>2, <2>3, <2>5, <2>6, BeginsAlone
<1>6. ASSUME NEW p \in Product, BeginResync(r, p)
      PROVE  AInv'
    <2> DEFINE q == [Idle EXCEPT !.kind = "resync", !.phase = "call", !.push = TRUE,
                                 !.at = p, !.seen = product]
    <2>1. q \in State
        BY <1>1, IdleState DEF State, Phase, Kind
    <2>2. /\ q.phase = "call" /\ q.kind = "resync" /\ q.noted = {}
          /\ q.seen = product /\ q.marks = Idle.marks
        BY DEF Idle
    <2>3. Started(r, q) /\ UNCHANGED history /\ product' = product
        BY <1>6 DEF BeginResync
    <2>4. ~Notes(q)
        BY <2>2 DEF Notes
    <2> HIDE DEF q
    <2> QED
        BY <1>2, <2>1, <2>2, <2>3, <2>4, BeginsAlone
<1> QED
    BY <1>3, <1>4, <1>5, <1>6 DEF Begin

\* What is removed at the channel is gone there, which no mark denies.
LEMMA GoneAlone ==
    ASSUME IInv, AInv, UNCHANGED <<product, history, request, crossed>>,
           \A p \in Product : shop'[p] \in {shop[p], None}
    PROVE  AInv'
<1>1. UndosFollow'
    BY DEF AInv, UndosFollow
<1>2. ASSUME NEW r \in Request
      PROVE  AloneInOrder(r)'
    <2> SUFFICES ASSUME InFlight(r), Alone(r), NEW p \in Product
                 PROVE  /\ LoadedIsStored(r, request[r], p)'
                        /\ WrittenIsStored(r, request[r], p)'
                        /\ MarkedIsShown(r, request[r], p)'
        BY DEF AloneInOrder, InFlight, Alone
    <2>1. /\ LoadedIsStored(r, request[r], p) /\ WrittenIsStored(r, request[r], p)
          /\ MarkedIsShown(r, request[r], p)
        BY DEF AInv, AloneInOrder
    <2>2. New(request[r], p)' = New(request[r], p) /\ (Reached(r, p)' <=> Reached(r, p))
        BY DEF New, Reached, Recorded
    <2>3. Sent(request[r], p)' = Sent(request[r], p)
        BY <2>2 DEF Sent
    <2>4. LoadedIsStored(r, request[r], p)'
        BY <2>1, <2>2 DEF LoadedIsStored, Notes
    <2>5. WrittenIsStored(r, request[r], p)'
        BY <2>1, <2>2 DEF WrittenIsStored, Notes
    <2>6. MarkedIsShown(r, request[r], p)'
        BY <2>1, <2>2, <2>3 DEF MarkedIsShown, Notes
    <2> QED
        BY <2>4, <2>5, <2>6
<1> QED
    BY <1>1, <1>2 DEF AInv

\* Every step keeps those alone in order.
LEMMA NextAInv == IInv /\ AInv /\ [Next]_vars => AInv'
<1> SUFFICES ASSUME IInv, AInv, [Next]_vars PROVE AInv'
    OBVIOUS
<1>1. ASSUME NEW r \in Request, Begin(r) PROVE AInv'
    BY <1>1, BeginsAreAlone
<1>2. ASSUME NEW r \in Request, Progress(r) \/ TokenSaved(r) \/ Lose(r) PROVE AInv'
    BY <1>2, StepsAlone
<1>3. ASSUME NEW p \in Product, SoftDelete(p) \/ RemovedAtChannel(p) PROVE AInv'
    <2>1. \A o \in Product : shop'[o] \in {shop[o], None}
        BY <1>3 DEF SoftDelete, RemovedAtChannel, IInv, TypeOK
    <2>2. UNCHANGED <<product, history, request, crossed>>
        BY <1>3 DEF SoftDelete, RemovedAtChannel
    <2> QED
        BY <2>1, <2>2, GoneAlone
<1>4. ASSUME UNCHANGED vars PROVE AInv'
    BY <1>4, GoneAlone DEF vars
<1> QED
    BY <1>1, <1>2, <1>3, <1>4 DEF Next

\* Nothing is in flight at the start.
LEMMA StartingAlone == Init => AInv /\ EditsApply
<1> SUFFICES ASSUME Init PROVE AInv /\ EditsApply
    OBVIOUS
<1>1. \A r \in Request : request[r].phase = "idle" /\ request[r].kind = "edit"
    BY DEF Init, Idle
<1>2. \A r \in Request, p \in Product : ~Recorded(r, p)
    BY DEF Init, Recorded, NoRow
<1> QED
    BY <1>1, <1>2 DEF AInv, UndosFollow, AloneInOrder, InFlight, EditsApply

\* A request is done by its commit.
LEMMA EndsAreCommits ==
    ASSUME IInv, [Next]_vars, NEW r \in Request, Ends(r)
    PROVE  Commit(r)
<1>1. request[r].phase = "loop" /\ request'[r].phase = "done" /\ TypeOK
    BY DEF Ends, IInv
<1>2. ASSUME NEW o \in Request, Begin(o) PROVE FALSE
    <2>1. /\ request[o].phase = "idle"
          /\ \A x \in Request : x # o => request'[x] = request[x]
        BY <1>1, <1>2 DEF Begin, BeginEdit, BeginRevert, BeginUpdate, BeginResync, Started,
                          TypeOK
    <2> QED
        BY <1>1, <2>1
<1>3. ASSUME NEW o \in Request, Progress(o) \/ TokenSaved(o) \/ Lose(o) PROVE Commit(r)
    <2>1. /\ \A x \in Request : x # o => request'[x] = request[x]
          /\ request'[o].phase = "done" => Commit(o)
        BY <1>3, StepsContinue
    <2> QED
        BY <1>1, <2>1
<1>4. ASSUME NEW p \in Product, SoftDelete(p) \/ RemovedAtChannel(p) PROVE FALSE
    BY <1>1, <1>4 DEF SoftDelete, RemovedAtChannel
<1>5. ASSUME UNCHANGED vars PROVE FALSE
    BY <1>1, <1>5 DEF vars
<1> QED
    BY <1>2, <1>3, <1>4, <1>5 DEF Next

\* What a request alone has stored when it ends.
LEMMA EndsAlone ==
    ASSUME IInv, AInv, NEW r \in Request, Commit(r), Alone(r), NEW p \in Product
    PROVE  /\ Notes(request[r]) /\ (Reached(r, p) \/ Recorded(r, p)') =>
                  product'[p][request[r].field] = New(request[r], p)
           /\ request[r].marks[p] = "SYNCED" =>
                  shop[p] \in {None, product'[p].price}
<1> DEFINE b == request[r]
<1>1. /\ b \in State /\ WorkInOrder(b) /\ InFlight(r) /\ InOrder(r) /\ b.phase # "idle"
      /\ Persisted(r) /\ TypeOK
    BY DEF IInv, TypeOK, InOrder, InFlight, Commit
<1>2. \A f \in Field :
          product'[p][f] = IF p \in b.dirty /\ f = b.field THEN New(b, p) ELSE product[p][f]
    BY <1>1, PersistedColumns
<1>3. Recorded(r, p)' => Recorded(r, p) \/ p \in b.noted
    BY <1>1, PersistedHistory
<1>4. LoadedIsStored(r, b, p) /\ WrittenIsStored(r, b, p) /\ MarkedIsShown(r, b, p)
    BY <1>1 DEF AInv, AloneInOrder
<1>5. b.field \in Field /\ "price" \in Field
    BY <1>1 DEF State, Field
<1>6. Recorded(r, p)' => Reached(r, p)
    BY <1>3 DEF Reached
<1>7. Notes(b) /\ Reached(r, p) => product'[p][b.field] = New(b, p)
    BY <1>2, <1>4, <1>5 DEF WrittenIsStored
<1>8. ASSUME b.marks[p] = "SYNCED"
      PROVE  Sent(b, p) = product'[p].price
    <2>1. Notes(b) => Reached(r, p)
        BY <1>4, <1>8 DEF MarkedIsShown
    <2>2. CASE b.field = "price"
        <3>1. CASE Notes(b)
            BY <1>7, <2>1, <2>2, <3>1 DEF Sent
        <3>2. CASE ~Notes(b)
            <4>1. p \notin b.dirty /\ New(b, p) = b.seen[p][b.field]
                BY <1>1, <3>2 DEF WorkInOrder, New, Notes
            <4> QED
                BY <1>2, <1>4, <1>5, <2>2, <3>2, <4>1 DEF LoadedIsStored, Sent
        <3> QED
            BY <3>1, <3>2
    <2>3. CASE b.field # "price"
        <3>1. b.kind # "revert" \/ Reached(r, p)
            BY <2>1 DEF Notes
        <3> QED
            BY <1>2, <1>4, <1>5, <2>3, <3>1 DEF LoadedIsStored, Sent
    <2> QED
        BY <2>2, <2>3
<1> QED
    BY <1>4, <1>6, <1>7, <1>8 DEF MarkedIsShown

\* An undo alone gives back what the edit found.
LEMMA UndoGivesBack ==
    ASSUME IInv, AInv, EditsApply, NEW r \in Request, Commit(r), Alone(r),
           request[r].kind = "revert", request[request[r].target].kind = "edit",
           NEW p \in Product, Recorded(r, p)'
    PROVE  LET b == request[r].target f == request[b].field IN
           product'[p][f] = request[b].seen[p][f] \/ request[b].seen[p][f] = None
<1> DEFINE q == request[r] b == q.target f == request[b].field
<1>1. b \in Request /\ q.field = f /\ Notes(q)
    BY DEF IInv, InOrder, KindIsKnown, AInv, UndosFollow, Notes
<1>2. product'[p][q.field] = New(q, p)
    BY <1>1, EndsAlone
<1>3. Recorded(b, p)
    <2>1. InOrder(r) /\ q.phase # "idle" /\ Persisted(r) /\ TypeOK
        BY DEF IInv, Commit
    <2>2. Recorded(r, p) \/ p \in q.noted
        BY <2>1, PersistedHistory
    <2> QED
        BY <2>1, <2>2 DEF InOrder, RowsInOrder, MayRecord, Recorded
<1>4. history[b][p].old = request[b].seen[p][f]
    BY <1>1, <1>3 DEF EditsApply
<1>5. New(q, p) = IF history[b][p].old = None THEN q.seen[p][q.field]
                  ELSE history[b][p].old
    BY DEF New
<1> HIDE DEF q, b, f
<1>6. product'[p][f] = request[b].seen[p][f] \/ request[b].seen[p][f] = None
    BY <1>1, <1>2, <1>4, <1>5
<1> QED
    BY <1>6 DEF q, b, f

\* An undo that nothing overlapped restores what the edit it undoes had found.
THEOREM UndoRestoresAll == Spec => UndoRestores
<1>1. ASSUME IInv, AInv, EditsApply, [Next]_vars
      PROVE  [\A r \in Request :
                LET b == request[r].target IN
                (Ends(r) /\ request[r].kind = "revert" /\ Alone(r)
                   /\ request[b].kind = "edit" /\ Alone(b)) =>
                \A p \in Product :
                   LET f == request[b].field IN
                   history'[r][p].state # "none" =>
                       \/ product'[p][f] = request[b].seen[p][f]
                       \/ request[b].seen[p][f] = None]_vars
    <2> SUFFICES ASSUME NEW r \in Request, Ends(r), request[r].kind = "revert", Alone(r),
                        request[request[r].target].kind = "edit",
                        NEW p \in Product, history'[r][p].state # "none"
                 PROVE  LET b == request[r].target f == request[b].field IN
                        product'[p][f] = request[b].seen[p][f] \/ request[b].seen[p][f] = None
        OBVIOUS
    <2>1. Commit(r)
        BY <1>1, EndsAreCommits
    <2>2. Recorded(r, p)'
        BY DEF Recorded
    <2> QED
        BY <1>1, <2>1, <2>2, UndoGivesBack
<1> QED
    BY <1>1, Starting, StartingAlone, NextIInv, NextAInv, NextEditsApply, PTL
       DEF Spec, UndoRestores

\* SYNCED is said of a listing only if the channel shows the committed price.
THEOREM StatusIsHonest == Spec => StatusHonest
<1>1. ASSUME IInv, AInv, [Next]_vars
      PROVE  [\A r \in Request : (Ends(r) /\ Alone(r)) =>
                \A p \in Product :
                   (request[r].marks[p] # "none" /\ listing'[p] = "SYNCED") =>
                       shop[p] \in {None, product'[p].price}]_vars
    <2> SUFFICES ASSUME NEW r \in Request, Ends(r), Alone(r), NEW p \in Product,
                        request[r].marks[p] # "none", listing'[p] = "SYNCED"
                 PROVE  shop[p] \in {None, product'[p].price}
        OBVIOUS
    <2>1. Commit(r)
        BY <1>1, EndsAreCommits
    <2>2. listing'[p] = IF request[r].marks[p] # "none" /\ listing[p] # "none"
                        THEN request[r].marks[p] ELSE listing[p]
        BY <2>1 DEF Commit, Persisted
    <2>3. request[r].marks[p] = "SYNCED"
        BY <2>2
    <2> QED
        BY <1>1, <2>1, <2>3, EndsAlone
<1> QED
    BY <1>1, Starting, StartingAlone, NextIInv, NextAInv, PTL DEF Spec, StatusHonest

=============================================================================
