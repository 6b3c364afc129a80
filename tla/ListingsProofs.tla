---------------------------- MODULE ListingsProofs ----------------------------
(***************************************************************************)
(* Proofs about products and their listings: for any number of items,      *)
(* products, imports and publications.                                     *)
(***************************************************************************)
EXTENDS Listings, FiniteSetTheorems, TLAPS

\* Session s is about to list item x, or has listed it and not committed.
Hand(s, x) ==
    \/ \E a \in session[s].added : a.ext = x
    \/ session[s].phase = "list" /\ session[s].ext = x

\* A live product, and one a listing may point to.
Live(p) == product[p] # None /\ product[p].live
Kept(p) == product[p] # None /\ (product[p].live \/ p \in doomed)

\* Session s has created product p and not committed it.
New(s, p) == session[s].made[p] # None /\ product[p] = None

\* What a request knows: the names it fetched, the product it created.
SessionInOrder(s) ==
    LET q == session[s] IN
    /\ \A x \in q.todo : q.seen[x] \in Name /\ shop[x] # None
    /\ \A x \in Item : Hand(s, x) => shop[x] # None
    /\ q.phase # "page" => q.added = {}
    /\ q.phase \in {"publish", "list"} => q.pid # None
    /\ q.pid # None => Kept(q.pid)

\* Uncommitted listings point to products, and uncommitted rows belong to them.
LinksInOrder(s) ==
    LET q == session[s] IN
    /\ \A a \in q.added : Kept(a.pid) \/ New(s, a.pid)
    /\ \A p \in Pid : q.made[p] # None =>
           /\ q.made[p].live
           /\ product[p] # None => q.made[p].sku = product[p].sku
           /\ \E a \in q.added : a.pid = p /\ (product[p] = None => a.ext = q.made[p].sku)

\* Two sessions have uncommitted rows of one product only if it is committed.
Apart ==
    \A s, o \in Session, p \in Pid :
        session[s].made[p] # None /\ session[o].made[p] # None /\ s # o => product[p] # None

\* What was never at the channel is not listed.
Untouched(x) == shop[x] = None => \A p \in Pid : listing[p][x] \notin Match

\* An item nobody raced for: one session has it or one product, not both.
OneHand(x) == x \notin raced =>
    /\ \A s, o \in Session : Hand(s, x) /\ Hand(o, x) => s = o
    /\ \A s \in Session : \A a, b \in session[s].added :
           a.ext = x /\ b.ext = x => a.pid = b.pid
    /\ \A s \in Session, p \in Pid : Hand(s, x) => listing[p][x] \notin Match
    /\ \A p, o \in Pid : listing[p][x] \in Match /\ listing[o][x] \in Match => p = o

\* And one product has its code.
OneCode(x) == x \notin raced =>
    /\ \A p, o \in Pid :
           Live(p) /\ Live(o) /\ product[p].sku = x /\ product[o].sku = x => p = o
    /\ \A s \in Session, p, o \in Pid :
           New(s, p) /\ session[s].made[p].sku = x /\ Live(o) => product[o].sku # x

IInv ==
    /\ TypeOK
    /\ \A s \in Session : SessionInOrder(s)
    /\ \A s \in Session : LinksInOrder(s)
    /\ Apart
    /\ ListingsHaveProducts
    /\ \A x \in Item : Untouched(x)
    /\ \A x \in Item : OneHand(x)
    /\ \A x \in Item : OneCode(x)

-----------------------------------------------------------------------------
(* The steps of an import                                                  *)

\* The item is left as it is.
Skips(i, x) == session' = [session EXCEPT ![i] = [session[i] EXCEPT !.todo = @ \ {x}]]

\* The item is linked to p, whose uncommitted row becomes r.
Links(i, x, p, r, m) ==
    /\ session' = [session EXCEPT ![i] = Linking(session[i], p, x, r, m)]
    /\ Linked(i, x) = {}
    /\ \/ /\ p \in Alive(i)
          /\ r = [Rows(i)[p] EXCEPT !.name = session[i].seen[x]]
       \/ p \in Alive(i) /\ r = session[i].made[p]
       \/ /\ p \in Unused /\ BySku(i, x) = {}
          /\ r = [sku |-> x, name |-> session[i].seen[x], live |-> TRUE]

\* A new product is one that nobody has used.
LEMMA FreshIsUnused == ASSUME Unused # {} PROVE Fresh \in Unused /\ Fresh \in Pid
BY DEF Fresh, Unused

\* An item that is handled is skipped or linked.
LEMMA SkipsOrLinks ==
    ASSUME NEW i \in Importer, NEW x \in Item, Handle(i, x)
    PROVE  Skips(i, x) \/ \E p \in Pid, m \in Match : \E r : Links(i, x, p, r, m)
<1> DEFINE q == session[i]
           rows == Rows(i)
           top == Top(q.seen[x], rows, Alive(i))
           match(p) == classify_match_status(Likeness[q.seen[x]][rows[p].name])
           Sibling(p) == /\ BySku(i, x) = {p} /\ ~Inserting(i, p, x) /\ listing[p][x] = "none"
                         /\ session' = [session EXCEPT ![i] =
                               Linking(q, p, x, [rows[p] EXCEPT !.name = q.seen[x]], "CONFIRMED")]
           Alike(p) == /\ p \in top /\ match(p) \in Match
                       /\ session' = [session EXCEPT ![i] =
                             Linking(q, p, x, q.made[p], match(p))]
           Nothing == /\ BySku(i, x) = {} /\ Unused # {}
                      /\ session' = [session EXCEPT ![i] =
                            Linking(q, Fresh, x, [sku |-> x, name |-> q.seen[x], live |-> TRUE],
                                    "CONFIRMED")]
<1>1. \/ Skips(i, x)
      \/ /\ Linked(i, x) = {}
         /\ (\E p \in Pid : Sibling(p)) \/ (\E p \in top : Alike(p)) \/ Nothing
    BY DEF Handle, Skips
<1>2. "CONFIRMED" \in Match
    BY DEF Match
<1>3. ASSUME Linked(i, x) = {}, NEW p \in Pid, Sibling(p)
      PROVE  p \in Alive(i) /\ Links(i, x, p, [rows[p] EXCEPT !.name = q.seen[x]], "CONFIRMED")
    <2>1. p \in Alive(i)
        BY <1>3 DEF BySku
    <2> QED
        BY <1>3, <2>1 DEF Links
<1>4. ASSUME Linked(i, x) = {}, NEW p \in top, Alike(p)
      PROVE  p \in Pid /\ match(p) \in Match /\ Links(i, x, p, q.made[p], match(p))
    <2>1. p \in Alive(i) /\ p \in Pid
        BY <1>4 DEF Top, Alive
    <2> QED
        BY <1>4, <2>1 DEF Links
<1>5. ASSUME Linked(i, x) = {}, Nothing
      PROVE  Fresh \in Pid /\ Links(i, x, Fresh, [sku |-> x, name |-> q.seen[x], live |-> TRUE],
                                    "CONFIRMED")
    BY <1>5, FreshIsUnused DEF Links
<1> HIDE DEF Sibling, Alike, Nothing, top, match
<1> QED
    BY <1>1, <1>2, <1>3, <1>4, <1>5

\* What a session reads is a row or nothing.
LEMMA RowsRead ==
    ASSUME TypeOK, NEW s \in Session
    PROVE  /\ session[s] \in State
           /\ \A p \in Pid : Rows(s)[p] = IF session[s].made[p] # None
                                         THEN session[s].made[p] ELSE product[p]
           /\ Alive(s) \subseteq Pid
           /\ \A p \in Alive(s) : Rows(s)[p] \in Row /\ Rows(s)[p].live
BY NoneIsNoRow DEF TypeOK, State, Rows, Alive

\* The state of a session after it left an item, and after it linked one.
LEMMA SkippedState ==
    ASSUME NEW q \in State, NEW x \in Item
    PROVE  LET n == [q EXCEPT !.todo = @ \ {x}] IN
           /\ n \in State /\ n.phase = q.phase /\ n.todo = q.todo \ {x} /\ n.seen = q.seen
           /\ n.added = q.added /\ n.made = q.made /\ n.pid = q.pid /\ n.ext = q.ext
BY DEF State

LEMMA LinkedState ==
    ASSUME NEW q \in State, NEW x \in Item, NEW p \in Pid, NEW r \in Row \cup {None},
           NEW m \in Match
    PROVE  LET n == Linking(q, p, x, r, m) IN
           /\ n \in State /\ n.phase = q.phase /\ n.todo = q.todo \ {x} /\ n.seen = q.seen
           /\ n.added = q.added \cup {[pid |-> p, ext |-> x, match |-> m]}
           /\ n.made = [q.made EXCEPT ![p] = r] /\ n.pid = q.pid /\ n.ext = q.ext
<1> DEFINE new == [pid |-> p, ext |-> x, match |-> m]
           todo == q.todo \ {x}
           made == [q.made EXCEPT ![p] = r]
           added == q.added \cup {new}
           n == [q EXCEPT !.todo = todo, !.made = made, !.added = added]
<1>1. Linking(q, p, x, r, m) = n
    BY DEF State, Linking
<1>2. new \in Added
    BY DEF Added, External
<1>3. todo \in SUBSET Item /\ made \in [Pid -> Row \cup {None}] /\ added \in SUBSET Added
    BY <1>2 DEF State
<1> HIDE DEF todo, made, added
<1>4. /\ n \in State /\ n.phase = q.phase /\ n.todo = todo /\ n.seen = q.seen
      /\ n.added = added /\ n.made = made /\ n.pid = q.pid /\ n.ext = q.ext
    BY <1>3 DEF State
<1> QED
    BY <1>1, <1>4 DEF todo, made, added

-----------------------------------------------------------------------------
(* The invariant is kept, one action after the other                       *)

\* The initial state.
LEMMA Starting == Init => IInv
<1> SUFFICES ASSUME Init PROVE IInv
    OBVIOUS
<1>1. Idle \in State /\ Idle.added = {} /\ Idle.todo = {} /\ Idle.phase = "idle"
      /\ Idle.pid = None /\ \A p \in Pid : Idle.made[p] = None
    BY DEF Idle, State, External
<1>2. TypeOK
    <2>1. shop \in [Item -> Name \cup {None, Gone}]
        BY ListingsAssumption DEF Init
    <2>2. listing \in [Pid -> [External -> Standing]]
        BY DEF Init, Standing
    <2>3. product \in [Pid -> Row \cup {None}] /\ session \in [Session -> State]
          /\ raced \subseteq Item /\ doomed \subseteq Pid
        BY <1>1 DEF Init
    <2> QED
        BY <2>1, <2>2, <2>3 DEF TypeOK
<1>3. \A s \in Session : session[s] = Idle
    BY DEF Init
<1>4. \A s \in Session : SessionInOrder(s) /\ LinksInOrder(s) /\ \A x \in Item : ~Hand(s, x)
    BY <1>1, <1>3 DEF SessionInOrder, LinksInOrder, Hand
<1>5. Apart
    BY <1>1, <1>3 DEF Apart
<1>6. \A p \in Pid : product[p] = None /\ \A x \in External : listing[p][x] \notin Match
    BY DEF Init, Match
<1>7. ListingsHaveProducts
    BY <1>6 DEF ListingsHaveProducts
<1>8. \A x \in Item : Untouched(x)
    BY <1>6 DEF Untouched, External
<1>9. \A x \in Item : OneHand(x)
    BY <1>1, <1>3, <1>4, <1>6 DEF OneHand, External
<1>10. \A x \in Item : OneCode(x)
    BY <1>1, <1>3, <1>6 DEF OneCode, Live
<1> QED
    BY <1>2, <1>4, <1>5, <1>7, <1>8, <1>9, <1>10 DEF IInv

\* A session that forgets what it has done disturbs nothing.
LEMMA ForgettingKeeps ==
    ASSUME IInv, NEW s \in Session, NEW n \in State,
           session' = [session EXCEPT ![s] = n],
           n.added = {}, n.made = [p \in Pid |-> None], n.phase \in {"idle", "page"},
           n.pid = None, \A x \in n.todo : n.seen[x] \in Name /\ shop[x] # None,
           UNCHANGED <<shop, product, listing, raced, doomed>>
    PROVE  IInv'
<1>1. TypeOK'
    BY DEF IInv, TypeOK
<1>2. session'[s] = n /\ \A t \in Session : t # s => session'[t] = session[t]
    BY DEF IInv, TypeOK
<1>3. /\ \A x \in Item : ~Hand(s, x)'
      /\ \A t \in Session, x \in Item : t # s => (Hand(t, x)' <=> Hand(t, x))
    BY <1>2 DEF Hand
<1>4. /\ \A p \in Pid : ~New(s, p)'
      /\ \A t \in Session, p \in Pid : t # s => (New(t, p)' <=> New(t, p))
      /\ \A p : (Kept(p)' <=> Kept(p)) /\ (Live(p)' <=> Live(p))
    BY <1>2 DEF New, Kept, Live
<1>5. ASSUME NEW t \in Session PROVE SessionInOrder(t)'
    <2>1. CASE t = s
        BY <1>2, <1>3, <2>1 DEF SessionInOrder
    <2>2. CASE t # s
        <3>1. SessionInOrder(t)
            BY DEF IInv
        <3> QED
            BY <1>2, <1>3, <1>4, <2>2, <3>1 DEF SessionInOrder
    <2> QED
        BY <2>1, <2>2
<1>6. ASSUME NEW t \in Session PROVE LinksInOrder(t)'
    <2>1. CASE t = s
        BY <1>2, <2>1 DEF LinksInOrder
    <2>2. CASE t # s
        <3>1. LinksInOrder(t)
            BY DEF IInv
        <3>2. session[t].added \subseteq Added
            BY DEF IInv, TypeOK, State
        <3> QED
            BY <1>2, <1>4, <2>2, <3>1, <3>2 DEF LinksInOrder, Added
    <2> QED
        BY <2>1, <2>2
<1>7. Apart'
    <2>1. Apart
        BY DEF IInv
    <2> QED
        BY <1>2, <2>1 DEF Apart
<1>8. ListingsHaveProducts' /\ \A x \in Item : Untouched(x)'
    BY DEF IInv, ListingsHaveProducts, Untouched
<1>9. ASSUME NEW x \in Item PROVE OneHand(x)'
    <2>1. OneHand(x)
        BY DEF IInv
    <2> QED
        BY <1>2, <1>3, <2>1 DEF OneHand
<1>10. ASSUME NEW x \in Item PROVE OneCode(x)'
    <2>1. OneCode(x)
        BY DEF IInv
    <2> QED
        BY <1>2, <1>4, <2>1 DEF OneCode
<1> QED
    BY <1>1, <1>5, <1>6, <1>7, <1>8, <1>9, <1>10 DEF IInv

\* A page is fetched.
LEMMA FetchKeeps ==
    ASSUME IInv, NEW i \in Importer, NEW page \in SUBSET Item, Fetch(i, page)
    PROVE  IInv'
<1> DEFINE seen == [x \in Item |-> IF x \in page THEN shop[x] ELSE None]
           n == [Idle EXCEPT !.phase = "page", !.todo = page, !.seen = seen]
<1>1. seen \in [Item -> Name \cup {None, Gone}] /\ \A x \in page : seen[x] = shop[x]
    BY DEF IInv, TypeOK
<1>2. \A x \in page : shop[x] \in Name /\ shop[x] # None
    BY ListingsAssumption DEF Fetch
<1>3. session' = [session EXCEPT ![i] = n] /\ UNCHANGED <<shop, product, listing, raced, doomed>>
    BY DEF Fetch
<1> HIDE DEF seen
<1>4. /\ n \in State /\ n.phase = "page" /\ n.todo = page /\ n.seen = seen /\ n.added = {}
      /\ n.pid = None
    BY <1>1 DEF State, Idle, External
<1>5. n.made = [p \in Pid |-> None]
    BY DEF Idle
<1> HIDE DEF n
<1> QED
    BY <1>1, <1>2, <1>3, <1>4, <1>5, ForgettingKeeps DEF Session

\* A request is lost with its transaction.
LEMMA CrashKeeps == ASSUME IInv, NEW s \in Session, Crash(s) PROVE IInv'
<1>1. Idle \in State /\ Idle.added = {} /\ Idle.todo = {} /\ Idle.phase = "idle" /\ Idle.pid = None
    BY DEF Idle, State, External
<1>2. Idle.made = [p \in Pid |-> None]
    BY DEF Idle
<1>3. session' = [session EXCEPT ![s] = Idle] /\ UNCHANGED <<shop, product, listing, raced, doomed>>
    BY DEF Crash
<1> QED
    BY <1>1, <1>2, <1>3, ForgettingKeeps

\* An item is left as it is.
LEMMA SkippingKeeps ==
    ASSUME IInv, NEW i \in Importer, NEW x \in Item, Handle(i, x), Skips(i, x)
    PROVE  IInv'
<1> DEFINE n == [session[i] EXCEPT !.todo = @ \ {x}]
<1>1. session[i] \in State /\ i \in Session
    BY DEF IInv, TypeOK, Session
<1>2. /\ n \in State /\ n.phase = session[i].phase /\ n.todo = session[i].todo \ {x}
      /\ n.seen = session[i].seen /\ n.added = session[i].added
      /\ n.made = session[i].made /\ n.pid = session[i].pid /\ n.ext = session[i].ext
    BY <1>1, SkippedState
<1>3. session' = [session EXCEPT ![i] = n]
    BY DEF Skips
<1> HIDE DEF n
<1>4. /\ raced \subseteq raced' /\ raced' \subseteq Item
      /\ UNCHANGED <<shop, product, listing, doomed>>
    BY DEF Handle, IInv, TypeOK
<1>5. TypeOK'
    BY <1>2, <1>3, <1>4 DEF IInv, TypeOK
<1>6. \A t \in Session :
         /\ session'[t].phase = session[t].phase /\ session'[t].todo \subseteq session[t].todo
         /\ session'[t].seen = session[t].seen /\ session'[t].added = session[t].added
         /\ session'[t].made = session[t].made /\ session'[t].pid = session[t].pid
         /\ session'[t].ext = session[t].ext
    BY <1>2, <1>3 DEF IInv, TypeOK
<1>7. /\ \A t \in Session, y \in Item : Hand(t, y)' <=> Hand(t, y)
      /\ \A t \in Session, p \in Pid : New(t, p)' <=> New(t, p)
      /\ \A p : (Kept(p)' <=> Kept(p)) /\ (Live(p)' <=> Live(p))
    BY <1>4, <1>6 DEF Hand, New, Kept, Live
<1>8. ASSUME NEW t \in Session PROVE SessionInOrder(t)'
    <2>1. SessionInOrder(t)
        BY DEF IInv
    <2> QED
        BY <1>4, <1>6, <1>7, <2>1 DEF SessionInOrder
<1>9. ASSUME NEW t \in Session PROVE LinksInOrder(t)'
    <2>1. LinksInOrder(t) /\ session[t].added \subseteq Added
        BY DEF IInv, TypeOK, State
    <2> QED
        BY <1>4, <1>6, <1>7, <2>1 DEF LinksInOrder, Added
<1>10. Apart'
    BY <1>4, <1>6 DEF IInv, Apart
<1>11. ListingsHaveProducts' /\ \A y \in Item : Untouched(y)'
    BY <1>4 DEF IInv, ListingsHaveProducts, Untouched
<1>12. ASSUME NEW y \in Item PROVE OneHand(y)'
    <2>1. OneHand(y)
        BY DEF IInv
    <2> QED
        BY <1>4, <1>6, <1>7, <2>1 DEF OneHand
<1>13. ASSUME NEW y \in Item PROVE OneCode(y)'
    <2>1. OneCode(y)
        BY DEF IInv
    <2> QED
        BY <1>4, <1>6, <1>7, <2>1 DEF OneCode
<1> QED
    BY <1>5, <1>8, <1>9, <1>10, <1>11, <1>12, <1>13 DEF IInv

\* An item is linked to a product.
LEMMA LinkingKeeps ==
    ASSUME IInv, NEW i \in Importer, NEW x \in Item, Handle(i, x),
           NEW p \in Pid, NEW m \in Match, NEW r, Links(i, x, p, r, m)
    PROVE  IInv'
<1> DEFINE q == session[i]
           n == Linking(q, p, x, r, m)
           new == [pid |-> p, ext |-> x, match |-> m]
<1>1. i \in Session /\ q \in State
    BY DEF IInv, TypeOK, Session
<1>2. /\ SessionInOrder(i) /\ LinksInOrder(i) /\ OneHand(x) /\ OneCode(x)
    BY <1>1 DEF IInv
<1>3. q.phase = "page" /\ x \in q.todo /\ q.seen[x] \in Name /\ shop[x] # None
    BY <1>2 DEF Handle, SessionInOrder
<1>4. /\ Alive(i) \subseteq Pid
      /\ \A o \in Alive(i) : Rows(i)[o] \in Row /\ Rows(i)[o].live
      /\ \A o \in Pid : Rows(i)[o] = IF q.made[o] # None THEN q.made[o] ELSE product[o]
    BY <1>1, RowsRead DEF IInv
<1>5. r \in Row \cup {None}
    <2>1. CASE p \in Alive(i) /\ r = [Rows(i)[p] EXCEPT !.name = q.seen[x]]
        BY <1>3, <1>4, <2>1 DEF Row
    <2>2. CASE r = q.made[p]
        BY <1>1, <2>2 DEF State
    <2>3. CASE r = [sku |-> x, name |-> q.seen[x], live |-> TRUE]
        BY <1>3, <2>3 DEF Row
    <2> QED
        BY <2>1, <2>2, <2>3 DEF Links
<1>6. /\ n \in State /\ n.phase = q.phase /\ n.todo = q.todo \ {x} /\ n.seen = q.seen
      /\ n.added = q.added \cup {new} /\ n.made = [q.made EXCEPT ![p] = r]
      /\ n.pid = q.pid /\ n.ext = q.ext
    BY <1>1, <1>5, LinkedState
<1>7. session' = [session EXCEPT ![i] = n]
    BY DEF Links
<1> HIDE DEF n
<1>8. session'[i] = n /\ \A t \in Session : t # i => session'[t] = session[t]
    BY <1>1, <1>7 DEF IInv, TypeOK
<1>9. /\ \A o \in Pid : n.made[o] = IF o = p THEN r ELSE q.made[o]
    BY <1>1, <1>6 DEF State
<1>10. /\ raced' = (IF \E o \in Session : o # i /\ Hand(o, x) THEN raced \cup {x} ELSE raced)
       /\ UNCHANGED <<shop, product, listing, doomed>>
    BY DEF Handle, InOtherHands, Hand
<1>11. TypeOK'
    BY <1>6, <1>7, <1>10 DEF IInv, TypeOK
<1>12. /\ \A y \in Item : y # x => (Hand(i, y)' <=> Hand(i, y))
       /\ \A t \in Session, y \in Item : t # i => (Hand(t, y)' <=> Hand(t, y))
       /\ Hand(i, x)'
    <2>1. new \in n.added /\ new.ext = x /\ q.added \subseteq n.added
        BY <1>6
    <2>2. \A a \in n.added : a \in q.added \/ a.ext = x
        BY <1>6
    <2> QED
        BY <1>6, <1>8, <2>1, <2>2 DEF Hand
<1>13. /\ \A t \in Session, o \in Pid : t # i => (New(t, o)' <=> New(t, o))
       /\ \A o \in Pid : o # p => (New(i, o)' <=> New(i, o))
       /\ New(i, p)' <=> (r # None /\ product[p] = None)
       /\ \A o : (Kept(o)' <=> Kept(o)) /\ (Live(o)' <=> Live(o))
    BY <1>8, <1>9, <1>10 DEF New, Kept, Live
\* What is known of the product and its uncommitted row.
<1>14. /\ r = None => product[p] # None
       /\ product[p] # None => Kept(p)
       /\ r # None =>
             /\ r.live
             /\ product[p] # None => r.sku = product[p].sku
             /\ \/ q.made[p] # None /\ r.sku = q.made[p].sku
                \/ product[p] # None
                \/ BySku(i, x) = {} /\ p \in Unused /\ r.sku = x
    <2>1. CASE p \in Alive(i) /\ r = [Rows(i)[p] EXCEPT !.name = q.seen[x]]
        <3>1. r.sku = Rows(i)[p].sku /\ r.live = Rows(i)[p].live
            BY <1>4, <2>1 DEF Row
        <3>2. product[p] # None => Kept(p)
            <4>1. CASE q.made[p] # None
                BY <1>2, <4>1 DEF LinksInOrder, New, Added
            <4>2. CASE q.made[p] = None
                BY <1>4, <2>1, <4>2 DEF Kept
            <4> QED
                BY <4>1, <4>2
        <3>3. r # None
            <4>1. Rows(i)[p] \in Row
                BY <1>4, <2>1
            <4>2. [Rows(i)[p] EXCEPT !.name = q.seen[x]] \in Row
                BY <1>3, <4>1 DEF Row
            <4> QED
                BY <2>1, <4>2, NoneIsNoRow
        <3>4. Rows(i)[p] # None /\ r.live
            BY <1>4, <2>1, <3>1 DEF Alive
        <3>5. CASE q.made[p] # None
            BY <1>2, <1>4, <3>1, <3>2, <3>3, <3>4, <3>5 DEF LinksInOrder
        <3>6. CASE q.made[p] = None
            BY <1>4, <3>1, <3>2, <3>3, <3>4, <3>6
        <3> QED
            BY <3>5, <3>6
    <2>2. CASE p \in Alive(i) /\ r = q.made[p]
        <3>1. product[p] # None => Kept(p)
            <4>1. CASE q.made[p] # None
                BY <1>2, <4>1 DEF LinksInOrder, New, Added
            <4>2. CASE q.made[p] = None
                BY <1>4, <2>2, <4>2 DEF Kept
            <4> QED
                BY <4>1, <4>2
        <3>2. r = None => product[p] # None
            BY <1>4, <2>2 DEF Alive
        <3> QED
            BY <1>2, <2>2, <3>1, <3>2 DEF LinksInOrder
    <2>3. CASE /\ p \in Unused /\ BySku(i, x) = {}
               /\ r = [sku |-> x, name |-> q.seen[x], live |-> TRUE]
        <3>1. r \in Row
            BY <1>3, <2>3 DEF Row
        <3> QED
            BY <2>3, <3>1, NoneIsNoRow DEF Unused
    <2> QED
        BY <2>1, <2>2, <2>3 DEF Links
<1>15. r # None /\ product[p] = None /\ q.made[p] = None => BySku(i, x) = {} /\ r.sku = x /\ p \in Unused
    BY <1>14
<1>16. ASSUME NEW t \in Session PROVE SessionInOrder(t)'
    <2>1. SessionInOrder(t)
        BY DEF IInv
    <2> QED
        BY <1>3, <1>6, <1>8, <1>10, <1>12, <1>13, <2>1 DEF SessionInOrder
<1>17. ASSUME NEW t \in Session PROVE LinksInOrder(t)'
    <2>1. LinksInOrder(t) /\ session[t].added \subseteq Added
        BY DEF IInv, TypeOK, State
    <2>2. CASE t # i
        BY <1>8, <1>10, <1>13, <2>1, <2>2 DEF LinksInOrder, Added
    <2>3. CASE t = i
        <3>1. ASSUME NEW a \in n.added PROVE Kept(a.pid) \/ New(i, a.pid)'
            BY <1>6, <1>13, <1>14, <2>1, <2>3, <3>1 DEF LinksInOrder, Added
        <3>2. ASSUME NEW o \in Pid, n.made[o] # None
              PROVE  /\ n.made[o].live
                     /\ product[o] # None => n.made[o].sku = product[o].sku
                     /\ \E a \in n.added :
                           a.pid = o /\ (product[o] = None => a.ext = n.made[o].sku)
            <4>1. CASE o # p
                <5>1. n.made[o] = q.made[o] /\ q.made[o] # None
                    BY <1>9, <3>2, <4>1
                <5> QED
                    BY <1>6, <2>1, <2>3, <5>1 DEF LinksInOrder
            <4>2. CASE o = p
                <5>1. n.made[p] = r /\ r # None
                    BY <1>9, <3>2, <4>2
                <5>2. new \in n.added /\ new.pid = p /\ new.ext = x
                    BY <1>6
                <5>3. CASE q.made[p] # None
                    <6>1. r.live /\ (product[p] # None => r.sku = product[p].sku)
                        BY <1>14, <5>1
                    <6>2. product[p] = None => r.sku = q.made[p].sku
                        BY <1>1, <1>14, <5>1, <5>3 DEF Unused
                    <6>3. \E a \in q.added :
                             a.pid = p /\ (product[p] = None => a.ext = q.made[p].sku)
                        BY <1>2, <5>3 DEF LinksInOrder
                    <6> QED
                        BY <1>6, <4>2, <5>1, <6>1, <6>2, <6>3
                <5>4. CASE q.made[p] = None
                    BY <1>14, <1>15, <4>2, <5>1, <5>2, <5>4
                <5> QED
                    BY <5>3, <5>4
            <4> QED
                BY <4>1, <4>2
        <3> QED
            BY <1>8, <1>10, <1>13, <2>3, <3>1, <3>2 DEF LinksInOrder
    <2> QED
        BY <2>2, <2>3
<1>18. Apart'
    <2>1. \A t \in Session, o \in Pid :
             session'[t].made[o] # None =>
                 \/ session[t].made[o] # None \/ product[o] # None
                 \/ (t = i /\ o = p /\ p \in Unused)
        <3> SUFFICES ASSUME NEW t \in Session, NEW o \in Pid, session'[t].made[o] # None,
                            session[t].made[o] = None, product[o] = None
                     PROVE  t = i /\ o = p /\ p \in Unused
            OBVIOUS
        <3>1. t = i /\ o = p
            BY <1>8, <1>9
        <3> QED
            BY <1>8, <1>9, <1>15, <3>1
    <2>2. Apart
        BY DEF IInv
    <2> QED
        BY <1>10, <2>1, <2>2 DEF Apart, Unused
<1>19. ListingsHaveProducts' /\ \A y \in Item : Untouched(y)'
    BY <1>10 DEF IInv, ListingsHaveProducts, Untouched
<1>20. raced \subseteq raced' /\ (x \notin raced' => \A o \in Session : Hand(o, x) => o = i)
    BY <1>10
<1>21. \A o \in Pid : listing[o][x] \notin Match
    BY DEF Links, Linked
<1>22. \A a \in q.added : a.ext # x
    <2>1. q.added \subseteq Added
        BY <1>1 DEF State
    <2> SUFFICES ASSUME NEW a \in q.added, a.ext = x PROVE FALSE
        OBVIOUS
    <2>2. a.pid \in Pid
        BY <2>1 DEF Added
    <2>3. a.pid \in Linked(i, x)
        BY <2>2 DEF Linked
    <2> QED
        BY <2>3 DEF Links
<1>23. ASSUME NEW y \in Item PROVE OneHand(y)'
    <2>1. OneHand(y)
        BY DEF IInv
    <2>2. CASE y = x
        <3> SUFFICES ASSUME x \notin raced' PROVE OneHand(x)'
            BY <2>2 DEF OneHand
        <3>1. \A s, o \in Session : Hand(s, x)' /\ Hand(o, x)' => s = o
            BY <1>12, <1>20
        <3>2. ASSUME NEW s \in Session, NEW a \in session'[s].added, NEW b \in session'[s].added,
                     a.ext = x, b.ext = x
              PROVE  a.pid = b.pid
            <4>1. s = i
                BY <1>8, <1>20, <3>2 DEF Hand
            <4> QED
                BY <1>6, <1>8, <1>22, <3>2, <4>1
        <3> QED
            BY <1>10, <1>21, <3>1, <3>2 DEF OneHand
    <2>3. CASE y # x
        <3>1. \A t \in Session : Hand(t, y)' <=> Hand(t, y)
            BY <1>12, <2>3
        <3>2. \A t \in Session : \A a \in session'[t].added : a.ext = y => a \in session[t].added
            BY <1>6, <1>8, <2>3
        <3> QED
            BY <1>10, <1>20, <2>1, <3>1, <3>2 DEF OneHand
    <2> QED
        BY <2>2, <2>3
<1>24. ASSUME NEW y \in Item PROVE OneCode(y)'
    <2>1. OneCode(y)
        BY DEF IInv
    <2> SUFFICES ASSUME y \notin raced' PROVE OneCode(y)'
        BY DEF OneCode
    <2>2. ASSUME NEW s \in Session, NEW o \in Pid, NEW c \in Pid,
                 New(s, o)', session'[s].made[o].sku = y, Live(c)
          PROVE  product[c].sku # y
        <3>1. CASE New(s, o) /\ session[s].made[o].sku = y
            BY <1>20, <2>1, <2>2, <3>1 DEF OneCode
        <3>2. CASE ~(New(s, o) /\ session[s].made[o].sku = y)
            <4>1. s = i /\ o = p
                BY <1>8, <1>9, <1>13, <2>2, <3>2
            <4>2. r # None /\ product[p] = None /\ r.sku = y
                BY <1>8, <1>9, <1>13, <2>2, <4>1
            <4>3. q.made[p] = None
                BY <1>14, <3>2, <4>1, <4>2 DEF New, Unused
            <4>4. BySku(i, x) = {} /\ y = x
                BY <1>15, <4>2, <4>3
            <4>5. Rows(i)[c] # None /\ Rows(i)[c].live /\ Rows(i)[c].sku = product[c].sku
                <5>1. CASE q.made[c] # None
                    BY <1>2, <1>4, <2>2, <5>1 DEF LinksInOrder, Live
                <5>2. CASE q.made[c] = None
                    BY <1>4, <2>2, <5>2 DEF Live
                <5> QED
                    BY <5>1, <5>2
            <4> QED
                BY <4>4, <4>5 DEF BySku, Alive
        <3> QED
            BY <3>1, <3>2
    <2>3. \A c, o \in Pid : Live(c) /\ Live(o) /\ product[c].sku = y /\ product[o].sku = y => c = o
        BY <1>20, <2>1 DEF OneCode
    <2> QED
        BY <1>10, <1>13, <2>2, <2>3 DEF OneCode
<1> QED
    BY <1>11, <1>16, <1>17, <1>18, <1>19, <1>23, <1>24 DEF IInv

\* A page is committed.
LEMMA CommitKeeps == ASSUME IInv, NEW i \in Importer, CommitPage(i) PROVE IInv'
<1> DEFINE q == session[i]
           Adds(p, x) == \E a \in q.added : a.pid = p /\ a.ext = x
<1>1. i \in Session /\ q \in State /\ q.added \subseteq Added
    BY DEF IInv, TypeOK, Session, State
<1>2. SessionInOrder(i) /\ LinksInOrder(i)
    BY <1>1 DEF IInv
<1>3. session' = [session EXCEPT ![i] = Idle] /\ UNCHANGED <<shop, raced, doomed>>
    BY DEF CommitPage
<1>4. Idle \in State /\ Idle.added = {} /\ Idle.todo = {} /\ Idle.phase = "idle"
      /\ Idle.pid = None /\ \A p \in Pid : Idle.made[p] = None
    BY DEF Idle, State, External
<1>5. session'[i] = Idle /\ \A t \in Session : t # i => session'[t] = session[t]
    BY <1>1, <1>3 DEF IInv, TypeOK
\* The rows.
<1>6. ASSUME NEW p \in Pid
      PROVE  /\ product'[p] \in Row \cup {None}
             /\ product[p] # None => /\ product'[p] # None /\ product'[p].sku = product[p].sku
                                     /\ product'[p].live = product[p].live
             /\ product[p] = None => product'[p] = q.made[p]
    <2>1. product[p] \in Row \cup {None} /\ q.made[p] \in Row \cup {None}
        BY <1>1 DEF IInv, TypeOK, State
    <2>2. product'[p] = Committed(product[p], q.made[p])
        BY DEF CommitPage
    <2>3. CASE q.made[p] = None
        BY <2>1, <2>2, <2>3 DEF Committed
    <2>4. CASE q.made[p] # None /\ product[p] = None
        BY <2>1, <2>2, <2>4 DEF Committed
    <2>5. CASE q.made[p] # None /\ product[p] # None
        <3> DEFINE r == [product[p] EXCEPT !.name = q.made[p].name]
        <3>1. product'[p] = r
            BY <2>2, <2>5 DEF Committed
        <3>2. r \in Row /\ r.sku = product[p].sku /\ r.live = product[p].live
            BY <2>1, <2>5 DEF Row
        <3> QED
            BY <2>5, <3>1, <3>2, NoneIsNoRow
    <2> QED
        BY <2>3, <2>4, <2>5
<1>7. product' \in [Pid -> Row \cup {None}]
    BY <1>6 DEF CommitPage
\* The listings.
<1>8. ASSUME NEW p \in Pid, NEW x \in External
      PROVE  IF Adds(p, x) THEN listing'[p][x] \in Match ELSE listing'[p][x] = listing[p][x]
    <2>1. listing'[p][x] = IF Adds(p, x)
                           THEN (CHOOSE a \in q.added : a.pid = p /\ a.ext = x).match
                           ELSE listing[p][x]
        BY DEF CommitPage
    <2>2. Adds(p, x) => (CHOOSE a \in q.added : a.pid = p /\ a.ext = x) \in Added
        BY <1>1
    <2> QED
        BY <2>1, <2>2 DEF Added
<1>9. listing' \in [Pid -> [External -> Standing]]
    <2>1. \A p \in Pid, x \in External : listing'[p][x] \in Standing
        BY <1>8 DEF IInv, TypeOK, Standing
    <2>2. /\ DOMAIN listing' = Pid /\ listing' = [p \in Pid |-> listing'[p]]
          /\ \A p \in Pid : listing'[p] = [x \in External |-> listing'[p][x]]
        BY DEF CommitPage
    <2> QED
        BY <2>1, <2>2
<1>10. TypeOK'
    BY <1>3, <1>4, <1>7, <1>9 DEF IInv, TypeOK
<1>11. /\ \A x \in Item : ~Hand(i, x)'
       /\ \A t \in Session, x \in Item : t # i => (Hand(t, x)' <=> Hand(t, x))
       /\ \A p \in Pid, x \in Item : Adds(p, x) => Hand(i, x)
    BY <1>4, <1>5 DEF Hand
<1>12. /\ \A p \in Pid : Kept(p) => Kept(p)'
       /\ \A p \in Pid : New(i, p) => Kept(p)' /\ product'[p].sku = q.made[p].sku
       /\ \A p \in Pid : ~New(i, p)'
    <2>1. \A p \in Pid : q.made[p] # None => q.made[p].live
        BY <1>2 DEF LinksInOrder
    <2> QED
        BY <1>3, <1>4, <1>5, <1>6, <2>1 DEF Kept, New
<1>13. ASSUME NEW t \in Session, t # i, NEW p \in Pid
       PROVE  /\ New(t, p)' <=> New(t, p)
              /\ session[t].made[p] # None /\ product[p] = None => product'[p] = None
    <2>1. Apart
        BY DEF IInv
    <2>2. session[t].made[p] # None /\ product[p] = None => q.made[p] = None
        BY <1>1, <1>13, <2>1 DEF Apart
    <2> QED
        BY <1>5, <1>6, <1>13, <2>2 DEF New
<1>14. ASSUME NEW p \in Pid, Live(p)'
       PROVE  \/ Live(p) /\ product[p].sku = product'[p].sku
              \/ New(i, p) /\ q.made[p].sku = product'[p].sku
    BY <1>6, <1>14 DEF Live, New
<1>15. ASSUME NEW t \in Session PROVE SessionInOrder(t)'
    <2>1. CASE t = i
        BY <1>4, <1>5, <1>11, <2>1 DEF SessionInOrder
    <2>2. CASE t # i
        <3>1. SessionInOrder(t) /\ session[t].pid \in Pid \cup {None}
            BY DEF IInv, TypeOK, State
        <3> QED
            BY <1>3, <1>5, <1>11, <1>12, <2>2, <3>1 DEF SessionInOrder
    <2> QED
        BY <2>1, <2>2
<1>16. ASSUME NEW t \in Session PROVE LinksInOrder(t)'
    <2>1. CASE t = i
        BY <1>4, <1>5, <2>1 DEF LinksInOrder
    <2>2. CASE t # i
        <3>1. LinksInOrder(t) /\ session[t].added \subseteq Added
            BY DEF IInv, TypeOK, State
        <3>2. \A a \in session[t].added : Kept(a.pid)' \/ New(t, a.pid)'
            BY <1>12, <1>13, <2>2, <3>1 DEF LinksInOrder, Added
        <3>3. ASSUME NEW p \in Pid, session[t].made[p] # None
              PROVE  /\ session[t].made[p].live
                     /\ product'[p] # None => session[t].made[p].sku = product'[p].sku
                     /\ \E a \in session[t].added :
                           a.pid = p /\ (product'[p] = None => a.ext = session[t].made[p].sku)
            BY <1>6, <1>13, <2>2, <3>1, <3>3 DEF LinksInOrder
        <3> QED
            BY <1>5, <2>2, <3>2, <3>3 DEF LinksInOrder
    <2> QED
        BY <2>1, <2>2
<1>17. Apart'
    BY <1>4, <1>5, <1>6 DEF IInv, Apart
<1>18. ListingsHaveProducts'
    <2>1. \A p \in Pid, x \in External : Adds(p, x) => Kept(p)'
        BY <1>2, <1>12 DEF LinksInOrder
    <2>2. \A p \in Pid, x \in External : listing[p][x] \in Match => Kept(p)
        BY DEF IInv, ListingsHaveProducts, Kept
    <2>3. \A p \in Pid, x \in External : listing'[p][x] \in Match => Kept(p)'
        BY <1>8, <1>12, <2>1, <2>2
    <2> QED
        BY <2>3 DEF ListingsHaveProducts, Kept
<1>19. ASSUME NEW x \in Item PROVE Untouched(x)'
    <2>1. shop[x] = None => ~Hand(i, x)
        BY <1>2 DEF SessionInOrder
    <2>2. Untouched(x)
        BY DEF IInv
    <2> QED
        BY <1>3, <1>8, <1>11, <2>1, <2>2 DEF Untouched, External
<1>20. ASSUME NEW x \in Item PROVE OneHand(x)'
    <2>1. OneHand(x)
        BY DEF IInv
    <2> SUFFICES ASSUME x \notin raced PROVE OneHand(x)'
        BY <1>3 DEF OneHand
    <2>2. \A p \in Pid : listing'[p][x] \in Match => listing[p][x] \in Match \/ Adds(p, x)
        BY <1>8 DEF External
    <2>3. ASSUME NEW p \in Pid, NEW o \in Pid, listing'[p][x] \in Match, listing'[o][x] \in Match
          PROVE  p = o
        BY <1>1, <1>11, <2>1, <2>2, <2>3 DEF OneHand
    <2>4. ASSUME NEW t \in Session, NEW p \in Pid, Hand(t, x)' PROVE listing'[p][x] \notin Match
        BY <1>1, <1>11, <2>1, <2>2, <2>4 DEF OneHand
    <2>5. \A s, o \in Session : Hand(s, x)' /\ Hand(o, x)' => s = o
        BY <1>11, <2>1 DEF OneHand
    <2>6. \A s \in Session : \A a, b \in session'[s].added : a.ext = x /\ b.ext = x => a.pid = b.pid
        BY <1>4, <1>5, <2>1 DEF OneHand
    <2> QED
        BY <2>3, <2>4, <2>5, <2>6 DEF OneHand
<1>21. ASSUME NEW x \in Item PROVE OneCode(x)'
    <2>1. OneCode(x) /\ OneHand(x)
        BY DEF IInv
    <2> SUFFICES ASSUME x \notin raced PROVE OneCode(x)'
        BY <1>3 DEF OneCode
    <2>2. ASSUME NEW s \in Session, NEW p \in Pid, New(s, p), session[s].made[p].sku = x
          PROVE  Hand(s, x) /\ \E a \in session[s].added : a.pid = p /\ a.ext = x
        <3>1. LinksInOrder(s)
            BY DEF IInv
        <3> QED
            BY <2>2, <3>1 DEF LinksInOrder, New, Hand
    <2>3. ASSUME NEW p \in Pid, NEW o \in Pid, Live(p)', Live(o)', product'[p].sku = x,
                 product'[o].sku = x
          PROVE  p = o
        <3>1. CASE Live(p) /\ Live(o) /\ product[p].sku = x /\ product[o].sku = x
            BY <2>1, <3>1 DEF OneCode
        <3>2. CASE Live(p) /\ product[p].sku = x /\ New(i, o) /\ q.made[o].sku = x
            BY <1>1, <2>1, <3>2 DEF OneCode
        <3>3. CASE Live(o) /\ product[o].sku = x /\ New(i, p) /\ q.made[p].sku = x
            BY <1>1, <2>1, <3>3 DEF OneCode
        <3>4. CASE New(i, p) /\ q.made[p].sku = x /\ New(i, o) /\ q.made[o].sku = x
            <4>1. PICK a \in q.added : a.pid = p /\ a.ext = x
                BY <1>1, <2>2, <3>4
            <4>2. PICK b \in q.added : b.pid = o /\ b.ext = x
                BY <1>1, <2>2, <3>4
            <4> QED
                BY <1>1, <2>1, <4>1, <4>2 DEF OneHand
        <3> QED
            BY <1>14, <2>3, <3>1, <3>2, <3>3, <3>4
    <2>4. ASSUME NEW s \in Session, NEW p \in Pid, NEW o \in Pid,
                 New(s, p)', session'[s].made[p].sku = x, Live(o)'
          PROVE  product'[o].sku # x
        <3>1. s # i /\ New(s, p) /\ session[s].made[p].sku = x
            BY <1>5, <1>12, <1>13, <2>4
        <3>2. Live(o) => product[o].sku # x
            BY <2>1, <3>1 DEF OneCode
        <3>3. ~(New(i, o) /\ q.made[o].sku = x)
            BY <1>1, <2>1, <2>2, <3>1 DEF OneHand
        <3> QED
            BY <1>14, <2>4, <3>2, <3>3
    <2> QED
        BY <2>3, <2>4 DEF OneCode
<1> QED
    BY <1>10, <1>15, <1>16, <1>17, <1>18, <1>19, <1>20, <1>21 DEF IInv

\* What a product that nobody knew of changes, when its code is its number.
LEMMA NewProduct ==
    ASSUME IInv, NEW f \in Unused, NEW r \in Row, product' = [product EXCEPT ![f] = r],
           r.live, r.sku \notin Item, doomed' = doomed,
           \A s \in Session : session'[s].made = session[s].made
    PROVE  /\ f \in Pid /\ product[f] = None
           /\ product' \in [Pid -> Row \cup {None}]
           /\ \A p \in Pid : p # f => product'[p] = product[p]
           /\ \A p \in Pid : Kept(p) => Kept(p)'
           /\ Kept(f)'
           /\ \A s \in Session, p \in Pid : (New(s, p)' <=> New(s, p))
           /\ \A s \in Session : session[s].made[f] = None
           /\ \A p \in Pid : Live(p)' => product'[p].sku \notin Item \/
                                         (Live(p) /\ product'[p] = product[p])
           /\ Apart' /\ \A x \in Item : raced' = raced => OneCode(x)'
<1>1. /\ f \in Pid /\ product[f] = None
      /\ \A s \in Session : session[s].made[f] = None
    BY DEF Unused
<1>2. /\ product' \in [Pid -> Row \cup {None}]
      /\ product'[f] = r
      /\ \A p \in Pid : p # f => product'[p] = product[p]
    BY <1>1 DEF IInv, TypeOK
<1>3. r # None
    BY NoneIsNoRow
<1>4. /\ \A p \in Pid : Kept(p) => Kept(p)'
      /\ Kept(f)'
    BY <1>1, <1>2, <1>3 DEF Kept
<1>5. \A s \in Session, p \in Pid : (New(s, p)' <=> New(s, p))
    BY <1>1, <1>2, <1>3 DEF New
<1>6. \A p \in Pid : Live(p)' => \/ product'[p].sku \notin Item
                                 \/ Live(p) /\ product'[p] = product[p]
    BY <1>1, <1>2, <1>3 DEF Live
<1>7. Apart'
    BY <1>1, <1>2, <1>3 DEF IInv, Apart
<1>8. ASSUME NEW x \in Item, raced' = raced PROVE OneCode(x)'
    <2>1. OneCode(x)
        BY DEF IInv
    <2> QED
        BY <1>5, <1>6, <1>8, <2>1 DEF OneCode
<1> QED
    BY <1>1, <1>2, <1>4, <1>5, <1>6, <1>7, <1>8

\* The rest of the invariant, when products come and none is forgotten.
LEMMA ProductsKept ==
    ASSUME IInv, \A p \in Pid : Kept(p) => Kept(p)',
           \A s \in Session, p \in Pid : (New(s, p)' <=> New(s, p)),
           NEW s \in Session, session'[s] = session[s],
           \A p \in Pid : session[s].made[p] # None =>
               (product'[p] = None <=> product[p] = None)
               /\ (product[p] # None => product'[p].sku = product[p].sku),
           \A x \in Item : shop[x] # None => shop'[x] # None
    PROVE  SessionInOrder(s)' /\ LinksInOrder(s)'
<1>1. SessionInOrder(s) /\ LinksInOrder(s) /\ session[s] \in State
    BY DEF IInv, TypeOK
<1>2. session[s].added \subseteq Added /\ session[s].pid \in Pid \cup {None}
      /\ session[s].todo \subseteq Item
    BY <1>1 DEF State
<1>3. \A x : Hand(s, x)' <=> Hand(s, x)
    BY DEF Hand
<1>4. SessionInOrder(s)'
    BY <1>1, <1>2, <1>3 DEF SessionInOrder
<1>5. LinksInOrder(s)'
    BY <1>1, <1>2 DEF LinksInOrder, Added
<1> QED
    BY <1>4, <1>5

\* A product is created here.
LEMMA CreateKeeps ==
    ASSUME IInv, NEW u \in Publisher, NEW name \in Name, NEW publish \in BOOLEAN,
           CreateProduct(u, name, publish)
    PROVE  IInv'
<1>0. PICK f \in Unused : f = Fresh
    BY FreshIsUnused DEF CreateProduct
<1> DEFINE r == [sku |-> f, name |-> name, live |-> TRUE]
           n == [Idle EXCEPT !.phase = "publish", !.pid = f]
<1>1. u \in Session /\ session[u].phase = "idle" /\ Unused # {} /\ f \in Pid
    BY <1>0 DEF Session, CreateProduct, Unused
<1>2. SessionInOrder(u) /\ LinksInOrder(u) /\ session[u] \in State
    BY <1>1 DEF IInv, TypeOK
<1>3. session[u].added = {} /\ \A p \in Pid : session[u].made[p] = None
    BY <1>1, <1>2 DEF SessionInOrder, LinksInOrder
<1>4. r \in Row /\ r.live /\ r.sku \notin Item
    BY <1>1, ListingsAssumption DEF Row
<1>5. product' = [product EXCEPT ![f] = r] /\ UNCHANGED <<shop, listing, raced, doomed>>
    BY <1>0 DEF CreateProduct
<1> HIDE DEF r
<1>6. /\ n \in State /\ n.phase = "publish" /\ n.todo = {} /\ n.added = {} /\ n.pid = f
    BY <1>1 DEF Idle, State, External
<1>7. n.made = [p \in Pid |-> None] /\ n.made = session[u].made
    <2>1. n.made = [p \in Pid |-> None]
        BY DEF Idle
    <2>2. session[u].made = [p \in Pid |-> session[u].made[p]]
        BY <1>2 DEF State
    <2> QED
        BY <1>3, <2>1, <2>2
<1> HIDE DEF n
<1>8. session' = [session EXCEPT ![u] = n] \/ session' = session
    BY <1>0 DEF CreateProduct, n
<1>9. /\ session'[u] = n \/ session'[u] = session[u]
      /\ \A t \in Session : t # u => session'[t] = session[t]
      /\ session' \in [Session -> State]
    BY <1>1, <1>6, <1>8 DEF IInv, TypeOK
<1>10. \A s \in Session : session'[s].made = session[s].made
    BY <1>7, <1>9
<1>11. /\ f \in Pid /\ product[f] = None /\ Kept(f)'
       /\ product' \in [Pid -> Row \cup {None}]
       /\ \A p \in Pid : p # f => product'[p] = product[p]
       /\ \A s \in Session : session[s].made[f] = None
    BY <1>1, <1>4, <1>5, <1>10, NewProduct
<1>12. /\ \A p \in Pid : Kept(p) => Kept(p)'
       /\ \A s \in Session, p \in Pid : (New(s, p)' <=> New(s, p))
    BY <1>1, <1>4, <1>5, <1>10, NewProduct
<1>13. Apart' /\ \A x \in Item : OneCode(x)'
    BY <1>1, <1>4, <1>5, <1>10, NewProduct
<1>14. TypeOK'
    BY <1>5, <1>9, <1>11 DEF IInv, TypeOK
<1>15. \A t \in Session, x \in Item : Hand(t, x)' <=> Hand(t, x)
    BY <1>1, <1>3, <1>6, <1>9 DEF Hand
<1>16. ASSUME NEW t \in Session PROVE SessionInOrder(t)' /\ LinksInOrder(t)'
    <2>1. CASE session'[t] = session[t]
        <3>1. \A p \in Pid : session[t].made[p] # None => product'[p] = product[p]
            BY <1>11
        <3> QED
            BY <1>5, <1>12, <2>1, <3>1, ProductsKept
    <2>2. CASE session'[t] = n
        <3>1. SessionInOrder(t)'
            BY <1>1, <1>5, <1>6, <1>11, <2>2, ListingsAssumption DEF SessionInOrder, Hand
        <3>2. LinksInOrder(t)'
            BY <1>6, <1>7, <2>2 DEF LinksInOrder
        <3> QED
            BY <3>1, <3>2
    <2> QED
        BY <1>9, <2>1, <2>2
<1>17. ListingsHaveProducts'
    <2>1. \A p \in Pid, x \in External : listing[p][x] \in Match => Kept(p)
        BY DEF IInv, ListingsHaveProducts, Kept
    <2>2. \A p \in Pid, x \in External : listing'[p][x] \in Match => Kept(p)'
        BY <1>5, <1>12, <2>1
    <2> QED
        BY <2>2 DEF ListingsHaveProducts, Kept
<1>18. ASSUME NEW x \in Item PROVE Untouched(x)' /\ OneHand(x)'
    <2>1. Untouched(x) /\ OneHand(x)
        BY DEF IInv
    <2>2. \A t \in Session : session'[t].added = session[t].added
        BY <1>3, <1>6, <1>9
    <2>3. Untouched(x)'
        BY <1>5, <2>1 DEF Untouched
    <2>4. OneHand(x)'
        BY <1>5, <1>15, <2>1, <2>2 DEF OneHand
    <2> QED
        BY <2>3, <2>4
<1> QED
    BY <1>13, <1>14, <1>16, <1>17, <1>18 DEF IInv

\* The channel creates items.
LEMMA RemoteKeeps ==
    ASSUME IInv, NEW u \in Publisher, NEW made \in SUBSET Item, NEW ext \in External,
           RemoteCreate(u, made, ext)
    PROVE  IInv'
<1> DEFINE q == session[u]
           n == [q EXCEPT !.phase = "list", !.ext = ext]
<1>1. /\ u \in Session /\ q \in State /\ q.phase = "publish" /\ SessionInOrder(u)
      /\ LinksInOrder(u)
    BY DEF IInv, TypeOK, Session, RemoteCreate
<1>2. q.added = {} /\ q.pid \in Pid /\ Kept(q.pid) /\ \A p \in Pid : q.made[p] = None
    BY <1>1 DEF SessionInOrder, LinksInOrder, State
<1>3. product[q.pid] \in Row /\ product[q.pid].name \in Name
    BY <1>2 DEF IInv, TypeOK, Kept, Row
<1>4. /\ n \in State /\ n.phase = "list" /\ n.todo = q.todo /\ n.seen = q.seen
      /\ n.added = q.added /\ n.made = q.made /\ n.pid = q.pid /\ n.ext = ext
    BY <1>1 DEF State
<1>5. session' = [session EXCEPT ![u] = n] /\ UNCHANGED <<product, listing, raced, doomed>>
    BY <1>1 DEF RemoteCreate, IInv, TypeOK
<1> HIDE DEF n
<1>6. session'[u] = n /\ \A t \in Session : t # u => session'[t] = session[t]
    BY <1>1, <1>5 DEF IInv, TypeOK
<1>7. /\ \A x \in made : shop[x] = None
      /\ shop' = [x \in Item |-> IF x \in made THEN product[q.pid].name ELSE shop[x]]
      /\ ext \in made \/ ext = PENDING
    BY DEF RemoteCreate
<1>8. \A x \in Item : shop[x] # None => shop'[x] # None
    BY <1>7
<1>9. \A x \in made : shop'[x] # None
    BY <1>3, <1>7, ListingsAssumption
<1>10. TypeOK'
    <2>1. shop' \in [Item -> Name \cup {None, Gone}]
        BY <1>3, <1>7 DEF IInv, TypeOK
    <2> QED
        BY <1>4, <1>5, <2>1 DEF IInv, TypeOK
<1>11. /\ \A t \in Session, p \in Pid : (New(t, p)' <=> New(t, p))
       /\ \A p : (Kept(p)' <=> Kept(p)) /\ (Live(p)' <=> Live(p))
       /\ \A t \in Session : session'[t].made = session[t].made
                            /\ session'[t].added = session[t].added
    BY <1>4, <1>5, <1>6 DEF New, Kept, Live
<1>12. /\ \A x \in Item : Hand(u, x)' <=> (x = ext)
       /\ \A t \in Session, x \in Item : t # u => (Hand(t, x)' <=> Hand(t, x))
    BY <1>2, <1>4, <1>6 DEF Hand
<1>13. ASSUME NEW t \in Session PROVE SessionInOrder(t)' /\ LinksInOrder(t)'
    <2>1. CASE t # u
        BY <1>5, <1>6, <1>8, <1>11, <2>1, ProductsKept
    <2>2. CASE t = u
        <3>1. \A x \in Item : Hand(u, x)' => shop'[x] # None
            BY <1>7, <1>9, <1>12, ListingsAssumption DEF PENDING
        <3>2. SessionInOrder(u)'
            <4>1. \A x \in n.todo : n.seen[x] \in Name /\ shop'[x] # None
                BY <1>1, <1>4, <1>8 DEF SessionInOrder, State
            <4> QED
                BY <1>2, <1>4, <1>6, <1>11, <3>1, <4>1, ListingsAssumption DEF SessionInOrder
        <3>3. LinksInOrder(u)'
            BY <1>2, <1>4, <1>6 DEF LinksInOrder
        <3> QED
            BY <2>2, <3>2, <3>3
    <2> QED
        BY <2>1, <2>2
<1>14. Apart' /\ ListingsHaveProducts'
    <2>1. Apart'
        BY <1>5, <1>11 DEF IInv, Apart
    <2>2. ListingsHaveProducts'
        BY <1>5 DEF IInv, ListingsHaveProducts
    <2> QED
        BY <2>1, <2>2
<1>15. ASSUME NEW x \in Item PROVE Untouched(x)' /\ OneHand(x)' /\ OneCode(x)'
    <2>1. Untouched(x) /\ OneHand(x) /\ OneCode(x)
        BY DEF IInv
    <2>2. Untouched(x)'
        BY <1>5, <1>8, <2>1 DEF Untouched
    <2>3. x = ext => /\ \A t \in Session : ~Hand(t, x)
                     /\ \A p \in Pid : listing[p][x] \notin Match
        <3> SUFFICES ASSUME x = ext PROVE /\ \A t \in Session : ~Hand(t, x)
                                          /\ \A p \in Pid : listing[p][x] \notin Match
            OBVIOUS
        <3>1. shop[x] = None
            BY <1>7, ListingsAssumption DEF PENDING
        <3>2. \A t \in Session : SessionInOrder(t)
            BY DEF IInv
        <3> QED
            BY <2>1, <3>1, <3>2 DEF Untouched, SessionInOrder
    <2>4. OneHand(x)'
        BY <1>5, <1>11, <1>12, <2>1, <2>3 DEF OneHand
    <2>5. OneCode(x)'
        BY <1>5, <1>11, <2>1 DEF OneCode
    <2> QED
        BY <2>2, <2>4, <2>5
<1> QED
    BY <1>10, <1>13, <1>14, <1>15 DEF IInv

\* A publication lists what it made.
LEMMA AddKeeps == ASSUME IInv, NEW u \in Publisher, AddListing(u) PROVE IInv'
<1> DEFINE q == session[u]
<1>1. /\ u \in Session /\ q \in State /\ q.phase = "list" /\ SessionInOrder(u)
      /\ LinksInOrder(u)
    BY DEF IInv, TypeOK, Session, AddListing
<1>2. q.added = {} /\ q.pid \in Pid /\ q.ext \in External /\ Kept(q.pid)
      /\ \A p \in Pid : q.made[p] = None
    BY <1>1 DEF SessionInOrder, LinksInOrder, State
<1>3. session' = [session EXCEPT ![u] = Idle] /\ UNCHANGED <<shop, product, raced, doomed>>
    BY DEF AddListing
<1>4. Idle \in State /\ Idle.added = {} /\ Idle.todo = {} /\ Idle.phase = "idle"
      /\ Idle.pid = None /\ \A p \in Pid : Idle.made[p] = None
    BY DEF Idle, State, External
<1>5. session'[u] = Idle /\ \A t \in Session : t # u => session'[t] = session[t]
    BY <1>1, <1>3 DEF IInv, TypeOK
<1>6. listing' = listing \/ listing' = [listing EXCEPT ![q.pid][q.ext] = "CONFIRMED"]
    BY DEF AddListing
<1>7. /\ listing' \in [Pid -> [External -> Standing]]
      /\ \A p \in Pid, x \in External : listing'[p][x] \in Match =>
            listing[p][x] \in Match \/ (p = q.pid /\ x = q.ext)
    <2> DEFINE l == [listing[q.pid] EXCEPT ![q.ext] = "CONFIRMED"]
    <2>1. listing \in [Pid -> [External -> Standing]]
        BY DEF IInv, TypeOK
    <2>2. l \in [External -> Standing] /\ \A x \in External : x # q.ext => l[x] = listing[q.pid][x]
        BY <1>2, <2>1 DEF Standing, Match
    <2>3. listing' = listing \/ listing' = [listing EXCEPT ![q.pid] = l]
        BY <1>6
    <2> HIDE DEF l
    <2>4. CASE listing' = listing
        BY <2>1, <2>4
    <2>5. CASE listing' = [listing EXCEPT ![q.pid] = l]
        <3>1. listing' \in [Pid -> [External -> Standing]] /\ listing'[q.pid] = l
              /\ \A p \in Pid : p # q.pid => listing'[p] = listing[p]
            BY <1>2, <2>1, <2>2, <2>5
        <3> QED
            BY <1>2, <2>2, <3>1
    <2> QED
        BY <2>3, <2>4, <2>5
<1>8. TypeOK'
    BY <1>3, <1>4, <1>7 DEF IInv, TypeOK
<1>9. /\ \A x \in Item : ~Hand(u, x)'
      /\ \A t \in Session, x \in Item : t # u => (Hand(t, x)' <=> Hand(t, x))
      /\ \A x \in Item : x = q.ext => Hand(u, x)
    BY <1>1, <1>4, <1>5 DEF Hand
<1>10. /\ \A t \in Session, p \in Pid : (New(t, p)' <=> New(t, p))
       /\ \A p : (Kept(p)' <=> Kept(p)) /\ (Live(p)' <=> Live(p))
       /\ \A t \in Session, p \in Pid : session'[t].made[p] = session[t].made[p]
    BY <1>2, <1>3, <1>4, <1>5 DEF New, Kept, Live
<1>11. ASSUME NEW t \in Session PROVE SessionInOrder(t)' /\ LinksInOrder(t)'
    <2>1. CASE t # u
        BY <1>3, <1>5, <1>10, <2>1, ProductsKept
    <2>2. CASE t = u
        BY <1>4, <1>5, <1>9, <2>2 DEF SessionInOrder, LinksInOrder
    <2> QED
        BY <2>1, <2>2
<1>12. Apart'
    BY <1>3, <1>10 DEF IInv, Apart
<1>13. ListingsHaveProducts'
    <2>1. \A p \in Pid, x \in External : listing[p][x] \in Match => Kept(p)
        BY DEF IInv, ListingsHaveProducts, Kept
    <2>2. \A p \in Pid, x \in External : listing'[p][x] \in Match => Kept(p)'
        BY <1>2, <1>7, <1>10, <2>1
    <2> QED
        BY <2>2 DEF ListingsHaveProducts, Kept
<1>14. ASSUME NEW x \in Item PROVE Untouched(x)' /\ OneHand(x)' /\ OneCode(x)'
    <2>1. Untouched(x) /\ OneHand(x) /\ OneCode(x) /\ x \in External
        BY DEF IInv, External
    <2>2. Untouched(x)'
        BY <1>1, <1>3, <1>7, <1>9, <2>1 DEF Untouched, SessionInOrder
    <2>3. OneHand(x)'
        <3> SUFFICES ASSUME x \notin raced PROVE OneHand(x)'
            BY <1>3 DEF OneHand
        <3>1. \A s, o \in Session : Hand(s, x)' /\ Hand(o, x)' => s = o
            BY <1>9, <2>1 DEF OneHand
        <3>2. \A s \in Session : \A a, b \in session'[s].added :
                 a.ext = x /\ b.ext = x => a.pid = b.pid
            BY <1>4, <1>5, <2>1 DEF OneHand
        <3>3. \A s \in Session, p \in Pid : Hand(s, x)' => listing'[p][x] \notin Match
            BY <1>1, <1>7, <1>9, <2>1 DEF OneHand
        <3>4. \A p, o \in Pid : listing'[p][x] \in Match /\ listing'[o][x] \in Match => p = o
            BY <1>1, <1>7, <1>9, <2>1 DEF OneHand
        <3> QED
            BY <3>1, <3>2, <3>3, <3>4 DEF OneHand
    <2>4. OneCode(x)'
        BY <1>3, <1>10, <2>1 DEF OneCode
    <2> QED
        BY <2>2, <2>3, <2>4
<1> QED
    BY <1>8, <1>11, <1>12, <1>13, <1>14 DEF IInv

\* A product is deleted with its listings.
LEMMA DeleteKeeps ==
    ASSUME IInv, NEW p \in Pid, NEW removed \in SUBSET Item, Delete(p, removed)
    PROVE  IInv'
<1> DEFINE r == [product[p] EXCEPT !.live = FALSE]
<1>1. product[p] # None /\ product[p] \in Row /\ product' = [product EXCEPT ![p] = r]
    BY DEF Delete, IInv, TypeOK
<1>2. r \in Row /\ ~r.live /\ r.sku = product[p].sku
    BY <1>1 DEF Row
<1> HIDE DEF r
<1>3. /\ product' \in [Pid -> Row \cup {None}]
      /\ product'[p] = r /\ r # None
      /\ \A o \in Pid : o # p => product'[o] = product[o]
    BY <1>1, <1>2, NoneIsNoRow DEF IInv, TypeOK
<1>4. /\ \A x \in External : listing'[p][x] =
             IF listing[p][x] \in Match THEN "deleted" ELSE listing[p][x]
      /\ \A o \in Pid : o # p => listing'[o] = listing[o]
      /\ listing' \in [Pid -> [External -> Standing]]
    <2> DEFINE l == [x \in External |-> IF listing[p][x] \in Match THEN "deleted" ELSE listing[p][x]]
    <2>1. listing' = [listing EXCEPT ![p] = l]
        BY DEF Delete, Unlisted
    <2>2. l \in [External -> Standing]
        BY DEF IInv, TypeOK, Standing
    <2>3. \A x \in External : l[x] =
             IF listing[p][x] \in Match THEN "deleted" ELSE listing[p][x]
        OBVIOUS
    <2> HIDE DEF l
    <2> QED
        BY <2>1, <2>2, <2>3 DEF IInv, TypeOK
<1>5. /\ \A x \in External : listing'[p][x] \notin Match
      /\ \A o \in Pid, x \in External : listing'[o][x] \in Match => listing[o][x] \in Match
    BY <1>4 DEF Match
<1>6. UNCHANGED <<session, raced>> /\ doomed \subseteq doomed' /\ doomed' \subseteq Pid
    BY DEF Delete, IInv, TypeOK
<1>7. /\ shop' \in [Item -> Name \cup {None, Gone}]
      /\ \A x \in Item : shop[x] # None => shop'[x] # None
    BY ListingsAssumption DEF Delete, IInv, TypeOK, Gone
<1>8. TypeOK'
    BY <1>3, <1>4, <1>6, <1>7 DEF IInv, TypeOK
<1>9. /\ \A t \in Session, o \in Pid : (New(t, o)' <=> New(t, o))
      /\ \A o \in Pid : (product'[o] = None <=> product[o] = None)
                       /\ (product[o] # None => product'[o].sku = product[o].sku)
      /\ \A o \in Pid : Live(o)' => Live(o)
      /\ \A t, x : (Hand(t, x)' <=> Hand(t, x))
    BY <1>1, <1>2, <1>3, <1>6 DEF New, Live, Hand
\* Whoever links to the product dooms it.
<1>10. ASSUME NEW o \in Pid, Kept(o), NEW t \in Session,
              session[t].pid = o \/ \E a \in session[t].added : a.pid = o
       PROVE  Kept(o)'
    <2>1. CASE o # p
        BY <1>3, <1>6, <1>10, <2>1 DEF Kept
    <2>2. CASE o = p
        <3>1. p \in doomed'
            BY <1>10, <2>2 DEF Delete
        <3> QED
            BY <1>3, <2>2, <3>1 DEF Kept
    <2> QED
        BY <2>1, <2>2
<1>11. ASSUME NEW t \in Session PROVE SessionInOrder(t)' /\ LinksInOrder(t)'
    <2>1. SessionInOrder(t) /\ LinksInOrder(t) /\ session[t] \in State
        BY DEF IInv, TypeOK
    <2>2. session[t].added \subseteq Added /\ session[t].pid \in Pid \cup {None}
          /\ session[t].todo \subseteq Item
        BY <2>1 DEF State
    <2>3. SessionInOrder(t)'
        BY <1>6, <1>7, <1>9, <1>10, <2>1, <2>2 DEF SessionInOrder
    <2>4. LinksInOrder(t)'
        <3>1. \A a \in session[t].added : Kept(a.pid)' \/ New(t, a.pid)'
            BY <1>9, <1>10, <2>1, <2>2 DEF LinksInOrder, Added
        <3> QED
            BY <1>6, <1>9, <2>1, <3>1 DEF LinksInOrder
    <2> QED
        BY <2>3, <2>4
<1>12. Apart'
    BY <1>6, <1>9 DEF IInv, Apart
<1>13. ListingsHaveProducts'
    BY <1>3, <1>5, <1>6 DEF IInv, ListingsHaveProducts
<1>14. ASSUME NEW x \in Item PROVE Untouched(x)' /\ OneHand(x)' /\ OneCode(x)'
    <2>1. Untouched(x) /\ OneHand(x) /\ OneCode(x) /\ x \in External
        BY DEF IInv, External
    <2>2. Untouched(x)'
        BY <1>5, <1>7, <2>1 DEF Untouched
    <2>3. OneHand(x)'
        BY <1>5, <1>6, <1>9, <2>1 DEF OneHand
    <2>4. OneCode(x)'
        BY <1>6, <1>9, <2>1 DEF OneCode, Live
    <2> QED
        BY <2>2, <2>3, <2>4
<1> QED
    BY <1>8, <1>11, <1>12, <1>13, <1>14 DEF IInv

\* A listing that moves to o.
LEMMA MovedListing ==
    ASSUME TypeOK, NEW p \in Pid, NEW o \in Pid, NEW x \in External, listing' = Moved(p, x, o)
    PROVE  /\ listing' \in [Pid -> [External -> Standing]]
           /\ \A c \in Pid, y \in External : listing'[c][y] \in Match =>
                 \/ c = o /\ y = x
                 \/ listing[c][y] \in Match /\ ~(c = p /\ y = x)
<1> DEFINE from == [listing[p] EXCEPT ![x] = "none"]
           gone == [listing EXCEPT ![p] = from]
           to == [gone[o] EXCEPT ![x] = "CONFIRMED"]
<1>1. listing' = [gone EXCEPT ![o] = to]
    BY DEF Moved
<1>2. from \in [External -> Standing] /\ from[x] = "none"
      /\ \A y \in External : y # x => from[y] = listing[p][y]
    BY DEF TypeOK, Standing
<1> HIDE DEF from
<1>3. gone \in [Pid -> [External -> Standing]] /\ gone[p] = from
      /\ \A c \in Pid : c # p => gone[c] = listing[c]
    BY <1>2 DEF TypeOK
<1> HIDE DEF gone
<1>4. to \in [External -> Standing]
      /\ \A y \in External : y # x => to[y] = gone[o][y]
    BY <1>3 DEF Standing, Match
<1> HIDE DEF to
<1>5. listing' \in [Pid -> [External -> Standing]] /\ listing'[o] = to
      /\ \A c \in Pid : c # o => listing'[c] = gone[c]
    BY <1>1, <1>3, <1>4
<1>6. "none" \notin Match
    BY DEF Match
<1>7. ASSUME NEW c \in Pid, NEW y \in External, listing'[c][y] \in Match, ~(c = o /\ y = x)
      PROVE  listing[c][y] \in Match /\ ~(c = p /\ y = x)
    <2>1. gone[c][y] \in Match
        <3>1. CASE c = o
            BY <1>4, <1>5, <1>7, <3>1
        <3>2. CASE c # o
            BY <1>5, <1>7, <3>2
        <3> QED
            BY <3>1, <3>2
    <2>2. CASE c = p
        <3>1. from[y] \in Match
            BY <1>3, <2>1, <2>2
        <3> QED
            BY <1>2, <1>6, <2>2, <3>1
    <2>3. CASE c # p
        BY <1>3, <2>1, <2>3
    <2> QED
        BY <2>2, <2>3
<1> QED
    BY <1>5, <1>7

\* The listings of the invariant, when one moved to a product that is there.
LEMMA ReviewKeeps ==
    ASSUME IInv, NEW p \in Pid, NEW o \in Pid, NEW x \in External, listing[p][x] \in Match,
           listing' = Moved(p, x, o), \A c \in Pid : Kept(c) => Kept(c)', Kept(o)',
           UNCHANGED <<shop, session, raced>>
    PROVE  /\ listing' \in [Pid -> [External -> Standing]] /\ ListingsHaveProducts'
           /\ \A y \in Item : Untouched(y)' /\ OneHand(y)'
<1>1. TypeOK
    BY DEF IInv
<1>2. /\ listing' \in [Pid -> [External -> Standing]]
      /\ \A c \in Pid, y \in External : listing'[c][y] \in Match =>
            \/ c = o /\ y = x
            \/ listing[c][y] \in Match /\ ~(c = p /\ y = x)
    BY <1>1, MovedListing
<1>3. ListingsHaveProducts'
    <2>1. \A c \in Pid, y \in External : listing[c][y] \in Match => Kept(c)
        BY DEF IInv, ListingsHaveProducts, Kept
    <2>2. \A c \in Pid, y \in External : listing'[c][y] \in Match => Kept(c)'
        BY <1>2, <2>1
    <2> QED
        BY <2>2 DEF ListingsHaveProducts, Kept
<1>4. ASSUME NEW y \in Item PROVE Untouched(y)' /\ OneHand(y)'
    <2>1. Untouched(y) /\ OneHand(y) /\ y \in External
        BY DEF IInv, External
    <2>2. \A t : (Hand(t, y)' <=> Hand(t, y))
        BY DEF Hand
    <2>3. Untouched(y)'
        BY <1>2, <2>1 DEF Untouched
    <2>4. OneHand(y)'
        BY <1>2, <2>1, <2>2 DEF OneHand
    <2> QED
        BY <2>3, <2>4
<1> QED
    BY <1>2, <1>3, <1>4

\* A match is confirmed.
LEMMA ConfirmKeeps ==
    ASSUME IInv, NEW p \in Pid, NEW o \in Pid, NEW x \in External, Confirm(p, x, o)
    PROVE  IInv'
<1>1. /\ listing[p][x] \in Match /\ listing' = Moved(p, x, o) /\ Kept(o)
      /\ UNCHANGED <<shop, product, session, raced, doomed>>
    BY DEF Confirm, Kept
<1>2. /\ \A c : (Kept(c)' <=> Kept(c)) /\ (Live(c)' <=> Live(c))
      /\ \A t, c : (New(t, c)' <=> New(t, c))
    BY <1>1 DEF Kept, Live, New
<1>3. listing' \in [Pid -> [External -> Standing]] /\ ListingsHaveProducts'
    BY <1>1, <1>2, ReviewKeeps
<1>4. \A y \in Item : Untouched(y)' /\ OneHand(y)'
    BY <1>1, <1>2, ReviewKeeps
<1>5. TypeOK'
    BY <1>1, <1>3 DEF IInv, TypeOK
<1>6. \A t \in Session : SessionInOrder(t)' /\ LinksInOrder(t)'
    BY <1>1, <1>2, ProductsKept
<1>7. Apart'
    BY <1>1 DEF IInv, Apart
<1>8. ASSUME NEW y \in Item PROVE OneCode(y)'
    <2>1. OneCode(y)
        BY DEF IInv
    <2> QED
        BY <1>1, <1>2, <2>1 DEF OneCode
<1> QED
    BY <1>3, <1>4, <1>5, <1>6, <1>7, <1>8 DEF IInv

\* A match is declined: a copy of the product takes the listing.
LEMMA DeclineKeeps ==
    ASSUME IInv, NEW p \in Pid, NEW x \in External, Decline(p, x)
    PROVE  IInv'
<1>0. PICK f \in Unused : f = Fresh
    BY FreshIsUnused DEF Decline
<1> DEFINE r == [sku |-> f, name |-> product[p].name, live |-> TRUE]
<1>1. /\ listing[p][x] \in Match /\ listing' = Moved(p, x, f)
      /\ product' = [product EXCEPT ![f] = r]
      /\ UNCHANGED <<shop, session, raced, doomed>>
    BY <1>0 DEF Decline, Copy
<1>2. f \in Pid /\ product[p] # None /\ product[p] \in Row
    BY <1>1 DEF IInv, TypeOK, ListingsHaveProducts, Unused
<1>3. r \in Row /\ r.live /\ r.sku \notin Item
    BY <1>2, ListingsAssumption DEF Row
<1> HIDE DEF r
<1>4. \A s \in Session : session'[s].made = session[s].made
    BY <1>1
<1>5. /\ product[f] = None /\ Kept(f)'
      /\ product' \in [Pid -> Row \cup {None}]
      /\ \A c \in Pid : c # f => product'[c] = product[c]
      /\ \A s \in Session : session[s].made[f] = None
    BY <1>1, <1>3, <1>4, NewProduct
<1>6. /\ \A c \in Pid : Kept(c) => Kept(c)'
      /\ \A s \in Session, c \in Pid : (New(s, c)' <=> New(s, c))
    BY <1>1, <1>3, <1>4, NewProduct
<1>7. Apart' /\ \A y \in Item : OneCode(y)'
    BY <1>1, <1>3, <1>4, NewProduct
<1>8. listing' \in [Pid -> [External -> Standing]] /\ ListingsHaveProducts'
    BY <1>1, <1>2, <1>5, <1>6, ReviewKeeps
<1>9. \A y \in Item : Untouched(y)' /\ OneHand(y)'
    BY <1>1, <1>2, <1>5, <1>6, ReviewKeeps
<1>10. TypeOK'
    BY <1>1, <1>5, <1>8 DEF IInv, TypeOK
<1>11. ASSUME NEW t \in Session PROVE SessionInOrder(t)' /\ LinksInOrder(t)'
    <2>1. \A c \in Pid : session[t].made[c] # None => product'[c] = product[c]
        BY <1>5
    <2> QED
        BY <1>1, <1>6, <2>1, ProductsKept
<1> QED
    BY <1>7, <1>8, <1>9, <1>10, <1>11 DEF IInv

-----------------------------------------------------------------------------
(* Theorems                                                                *)

\* Every step keeps the invariant.
LEMMA StepKeeps == IInv /\ [Next]_vars => IInv'
<1> SUFFICES ASSUME IInv, [Next]_vars PROVE IInv'
    OBVIOUS
<1>1. ASSUME NEW i \in Importer, NEW x \in Item, Handle(i, x) PROVE IInv'
    <2>1. CASE Skips(i, x)
        BY <1>1, <2>1, SkippingKeeps
    <2>2. ASSUME NEW p \in Pid, NEW m \in Match, NEW r, Links(i, x, p, r, m) PROVE IInv'
        BY <1>1, <2>2, LinkingKeeps
    <2> QED
        BY <1>1, <2>1, <2>2, SkipsOrLinks
<1>2. CASE UNCHANGED vars
    <2>1. \A t, x : Hand(t, x)' <=> Hand(t, x)
        BY <1>2 DEF Hand, vars
    <2>2. /\ \A c : (Kept(c)' <=> Kept(c)) /\ (Live(c)' <=> Live(c))
          /\ \A t, c : (New(t, c)' <=> New(t, c))
        BY <1>2 DEF Kept, Live, New, vars
    <2>3. TypeOK' /\ Apart' /\ ListingsHaveProducts' /\ \A x \in Item : Untouched(x)'
        BY <1>2 DEF IInv, TypeOK, Apart, ListingsHaveProducts, Untouched, vars
    <2>4. ASSUME NEW t \in Session PROVE SessionInOrder(t)' /\ LinksInOrder(t)'
        BY <1>2, <2>2, ProductsKept DEF vars
    <2>5. ASSUME NEW x \in Item PROVE OneHand(x)' /\ OneCode(x)'
        <3>1. OneHand(x) /\ OneCode(x)
            BY DEF IInv
        <3>2. OneHand(x)'
            BY <1>2, <2>1, <3>1 DEF OneHand, vars
        <3>3. OneCode(x)'
            BY <1>2, <2>2, <3>1 DEF OneCode, vars
        <3> QED
            BY <3>2, <3>3
    <2> QED
        BY <2>3, <2>4, <2>5 DEF IInv
<1> QED
    BY <1>1, <1>2, FetchKeeps, CrashKeeps, CommitKeeps, CreateKeeps, RemoteKeeps, AddKeeps,
       DeleteKeeps, ConfirmKeeps, DeclineKeeps DEF Next

\* So it always holds.
LEMMA Invariant == Spec => []IInv
BY Starting, StepKeeps, PTL DEF Spec

\* Every variable keeps its type: no request writes a row that is not there.
THEOREM TypeCorrect == Spec => []TypeOK
<1>1. IInv => TypeOK
    BY DEF IInv
<1> QED
    BY <1>1, Invariant, PTL

\* A live listing points to a product that was not deleted, or that was
\* deleted while an import or a publication was about to commit a link to it
\* (product_service.py:113).
THEOREM ListedIsThere == Spec => []ListingsHaveProducts
<1>1. IInv => ListingsHaveProducts
    BY DEF IInv
<1> QED
    BY <1>1, Invariant, PTL

\* A set whose elements are equal has one element at most.
LEMMA AtMostOne ==
    ASSUME NEW S, \A a, b \in S : a = b
    PROVE  ~(Cardinality(S) > 1)
<1>1. CASE S = {}
    BY <1>1, FS_EmptySet
<1>2. CASE S # {}
    <2>1. PICK a \in S : TRUE
        BY <1>2
    <2>2. S = {a}
        BY <2>1
    <2>3. Cardinality(S) = 1
        BY <2>2, FS_Singleton
    <2> QED
        BY <2>3
<1> QED
    BY <1>1, <1>2

\* An item has one live listing, unless an import looked at it while another
\* session had just linked or created it (channels.py:394).
THEOREM ItemListedOnce == Spec => []OneListingPerItem
<1>1. ASSUME IInv PROVE OneListingPerItem
    <2> SUFFICES ASSUME NEW x \in Item, x \notin raced PROVE ~(Cardinality(Behind(x)) > 1)
        BY DEF OneListingPerItem
    <2>1. OneHand(x)
        BY <1>1 DEF IInv
    <2>2. \A p, o \in Behind(x) : p = o
        BY <2>1 DEF OneHand, Behind
    <2> QED
        BY <2>2, AtMostOne
<1> QED
    BY <1>1, Invariant, PTL

\* One live product has a channel's code, with the same exception
\* (channels.py:422 reads it with scalar_one_or_none).
THEOREM CodeIsOfOneProduct == Spec => []OneProductPerCode
<1>1. ASSUME IInv PROVE OneProductPerCode
    <2> DEFINE Coded(x) == {p \in Pid : product[p] # None /\ product[p].live
                                         /\ product[p].sku = x}
    <2> SUFFICES ASSUME NEW x \in Item, x \notin raced PROVE ~(Cardinality(Coded(x)) > 1)
        BY DEF OneProductPerCode
    <2>1. OneCode(x)
        BY <1>1 DEF IInv
    <2>2. \A p, o \in Coded(x) : p = o
        BY <2>1 DEF OneCode, Live
    <2> HIDE DEF Coded
    <2> QED
        BY <2>2, AtMostOne
<1> QED
    BY <1>1, Invariant, PTL
=============================================================================
