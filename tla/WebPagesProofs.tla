---------------------------- MODULE WebPagesProofs ----------------------------
(***************************************************************************)
(* Proofs about the web application's pages, for any number of requests in *)
(* flight and any number of rows: the query cache (QueryCache), the pages  *)
(* of an order (OrderPage), of a product (ProductPages) and of a channel   *)
(* item (ListingPages), and the lists (ListPages). The last four are       *)
(* instances of their modules in MCWebPages and MCWebLists; what is proved *)
(* of the specifications there needs only the steps of the instance.       *)
(***************************************************************************)
EXTENDS MCWebPages, MCWebLists, TLAPS, FiniteSetTheorems, WellFoundedInduction

-----------------------------------------------------------------------------
(* The query cache                                                          *)

\* A change of which the page will hear.
Coming == \E c \in Call : call[c].phase = "ok" /\ call[c].changes /\ call[c].tells

Accounted == \A c \in Call : call[c].changes => call[c].tells \/ call[c].untold

\* An outdated answer in the cache is followed by a newer one.
Outdated == ~missed /\ known /\ ~fresh

HeldIsFollowed ==
    Outdated => \/ Coming
                \/ fetching \in {"asked", "current"}
                \/ isInvalidated /\ ~Mounts(page) /\ fetching = "no"

\* An answer that was outdated on its way is followed by a newer one.
AnswerIsFollowed == ~missed /\ fetching = "outdated" => Coming

IInv == TypeOK /\ Accounted /\ HeldIsFollowed /\ AnswerIsFollowed

-----------------------------------------------------------------------------
(* What is invalidated covers what is changed, but for the gaps            *)

\* What a handler of products changes is invalidated by the hooks or is a gap.
LEMMA ProductChangesTold ==
    ASSUME NEW m, NEW k \in ProductChanges(m)
    PROVE  k \in Tells(m) \cup Untold(m)
BY DEF ProductChanges, Tells, Untold, CreateTells, UpdateTells, DeleteTells, PricesTell, ImagesTell, PanelTells,
       ChannelsTell, MatchingTells, Products, Dashboard, Orders, Prices, Resyncs,
       Matching

\* So is what a handler of channels changes.
LEMMA ChannelChangesTold ==
    ASSUME NEW m, NEW k \in ChannelChanges(m)
    PROVE  k \in Tells(m) \cup Untold(m)
BY DEF ChannelChanges, Tells, Untold, ChannelsTell, Products, Dashboard, Orders, Prices

\* So is what a handler of orders, of stock or of settings changes.
LEMMA OtherChangesTold ==
    ASSUME NEW m,
           NEW k \in OrderChanges(m) \cup InventoryChanges(m) \cup SettingChanges(m)
    PROVE  k \in Tells(m) \cup Untold(m)
BY DEF OrderChanges, InventoryChanges, SettingChanges, Tells, Untold, OrdersTell,
       InventoryTells, SettingsTell, Orders, Dashboard, Prices

\* A request that changes a query invalidates it, or it is one of the gaps.
LEMMA ChangesTold ==
    ASSUME NEW m, NEW k \in Changes(m)
    PROVE  k \in Tells(m) \/ k \in Untold(m)
BY ProductChangesTold, ChannelChangesTold, OtherChangesTold DEF Changes

-----------------------------------------------------------------------------
(* Types                                                                   *)

\* A request that is not in flight is a request.
LEMMA IdleTypes == Idle \in Calls
BY DEF Idle, Calls

\* The cache starts with a value of its type.
LEMMA InitTypes == Init => TypeOK
<1> SUFFICES ASSUME Init PROVE TypeOK
    OBVIOUS
<1>1. key \in Key /\ page \in Page /\ fetching \in {"no", "asked", "current", "outdated"}
    BY DEF Init, Page
<1>2. call \in [Call -> Calls]
    BY IdleTypes DEF Init
<1> QED
    BY <1>1, <1>2 DEF Init, TypeOK

\* A step keeps every variable in its type.
LEMMA TypesKept == TypeOK /\ [Next]_vars => TypeOK'
<1> SUFFICES ASSUME TypeOK, [Next]_vars PROVE TypeOK'
    OBVIOUS
<1> USE DEF TypeOK
<1>1. CASE FetchServed \/ FetchDelivered \/ FetchFails
    BY <1>1 DEF FetchServed, FetchDelivered, FetchFails
<1>2. CASE ChangedElsewhere
    BY <1>2 DEF ChangedElsewhere, Outdate
<1>3. CASE \E p \in Page : Visit(p)
    BY <1>3 DEF Visit
<1>4. ASSUME NEW c \in Call, \E m \in Request : Start(c, m) PROVE TypeOK'
    <2> PICK m \in Request : Start(c, m)
        BY <1>4
    <2> DEFINE r == [phase |-> "sent", changes |-> key \in Changes(m),
                     tells |-> key \in Tells(m), untold |-> key \in Untold(m)]
    <2>1. r \in Calls
        BY DEF Calls
    <2> QED
        BY <2>1 DEF Start, query
<1>5. ASSUME NEW c \in Call, Served(c) PROVE TypeOK'
    <2> DEFINE r == [call[c] EXCEPT !.phase = "ok"]
    <2>1. r \in Calls
        BY DEF Calls
    <2>2. call' = [call EXCEPT ![c] = r]
        BY <1>5 DEF Served
    <2> HIDE DEF r
    <2>3. call' \in [Call -> Calls]
        BY <2>1, <2>2
    <2> QED
        BY <1>5, <2>3 DEF Served, Outdate, query, Calls
<1>6. ASSUME NEW c \in Call, Lost(c) PROVE TypeOK'
    <2> DEFINE r == [call[c] EXCEPT !.phase = "error"]
    <2>1. r \in Calls
        BY DEF Calls
    <2>2. call' = [call EXCEPT ![c] = r]
        BY <1>6 DEF Lost
    <2> HIDE DEF r
    <2>3. call' \in [Call -> Calls]
        BY <2>1, <2>2
    <2> QED
        BY <1>6, <2>3 DEF Lost, query
<1>7. ASSUME NEW c \in Call, Succeed(c) \/ Fail(c) PROVE TypeOK'
    <2>1. call' \in [Call -> Calls]
        BY <1>7, IdleTypes DEF Succeed, Fail
    <2> QED
        BY <1>7, <2>1 DEF Succeed, Fail, query
<1>8. CASE UNCHANGED vars
    BY <1>8 DEF vars, query
<1> QED
    BY <1>1, <1>2, <1>3, <1>4, <1>5, <1>6, <1>7, <1>8 DEF Next

-----------------------------------------------------------------------------
(* The steps of a fetch, of a visit, and of a request                      *)

\* A fetch that ends brings a current answer, is followed by one, or fails.
LEMMA FetchKeeps ==
    ASSUME IInv, FetchServed \/ FetchDelivered \/ FetchFails
    PROVE  (Accounted /\ HeldIsFollowed /\ AnswerIsFollowed)'
<1> USE DEF IInv, TypeOK, Accounted, HeldIsFollowed, AnswerIsFollowed, Outdated, Coming
<1>1. CASE FetchServed
    BY <1>1 DEF FetchServed
<1>2. CASE FetchDelivered
    BY <1>2 DEF FetchDelivered
<1>3. CASE FetchFails
    BY <1>3 DEF FetchFails
<1> QED
    BY <1>1, <1>2, <1>3

\* A page that mounts a marked query fetches it; the sidebar is on every page.
LEMMA VisitKeeps ==
    ASSUME IInv, NEW p \in Page, Visit(p)
    PROVE  (Accounted /\ HeldIsFollowed /\ AnswerIsFollowed)'
<1> USE DEF IInv, TypeOK, Accounted, HeldIsFollowed, AnswerIsFollowed, Outdated, Coming
<1>1. UNCHANGED <<key, known, fresh, isInvalidated, call, missed>> /\ page' = p
    BY DEF Visit
<1>2. fetching' # fetching => fetching = "no" /\ fetching' = "asked"
    BY DEF Visit
<1>3. isInvalidated /\ fetching = "no" /\ key \in Reads(p) => fetching' = "asked"
    BY DEF Visit
<1>4. ~Mounts(page) /\ key \notin Reads(p) => ~(Mounts(page)')
    BY <1>1 DEF Mounts
<1> QED
    BY <1>1, <1>2, <1>3, <1>4

\* A request that starts changes nothing yet, and accounts for what it will.
LEMMA StartKeeps ==
    ASSUME IInv, NEW c \in Call, NEW m \in Request, Start(c, m)
    PROVE  (Accounted /\ HeldIsFollowed /\ AnswerIsFollowed)'
<1>1. UNCHANGED <<key, page, known, fresh, isInvalidated, fetching, missed>>
    BY DEF Start, query
<1>2. /\ call'[c].phase = "sent"
      /\ call'[c].changes => call'[c].tells \/ call'[c].untold
      /\ \A d \in Call \ {c} : call'[d] = call[d]
    BY ChangesTold DEF Start, IInv, TypeOK
<1>3. Coming => Coming'
    BY <1>2 DEF Coming, Start
<1>4. Mounts(page)' = Mounts(page)
    BY <1>1 DEF Mounts
<1> QED
    BY <1>1, <1>2, <1>3, <1>4
    DEF IInv, Accounted, HeldIsFollowed, AnswerIsFollowed, Outdated

\* What a request has changed will be told, or is a gap.
LEMMA ServedKeeps ==
    ASSUME IInv, NEW c \in Call, Served(c)
    PROVE  (Accounted /\ HeldIsFollowed /\ AnswerIsFollowed)'
<1>1. /\ call'[c].phase = "ok" /\ call'[c].changes = call[c].changes
      /\ call'[c].tells = call[c].tells /\ call'[c].untold = call[c].untold
      /\ \A d \in Call \ {c} : call'[d] = call[d]
    BY DEF Served, IInv, TypeOK, Calls
<1>2. Accounted'
    BY <1>1 DEF Accounted, IInv
<1>3. Coming => Coming'
    BY <1>1 DEF Coming, Served
<1>4. CASE call[c].changes
    <2>1. ~missed' => Coming'
        BY <1>1, <1>4 DEF Served, Coming, IInv, Accounted
    <2> QED
        BY <1>2, <2>1 DEF HeldIsFollowed, AnswerIsFollowed, Outdated
<1>5. CASE ~call[c].changes
    <2>1. UNCHANGED <<key, page, known, fresh, isInvalidated, fetching, missed>>
        BY <1>5 DEF Served, query
    <2>2. Mounts(page)' = Mounts(page)
        BY <2>1 DEF Mounts
    <2> QED
        BY <1>2, <1>3, <2>1, <2>2
        DEF IInv, HeldIsFollowed, AnswerIsFollowed, Outdated
<1> QED
    BY <1>4, <1>5

\* A lost answer takes its news along, and is one of the ways to miss a change.
LEMMA LostKeeps ==
    ASSUME IInv, NEW c \in Call, Lost(c)
    PROVE  (Accounted /\ HeldIsFollowed /\ AnswerIsFollowed)'
<1>1. /\ call'[c].phase = "error" /\ call'[c].changes = call[c].changes
      /\ call'[c].tells = call[c].tells /\ call'[c].untold = call[c].untold
      /\ \A d \in Call \ {c} : call'[d] = call[d]
    BY DEF Lost, IInv, TypeOK, Calls
<1>2. UNCHANGED <<key, page, known, fresh, isInvalidated, fetching>>
    BY DEF Lost, query
<1>3. ~missed' => ~missed /\ call[c].phase = "sent"
    BY DEF Lost
<1>4. ~missed' /\ Coming => Coming'
    BY <1>1, <1>3 DEF Coming
<1>5. Mounts(page)' = Mounts(page)
    BY <1>2 DEF Mounts
<1> QED
    BY <1>1, <1>2, <1>3, <1>4, <1>5
    DEF IInv, Accounted, HeldIsFollowed, AnswerIsFollowed, Outdated

\* A success that tells the query leaves it marked, and fetched if it is mounted.
LEMMA SucceedKeeps ==
    ASSUME IInv, NEW c \in Call, Succeed(c)
    PROVE  (Accounted /\ HeldIsFollowed /\ AnswerIsFollowed)'
<1>1. /\ call'[c] = Idle
      /\ \A d \in Call \ {c} : call'[d] = call[d]
    BY DEF Succeed, IInv, TypeOK
<1>2. UNCHANGED <<key, page, known, fresh>> /\ Mounts(page)' = Mounts(page)
    BY DEF Succeed, Mounts
<1>3. Accounted'
    BY <1>1 DEF Accounted, IInv, Idle
<1>4. CASE call[c].tells
    <2>1. /\ isInvalidated' = TRUE
          /\ Mounts(page) => fetching' = "asked"
          /\ ~Mounts(page) => fetching' = fetching
          /\ ~missed' => Mounts(page) \/ fetching = "no"
        BY <1>4 DEF Succeed
    <2> QED
        BY <1>2, <1>3, <2>1 DEF HeldIsFollowed, AnswerIsFollowed, Outdated
<1>5. CASE ~call[c].tells
    <2>1. UNCHANGED <<isInvalidated, fetching, missed>>
        BY <1>5 DEF Succeed
    <2>2. Coming => Coming'
        BY <1>1, <1>5 DEF Coming
    <2> QED
        BY <1>2, <1>3, <2>1, <2>2
        DEF IInv, HeldIsFollowed, AnswerIsFollowed, Outdated
<1> QED
    BY <1>4, <1>5

\* A failure changed nothing, or the change was missed already.
LEMMA FailKeeps ==
    ASSUME IInv, NEW c \in Call, Fail(c)
    PROVE  (Accounted /\ HeldIsFollowed /\ AnswerIsFollowed)'
<1>1. /\ call'[c] = Idle
      /\ \A d \in Call \ {c} : call'[d] = call[d]
    BY DEF Fail, IInv, TypeOK
<1>2. UNCHANGED <<key, page, known, fresh, isInvalidated, fetching, missed>>
      /\ Mounts(page)' = Mounts(page)
    BY DEF Fail, query, Mounts
<1>3. Coming => Coming'
    BY <1>1 DEF Coming, Fail
<1>4. Accounted'
    BY <1>1 DEF Accounted, IInv, Idle
<1> QED
    BY <1>2, <1>3, <1>4
    DEF IInv, HeldIsFollowed, AnswerIsFollowed, Outdated

\* What others change is missed.
LEMMA ElsewhereKeeps ==
    ASSUME IInv, ChangedElsewhere
    PROVE  (Accounted /\ HeldIsFollowed /\ AnswerIsFollowed)'
BY DEF IInv, Accounted, HeldIsFollowed, AnswerIsFollowed, Outdated, ChangedElsewhere

-----------------------------------------------------------------------------
(* The theorems                                                            *)

\* Nothing is in the cache at the start, so nothing has to follow.
LEMMA InitIInv == Init => IInv
<1>1. Init => Accounted
    BY DEF Init, Accounted, Idle
<1>2. Init => HeldIsFollowed /\ AnswerIsFollowed
    BY DEF Init, HeldIsFollowed, AnswerIsFollowed, Outdated
<1> QED
    BY <1>1, <1>2, InitTypes DEF IInv

\* The invariant is inductive.
LEMMA NextIInv == IInv /\ [Next]_vars => IInv'
<1> SUFFICES ASSUME IInv, [Next]_vars PROVE IInv'
    OBVIOUS
<1>1. TypeOK'
    BY TypesKept DEF IInv
<1>2. CASE UNCHANGED vars
    BY <1>2 DEF vars, query, IInv, TypeOK, Accounted, HeldIsFollowed, AnswerIsFollowed,
                Outdated, Coming, Mounts
<1>3. CASE Next
    BY <1>1, <1>3, FetchKeeps, VisitKeeps, StartKeeps, ServedKeeps, LostKeeps,
       SucceedKeeps, FailKeeps, ElsewhereKeeps DEF Next, IInv
<1> QED
    BY <1>2, <1>3

\* Every variable of the query cache keeps its type.
THEOREM TypeCorrect == Spec => []TypeOK
<1>1. IInv => TypeOK
    BY DEF IInv
<1> QED
    BY InitIInv, NextIInv, <1>1, PTL DEF Spec

\* Whatever the seller does, in every order of answers, fetches and visits, and
\* with any number of requests in flight: once nothing is on its way, what a page
\* shows is what the server would answer, but for the gaps, others and losses.
THEOREM CacheIsCurrent == Spec => []AnswersAreCurrent
<1>1. IInv => AnswersAreCurrent
    <2> SUFFICES ASSUME IInv, \A c \in Call : call[c].phase = "idle", fetching = "no",
                        known, ~missed, ~fresh
                 PROVE  isInvalidated /\ ~Mounts(page)
        BY DEF AnswersAreCurrent
    <2>1. ~Coming
        BY DEF Coming
    <2> QED
        BY <2>1 DEF IInv, HeldIsFollowed, Outdated
<1> QED
    BY InitIInv, NextIInv, <1>1, PTL DEF Spec

-----------------------------------------------------------------------------
(* The page of an order                                                    *)

\* A change of the order of which its page will hear.
OrderNews == \E c \in Call : request[c].phase \in {"ok", "half"}

\* An old order in the cache is followed by a newer one.
OrderHeld ==
    ~behind /\ cached # order =>
        \/ OrderNews
        \/ answer = Asked \/ answer = order
        \/ ~mounted /\ answer = NoValue /\ (outdated \/ cached = NoValue)

\* So is an order that was old on its way.
OrderAnswer == ~behind /\ answer \in O!Order /\ answer # order => OrderNews

\* A dialog covers an order that is drawn.
OrderDialog == dialog # "none" => cached # NoValue

Carries(c) == O!Active(c) /\ request[c].number # NoValue

\* A number is on its way from the edit dialog and between the two commits.
NumberSent ==
    \A c \in Call : \/ O!Active(c) /\ request[c].from = "edit"
                    \/ request[c].phase = "half"
                    => request[c].number # NoValue

\* Numbers that do not overlap: one is on its way, none reported since, and
\* once it is committed it is the order's.
NumberAlone ==
    ~overlap => /\ \A c, d \in Call : Carries(c) /\ Carries(d) => c = d
                /\ \A c \in Call : Carries(c) => confirmed = NoValue
                /\ \A c \in Call : Carries(c) /\ request[c].phase = "ok"
                                       => order.number = request[c].number

OrderRows == OrderDialog /\ OrderHeld /\ OrderAnswer
OrderNumbers == NumberSent /\ NumberAlone /\ NumberKept
OrderInv == O!TypeOK /\ OrderRows /\ OrderNumbers


LEMMA OrderIdle == O!Idle \in O!Calls /\ O!Idle.phase = "idle"
BY DEF O!Idle, O!Calls, O!Status

LEMMA OrderInitInv == O!Init => OrderInv
<1> SUFFICES ASSUME O!Init PROVE OrderInv
    OBVIOUS
<1>1. /\ order \in [status : O!Status, number : {NoValue}] /\ imports = 0
      /\ request = [c \in Call |-> O!Idle] /\ sent = 0
      /\ cached = NoValue /\ outdated = FALSE /\ answer = Asked
      /\ dialog = "none" /\ pendingStatus = "PAID" /\ field = NoValue
      /\ confirmed = NoValue
    BY DEF O!Init
<1>2. mounted = TRUE /\ behind = FALSE /\ overlap = FALSE
    BY DEF O!Init
<1>3. request \in [Call -> O!Calls]
    BY <1>1, OrderIdle
<1>4. order \in O!Order
    BY <1>1 DEF O!Order
<1>5. O!TypeOK
    <2>1. imports \in 0 .. MaxImports /\ sent \in 0 .. MaxCalls
        BY <1>1, PagesAssumption
    <2>2. pendingStatus \in O!Status
        BY <1>1 DEF O!Status
    <2>3. /\ mounted \in BOOLEAN /\ outdated \in BOOLEAN /\ behind \in BOOLEAN /\ overlap \in BOOLEAN
          /\ cached \in O!Order \cup {NoValue} /\ answer \in O!Order \cup {NoValue, Asked}
          /\ field \in Number \cup {NoValue} /\ confirmed \in Number \cup {NoValue}
          /\ dialog \in {"none", "status", "ship", "edit"}
        BY <1>1, <1>2
    <2> QED
        BY <1>3, <1>4, <2>1, <2>2, <2>3 DEF O!TypeOK
<1>6. OrderRows
    BY <1>1, <1>2, PagesAssumption DEF OrderRows, OrderDialog, OrderHeld, OrderAnswer
<1>7. \A c \in Call : request[c] = O!Idle
    BY <1>1
<1>8. OrderNumbers
    BY <1>1, <1>7, OrderIdle DEF OrderNumbers, NumberSent, NumberAlone, Carries, O!Active, NumberKept, O!NumberKept
<1> QED
    BY <1>5, <1>6, <1>8 DEF OrderInv

\* What speaks of numbers is kept where the requests, the row and the report are.
LEMMA OrderNumbersStay ==
    ASSUME OrderInv, UNCHANGED <<request, order, confirmed, overlap>>
    PROVE  OrderNumbers'
BY DEF OrderInv, OrderNumbers, NumberSent, NumberAlone, Carries, O!Active, NumberKept, O!NumberKept

LEMMA OrderFetchKeeps ==
    ASSUME OrderInv, O!FetchServed \/ O!FetchDelivered \/ O!FetchFails \/ O!Return
    PROVE  OrderInv'
<1>1. UNCHANGED <<order, imports, request, sent, confirmed, overlap, dialog, pendingStatus>>
    BY DEF O!FetchServed, O!FetchDelivered, O!FetchFails, O!Return, O!form, O!Redraw, O!server
<1>2. OrderNumbers'
    BY <1>1, OrderNumbersStay
<1>3. OrderNews' = OrderNews
    BY <1>1 DEF OrderNews
<1>4. CASE O!FetchServed
    <2>1. answer' = order /\ behind' = FALSE /\ UNCHANGED <<mounted, cached, outdated, field>>
        BY <1>4 DEF O!FetchServed, O!form
    <2>2. O!TypeOK'
        BY <1>1, <2>1 DEF OrderInv, O!TypeOK
    <2>3. OrderRows'
        BY <1>1, <2>1 DEF OrderInv, OrderRows, OrderDialog, OrderHeld, OrderAnswer
    <2> QED
        BY <1>2, <2>2, <2>3 DEF OrderInv
<1>5. CASE O!FetchDelivered
    <2>1. /\ answer \in O!Order /\ cached' = answer /\ outdated' = FALSE /\ answer' = NoValue
          /\ UNCHANGED <<mounted, behind>>
        BY <1>5 DEF O!FetchDelivered
    <2>2. field' \in Number \cup {NoValue}
        BY <1>5 DEF O!FetchDelivered, O!Redraw, O!form, O!Order, OrderInv, O!TypeOK
    <2>3. O!TypeOK'
        BY <1>1, <2>1, <2>2 DEF OrderInv, O!TypeOK
    <2>4. OrderRows'
        BY <1>1, <1>3, <2>1, PagesAssumption DEF OrderInv, OrderRows, OrderDialog, OrderHeld, OrderAnswer
    <2> QED
        BY <1>2, <2>3, <2>4 DEF OrderInv
<1>6. CASE O!FetchFails
    <2>1. answer' = NoValue /\ behind' = TRUE /\ UNCHANGED <<mounted, cached, outdated, field>>
        BY <1>6 DEF O!FetchFails, O!form
    <2>2. O!TypeOK'
        BY <1>1, <2>1 DEF OrderInv, O!TypeOK
    <2>3. OrderRows'
        BY <1>1, <2>1 DEF OrderInv, OrderRows, OrderDialog, OrderHeld, OrderAnswer
    <2> QED
        BY <1>2, <2>2, <2>3 DEF OrderInv
<1>7. CASE O!Return
    <2>1. /\ ~mounted /\ mounted' = TRUE /\ UNCHANGED <<cached, outdated, field, behind>>
          /\ \/ answer' = answer /\ ~(answer = NoValue /\ (outdated \/ cached = NoValue))
             \/ answer' = Asked /\ answer = NoValue
        BY <1>7 DEF O!Return, O!form
    <2>2. O!TypeOK'
        BY <1>1, <2>1 DEF OrderInv, O!TypeOK
    <2>3. OrderDialog' /\ OrderAnswer'
        BY <1>1, <1>3, <2>1, PagesAssumption DEF OrderInv, OrderRows, OrderDialog, OrderAnswer
    <2>4. OrderHeld'
        BY <1>1, <1>3, <2>1, PagesAssumption DEF OrderInv, OrderRows, OrderHeld
    <2> QED
        BY <1>2, <2>2, <2>3, <2>4 DEF OrderInv, OrderRows
<1> QED
    BY <1>4, <1>5, <1>6, <1>7

\* A dialog opens over a drawn order, and its field starts with null or its number.
LEMMA OrderOpenKeeps ==
    ASSUME OrderInv, NEW d \in {"status", "ship", "edit"}, NEW s \in O!Status, O!Open(d, s)
    PROVE  OrderInv'
<1>1. /\ cached # NoValue /\ dialog' = d /\ pendingStatus' = s /\ field' = O!InitialField(d)
      /\ UNCHANGED <<order, imports, request, sent, mounted, cached, outdated, answer,
                     behind, confirmed, overlap>>
    BY DEF O!Open, O!Drawn, O!server, O!cache
<1>2. OrderNumbers'
    BY <1>1, OrderNumbersStay
<1>3. O!InitialField(d) \in Number \cup {NoValue}
    BY <1>1 DEF O!InitialField, OrderInv, O!TypeOK, O!Order
<1>4. O!TypeOK'
    BY <1>1, <1>3 DEF OrderInv, O!TypeOK
<1>5. OrderRows'
    BY <1>1 DEF OrderInv, OrderRows, OrderDialog, OrderHeld, OrderAnswer, OrderNews
<1> QED
    BY <1>2, <1>4, <1>5 DEF OrderInv

\* Typing and closing leave the order and the requests alone.
LEMMA OrderTypeKeeps ==
    ASSUME OrderInv, O!Type \/ O!Close
    PROVE  OrderInv'
<1>1. /\ UNCHANGED <<order, imports, request, sent, mounted, cached, outdated, answer,
                     behind, confirmed, overlap>>
      /\ dialog' = dialog \/ dialog' = "none"
      /\ dialog \in {"none", "status", "ship", "edit"} => dialog' \in {"none", "status", "ship", "edit"}
    BY DEF O!Type, O!Close, O!Shut, O!server, O!cache
<1>2. field' \in Number \cup {NoValue} /\ pendingStatus' \in O!Status
    BY DEF O!Type, O!Close, O!Shut, OrderInv, O!TypeOK, O!Status
<1>3. OrderNumbers'
    BY <1>1, OrderNumbersStay
<1>4. O!TypeOK'
    BY <1>1, <1>2 DEF OrderInv, O!TypeOK
<1>5. OrderRows'
    BY <1>1 DEF OrderInv, OrderRows, OrderDialog, OrderHeld, OrderAnswer, OrderNews
<1> QED
    BY <1>3, <1>4, <1>5 DEF OrderInv

\* Leaving the page keeps the phases and the numbers of its requests.
LEMMA OrderLeaveKeeps ==
    ASSUME OrderInv, O!Leave
    PROVE  OrderInv'
<1>1. /\ mounted /\ mounted' = FALSE /\ dialog' = "none" /\ pendingStatus' = "PAID" /\ field' = NoValue
      /\ UNCHANGED <<order, imports, sent, cached, outdated, answer, behind, confirmed, overlap>>
    BY DEF O!Leave, O!Shut, O!server, O!cache
<1>2. request' \in [Call -> O!Calls]
    <2>1. \A c \in Call : [request[c] EXCEPT !.mine = FALSE] \in O!Calls
        BY DEF OrderInv, O!TypeOK, O!Calls
    <2> QED
        BY <2>1 DEF O!Leave
<1>3. \A c \in Call : /\ request'[c].phase = request[c].phase /\ request'[c].number = request[c].number
                      /\ request'[c].from = request[c].from
    BY DEF O!Leave, OrderInv, O!TypeOK, O!Calls
<1>4. O!TypeOK'
    BY <1>1, <1>2 DEF OrderInv, O!TypeOK, O!Status
<1>5. OrderNews' = OrderNews
    BY <1>3 DEF OrderNews
<1>6. OrderRows'
    BY <1>1, <1>5 DEF OrderInv, OrderRows, OrderDialog, OrderHeld, OrderAnswer
<1>7. OrderNumbers'
    BY <1>1, <1>3 DEF OrderInv, OrderNumbers, NumberSent, NumberAlone, Carries, O!Active, NumberKept, O!NumberKept
<1> QED
    BY <1>4, <1>6, <1>7 DEF OrderInv

\* A request is sent from an open dialog; with a number, all that was reported is off.
LEMMA OrderSendKeeps ==
    ASSUME OrderInv, NEW c \in Call, NEW n \in Number \cup {NoValue}, O!Send(c, n),
           dialog = "edit" => n # NoValue
    PROVE  OrderInv'
<1> DEFINE r == [phase |-> "sent", from |-> dialog, mine |-> TRUE,
                 status |-> pendingStatus, number |-> n]
<1>1. /\ dialog # "none" /\ ~O!Active(c) /\ sent < MaxCalls /\ sent' = sent + 1
      /\ request' = [request EXCEPT ![c] = r]
      /\ UNCHANGED <<order, imports, mounted, cached, outdated, answer, behind, dialog, pendingStatus>>
    BY DEF O!Send, O!Redraw, O!server, O!cache
<1>2. r \in O!Calls
    BY DEF OrderInv, O!TypeOK, O!Calls
<1>3. request' \in [Call -> O!Calls]
    BY <1>1, <1>2 DEF OrderInv, O!TypeOK
<1>4. /\ request'[c].phase = "sent" /\ request'[c].number = n /\ request'[c].from = dialog
      /\ \A d \in Call \ {c} : request'[d] = request[d]
    BY <1>1 DEF OrderInv, O!TypeOK
<1>5. field' \in Number \cup {NoValue}
    BY <1>1 DEF O!Send, O!Redraw, OrderInv, O!TypeOK, O!Order, OrderRows, OrderDialog
<1>6. sent' \in 0 .. MaxCalls
    BY <1>1, PagesAssumption DEF OrderInv, O!TypeOK
<1>7. confirmed' = (IF n = NoValue THEN confirmed ELSE NoValue)
    BY DEF O!Send
<1>8. IF n = NoValue THEN overlap' = overlap
      ELSE overlap' = \E d \in Call : Carries(d)
    BY DEF O!Send, Carries
<1>9. overlap' \in BOOLEAN
    BY <1>8 DEF OrderInv, O!TypeOK
<1>10. O!TypeOK'
    BY <1>1, <1>3, <1>5, <1>6, <1>7, <1>9 DEF OrderInv, O!TypeOK
<1>11. OrderNews' = OrderNews
    BY <1>1, <1>4 DEF OrderNews, O!Active
<1>12. OrderRows'
    BY <1>1, <1>11 DEF OrderInv, OrderRows, OrderDialog, OrderHeld, OrderAnswer
<1>13. NumberSent'
    BY <1>4 DEF NumberSent, OrderInv, OrderNumbers, O!Active
<1>14. /\ Carries(c)' <=> n # NoValue
       /\ ~Carries(c)
       /\ \A d \in Call \ {c} : Carries(d)' <=> Carries(d)
    BY <1>1, <1>4 DEF Carries, O!Active
<1>15. NumberAlone'
    <2>1. CASE n = NoValue
        BY <2>1, <1>1, <1>4, <1>7, <1>8, <1>14 DEF NumberAlone, OrderInv, OrderNumbers
    <2>2. CASE n # NoValue
        BY <2>2, <1>1, <1>4, <1>7, <1>8, <1>14 DEF NumberAlone
    <2> QED
        BY <2>1, <2>2
<1>16. NumberKept'
    BY <1>1, <1>7, <1>8 DEF NumberKept, O!NumberKept, OrderInv, OrderNumbers
<1> QED
    BY <1>10, <1>12, <1>13, <1>15, <1>16 DEF OrderInv, OrderNumbers

\* The status is committed: the page will hear of it, and the number stays.
LEMMA OrderTransitionKeeps ==
    ASSUME OrderInv, NEW c \in Call, O!Transition(c)
    PROVE  OrderInv'
<1> DEFINE r == [request[c] EXCEPT !.phase = IF request[c].number = NoValue THEN "ok" ELSE "half"]
<1>1. /\ request[c].phase = "sent" /\ request[c].from # "edit"
      /\ order' = [order EXCEPT !.status = request[c].status]
      /\ request' = [request EXCEPT ![c] = r]
      /\ UNCHANGED <<imports, sent, mounted, cached, outdated, answer, dialog, pendingStatus, field,
                     behind, confirmed, overlap>>
    BY DEF O!Transition, O!StatusCommitted, O!cache, O!form
<1>2. r \in O!Calls /\ request[c].status \in O!Status
    BY DEF OrderInv, O!TypeOK, O!Calls
<1>3. /\ r.phase = IF request[c].number = NoValue THEN "ok" ELSE "half"
      /\ r.from = request[c].from /\ r.number = request[c].number
    BY DEF OrderInv, O!TypeOK, O!Calls
<1> HIDE DEF r
<1>4. request' \in [Call -> O!Calls] /\ request'[c] = r
      /\ \A d \in Call \ {c} : request'[d] = request[d]
    BY <1>1, <1>2 DEF OrderInv, O!TypeOK
<1>5. order' \in O!Order /\ order'.number = order.number
    BY <1>1, <1>2 DEF OrderInv, O!TypeOK, O!Order
<1>6. O!TypeOK'
    BY <1>1, <1>4, <1>5 DEF OrderInv, O!TypeOK
<1>7. OrderNews'
    BY <1>3, <1>4 DEF OrderNews
<1>8. OrderRows'
    BY <1>1, <1>7 DEF OrderInv, OrderRows, OrderDialog, OrderHeld, OrderAnswer
<1>9. NumberSent'
    BY <1>1, <1>3, <1>4 DEF NumberSent, OrderInv, OrderNumbers, O!Active
<1>10. \A d \in Call : Carries(d)' <=> Carries(d)
    BY <1>1, <1>3, <1>4 DEF Carries, O!Active
<1>11. NumberAlone'
    BY <1>1, <1>3, <1>4, <1>5, <1>10 DEF NumberAlone, OrderInv, OrderNumbers, Carries
<1>12. NumberKept'
    BY <1>1, <1>5 DEF NumberKept, O!NumberKept, OrderInv, OrderNumbers
<1> QED
    BY <1>6, <1>8, <1>9, <1>11, <1>12 DEF OrderInv, OrderNumbers

\* The number is committed by the only request that carries one, unless they overlap.
LEMMA OrderNumberKeeps ==
    ASSUME OrderInv, NEW c \in Call, O!NumberCommitted(c)
    PROVE  OrderInv'
<1> DEFINE r == [request[c] EXCEPT !.phase = "ok"]
<1>1. /\ request[c].phase = "half" \/ (request[c].phase = "sent" /\ request[c].from = "edit")
      /\ order' = [order EXCEPT !.number = request[c].number]
      /\ request' = [request EXCEPT ![c] = r]
      /\ UNCHANGED <<imports, sent, mounted, cached, outdated, answer, dialog, pendingStatus, field,
                     behind, confirmed, overlap>>
    BY DEF O!NumberCommitted, O!cache, O!form
<1>2. r \in O!Calls /\ request[c].number \in Number \cup {NoValue}
    BY DEF OrderInv, O!TypeOK, O!Calls
<1>3. r.phase = "ok" /\ r.from = request[c].from /\ r.number = request[c].number
    BY DEF OrderInv, O!TypeOK, O!Calls
<1> HIDE DEF r
<1>4. request' \in [Call -> O!Calls] /\ request'[c] = r
      /\ \A d \in Call \ {c} : request'[d] = request[d]
    BY <1>1, <1>2 DEF OrderInv, O!TypeOK
<1>5. order' \in O!Order /\ order'.number = request[c].number
    BY <1>1, <1>2 DEF OrderInv, O!TypeOK, O!Order
<1>6. O!TypeOK'
    BY <1>1, <1>4, <1>5 DEF OrderInv, O!TypeOK
<1>7. OrderNews'
    BY <1>3, <1>4 DEF OrderNews
<1>8. OrderRows'
    BY <1>1, <1>7 DEF OrderInv, OrderRows, OrderDialog, OrderHeld, OrderAnswer
<1>9. NumberSent'
    BY <1>1, <1>3, <1>4 DEF NumberSent, OrderInv, OrderNumbers, O!Active
<1>10. \A d \in Call : Carries(d)' <=> Carries(d)
    BY <1>1, <1>3, <1>4 DEF Carries, O!Active
<1>11. Carries(c)
    BY <1>1 DEF Carries, NumberSent, OrderInv, OrderNumbers, O!Active
<1>12. NumberAlone'
    BY <1>1, <1>3, <1>4, <1>5, <1>10, <1>11 DEF NumberAlone, OrderInv, OrderNumbers
<1>13. NumberKept'
    BY <1>1, <1>11 DEF NumberKept, O!NumberKept, NumberAlone, OrderInv, OrderNumbers
<1> QED
    BY <1>6, <1>8, <1>9, <1>12, <1>13 DEF OrderInv, OrderNumbers

\* A request that is refused changed nothing; one that is lost took its news along.
LEMMA OrderErrorKeeps ==
    ASSUME OrderInv, NEW c \in Call, O!Refuse(c) \/ O!Lose(c)
    PROVE  OrderInv'
<1> DEFINE r == [request[c] EXCEPT !.phase = "error"]
<1>1. /\ request[c].phase \in {"sent", "half", "ok"}
      /\ request' = [request EXCEPT ![c] = r]
      /\ UNCHANGED <<order, imports, sent, mounted, cached, outdated, answer, dialog, pendingStatus, field,
                     confirmed, overlap>>
      /\ behind' \in BOOLEAN
      /\ ~behind' => ~behind /\ request[c].phase = "sent"
    BY DEF O!Refuse, O!Lose, O!cache, O!form, O!server, OrderInv, O!TypeOK
<1>2. r \in O!Calls /\ r.phase = "error" /\ r.from = request[c].from /\ r.number = request[c].number
    BY DEF OrderInv, O!TypeOK, O!Calls
<1> HIDE DEF r
<1>3. request' \in [Call -> O!Calls] /\ request'[c] = r
      /\ \A d \in Call \ {c} : request'[d] = request[d]
    BY <1>1, <1>2 DEF OrderInv, O!TypeOK
<1>4. O!TypeOK'
    BY <1>1, <1>3 DEF OrderInv, O!TypeOK
<1>5. ~behind' /\ OrderNews => OrderNews'
    BY <1>1, <1>3 DEF OrderNews
<1>6. OrderRows'
    BY <1>1, <1>5 DEF OrderInv, OrderRows, OrderDialog, OrderHeld, OrderAnswer
<1>7. NumberSent'
    BY <1>1, <1>2, <1>3 DEF NumberSent, OrderInv, OrderNumbers, O!Active
<1>8. \A d \in Call : Carries(d)' <=> Carries(d)
    BY <1>1, <1>2, <1>3 DEF Carries, O!Active
<1>9. NumberAlone'
    BY <1>1, <1>2, <1>3, <1>8 DEF NumberAlone, OrderInv, OrderNumbers
<1>10. NumberKept'
    BY <1>1 DEF NumberKept, O!NumberKept, OrderInv, OrderNumbers
<1> QED
    BY <1>4, <1>6, <1>7, <1>9, <1>10 DEF OrderInv, OrderNumbers

\* A success fetches an open page again and marks the query of a closed one.
LEMMA OrderSucceedKeeps ==
    ASSUME OrderInv, NEW c \in Call, O!Succeed(c)
    PROVE  OrderInv'
<1>1. /\ request[c].phase = "ok" /\ request' = [request EXCEPT ![c] = O!Idle]
      /\ UNCHANGED <<order, imports, sent, mounted, cached, overlap>>
    BY DEF O!Succeed, O!Invalidate, O!server
<1>2. outdated' = TRUE /\ (mounted => answer' = Asked) /\ (~mounted => answer' = answer)
    BY DEF O!Succeed, O!Invalidate
<1>3. behind' \in BOOLEAN /\ (~behind' => ~behind /\ (mounted \/ answer = NoValue))
    BY DEF O!Succeed, O!Invalidate, OrderInv, O!TypeOK
<1>4. /\ dialog' \in {dialog, "none"} /\ pendingStatus' \in O!Status
      /\ field' \in Number \cup {NoValue}
    BY DEF O!Succeed, O!Shut, O!Redraw, OrderInv, O!TypeOK, O!Order, O!Status, OrderRows, OrderDialog
<1>5. request' \in [Call -> O!Calls] /\ request'[c] = O!Idle
      /\ \A d \in Call \ {c} : request'[d] = request[d]
    BY <1>1, OrderIdle DEF OrderInv, O!TypeOK
<1>6. confirmed' = (IF request[c].number = NoValue THEN confirmed ELSE request[c].number)
    BY DEF O!Succeed
<1>7. confirmed' \in Number \cup {NoValue}
    BY <1>6 DEF OrderInv, O!TypeOK, O!Calls
<1>8. answer' \in O!Order \cup {NoValue, Asked} /\ outdated' \in BOOLEAN
      /\ dialog' \in {"none", "status", "ship", "edit"}
    BY <1>2, <1>4 DEF OrderInv, O!TypeOK
<1>9. O!TypeOK'
    BY <1>1, <1>3, <1>4, <1>5, <1>7, <1>8 DEF OrderInv, O!TypeOK
<1>10. OrderRows'
    BY <1>1, <1>2, <1>3, <1>4, PagesAssumption
    DEF OrderInv, O!TypeOK, OrderRows, OrderDialog, OrderHeld, OrderAnswer
<1>11. NumberSent'
    BY <1>5, OrderIdle DEF NumberSent, OrderInv, OrderNumbers, O!Active
<1>12. ~Carries(c)' /\ \A d \in Call \ {c} : Carries(d)' <=> Carries(d)
    BY <1>5, OrderIdle DEF Carries, O!Active
<1>13. NumberAlone' /\ NumberKept'
    <2>1. CASE request[c].number = NoValue
        BY <2>1, <1>1, <1>5, <1>6, <1>12 DEF NumberAlone, NumberKept, O!NumberKept, OrderInv, OrderNumbers
    <2>2. CASE request[c].number # NoValue
        <3>1. Carries(c)
            BY <2>2, <1>1 DEF Carries, O!Active
        <3>2. ~overlap => /\ \A d \in Call : ~Carries(d)'
                          /\ order.number = request[c].number
            BY <3>1, <1>1, <1>12 DEF NumberAlone, OrderInv, OrderNumbers
        <3> QED
            BY <2>2, <3>2, <1>1, <1>6 DEF NumberAlone, NumberKept, O!NumberKept
    <2> QED
        BY <2>1, <2>2
<1> QED
    BY <1>9, <1>10, <1>11, <1>13 DEF OrderInv, OrderNumbers

\* A failure leaves the order and the cache as they are.
LEMMA OrderFailKeeps ==
    ASSUME OrderInv, NEW c \in Call, O!Fail(c)
    PROVE  OrderInv'
<1>1. /\ request[c].phase = "error" /\ request' = [request EXCEPT ![c] = O!Idle]
      /\ UNCHANGED <<order, imports, sent, mounted, cached, outdated, answer, dialog, pendingStatus,
                     behind, confirmed, overlap>>
    BY DEF O!Fail, O!Redraw, O!server, O!cache
<1>2. field' \in Number \cup {NoValue}
    BY DEF O!Fail, O!Redraw, OrderInv, O!TypeOK, O!Order, OrderRows, OrderDialog
<1>3. request' \in [Call -> O!Calls] /\ request'[c] = O!Idle
      /\ \A d \in Call \ {c} : request'[d] = request[d]
    BY <1>1, OrderIdle DEF OrderInv, O!TypeOK
<1>4. O!TypeOK'
    BY <1>1, <1>2, <1>3 DEF OrderInv, O!TypeOK
<1>5. OrderNews' = OrderNews
    BY <1>1, <1>3, OrderIdle DEF OrderNews
<1>6. OrderRows'
    BY <1>1, <1>5 DEF OrderInv, OrderRows, OrderDialog, OrderHeld, OrderAnswer
<1>7. NumberSent'
    BY <1>3, OrderIdle DEF NumberSent, OrderInv, OrderNumbers, O!Active
<1>8. ~Carries(c)' /\ \A d \in Call \ {c} : Carries(d)' <=> Carries(d)
    BY <1>3, OrderIdle DEF Carries, O!Active
<1>9. NumberAlone' /\ NumberKept'
    BY <1>1, <1>3, <1>8 DEF NumberAlone, NumberKept, O!NumberKept, OrderInv, OrderNumbers
<1> QED
    BY <1>4, <1>6, <1>7, <1>9 DEF OrderInv, OrderNumbers

\* The import leaves the number, and nobody tells the page.
LEMMA OrderImportKeeps ==
    ASSUME OrderInv, O!Import
    PROVE  OrderInv'
<1>1. PICK s \in O!Status : order' = [order EXCEPT !.status = s]
    BY DEF O!Import
<1>2. /\ imports < MaxImports /\ imports' = imports + 1 /\ behind' = TRUE
      /\ UNCHANGED <<request, sent, mounted, cached, outdated, answer, dialog, pendingStatus, field,
                     confirmed, overlap>>
    BY DEF O!Import, O!cache, O!form
<1>3. order' \in O!Order /\ order'.number = order.number
    BY <1>1 DEF OrderInv, O!TypeOK, O!Order
<1>4. imports' \in 0 .. MaxImports
    BY <1>2, PagesAssumption DEF OrderInv, O!TypeOK
<1>5. O!TypeOK'
    BY <1>2, <1>3, <1>4 DEF OrderInv, O!TypeOK
<1>6. OrderRows'
    BY <1>2 DEF OrderInv, OrderRows, OrderDialog, OrderHeld, OrderAnswer
<1>7. OrderNumbers'
    BY <1>2, <1>3 DEF OrderInv, OrderNumbers, NumberSent, NumberAlone, Carries, O!Active, NumberKept, O!NumberKept
<1> QED
    BY <1>5, <1>6, <1>7 DEF OrderInv

\* The invariant of an order's page is inductive.
LEMMA OrderStep == OrderInv /\ [O!Next]_(O!vars) => OrderInv'
<1> SUFFICES ASSUME OrderInv, [O!Next]_(O!vars) PROVE OrderInv'
    OBVIOUS
<1>1. CASE UNCHANGED O!vars
    <2>1. UNCHANGED <<order, imports, request, sent, mounted, cached, outdated, answer, dialog,
                      pendingStatus, field, behind, confirmed, overlap>>
        BY <1>1 DEF O!vars, O!server, O!cache, O!form
    <2>2. O!TypeOK'
        BY <2>1 DEF OrderInv, O!TypeOK
    <2>3. OrderRows'
        BY <2>1 DEF OrderInv, OrderRows, OrderDialog, OrderHeld, OrderAnswer, OrderNews
    <2> QED
        BY <2>1, <2>2, <2>3, OrderNumbersStay DEF OrderInv
<1>2. CASE O!ChooseStatus
    <2> PICK s \in O!Status : O!Open(IF s = "SHIPPED" THEN "ship" ELSE "status", s)
        BY <1>2 DEF O!ChooseStatus
    <2> QED
        BY OrderOpenKeeps
<1>3. CASE O!EditTracking
    <2>1. O!Open("edit", cached.status) /\ cached # NoValue
        BY <1>3 DEF O!EditTracking, O!Drawn
    <2>2. cached.status \in O!Status
        BY <2>1 DEF OrderInv, O!TypeOK, O!Order
    <2> QED
        BY <2>1, <2>2, OrderOpenKeeps
<1>4. ASSUME NEW c \in Call, O!ConfirmStatus(c) \/ O!ShipWithoutTracking(c) PROVE OrderInv'
    BY <1>4, OrderSendKeeps DEF O!ConfirmStatus, O!ShipWithoutTracking
<1>5. ASSUME NEW c \in Call, O!SaveTracking(c) PROVE OrderInv'
    <2>1. O!Send(c, field) /\ field # NoValue /\ field \in Number \cup {NoValue}
        BY <1>5 DEF O!SaveTracking, OrderInv, O!TypeOK
    <2> QED
        BY <2>1, OrderSendKeeps
<1> QED
    BY <1>1, <1>2, <1>3, <1>4, <1>5, OrderFetchKeeps, OrderTypeKeeps, OrderLeaveKeeps,
       OrderTransitionKeeps, OrderNumberKeeps, OrderErrorKeeps, OrderSucceedKeeps,
       OrderFailKeeps, OrderImportKeeps
    DEF O!Next

\* A step of the pages is one of the order's page or leaves it as it is.
LEMMA OrderOfPages == [PagesNext]_pageVars => [O!Next]_(O!vars)
BY DEF PagesNext, pageVars, orderVars, O!vars, O!server, O!cache, O!form

\* Between any status changes, numbers, imports, visits and fetches, in every
\* order of answers and with any number of requests in flight: an old order in
\* the cache is followed by a newer one, and numbers that do not overlap come one
\* by one (OrderDetail, TrackingDialog, use-orders and the handlers they call).
THEOREM OrderPageInvariant == PagesSpec => []OrderInv
<1>1. PagesInit => OrderInv
    BY OrderInitInv DEF PagesInit
<1> QED
    BY <1>1, OrderStep, OrderOfPages, PTL DEF PagesSpec

\* An open page with nothing under way shows the order as it is, unless the row
\* changed and no answer said so: what the invalidations of use-orders are for.
THEOREM OrdersShown == PagesSpec => []ShownIsCurrent
<1>1. OrderInv => ShownIsCurrent
    <2> SUFFICES ASSUME OrderInv, mounted, answer = NoValue, \A c \in Call : ~O!Active(c), ~behind
                 PROVE  cached = order
        BY DEF ShownIsCurrent, O!ShownIsCurrent
    <2>1. ~OrderNews
        BY DEF OrderNews, O!Active
    <2> QED
        BY <2>1, PagesAssumption DEF OrderInv, OrderRows, OrderHeld, O!TypeOK
<1> QED
    BY <1>1, OrderPageInvariant, PTL

\* A tracking number reported as saved is the order's until the seller sends
\* another one, whatever the import and the status changes do meanwhile.
THEOREM NumbersKept == PagesSpec => []NumberKept
<1>1. OrderInv => NumberKept
    BY DEF OrderInv, OrderNumbers
<1> QED
    BY <1>1, OrderPageInvariant, PTL

-----------------------------------------------------------------------------
(* The pages of a product                                                  *)

\* A change of the price of which its pages will hear.
PriceNews == \E c \in Call : saving[c].phase = "ok"

\* An old price in the cache is followed by a newer one.
PriceHeld ==
    ~late /\ shown # price =>
        \/ PriceNews
        \/ loading = Asked \/ loading = price
        \/ ~P!Mounted(view) /\ loading = NoValue /\ (marked \/ shown = NoValue)

\* So is a price that was old on its way.
PriceAnswer == ~late /\ loading \in P!Prices /\ loading # price => PriceNews

\* The edit page draws its form but for the spinner.
FormDrawn == (form # NoValue) <=> (view = "edit" /\ (shown # NoValue \/ loading = NoValue))

\* An untyped price that nothing has overtaken is the row's: in the form, and
\* in the saves that carry it.
FormOfPrice == form # NoValue /\ ~form.touched /\ ~form.hasty => form.price = price

Plain(c) == /\ saving[c].phase = "sent" /\ saving[c].kind = "update"
            /\ ~saving[c].touched /\ ~saving[c].hasty
SavesOfPrice == \A c \in Call : Plain(c) => saving[c].price = price

PriceRows == PriceHeld /\ PriceAnswer
PriceForms == FormDrawn /\ FormOfPrice /\ SavesOfPrice
ProductInv == P!TypeOK /\ PriceRows /\ PriceForms /\ PriceIsIntended

LEMMA ProductIdle == P!Idle \in P!Calls /\ P!Idle.phase = "idle"
BY DEF P!Idle, P!Calls, P!Prices

LEMMA ProductInitInv == P!Init => ProductInv
<1> SUFFICES ASSUME P!Init PROVE ProductInv
    OBVIOUS
<1>1. /\ price \in Price /\ undone = FALSE /\ foreign = 0
      /\ saving = [c \in Call |-> P!Idle] /\ saves = 0
      /\ view = "list" /\ shown = NoValue /\ marked = FALSE /\ loading = NoValue
      /\ shownUndone = FALSE /\ form = NoValue
    BY DEF P!Init
<1>2. late = FALSE /\ intended = price /\ crossed = FALSE
    BY DEF P!Init
<1>3. saving \in [Call -> P!Calls] /\ \A c \in Call : saving[c] = P!Idle
    BY <1>1, ProductIdle
<1>4. P!TypeOK
    <2>1. foreign \in 0 .. MaxForeign /\ saves \in 0 .. MaxCalls
        BY <1>1, PagesAssumption
    <2>2. /\ price \in P!Prices /\ intended \in P!Prices /\ shown \in P!Prices \cup {NoValue}
          /\ loading \in P!Prices \cup {NoValue, Asked} /\ form \in P!Form \cup {NoValue}
          /\ view \in {"list", "detail", "edit"}
        BY <1>1, <1>2 DEF P!Prices
    <2>3. /\ undone \in BOOLEAN /\ marked \in BOOLEAN /\ shownUndone \in BOOLEAN
          /\ late \in BOOLEAN /\ crossed \in BOOLEAN
        BY <1>1, <1>2
    <2> QED
        BY <1>3, <2>1, <2>2, <2>3 DEF P!TypeOK
<1>5. PriceRows
    BY <1>1, PagesAssumption DEF PriceRows, PriceHeld, PriceAnswer, P!Mounted
<1>6. PriceForms
    BY <1>1, <1>3, ProductIdle DEF PriceForms, FormDrawn, FormOfPrice, SavesOfPrice, Plain
<1>7. PriceIsIntended
    BY <1>2 DEF PriceIsIntended, P!PriceIsIntended
<1> QED
    BY <1>4, <1>5, <1>6, <1>7 DEF ProductInv

\* A form that is drawn stays; a new one takes the answer's price, and is hasty
\* unless nothing was on its way.
LEMMA FormFollowed ==
    ASSUME ProductInv, NEW v, NEW data \in P!Prices \cup {NoValue}, NEW f,
           P!FormFollows(v, data, f)
    PROVE  /\ form' \in P!Form \cup {NoValue}
           /\ (form' # NoValue) <=> (v = "edit" /\ (data # NoValue \/ f = NoValue))
           /\ form' # NoValue /\ ~form'.touched /\ ~form'.hasty =>
                  \/ form # NoValue /\ form' = form
                  \/ /\ form'.price = data /\ data # NoValue /\ ~late /\ f = NoValue
                     /\ form = NoValue /\ \A c \in Call : ~P!Active(c)
<1> DEFINE new == [price |-> IF data = NoValue THEN Zero ELSE data, touched |-> FALSE,
                   hasty |-> late \/ f # NoValue \/ data = NoValue
                             \/ \E c \in Call : P!Active(c)]
           draws == v = "edit" /\ (data # NoValue \/ f = NoValue)
<1>1. form' = IF ~draws THEN NoValue ELSE IF form # NoValue THEN form ELSE new
    BY DEF P!FormFollows
<1>2. new.price \in P!Prices /\ new.touched = FALSE
    BY DEF P!Prices
<1>3. new.hasty \in BOOLEAN
    BY Zenon
<1>4. new \in P!Form
    BY <1>2, <1>3 DEF P!Form
<1>5. new # NoValue
    BY <1>4, PagesAssumption
<1>6. ~new.hasty => ~late /\ f = NoValue /\ data # NoValue /\ \A c \in Call : ~P!Active(c)
    BY Zenon
<1>7. data # NoValue => new.price = data
    OBVIOUS
<1>8. form \in P!Form \cup {NoValue}
    BY DEF ProductInv, P!TypeOK
<1> HIDE DEF new
<1> QED
    BY <1>1, <1>4, <1>5, <1>6, <1>7, <1>8

\* The requests keep what the price depends on.
SavesSame == \A c \in Call : /\ saving'[c].phase = saving[c].phase
                             /\ saving'[c].kind = saving[c].kind
                             /\ saving'[c].price = saving[c].price
                             /\ saving'[c].touched = saving[c].touched
                             /\ saving'[c].hasty = saving[c].hasty

\* A page that goes leaves its requests as they are, but no longer its own.
LEMMA UnmineKeeps ==
    ASSUME ProductInv, NEW v, saving' = P!Unmine(v)
    PROVE  saving' \in [Call -> P!Calls] /\ SavesSame
<1>1. \A c \in Call : /\ [saving[c] EXCEPT !.mine = @ /\ v = view] \in P!Calls
    <2> TAKE c \in Call
    <2>1. (saving[c].mine /\ v = view) \in BOOLEAN
        BY Zenon
    <2> QED
        BY <2>1 DEF ProductInv, P!TypeOK, P!Calls
<1>2. saving' \in [Call -> P!Calls]
    BY <1>1 DEF P!Unmine
<1>3. SavesSame
    BY DEF SavesSame, P!Unmine, ProductInv, P!TypeOK, P!Calls
<1> QED
    BY <1>2, <1>3

\* Where the row and the requests stay, the saves and the intention do.
LEMMA PriceStays ==
    ASSUME ProductInv, UNCHANGED <<price, intended, crossed>>, SavesSame
    PROVE  /\ PriceNews' = PriceNews /\ SavesOfPrice' /\ PriceIsIntended'
           /\ \A c \in Call : P!Active(c)' <=> P!Active(c)
BY DEF ProductInv, PriceForms, PriceNews, SavesOfPrice, Plain, SavesSame, PriceIsIntended,
       P!PriceIsIntended, P!Active

LEMMA PriceServedKeeps ==
    ASSUME ProductInv, P!FetchServed
    PROVE  ProductInv'
<1>1. /\ loading = Asked /\ loading' = price /\ late' = FALSE
      /\ UNCHANGED <<price, undone, foreign, intended, crossed, saving, saves, view, shown, marked,
                     shownUndone, form>>
    BY DEF P!FetchServed, P!server
<1>2. SavesSame
    BY <1>1 DEF SavesSame
<1>3. P!TypeOK'
    BY <1>1 DEF ProductInv, P!TypeOK
<1>4. PriceRows'
    BY <1>1 DEF PriceRows, PriceHeld, PriceAnswer
<1>5. PriceForms'
    BY <1>1, PagesAssumption DEF ProductInv, P!TypeOK, PriceForms, FormDrawn, FormOfPrice, SavesOfPrice, Plain
<1> QED
    BY <1>1, <1>2, <1>3, <1>4, <1>5, PriceStays DEF ProductInv

\* An answer draws the form with the price of the row, unless something is on its way.
LEMMA PriceDeliveredKeeps ==
    ASSUME ProductInv, P!FetchDelivered
    PROVE  ProductInv'
<1>1. /\ loading \in P!Prices /\ shown' = loading /\ marked' = FALSE /\ loading' = NoValue
      /\ P!FormFollows(view, loading, NoValue)
      /\ UNCHANGED <<price, undone, foreign, intended, crossed, saving, saves, view, shownUndone, late>>
    BY DEF P!FetchDelivered, P!server
<1>2. SavesSame
    BY <1>1 DEF SavesSame
<1>3. /\ form' \in P!Form \cup {NoValue}
      /\ (form' # NoValue) <=> view = "edit"
      /\ form' # NoValue /\ ~form'.touched /\ ~form'.hasty =>
             \/ form # NoValue /\ form' = form
             \/ form'.price = loading /\ ~late /\ \A c \in Call : ~P!Active(c)
    BY <1>1, FormFollowed
<1>4. P!TypeOK'
    BY <1>1, <1>3 DEF ProductInv, P!TypeOK
<1>5. PriceNews' = PriceNews /\ SavesOfPrice' /\ PriceIsIntended'
    BY <1>1, <1>2, PriceStays
<1>6. PriceRows'
    BY <1>1, <1>5, PagesAssumption DEF ProductInv, PriceRows, PriceHeld, PriceAnswer
<1>7. FormDrawn'
    BY <1>1, <1>3, PagesAssumption DEF FormDrawn
<1>8. (\A c \in Call : ~P!Active(c)) => ~PriceNews
    BY DEF PriceNews, P!Active
<1>9. FormOfPrice'
    BY <1>1, <1>3, <1>8 DEF FormOfPrice, ProductInv, PriceForms, PriceRows, PriceAnswer
<1> QED
    BY <1>4, <1>5, <1>6, <1>7, <1>9 DEF ProductInv, PriceForms

\* A fetch that fails draws a form only over nothing, and that one is hasty.
LEMMA PriceFailsKeeps ==
    ASSUME ProductInv, P!FetchFails
    PROVE  ProductInv'
<1>1. /\ loading # NoValue /\ loading' = NoValue /\ late' = TRUE
      /\ P!FormFollows(view, shown, NoValue)
      /\ UNCHANGED <<price, undone, foreign, intended, crossed, saving, saves, view, shown, marked,
                     shownUndone>>
    BY DEF P!FetchFails, P!server
<1>2. SavesSame
    BY <1>1 DEF SavesSame
<1>3. shown \in P!Prices \cup {NoValue}
    BY DEF ProductInv, P!TypeOK
<1>4. /\ form' \in P!Form \cup {NoValue}
      /\ (form' # NoValue) <=> view = "edit"
      /\ form' # NoValue /\ ~form'.touched /\ ~form'.hasty =>
             \/ form # NoValue /\ form' = form
             \/ form = NoValue /\ shown # NoValue
    BY <1>1, <1>3, FormFollowed
<1>5. P!TypeOK'
    BY <1>1, <1>4 DEF ProductInv, P!TypeOK
<1>6. SavesOfPrice' /\ PriceIsIntended'
    BY <1>1, <1>2, PriceStays
<1>7. PriceRows'
    BY <1>1 DEF PriceRows, PriceHeld, PriceAnswer
<1>8. FormDrawn'
    BY <1>1, <1>4 DEF FormDrawn
<1>9. FormOfPrice'
    BY <1>1, <1>4 DEF FormOfPrice, ProductInv, PriceForms, FormDrawn
<1> QED
    BY <1>5, <1>6, <1>7, <1>8, <1>9 DEF ProductInv, PriceForms

\* The page that mounts an old price asks for it before it draws a form.
LEMMA PriceGoKeeps ==
    ASSUME ProductInv, NEW v \in {"list", "detail", "edit"}, P!Go(v)
    PROVE  ProductInv'
<1>1. /\ v # view /\ view' = v /\ saving' = P!Unmine(v) /\ P!FormFollows(v, shown, loading')
      /\ UNCHANGED <<price, undone, foreign, intended, crossed, saves, shown, marked, shownUndone, late>>
    BY DEF P!Go, P!server
<1>2. \/ loading' = loading /\ ~(P!Mounted(v) /\ loading = NoValue /\ (marked \/ shown = NoValue))
      \/ loading' = Asked /\ loading = NoValue /\ P!Mounted(v)
    BY DEF P!Go
<1>3. saving' \in [Call -> P!Calls] /\ SavesSame
    BY <1>1, UnmineKeeps
<1>4. shown \in P!Prices \cup {NoValue}
    BY DEF ProductInv, P!TypeOK
<1>5. /\ form' \in P!Form \cup {NoValue}
      /\ (form' # NoValue) <=> (v = "edit" /\ (shown # NoValue \/ loading' = NoValue))
      /\ form' # NoValue /\ ~form'.touched /\ ~form'.hasty =>
             \/ form # NoValue /\ form' = form
             \/ form'.price = shown /\ shown # NoValue /\ ~late /\ loading' = NoValue
                /\ \A c \in Call : ~P!Active(c)
    BY <1>1, <1>4, FormFollowed
<1>6. P!TypeOK'
    <2>1. loading' \in P!Prices \cup {NoValue, Asked}
        BY <1>2 DEF ProductInv, P!TypeOK
    <2> QED
        BY <1>1, <1>3, <1>5, <2>1 DEF ProductInv, P!TypeOK
<1>7. PriceNews' = PriceNews /\ SavesOfPrice' /\ PriceIsIntended'
    BY <1>1, <1>3, PriceStays
<1>8. PriceRows'
    BY <1>1, <1>2, <1>7, PagesAssumption DEF ProductInv, PriceRows, PriceHeld, PriceAnswer, P!Mounted
<1>9. FormDrawn'
    BY <1>1, <1>5 DEF FormDrawn
<1>10. FormOfPrice'
    <2> SUFFICES ASSUME form' # NoValue, ~form'.touched, ~form'.hasty PROVE form'.price = price
        BY <1>1 DEF FormOfPrice
    <2>1. v = "edit" /\ form = NoValue
        BY <1>1, <1>5 DEF ProductInv, PriceForms, FormDrawn
    <2>2. /\ form'.price = shown /\ shown # NoValue /\ ~late /\ loading' = NoValue
          /\ \A c \in Call : ~P!Active(c)
        BY <1>5, <2>1
    <2>3. ~PriceNews
        BY <2>2 DEF PriceNews, P!Active
    <2>4. loading = NoValue /\ ~marked
        BY <1>2, <2>1, <2>2, PagesAssumption DEF P!Mounted
    <2>5. shown = price
        BY <2>2, <2>3, <2>4, PagesAssumption DEF ProductInv, PriceRows, PriceHeld, P!TypeOK
    <2> QED
        BY <2>2, <2>5
<1> QED
    BY <1>6, <1>7, <1>8, <1>9, <1>10 DEF ProductInv, PriceForms

\* The history and the tabs of the detail concern no price.
LEMMA PriceTabKeeps ==
    ASSUME ProductInv, P!HistoryFetched \/ P!SwitchTab
    PROVE  ProductInv'
<1>1. UNCHANGED <<price, undone, foreign, intended, crossed, saves, view, shown, marked, loading, form, late>>
    BY DEF P!HistoryFetched, P!SwitchTab, P!server, P!cache
<1>2. shownUndone' \in BOOLEAN
    BY DEF P!HistoryFetched, P!SwitchTab, ProductInv, P!TypeOK
<1>3. saving' \in [Call -> P!Calls] /\ SavesSame
    <2>1. CASE P!HistoryFetched
        BY <2>1 DEF P!HistoryFetched, ProductInv, P!TypeOK, SavesSame
    <2>2. CASE P!SwitchTab
        <3>1. \A c \in Call : [saving[c] EXCEPT !.mine = FALSE] \in P!Calls
            BY DEF ProductInv, P!TypeOK, P!Calls
        <3>2. saving' = [c \in Call |-> [saving[c] EXCEPT !.mine = FALSE]]
            BY <2>2 DEF P!SwitchTab
        <3> QED
            BY <3>1, <3>2 DEF SavesSame, ProductInv, P!TypeOK, P!Calls
    <2> QED
        BY <2>1, <2>2
<1>4. P!TypeOK'
    BY <1>1, <1>2, <1>3 DEF ProductInv, P!TypeOK
<1>5. PriceNews' = PriceNews /\ SavesOfPrice' /\ PriceIsIntended'
    BY <1>1, <1>3, PriceStays
<1>6. PriceRows'
    BY <1>1, <1>5 DEF ProductInv, PriceRows, PriceHeld, PriceAnswer
<1>7. FormDrawn' /\ FormOfPrice'
    BY <1>1 DEF FormDrawn, FormOfPrice, ProductInv, PriceForms
<1> QED
    BY <1>4, <1>5, <1>6, <1>7 DEF ProductInv, PriceForms

\* A typed form may hold any price.
LEMMA PriceTypeKeeps ==
    ASSUME ProductInv, P!TypePrice
    PROVE  ProductInv'
<1>1. PICK p \in Price : form' = [form EXCEPT !.price = p, !.touched = TRUE]
    BY DEF P!TypePrice
<1>2. /\ form # NoValue
      /\ UNCHANGED <<price, undone, foreign, intended, crossed, saving, saves, view, shown, marked,
                     loading, shownUndone, late>>
    BY DEF P!TypePrice, P!server, P!cache
<1>3. form \in P!Form
    BY <1>2 DEF ProductInv, P!TypeOK
<1>4. form' \in P!Form /\ form'.touched = TRUE
    BY <1>1, <1>3 DEF P!Form, P!Prices
<1>5. form' # NoValue
    BY <1>4, PagesAssumption
<1>6. SavesSame
    BY <1>2 DEF SavesSame
<1>7. P!TypeOK'
    BY <1>2, <1>4 DEF ProductInv, P!TypeOK
<1>8. PriceNews' = PriceNews /\ SavesOfPrice' /\ PriceIsIntended'
    BY <1>2, <1>6, PriceStays
<1>9. PriceRows'
    BY <1>2, <1>8 DEF ProductInv, PriceRows, PriceHeld, PriceAnswer
<1>10. FormDrawn' /\ FormOfPrice'
    BY <1>2, <1>4, <1>5 DEF FormDrawn, FormOfPrice, ProductInv, PriceForms
<1> QED
    BY <1>7, <1>8, <1>9, <1>10 DEF ProductInv, PriceForms

\* A request that is sent changes nothing yet: a save carries the form's price.
LEMMA PriceSendKeeps ==
    ASSUME ProductInv, NEW c \in Call, NEW request0 \in P!Calls, P!Send(c, request0),
           request0.kind = "update" /\ ~request0.touched /\ ~request0.hasty => request0.price = price
    PROVE  ProductInv'
<1> DEFINE r == [request0 EXCEPT !.phase = "sent", !.mine = TRUE]
<1>1. /\ ~P!Active(c) /\ saves < MaxCalls /\ saves' = saves + 1
      /\ saving' = [saving EXCEPT ![c] = r]
      /\ UNCHANGED <<price, undone, foreign, intended, crossed, view, shown, marked, loading,
                     shownUndone, form, late>>
    BY DEF P!Send, P!server, P!cache
<1>2. r \in P!Calls /\ r.phase = "sent" /\ r.kind = request0.kind /\ r.price = request0.price
      /\ r.touched = request0.touched /\ r.hasty = request0.hasty
    BY DEF P!Calls
<1> HIDE DEF r
<1>3. saving' \in [Call -> P!Calls] /\ saving'[c] = r
      /\ \A d \in Call \ {c} : saving'[d] = saving[d]
    BY <1>1, <1>2 DEF ProductInv, P!TypeOK
<1>4. saves' \in 0 .. MaxCalls
    BY <1>1, PagesAssumption DEF ProductInv, P!TypeOK
<1>5. P!TypeOK'
    BY <1>1, <1>3, <1>4 DEF ProductInv, P!TypeOK
<1>6. PriceNews' = PriceNews
    BY <1>1, <1>2, <1>3 DEF PriceNews, P!Active
<1>7. PriceRows'
    BY <1>1, <1>6 DEF ProductInv, PriceRows, PriceHeld, PriceAnswer
<1>8. FormDrawn' /\ FormOfPrice'
    BY <1>1 DEF FormDrawn, FormOfPrice, ProductInv, PriceForms
<1>9. SavesOfPrice'
    BY <1>1, <1>2, <1>3 DEF SavesOfPrice, Plain, ProductInv, PriceForms
<1>10. PriceIsIntended'
    BY <1>1 DEF ProductInv, PriceIsIntended, P!PriceIsIntended
<1> QED
    BY <1>5, <1>7, <1>8, <1>9, <1>10 DEF ProductInv, PriceForms

LEMMA PriceRevertKeeps ==
    ASSUME ProductInv, NEW c \in Call, P!Revert(c)
    PROVE  ProductInv'
<1> DEFINE r == [P!Idle EXCEPT !.kind = "revert"]
<1>1. P!Send(c, r)
    BY DEF P!Revert
<1>2. r \in P!Calls /\ r.kind = "revert"
    BY ProductIdle DEF P!Calls
<1> HIDE DEF r
<1> QED
    BY <1>1, <1>2, PriceSendKeeps

LEMMA PriceSaveKeeps ==
    ASSUME ProductInv, NEW c \in Call, P!Save(c)
    PROVE  ProductInv'
<1> DEFINE r == [P!Idle EXCEPT !.kind = "update", !.price = form.price,
                               !.touched = form.touched, !.hasty = form.hasty]
<1>1. P!Send(c, r) /\ form # NoValue
    BY DEF P!Save
<1>2. form \in P!Form
    BY <1>1 DEF ProductInv, P!TypeOK
<1>3. r \in P!Calls /\ r.kind = "update" /\ r.price = form.price
      /\ r.touched = form.touched /\ r.hasty = form.hasty
    BY <1>2, ProductIdle DEF P!Calls, P!Form
<1>4. ~r.touched /\ ~r.hasty => r.price = price
    BY <1>1, <1>3 DEF ProductInv, PriceForms, FormOfPrice
<1> HIDE DEF r
<1> QED
    BY <1>1, <1>3, <1>4, PriceSendKeeps

\* A success fetches the price of an open page again and marks the query of a
\* closed one.
LEMMA PriceSucceedKeeps ==
    ASSUME ProductInv, NEW c \in Call, P!Succeed(c)
    PROVE  ProductInv'
<1> DEFINE v == IF saving[c].kind = "update" THEN "list" ELSE view
<1>1. /\ saving[c].phase = "ok" /\ saving' = [P!Unmine(v) EXCEPT ![c] = P!Idle]
      /\ marked' = TRUE /\ view' = v /\ P!FormFollows(v, shown, loading')
      /\ UNCHANGED <<price, undone, foreign, intended, crossed, saves, shown, shownUndone>>
    BY DEF P!Succeed, P!server, P!TellsProduct
<1>2. /\ loading' = IF P!Mounted(view) THEN Asked ELSE loading
      /\ late' = (late \/ (~P!Mounted(view) /\ loading # NoValue))
    BY DEF P!Succeed, P!TellsProduct
<1>3. late' \in BOOLEAN /\ (~late' => ~late /\ (P!Mounted(view) \/ loading = NoValue))
    BY <1>2 DEF ProductInv, P!TypeOK
<1>4. v \in {"list", view} /\ v \in {"list", "detail", "edit"}
    BY DEF ProductInv, P!TypeOK
<1> HIDE DEF v
<1>5. \A d \in Call : [saving[d] EXCEPT !.mine = @ /\ v = view] \in P!Calls
    <2> TAKE d \in Call
    <2>1. (saving[d].mine /\ v = view) \in BOOLEAN
        BY Zenon
    <2> QED
        BY <2>1 DEF ProductInv, P!TypeOK, P!Calls
<1>6. P!Unmine(v) \in [Call -> P!Calls]
    BY <1>5 DEF P!Unmine
<1>7. \A d \in Call : /\ P!Unmine(v)[d].phase = saving[d].phase
                      /\ P!Unmine(v)[d].kind = saving[d].kind
                      /\ P!Unmine(v)[d].price = saving[d].price
                      /\ P!Unmine(v)[d].touched = saving[d].touched
                      /\ P!Unmine(v)[d].hasty = saving[d].hasty
    BY DEF P!Unmine, ProductInv, P!TypeOK, P!Calls
<1>8. saving' \in [Call -> P!Calls] /\ saving'[c] = P!Idle
      /\ \A d \in Call \ {c} : saving'[d] = P!Unmine(v)[d]
    BY <1>1, <1>6, ProductIdle
<1>9. shown \in P!Prices \cup {NoValue}
    BY DEF ProductInv, P!TypeOK
<1>10. /\ form' \in P!Form \cup {NoValue}
       /\ (form' # NoValue) <=> (v = "edit" /\ (shown # NoValue \/ loading' = NoValue))
       /\ form' # NoValue /\ ~form'.touched /\ ~form'.hasty =>
              \/ form # NoValue /\ form' = form
              \/ \A d \in Call : ~P!Active(d)
    BY <1>1, <1>9, FormFollowed
<1>11. P!TypeOK'
    <2>1. loading' \in P!Prices \cup {NoValue, Asked}
        BY <1>2 DEF ProductInv, P!TypeOK
    <2> QED
        BY <1>1, <1>3, <1>4, <1>8, <1>10, <2>1 DEF ProductInv, P!TypeOK
<1>12. PriceRows'
    <2>1. PriceAnswer'
        BY <1>1, <1>2, <1>3, PagesAssumption DEF PriceAnswer
    <2>2. ~P!Mounted(view) => ~P!Mounted(v)
        BY <1>4 DEF P!Mounted
    <2>3. PriceHeld'
        BY <1>1, <1>2, <1>3, <2>2 DEF PriceHeld, P!Mounted
    <2> QED
        BY <2>1, <2>3 DEF PriceRows
<1>13. FormDrawn'
    BY <1>1, <1>10 DEF FormDrawn
<1>14. FormOfPrice'
    <2>1. P!Active(c)
        BY <1>1 DEF P!Active
    <2> QED
        BY <1>1, <1>10, <2>1 DEF FormOfPrice, ProductInv, PriceForms
<1>15. SavesOfPrice'
    BY <1>1, <1>7, <1>8, ProductIdle DEF SavesOfPrice, Plain, ProductInv, PriceForms
<1>16. PriceIsIntended'
    BY <1>1 DEF ProductInv, PriceIsIntended, P!PriceIsIntended
<1> QED
    BY <1>11, <1>12, <1>13, <1>14, <1>15, <1>16 DEF ProductInv, PriceForms

LEMMA PriceFailKeeps ==
    ASSUME ProductInv, NEW c \in Call, P!Fail(c)
    PROVE  ProductInv'
<1>1. /\ saving[c].phase = "error" /\ saving' = [saving EXCEPT ![c] = P!Idle]
      /\ UNCHANGED <<price, undone, foreign, intended, crossed, saves, view, shown, marked, loading,
                     shownUndone, form, late>>
    BY DEF P!Fail, P!server, P!cache
<1>2. saving' \in [Call -> P!Calls] /\ saving'[c] = P!Idle
      /\ \A d \in Call \ {c} : saving'[d] = saving[d]
    BY <1>1, ProductIdle DEF ProductInv, P!TypeOK
<1>3. P!TypeOK'
    BY <1>1, <1>2 DEF ProductInv, P!TypeOK
<1>4. PriceNews' = PriceNews
    BY <1>1, <1>2, ProductIdle DEF PriceNews
<1>5. PriceRows'
    BY <1>1, <1>4 DEF ProductInv, PriceRows, PriceHeld, PriceAnswer
<1>6. PriceForms'
    BY <1>1, <1>2, ProductIdle DEF FormDrawn, FormOfPrice, SavesOfPrice, Plain, ProductInv, PriceForms
<1>7. PriceIsIntended'
    BY <1>1 DEF ProductInv, PriceIsIntended, P!PriceIsIntended
<1> QED
    BY <1>3, <1>5, <1>6, <1>7 DEF ProductInv

\* A request that is refused changed nothing, or its answer is lost.
LEMMA PriceRefusedKeeps ==
    ASSUME ProductInv, NEW c \in Call, P!Refused(c)
    PROVE  ProductInv'
<1> DEFINE r == [saving[c] EXCEPT !.phase = "error"]
<1>1. /\ saving[c].phase \in {"sent", "ok"} /\ saving' = [saving EXCEPT ![c] = r]
      /\ late' \in BOOLEAN /\ (~late' => ~late /\ saving[c].phase = "sent")
      /\ UNCHANGED <<price, undone, foreign, intended, crossed, saves, view, shown, marked, loading,
                     shownUndone, form>>
    BY DEF P!Refused, P!Rest, P!server, P!cache, ProductInv, P!TypeOK
<1>2. r \in P!Calls /\ r.phase = "error"
    BY DEF ProductInv, P!TypeOK, P!Calls
<1> HIDE DEF r
<1>3. saving' \in [Call -> P!Calls] /\ saving'[c] = r
      /\ \A d \in Call \ {c} : saving'[d] = saving[d]
    BY <1>1, <1>2 DEF ProductInv, P!TypeOK
<1>4. P!TypeOK'
    BY <1>1, <1>3 DEF ProductInv, P!TypeOK
<1>5. ~late' => PriceNews' = PriceNews
    BY <1>1, <1>2, <1>3 DEF PriceNews
<1>6. PriceRows'
    BY <1>1, <1>5 DEF ProductInv, PriceRows, PriceHeld, PriceAnswer
<1>7. PriceForms'
    BY <1>1, <1>2, <1>3 DEF FormDrawn, FormOfPrice, SavesOfPrice, Plain, ProductInv, PriceForms
<1>8. PriceIsIntended'
    BY <1>1 DEF ProductInv, PriceIsIntended, P!PriceIsIntended
<1> QED
    BY <1>4, <1>6, <1>7, <1>8 DEF ProductInv

\* A form that is drawn is hasty from the next choice of a price on.
LEMMA FormHastened ==
    ASSUME ProductInv, form' = IF form = NoValue THEN form ELSE [form EXCEPT !.hasty = TRUE]
    PROVE  /\ form' \in P!Form \cup {NoValue}
           /\ (form' # NoValue) <=> form # NoValue
           /\ form' # NoValue => form'.hasty
<1>1. CASE form = NoValue
    BY <1>1
<1>2. CASE form # NoValue
    <2>1. form \in P!Form
        BY <1>2 DEF ProductInv, P!TypeOK
    <2>2. form' \in P!Form /\ form'.hasty
        BY <1>2, <2>1 DEF P!Form
    <2> QED
        BY <1>2, <2>2, PagesAssumption
<1> QED
    BY <1>1, <1>2

\* A price is chosen by request c: its pages will hear of it, and all that still
\* carries another one is hasty.
LEMMA PriceChosenKeeps ==
    ASSUME ProductInv, NEW c \in Call, saving[c].phase = "sent", P!Chosen(c),
           price' \in P!Prices, intended' \in P!Prices, crossed' \in BOOLEAN, undone' \in BOOLEAN,
           PriceIsIntended',
           UNCHANGED <<foreign, saves, view, shown, marked, loading, shownUndone, late>>
    PROVE  ProductInv'
<1>1. form' = IF form = NoValue THEN form ELSE [form EXCEPT !.hasty = TRUE]
    BY DEF P!Chosen
<1>2. /\ form' \in P!Form \cup {NoValue} /\ ((form' # NoValue) <=> form # NoValue)
      /\ form' # NoValue => form'.hasty
    BY <1>1, FormHastened
<1> DEFINE r(d) == IF d = c THEN [saving[d] EXCEPT !.phase = "ok"]
                   ELSE [saving[d] EXCEPT !.hasty = @ \/ P!Active(d)]
<1>3. \A d \in Call : /\ r(d) \in P!Calls
                      /\ d = c => r(d).phase = "ok"
                      /\ d # c => r(d).phase = saving[d].phase /\ r(d).kind = saving[d].kind
                                  /\ (saving[d].phase = "sent" => r(d).hasty)
    <2> TAKE d \in Call
    <2>1. (saving[d].hasty \/ P!Active(d)) \in BOOLEAN
        BY Zenon
    <2> QED
        BY <2>1 DEF ProductInv, P!TypeOK, P!Calls, P!Active
<1>4. saving' = [d \in Call |-> r(d)]
    BY DEF P!Chosen
<1> HIDE DEF r
<1>5. saving' \in [Call -> P!Calls] /\ \A d \in Call : saving'[d] = r(d)
    BY <1>3, <1>4
<1>6. P!TypeOK'
    BY <1>2, <1>5 DEF ProductInv, P!TypeOK
<1>7. PriceNews'
    BY <1>3, <1>5 DEF PriceNews
<1>8. PriceRows'
    BY <1>7 DEF PriceRows, PriceHeld, PriceAnswer
<1>9. PriceForms'
    BY <1>2, <1>3, <1>5 DEF PriceForms, FormDrawn, FormOfPrice, SavesOfPrice, Plain, ProductInv
<1> QED
    BY <1>6, <1>8, <1>9 DEF ProductInv

\* A save that is not hasty writes the price the row has.
LEMMA PriceUpdatedKeeps ==
    ASSUME ProductInv, NEW c \in Call, P!Updated(c)
    PROVE  ProductInv'
<1>1. /\ saving[c].phase = "sent" /\ saving[c].kind = "update" /\ P!Chosen(c)
      /\ price' = saving[c].price
      /\ intended' = (IF saving[c].touched THEN saving[c].price ELSE intended)
      /\ crossed' = (~saving[c].touched /\ (crossed \/ saving[c].hasty))
      /\ UNCHANGED <<undone, foreign, saves, view, shown, marked, loading, shownUndone, late>>
    BY DEF P!Updated, P!Rest, P!cache
<1>2. saving[c].price \in P!Prices
    BY DEF ProductInv, P!TypeOK, P!Calls
<1>3. intended' \in P!Prices /\ undone' \in BOOLEAN
    BY <1>1, <1>2 DEF ProductInv, P!TypeOK
<1>4. crossed' \in BOOLEAN
    BY <1>1, Zenon
<1>5. PriceIsIntended'
    BY <1>1 DEF PriceIsIntended, P!PriceIsIntended, ProductInv, PriceForms, SavesOfPrice, Plain
<1> QED
    BY <1>1, <1>2, <1>3, <1>4, <1>5, PriceChosenKeeps

LEMMA PriceRevertedKeeps ==
    ASSUME ProductInv, NEW c \in Call, P!Reverted(c)
    PROVE  ProductInv'
<1>1. /\ saving[c].phase = "sent" /\ P!Chosen(c)
      /\ price' = OldPrice /\ intended' = OldPrice /\ crossed' = FALSE /\ undone' = TRUE
      /\ UNCHANGED <<foreign, saves, view, shown, marked, loading, shownUndone, late>>
    BY DEF P!Reverted, P!Rest, P!cache
<1>2. OldPrice \in P!Prices
    BY PagesAssumption DEF P!Prices
<1>3. PriceIsIntended'
    BY <1>1 DEF PriceIsIntended, P!PriceIsIntended
<1> QED
    BY <1>1, <1>2, <1>3, PriceChosenKeeps

\* A price chosen elsewhere makes all that carries another one hasty, and nobody
\* tells the pages.
LEMMA PriceElsewhereKeeps ==
    ASSUME ProductInv, P!ChangedElsewhere
    PROVE  ProductInv'
<1>1. PICK p \in Price : price' = p /\ intended' = p
    BY DEF P!ChangedElsewhere
<1>2. /\ foreign < MaxForeign /\ foreign' = foreign + 1 /\ crossed' = FALSE /\ late' = TRUE
      /\ form' = IF form = NoValue THEN form ELSE [form EXCEPT !.hasty = TRUE]
      /\ UNCHANGED <<undone, saves, view, shown, marked, loading, shownUndone>>
    BY DEF P!ChangedElsewhere, P!Rest, P!cache
<1>3. /\ form' \in P!Form \cup {NoValue} /\ ((form' # NoValue) <=> form # NoValue)
      /\ form' # NoValue => form'.hasty
    BY <1>2, FormHastened
<1> DEFINE r(d) == [saving[d] EXCEPT !.hasty = @ \/ P!Active(d)]
<1>4. \A d \in Call : /\ r(d) \in P!Calls /\ r(d).phase = saving[d].phase
                      /\ saving[d].phase = "sent" => r(d).hasty
    <2> TAKE d \in Call
    <2>1. (saving[d].hasty \/ P!Active(d)) \in BOOLEAN
        BY Zenon
    <2> QED
        BY <2>1 DEF ProductInv, P!TypeOK, P!Calls, P!Active
<1>5. saving' = [d \in Call |-> r(d)]
    BY DEF P!ChangedElsewhere
<1> HIDE DEF r
<1>6. saving' \in [Call -> P!Calls] /\ \A d \in Call : saving'[d] = r(d)
    BY <1>4, <1>5
<1>7. foreign' \in 0 .. MaxForeign
    BY <1>2, PagesAssumption DEF ProductInv, P!TypeOK
<1>8. price' \in P!Prices /\ intended' \in P!Prices
    BY <1>1 DEF P!Prices
<1>9. P!TypeOK'
    BY <1>2, <1>3, <1>6, <1>7, <1>8 DEF ProductInv, P!TypeOK
<1>10. PriceRows'
    BY <1>2 DEF PriceRows, PriceHeld, PriceAnswer
<1>11. PriceForms'
    BY <1>2, <1>3, <1>4, <1>6 DEF PriceForms, FormDrawn, FormOfPrice, SavesOfPrice, Plain, ProductInv
<1>12. PriceIsIntended'
    BY <1>1 DEF PriceIsIntended, P!PriceIsIntended
<1> QED
    BY <1>9, <1>10, <1>11, <1>12 DEF ProductInv

\* The invariant of a product's pages is inductive.
LEMMA ProductStep == ProductInv /\ [P!Next]_(P!vars) => ProductInv'
<1> SUFFICES ASSUME ProductInv, [P!Next]_(P!vars) PROVE ProductInv'
    OBVIOUS
<1>1. CASE UNCHANGED P!vars
    <2>1. UNCHANGED <<price, undone, foreign, intended, crossed, saving, saves, view, shown, marked,
                      loading, shownUndone, form, late>>
        BY <1>1 DEF P!vars, P!server, P!cache
    <2>2. P!TypeOK'
        BY <2>1 DEF ProductInv, P!TypeOK
    <2>3. PriceRows' /\ PriceForms' /\ PriceIsIntended'
        BY <2>1 DEF ProductInv, PriceRows, PriceHeld, PriceAnswer, PriceNews, PriceForms, FormDrawn,
                    FormOfPrice, SavesOfPrice, Plain, PriceIsIntended, P!PriceIsIntended
    <2> QED
        BY <2>2, <2>3 DEF ProductInv
<1>2. CASE P!Next
    BY <1>2, PriceServedKeeps, PriceDeliveredKeeps, PriceFailsKeeps, PriceGoKeeps, PriceTabKeeps,
       PriceTypeKeeps, PriceRevertKeeps, PriceSaveKeeps, PriceSucceedKeeps, PriceFailKeeps,
       PriceRefusedKeeps, PriceUpdatedKeeps, PriceRevertedKeeps, PriceElsewhereKeeps
    DEF P!Next
<1> QED
    BY <1>1, <1>2

\* A step of the pages is one of the product's pages or leaves them as they are.
LEMMA ProductOfPages == [PagesNext]_pageVars => [P!Next]_(P!vars)
BY DEF PagesNext, pageVars, productVars, P!vars, P!server, P!cache

\* With any number of saves, undos and changes from elsewhere in flight: an old
\* price in the cache is followed by a newer one, and a form that was opened after
\* the last choice of a price holds the row's, as do the saves it sends
\* (ProductForm, PriceHistoryCard, use-products).
THEOREM ProductPagesInvariant == PagesSpec => []ProductInv
<1>1. PagesInit => ProductInv
    BY ProductInitInv DEF PagesInit
<1> QED
    BY <1>1, ProductStep, ProductOfPages, PTL DEF PagesSpec

\* The price is the one somebody chose last, by typing it or by undoing: a save
\* that leaves the price alone never brings an older one back, but for the forms
\* that the last choice had not reached.
THEOREM PricesIntended == PagesSpec => []PriceIsIntended
<1>1. ProductInv => PriceIsIntended
    BY DEF ProductInv
<1> QED
    BY <1>1, ProductPagesInvariant, PTL

-----------------------------------------------------------------------------
(* The pages of a channel item                                             *)

Deciding(c) == R!Active(c) /\ R!Decision(c)

\* A decision that was made on a current list and is not served yet.
Sound(c) == requests[c].phase = "sent" /\ R!Decision(c) /\ ~requests[c].hasty

\* A decision of which the list will hear.
MatchNews == \E c \in ItemCall : requests[c].phase = "ok" /\ R!Decision(c)

\* One sound decision at most is on its way, and none after the first was made.
DecisionCounted ==
    /\ (decisions > 0) <=> match = "decided"
    /\ ~again => decisions <= 1
    /\ ~again /\ decisions = 1 => \A c \in ItemCall : ~Sound(c)
SoundAlone == \A c, d \in ItemCall : Sound(c) /\ Sound(d) => c = d

\* A list that offers what is decided is followed by another one.
OfferHeld ==
    ~unseen /\ match = "decided" /\ offered = "yes" => MatchNews \/ inFlight \in {"asked", "no"}
OfferAnswer == ~unseen /\ match = "decided" /\ inFlight = "yes" => MatchNews

\* Under a decline dialog that was opened on a current list the list stays, and
\* nothing but the dialog's own request decides.
DeclineHeld ==
    modal = "decline" /\ ~hasty =>
        /\ inFlight = "idle" /\ offered = "yes"
        /\ \A c \in ItemCall : Deciding(c) => requests[c].kind = "decline" /\ requests[c].mine

ItemCounts == DecisionCounted /\ SoundAlone
ItemOffers == OfferHeld /\ OfferAnswer /\ DeclineHeld
ItemInv == R!TypeOK /\ ItemCounts /\ ItemOffers

LEMMA ItemIdle == R!Idle \in R!Calls /\ R!Idle.phase = "idle"
BY DEF R!Idle, R!Calls, R!Kind

LEMMA ItemInitInv == R!Init => ItemInv
<1> SUFFICES ASSUME R!Init PROVE ItemInv
    OBVIOUS
<1>1. /\ match \in {"none", "pending"} /\ decisions = 0 /\ sync \in R!SyncStatus
      /\ requests = [c \in ItemCall |-> R!Idle] /\ sentSoFar = 0
      /\ place = "products" /\ offered = "none" /\ inFlight = "asked"
      /\ shownSync = sync /\ modal = "none"
    BY DEF R!Init
<1>2. /\ alive = TRUE /\ images = FALSE /\ hasty = FALSE /\ selected = FALSE /\ channelId = FALSE
      /\ unseen = FALSE /\ again = FALSE
    BY DEF R!Init
<1>3. requests \in [ItemCall -> R!Calls] /\ \A c \in ItemCall : requests[c] = R!Idle
    BY <1>1, ItemIdle
<1>4. R!TypeOK
    <2>1. sentSoFar \in 0 .. MaxItemCalls /\ decisions \in Nat
        BY <1>1, ListsAssumption
    <2>2. /\ alive \in BOOLEAN /\ images \in BOOLEAN /\ hasty \in BOOLEAN /\ selected \in BOOLEAN
          /\ channelId \in BOOLEAN /\ unseen \in BOOLEAN /\ again \in BOOLEAN
        BY <1>2
    <2>3. /\ match \in {"none", "pending", "decided"} /\ place \in R!Page
          /\ offered \in {"none", "yes", "no"} /\ inFlight \in {"idle", "asked", "yes", "no"}
          /\ modal \in {"none", "decline", "delete", "import"} /\ shownSync \in R!SyncStatus
        BY <1>1 DEF R!Page
    <2> QED
        BY <1>1, <1>3, <2>1, <2>2, <2>3 DEF R!TypeOK
<1>5. ItemCounts
    <2>1. decisions = 0 /\ match # "decided"
        BY <1>1
    <2>2. \A c \in ItemCall : ~Sound(c)
        BY <1>3, ItemIdle DEF Sound
    <2> QED
        BY <2>1, <2>2 DEF ItemCounts, DecisionCounted, SoundAlone
<1>6. ItemOffers
    BY <1>1 DEF ItemOffers, OfferHeld, OfferAnswer, DeclineHeld
<1> QED
    BY <1>4, <1>5, <1>6 DEF ItemInv

-----------------------------------------------------------------------------
(* The list and the dialogs                                                *)

\* Where the requests and the item stay, its decisions are as they were.
LEMMA ItemCountsStay ==
    ASSUME ItemInv, UNCHANGED <<requests, match, decisions, again>>
    PROVE  ItemCounts' /\ MatchNews' = MatchNews
BY DEF ItemInv, ItemCounts, DecisionCounted, SoundAlone, Sound, R!Decision, MatchNews

LEMMA ItemFetchKeeps ==
    ASSUME ItemInv, R!FetchServed \/ R!FetchDelivered \/ R!FetchFails
    PROVE  ItemInv'
<1>1. UNCHANGED <<match, decisions, sync, alive, images, requests, sentSoFar, place, shownSync,
                  modal, hasty, selected, channelId, again>>
    BY DEF R!FetchServed, R!FetchDelivered, R!FetchFails, R!item, R!local
<1>2. inFlight # "idle"
    BY DEF R!FetchServed, R!FetchDelivered, R!FetchFails
<1>3. DeclineHeld'
    BY <1>1, <1>2 DEF ItemInv, ItemOffers, DeclineHeld
<1>4. ItemCounts' /\ MatchNews' = MatchNews
    BY <1>1, ItemCountsStay
<1>5. CASE R!FetchServed
    <2>1. /\ inFlight' \in {"yes", "no"} /\ (match = "decided" => inFlight' = "no")
          /\ unseen' = FALSE /\ offered' = offered
        BY <1>5 DEF R!FetchServed, R!Listed
    <2>2. R!TypeOK'
        BY <1>1, <2>1 DEF ItemInv, R!TypeOK
    <2>3. OfferHeld' /\ OfferAnswer'
        BY <1>1, <2>1 DEF OfferHeld, OfferAnswer
    <2> QED
        BY <1>3, <1>4, <2>2, <2>3 DEF ItemInv, ItemOffers
<1>6. CASE R!FetchDelivered
    <2>1. inFlight \in {"yes", "no"} /\ offered' = inFlight /\ inFlight' = "idle" /\ unseen' = unseen
        BY <1>6 DEF R!FetchDelivered
    <2> QED
        BY <1>1, <1>3, <1>4, <2>1 DEF ItemInv, R!TypeOK, ItemOffers, OfferHeld, OfferAnswer
<1>7. CASE R!FetchFails
    <2>1. inFlight' = "idle" /\ offered' = "none" /\ unseen' = TRUE
        BY <1>7 DEF R!FetchFails
    <2> QED
        BY <1>1, <1>3, <1>4, <2>1 DEF ItemInv, R!TypeOK, ItemOffers, OfferHeld, OfferAnswer
<1> QED
    BY <1>5, <1>6, <1>7

LEMMA ItemStatusKeeps ==
    ASSUME ItemInv, R!StatusFetched
    PROVE  ItemInv'
<1>1. /\ shownSync' = sync
      /\ UNCHANGED <<match, decisions, sync, alive, images, requests, sentSoFar, place, offered,
                     inFlight, modal, hasty, selected, channelId, unseen, again>>
    BY DEF R!StatusFetched, R!item, R!local, R!list
<1>2. ItemCounts' /\ MatchNews' = MatchNews
    BY <1>1, ItemCountsStay
<1> QED
    BY <1>1, <1>2 DEF ItemInv, R!TypeOK, ItemOffers, OfferHeld, OfferAnswer, DeclineHeld, Deciding,
                      R!Active, R!Decision

\* A visit closes every dialog, and the requests stay in flight.
LEMMA ItemVisitKeeps ==
    ASSUME ItemInv, NEW p \in R!Page, R!Visit(p)
    PROVE  ItemInv'
<1>1. /\ place' = p /\ modal' = "none" /\ hasty' = FALSE /\ selected' = FALSE /\ channelId' = FALSE
      /\ requests' = [c \in ItemCall |-> [requests[c] EXCEPT !.mine = FALSE]]
      /\ UNCHANGED <<match, decisions, sync, alive, images, sentSoFar, offered, shownSync, unseen, again>>
    BY DEF R!Visit, R!item
<1>2. inFlight' = inFlight \/ (inFlight' = "asked" /\ inFlight = "idle")
    BY DEF R!Visit, R!Asks
<1>3. \A c \in ItemCall : [requests[c] EXCEPT !.mine = FALSE] \in R!Calls
    BY DEF ItemInv, R!TypeOK, R!Calls
<1>4. requests' \in [ItemCall -> R!Calls]
    BY <1>1, <1>3
<1>5. \A c \in ItemCall : /\ requests'[c].phase = requests[c].phase /\ requests'[c].kind = requests[c].kind
                          /\ requests'[c].hasty = requests[c].hasty
    BY <1>1 DEF ItemInv, R!TypeOK, R!Calls
<1>6. R!TypeOK'
    BY <1>1, <1>2, <1>4 DEF ItemInv, R!TypeOK
<1>7. \A c \in ItemCall : (Sound(c)' <=> Sound(c)) /\ (R!Decision(c)' <=> R!Decision(c))
    BY <1>5 DEF Sound, R!Decision
<1>8. MatchNews' = MatchNews
    BY <1>5, <1>7 DEF MatchNews
<1>9. ItemCounts'
    BY <1>1, <1>7 DEF ItemInv, ItemCounts, DecisionCounted, SoundAlone
<1>10. ItemOffers'
    BY <1>1, <1>2, <1>8 DEF ItemInv, ItemOffers, OfferHeld, OfferAnswer, DeclineHeld
<1> QED
    BY <1>6, <1>9, <1>10 DEF ItemInv

\* The dialogs that decide nothing, and whatever is closed.
LEMMA ItemLocalKeeps ==
    ASSUME ItemInv, NEW m \in {"none", "decline", "delete", "import"}, R!Local(m),
           m = "decline" => modal = "decline",
           hasty' = hasty, selected' \in BOOLEAN, channelId' \in BOOLEAN
    PROVE  ItemInv'
<1>1. /\ modal' = m
      /\ UNCHANGED <<match, decisions, sync, alive, images, requests, sentSoFar, place, offered,
                     inFlight, shownSync, unseen, again>>
    BY DEF R!Local, R!item, R!list
<1>2. ItemCounts' /\ MatchNews' = MatchNews
    BY <1>1, ItemCountsStay
<1> QED
    BY <1>1, <1>2 DEF ItemInv, R!TypeOK, ItemOffers, OfferHeld, OfferAnswer, DeclineHeld, Deciding,
                      R!Active, R!Decision

LEMMA ItemDialogKeeps ==
    ASSUME ItemInv,
           R!OpenDelete \/ R!Tick \/ R!OpenImport \/ R!ChooseChannel \/ R!Close
    PROVE  ItemInv'
<1>0. selected \in BOOLEAN /\ channelId \in BOOLEAN /\ modal \in {"none", "decline", "delete", "import"}
    BY DEF ItemInv, R!TypeOK
<1>1. CASE R!OpenDelete
    <2>1. R!Local("delete") /\ UNCHANGED <<hasty, selected, channelId>>
        BY <1>1 DEF R!OpenDelete
    <2> QED
        BY <1>0, <2>1, ItemLocalKeeps
<1>2. CASE R!Tick
    <2>1. R!Local(modal) /\ UNCHANGED <<hasty, channelId>> /\ selected' \in BOOLEAN
        BY <1>2 DEF R!Tick
    <2> QED
        BY <1>0, <2>1, ItemLocalKeeps
<1>3. CASE R!OpenImport
    <2>1. R!Local("import") /\ UNCHANGED <<hasty, selected, channelId>>
        BY <1>3 DEF R!OpenImport
    <2> QED
        BY <1>0, <2>1, ItemLocalKeeps
<1>4. CASE R!ChooseChannel
    <2>1. R!Local(modal) /\ UNCHANGED <<hasty, selected>> /\ channelId' = TRUE
        BY <1>4 DEF R!ChooseChannel
    <2> QED
        BY <1>0, <2>1, ItemLocalKeeps
<1>5. CASE R!Close
    <2>1. R!Local("none") /\ UNCHANGED <<hasty, selected>>
        BY <1>5 DEF R!Close
    <2>2. channelId' \in BOOLEAN
        BY <1>5, Zenon DEF R!Close
    <2> QED
        BY <1>0, <2>1, <2>2, ItemLocalKeeps
<1> QED
    BY <1>1, <1>2, <1>3, <1>4, <1>5

\* A decline dialog opens over a list that offers the item: on a current one
\* nothing is on its way.
LEMMA ItemDeclineOpens ==
    ASSUME ItemInv, R!OpenDecline
    PROVE  ItemInv'
<1>1. /\ offered = "yes" /\ modal' = "decline"
      /\ UNCHANGED <<match, decisions, sync, alive, images, requests, sentSoFar, place, offered,
                     inFlight, shownSync, unseen, again, selected, channelId>>
    BY DEF R!OpenDecline, R!Reviewing, R!Local, R!item, R!list
<1>2. hasty' = R!OldList
    BY DEF R!OpenDecline
<1>3. hasty' \in BOOLEAN
    BY <1>2, Zenon DEF R!OldList
<1>4. ~hasty' => inFlight = "idle" /\ \A c \in ItemCall : ~Deciding(c)
    BY <1>2, Zenon DEF R!OldList, Deciding
<1>5. ItemCounts' /\ MatchNews' = MatchNews
    BY <1>1, ItemCountsStay
<1>6. \A c \in ItemCall : Deciding(c)' <=> Deciding(c)
    BY <1>1 DEF Deciding, R!Active, R!Decision
<1>7. DeclineHeld'
    BY <1>1, <1>4, <1>6 DEF DeclineHeld
<1>8. R!TypeOK'
    BY <1>1, <1>3 DEF ItemInv, R!TypeOK
<1> QED
    BY <1>1, <1>5, <1>7, <1>8 DEF ItemInv, ItemOffers, OfferHeld, OfferAnswer

-----------------------------------------------------------------------------
(* The requests                                                            *)

\* A decision that is sent as sound finds the item undecided and no other one on
\* its way; a dialog's own decision keeps the dialog as it is.
LEMMA ItemSendKeeps ==
    ASSUME ItemInv, NEW c \in ItemCall, NEW request0 \in R!Calls, R!Send(c, request0),
           request0.kind \in {"confirm", "decline"} /\ ~request0.hasty =>
               match # "decided" /\ \A d \in ItemCall : ~Deciding(d),
           modal = "decline" => request0.kind = "decline"
    PROVE  ItemInv'
<1> DEFINE r == [request0 EXCEPT !.phase = "sent", !.mine = TRUE]
<1>1. /\ ~R!Active(c) /\ sentSoFar < MaxItemCalls /\ sentSoFar' = sentSoFar + 1
      /\ requests' = [requests EXCEPT ![c] = r]
      /\ UNCHANGED <<match, decisions, sync, alive, images, place, offered, inFlight, shownSync,
                     modal, hasty, selected, channelId, unseen, again>>
    BY DEF R!Send, R!item, R!list, R!local
<1>2. /\ r \in R!Calls /\ r.phase = "sent" /\ r.mine = TRUE /\ r.kind = request0.kind
      /\ r.hasty = request0.hasty
    BY DEF R!Calls
<1> HIDE DEF r
<1>3. requests' \in [ItemCall -> R!Calls] /\ requests'[c] = r
      /\ \A d \in ItemCall \ {c} : requests'[d] = requests[d]
    BY <1>1, <1>2 DEF ItemInv, R!TypeOK
<1>4. sentSoFar' \in 0 .. MaxItemCalls
    BY <1>1, ListsAssumption DEF ItemInv, R!TypeOK
<1>5. R!TypeOK'
    BY <1>1, <1>3, <1>4 DEF ItemInv, R!TypeOK
<1>6. \A d \in ItemCall \ {c} : (Sound(d)' <=> Sound(d)) /\ (Deciding(d)' <=> Deciding(d))
    BY <1>3 DEF Sound, Deciding, R!Active, R!Decision
<1>7. MatchNews' = MatchNews
    BY <1>1, <1>2, <1>3 DEF MatchNews, R!Active, R!Decision
<1>8. Sound(c)' <=> request0.kind \in {"confirm", "decline"} /\ ~request0.hasty
    BY <1>2, <1>3 DEF Sound, R!Decision
<1>9. \A d \in ItemCall : Sound(d) => Deciding(d)
    BY DEF Sound, Deciding, R!Active
<1>10. ~Sound(c)
    BY <1>1 DEF Sound, R!Active
<1>11. ItemCounts'
    <2>1. CASE Sound(c)'
        <3>1. /\ match # "decided" /\ \A d \in ItemCall : ~Deciding(d)
            BY <1>8, <2>1
        <3>2. decisions' = 0
            BY <1>1, <3>1 DEF ItemInv, R!TypeOK, ItemCounts, DecisionCounted
        <3>3. SoundAlone'
            BY <1>6, <1>9, <3>1 DEF SoundAlone
        <3>4. DecisionCounted'
            BY <1>1, <3>1, <3>2 DEF DecisionCounted
        <3> QED
            BY <3>3, <3>4 DEF ItemCounts
    <2>2. CASE ~Sound(c)'
        <3>1. \A d \in ItemCall : Sound(d)' <=> Sound(d)
            BY <1>6, <1>10, <2>2
        <3> QED
            BY <1>1, <3>1 DEF ItemInv, ItemCounts, DecisionCounted, SoundAlone
    <2> QED
        BY <2>1, <2>2
<1>12. OfferHeld' /\ OfferAnswer'
    BY <1>1, <1>7 DEF ItemInv, ItemOffers, OfferHeld, OfferAnswer
<1>13. DeclineHeld'
    <2> SUFFICES ASSUME modal = "decline", ~hasty
                 PROVE  /\ inFlight = "idle" /\ offered = "yes"
                        /\ \A d \in ItemCall : Deciding(d)' => requests'[d].kind = "decline" /\ requests'[d].mine
        BY <1>1 DEF DeclineHeld
    <2>1. /\ inFlight = "idle" /\ offered = "yes"
          /\ \A d \in ItemCall : Deciding(d) => requests[d].kind = "decline" /\ requests[d].mine
        BY DEF ItemInv, ItemOffers, DeclineHeld
    <2> QED
        BY <2>1, <1>2, <1>3, <1>6
<1> QED
    BY <1>5, <1>11, <1>12, <1>13 DEF ItemInv, ItemOffers

LEMMA ItemConfirmKeeps ==
    ASSUME ItemInv, NEW c \in ItemCall, R!Confirm(c)
    PROVE  ItemInv'
<1> DEFINE r == [R!Idle EXCEPT !.kind = "confirm", !.hasty = R!OldList]
<1>1. R!Send(c, r) /\ offered = "yes" /\ modal = "none"
    BY DEF R!Confirm, R!Reviewing
<1>2. R!OldList \in BOOLEAN
    BY Zenon DEF R!OldList
<1>3. r \in R!Calls /\ r.kind = "confirm" /\ r.hasty = R!OldList
    BY <1>2, ItemIdle DEF R!Calls, R!Kind
<1>4. ~R!OldList => ~unseen /\ inFlight = "idle" /\ \A d \in ItemCall : ~Deciding(d)
    BY Zenon DEF R!OldList, Deciding
<1>5. (\A d \in ItemCall : ~Deciding(d)) => ~MatchNews
    BY DEF Deciding, MatchNews, R!Active
<1>6. ~r.hasty => match # "decided" /\ \A d \in ItemCall : ~Deciding(d)
    BY <1>1, <1>3, <1>4, <1>5 DEF ItemInv, ItemOffers, OfferHeld
<1> HIDE DEF r
<1> QED
    BY <1>1, <1>3, <1>6, ItemSendKeeps

LEMMA ItemDeclineKeeps ==
    ASSUME ItemInv, NEW c \in ItemCall, R!Decline(c)
    PROVE  ItemInv'
<1> DEFINE r == [R!Idle EXCEPT !.kind = "decline", !.hasty = hasty \/ unseen]
<1>1. R!Send(c, r) /\ modal = "decline"
    BY DEF R!Decline
<1>2. (hasty \/ unseen) \in BOOLEAN
    BY Zenon
<1>3. r \in R!Calls /\ r.kind = "decline" /\ r.hasty = (hasty \/ unseen)
    BY <1>2, ItemIdle DEF R!Calls, R!Kind
<1> HIDE DEF r
<1>4. \A d \in ItemCall : ~(R!Active(d) /\ requests[d].mine /\ requests[d].kind = "decline")
    BY <1>1, <1>3 DEF R!Send, R!Pending
<1>5. ~hasty => inFlight = "idle" /\ \A d \in ItemCall : ~Deciding(d)
    BY <1>1, <1>4 DEF ItemInv, ItemOffers, DeclineHeld, Deciding
<1>6. ~hasty => offered = "yes"
    BY <1>1 DEF ItemInv, ItemOffers, DeclineHeld
<1>7. (\A d \in ItemCall : ~Deciding(d)) => ~MatchNews
    BY DEF Deciding, MatchNews, R!Active
<1>8. ~r.hasty => match # "decided" /\ \A d \in ItemCall : ~Deciding(d)
    BY <1>3, <1>5, <1>6, <1>7 DEF ItemInv, ItemOffers, OfferHeld
<1> QED
    BY <1>1, <1>3, <1>8, ItemSendKeeps

\* The other requests decide nothing, and are sent from no decline dialog.
LEMMA ItemOtherKeeps ==
    ASSUME ItemInv, NEW c \in ItemCall,
           R!Resync(c) \/ R!AddImage(c) \/ R!RemoveImage(c) \/ R!Delete(c) \/ R!Import(c)
    PROVE  ItemInv'
<1>1. PICK k \in {"resync", "add", "remove", "delete", "import"} :
          R!Send(c, [R!Idle EXCEPT !.kind = k]) /\ modal # "decline"
    BY DEF R!Resync, R!AddImage, R!RemoveImage, R!Delete, R!Import
<1> DEFINE r == [R!Idle EXCEPT !.kind = k]
<1>2. r \in R!Calls /\ r.kind = k
    BY ItemIdle DEF R!Calls, R!Kind
<1>3. R!Send(c, r)
    BY <1>1
<1> HIDE DEF r
<1> QED
    BY <1>1, <1>2, <1>3, ItemSendKeeps

\* The answer to a decision asks for the list again, and closes its dialog.
LEMMA ItemSucceedKeeps ==
    ASSUME ItemInv, NEW c \in ItemCall, R!Succeed(c)
    PROVE  ItemInv'
<1> DEFINE p == IF requests[c].kind = "delete" THEN "products" ELSE place
           r(d) == IF d = c THEN R!Idle ELSE [requests[d] EXCEPT !.mine = @ /\ p = place]
<1>1. /\ requests[c].phase = "ok" /\ requests' = [d \in ItemCall |-> r(d)] /\ place' = p
      /\ UNCHANGED <<match, decisions, sync, alive, images, sentSoFar, offered, shownSync, hasty,
                     unseen, again>>
    BY DEF R!Succeed, R!item
<1>2. /\ R!Decision(c) => inFlight' = "asked"
      /\ inFlight' = inFlight \/ inFlight' = "asked"
      /\ ~R!Decision(c) /\ inFlight' # inFlight => p # place
    BY DEF R!Succeed, R!TellsMatches, R!Decision, R!Asks
<1>3. modal' = IF p # place THEN "none" ELSE IF requests[c].mine THEN R!ClosedBy(requests[c].kind) ELSE modal
    BY DEF R!Succeed
<1>4. selected' \in BOOLEAN /\ channelId' \in BOOLEAN
    BY Zenon DEF R!Succeed
<1>5. p \in R!Page
    BY DEF ItemInv, R!TypeOK, R!Page
<1>6. modal' \in {"none", modal} /\ (p # place => modal' = "none")
      /\ (requests[c].kind = "decline" /\ requests[c].mine => modal' # "decline")
    BY <1>3 DEF R!ClosedBy
<1>7. \A d \in ItemCall : /\ r(d) \in R!Calls
                          /\ d # c => /\ r(d).phase = requests[d].phase /\ r(d).kind = requests[d].kind
                                      /\ r(d).hasty = requests[d].hasty
                                      /\ p = place => r(d).mine = requests[d].mine
    <2> TAKE d \in ItemCall
    <2>1. (requests[d].mine /\ p = place) \in BOOLEAN
        BY Zenon
    <2>2. requests[d] \in R!Calls
        BY DEF ItemInv, R!TypeOK
    <2> QED
        BY <2>1, <2>2, ItemIdle DEF R!Calls
<1>8. r(c) = R!Idle
    OBVIOUS
<1> HIDE DEF r, p
<1>9. requests' \in [ItemCall -> R!Calls] /\ \A d \in ItemCall : requests'[d] = r(d)
    BY <1>1, <1>7
<1>10. R!TypeOK'
    <2>1. inFlight' \in {"idle", "asked", "yes", "no"} /\ modal' \in {"none", "decline", "delete", "import"}
        BY <1>2, <1>6 DEF ItemInv, R!TypeOK
    <2> QED
        BY <1>1, <1>4, <1>5, <1>9, <2>1 DEF ItemInv, R!TypeOK
<1>11. /\ ~Sound(c)' /\ ~Sound(c)
       /\ \A d \in ItemCall \ {c} : (Sound(d)' <=> Sound(d)) /\ (Deciding(d)' <=> Deciding(d))
    BY <1>1, <1>7, <1>8, <1>9, ItemIdle DEF Sound, Deciding, R!Active, R!Decision
<1>12. ItemCounts'
    BY <1>1, <1>11 DEF ItemInv, ItemCounts, DecisionCounted, SoundAlone
<1>13. ~R!Decision(c) => MatchNews' = MatchNews
    BY <1>1, <1>7, <1>8, <1>9, ItemIdle DEF MatchNews, R!Decision
<1>14. OfferHeld' /\ OfferAnswer'
    <2>1. CASE R!Decision(c)
        BY <1>2, <2>1 DEF OfferHeld, OfferAnswer
    <2>2. CASE ~R!Decision(c)
        BY <1>1, <1>2, <1>13, <2>2 DEF ItemInv, ItemOffers, OfferHeld, OfferAnswer
    <2> QED
        BY <2>1, <2>2
<1>15. DeclineHeld'
    <2> SUFFICES ASSUME modal' = "decline", ~hasty
                 PROVE  /\ inFlight' = "idle" /\ offered = "yes"
                        /\ \A d \in ItemCall : Deciding(d)' => requests'[d].kind = "decline" /\ requests'[d].mine
        BY <1>1 DEF DeclineHeld
    <2>1. modal = "decline" /\ p = place
        BY <1>6
    <2>2. /\ inFlight = "idle" /\ offered = "yes"
          /\ \A d \in ItemCall : Deciding(d) => requests[d].kind = "decline" /\ requests[d].mine
        BY <2>1 DEF ItemInv, ItemOffers, DeclineHeld
    <2>3. ~R!Decision(c)
        BY <1>1, <1>6, <2>2 DEF Deciding, R!Active
    <2>4. inFlight' = "idle"
        BY <1>2, <2>1, <2>2, <2>3
    <2>5. ~Deciding(c)'
        BY <1>8, <1>9, ItemIdle DEF Deciding, R!Active
    <2> QED
        BY <2>1, <2>2, <2>4, <2>5, <1>7, <1>9, <1>11
<1> QED
    BY <1>10, <1>12, <1>14, <1>15 DEF ItemInv, ItemOffers

LEMMA ItemFailKeeps ==
    ASSUME ItemInv, NEW c \in ItemCall, R!Fail(c)
    PROVE  ItemInv'
<1>1. /\ requests[c].phase = "error" /\ requests' = [requests EXCEPT ![c] = R!Idle]
      /\ UNCHANGED <<match, decisions, sync, alive, images, sentSoFar, place, offered, inFlight,
                     shownSync, modal, hasty, selected, channelId, unseen, again>>
    BY DEF R!Fail, R!item, R!list, R!local
<1>2. requests' \in [ItemCall -> R!Calls] /\ requests'[c] = R!Idle
      /\ \A d \in ItemCall \ {c} : requests'[d] = requests[d]
    BY <1>1, ItemIdle DEF ItemInv, R!TypeOK
<1>3. R!TypeOK'
    BY <1>1, <1>2 DEF ItemInv, R!TypeOK
<1>4. /\ ~Sound(c)' /\ ~Deciding(c)' /\ ~Sound(c)
      /\ \A d \in ItemCall \ {c} : (Sound(d)' <=> Sound(d)) /\ (Deciding(d)' <=> Deciding(d))
    BY <1>1, <1>2, ItemIdle DEF Sound, Deciding, R!Active, R!Decision
<1>5. MatchNews' = MatchNews
    BY <1>1, <1>2, ItemIdle DEF MatchNews, R!Decision
<1>6. ItemCounts'
    BY <1>1, <1>4 DEF ItemInv, ItemCounts, DecisionCounted, SoundAlone
<1>7. ItemOffers'
    BY <1>1, <1>2, <1>4, <1>5 DEF ItemInv, ItemOffers, OfferHeld, OfferAnswer, DeclineHeld
<1> QED
    BY <1>3, <1>6, <1>7 DEF ItemInv

-----------------------------------------------------------------------------
(* The server                                                              *)

\* What an answer makes of its request.
LEMMA ItemAnswered ==
    ASSUME ItemInv, NEW c \in ItemCall, NEW phase \in {"ok", "error"}, R!Answer(c, phase),
           requests[c].phase \in {"sent", "ok"}
    PROVE  /\ requests' \in [ItemCall -> R!Calls]
           /\ requests'[c].phase = phase
           /\ \A d \in ItemCall : /\ requests'[d].kind = requests[d].kind
                                  /\ requests'[d].mine = requests[d].mine
                                  /\ requests'[d].hasty = requests[d].hasty
                                  /\ d # c => requests'[d] = requests[d]
           /\ ~Sound(c)'
           /\ \A d \in ItemCall : /\ Deciding(d)' <=> Deciding(d)
                                  /\ d # c => (Sound(d)' <=> Sound(d))
           /\ UNCHANGED <<sentSoFar, place, offered, inFlight, shownSync, modal, hasty, selected, channelId>>
<1> DEFINE r == [requests[c] EXCEPT !.phase = phase]
<1>1. requests' = [requests EXCEPT ![c] = r]
    BY DEF R!Answer
<1>2. r \in R!Calls /\ r.phase = phase /\ r.kind = requests[c].kind
      /\ r.mine = requests[c].mine /\ r.hasty = requests[c].hasty
    BY DEF ItemInv, R!TypeOK, R!Calls
<1> HIDE DEF r
<1>3. requests' \in [ItemCall -> R!Calls] /\ requests'[c] = r
      /\ \A d \in ItemCall \ {c} : requests'[d] = requests[d]
    BY <1>1, <1>2 DEF ItemInv, R!TypeOK
<1>4. \A d \in ItemCall : /\ requests'[d].kind = requests[d].kind
                          /\ requests'[d].mine = requests[d].mine
                          /\ requests'[d].hasty = requests[d].hasty
                          /\ d # c => requests'[d] = requests[d]
    BY <1>2, <1>3
<1>5. ~Sound(c)' /\ \A d \in ItemCall : d # c => (Sound(d)' <=> Sound(d))
    BY <1>2, <1>3 DEF Sound, R!Decision
<1>6. \A d \in ItemCall : Deciding(d)' <=> Deciding(d)
    BY <1>2, <1>3 DEF Deciding, R!Active, R!Decision
<1>7. UNCHANGED <<sentSoFar, place, offered, inFlight, shownSync, modal, hasty, selected, channelId>>
    BY DEF R!Answer, R!list, R!local
<1> QED
    BY <1>2, <1>3, <1>4, <1>5, <1>6, <1>7

\* The dialog does not see what the server does.
LEMMA DeclineStays ==
    ASSUME ItemInv, UNCHANGED <<inFlight, offered, modal, hasty>>,
           \A d \in ItemCall : /\ Deciding(d)' <=> Deciding(d)
                               /\ requests'[d].kind = requests[d].kind
                               /\ requests'[d].mine = requests[d].mine
    PROVE  DeclineHeld'
BY DEF ItemInv, ItemOffers, DeclineHeld

\* A sound decision is the first one, and the only sound one; the list will hear
\* of it.
LEMMA ItemDecidedKeeps ==
    ASSUME ItemInv, NEW c \in ItemCall, R!Decided(c)
    PROVE  ItemInv'
<1>1. /\ requests[c].phase = "sent" /\ R!Decision(c) /\ match' = "decided" /\ decisions' = decisions + 1
      /\ R!Answer(c, "ok") /\ UNCHANGED <<sync, alive, images, unseen>>
    BY DEF R!Decided
<1>2. again' = (again \/ requests[c].hasty)
    BY DEF R!Decided
<1>3. again' \in BOOLEAN
    BY <1>2, Zenon
<1>4. /\ requests' \in [ItemCall -> R!Calls] /\ requests'[c].phase = "ok"
      /\ \A d \in ItemCall : /\ requests'[d].kind = requests[d].kind
                             /\ requests'[d].mine = requests[d].mine
                             /\ Deciding(d)' <=> Deciding(d)
                             /\ d # c => (Sound(d)' <=> Sound(d))
      /\ ~Sound(c)'
      /\ UNCHANGED <<sentSoFar, place, offered, inFlight, shownSync, modal, hasty, selected, channelId>>
    BY <1>1, ItemAnswered
<1>5. decisions' \in Nat
    BY <1>1 DEF ItemInv, R!TypeOK
<1>6. R!TypeOK'
    BY <1>1, <1>3, <1>4, <1>5 DEF ItemInv, R!TypeOK
<1>7. MatchNews'
    BY <1>1, <1>4 DEF MatchNews, R!Decision
<1>8. OfferHeld' /\ OfferAnswer'
    BY <1>7 DEF OfferHeld, OfferAnswer
<1>9. DeclineHeld'
    BY <1>4, DeclineStays
<1>10. ~again' => Sound(c) /\ ~again
    BY <1>1, <1>2 DEF Sound
<1>11. ~again' => decisions = 0
    BY <1>10 DEF ItemInv, R!TypeOK, ItemCounts, DecisionCounted
<1>12. ~again' => \A d \in ItemCall : ~Sound(d)'
    BY <1>4, <1>10 DEF ItemInv, ItemCounts, SoundAlone
<1>13. SoundAlone'
    BY <1>4 DEF ItemInv, ItemCounts, SoundAlone
<1>14. decisions' > 0 /\ (~again' => decisions' <= 1)
    BY <1>1, <1>11 DEF ItemInv, R!TypeOK
<1>15. DecisionCounted'
    BY <1>1, <1>12, <1>14 DEF DecisionCounted
<1> QED
    BY <1>6, <1>8, <1>9, <1>13, <1>15 DEF ItemInv, ItemCounts, ItemOffers

\* What is served besides decides nothing; only a decision is news to the list,
\* and an answer to one that is lost is missed.
LEMMA ItemServedKeeps ==
    ASSUME ItemInv, NEW c \in ItemCall, NEW phase \in {"ok", "error"}, R!Answer(c, phase),
           \/ requests[c].phase = "sent" /\ ~R!Decision(c)
           \/ phase = "error" /\ requests[c].phase \in {"sent", "ok"}
              /\ (requests[c].phase = "ok" => unseen'),
           match' \in {match, "pending"}, (match = "decided") <=> match' = "decided",
           sync' \in R!SyncStatus, alive' \in BOOLEAN, images' \in BOOLEAN, unseen' \in BOOLEAN,
           unseen => unseen', UNCHANGED <<decisions, again>>
    PROVE  ItemInv'
<1>1. /\ requests' \in [ItemCall -> R!Calls] /\ requests'[c].phase = phase
      /\ \A d \in ItemCall : /\ requests'[d].kind = requests[d].kind
                             /\ requests'[d].mine = requests[d].mine
                             /\ Deciding(d)' <=> Deciding(d)
                             /\ d # c => (Sound(d)' <=> Sound(d)) /\ requests'[d] = requests[d]
      /\ ~Sound(c)'
      /\ UNCHANGED <<sentSoFar, place, offered, inFlight, shownSync, modal, hasty, selected, channelId>>
    BY ItemAnswered
<1>2. R!TypeOK'
    BY <1>1 DEF ItemInv, R!TypeOK
<1>3. ItemCounts'
    <2>1. SoundAlone'
        BY <1>1 DEF ItemInv, ItemCounts, SoundAlone
    <2>2. ~again /\ decisions = 1 => \A d \in ItemCall : ~Sound(d)'
        BY <1>1 DEF ItemInv, ItemCounts, DecisionCounted
    <2>3. DecisionCounted'
        BY <2>2 DEF ItemInv, ItemCounts, DecisionCounted
    <2> QED
        BY <2>1, <2>3 DEF ItemCounts
<1>4. ~unseen' /\ MatchNews => MatchNews'
    BY <1>1 DEF MatchNews, R!Decision
<1>5. OfferHeld' /\ OfferAnswer'
    BY <1>1, <1>4 DEF ItemInv, ItemOffers, OfferHeld, OfferAnswer
<1>6. DeclineHeld'
    BY <1>1, DeclineStays
<1> QED
    BY <1>2, <1>3, <1>5, <1>6 DEF ItemInv, ItemOffers

LEMMA ItemHandledKeeps ==
    ASSUME ItemInv, NEW c \in ItemCall,
           R!Resynced(c) \/ R!ImageChanged(c) \/ R!Deleted(c) \/ R!Imported(c) \/ R!Refused(c)
    PROVE  ItemInv'
<1>0. /\ sync \in R!SyncStatus /\ alive \in BOOLEAN /\ images \in BOOLEAN /\ unseen \in BOOLEAN
      /\ match \in {"none", "pending", "decided"}
    BY DEF ItemInv, R!TypeOK
<1>1. CASE R!Resynced(c)
    <2>1. /\ requests[c].phase = "sent" /\ ~R!Decision(c) /\ R!Answer(c, "ok") /\ sync' \in R!SyncStatus
          /\ UNCHANGED <<match, decisions, alive, images, unseen, again>>
        BY <1>1 DEF R!Resynced, R!Serving, R!Decision
    <2> QED
        BY <1>0, <2>1, ItemServedKeeps
<1>2. CASE R!ImageChanged(c)
    <2>1. /\ requests[c].phase = "sent" /\ ~R!Decision(c) /\ R!Answer(c, "ok")
          /\ UNCHANGED <<match, decisions, sync, alive, unseen, again>>
        BY <1>2 DEF R!ImageChanged, R!Serving, R!Decision
    <2>2. images' \in BOOLEAN
        BY <1>2, Zenon DEF R!ImageChanged
    <2> QED
        BY <1>0, <2>1, <2>2, ItemServedKeeps
<1>3. CASE R!Deleted(c)
    <2>1. /\ requests[c].phase = "sent" /\ ~R!Decision(c) /\ R!Answer(c, "ok")
          /\ alive' = FALSE /\ unseen' = TRUE
          /\ UNCHANGED <<match, decisions, sync, images, again>>
        BY <1>3 DEF R!Deleted, R!Serving, R!Decision
    <2> QED
        BY <1>0, <2>1, ItemServedKeeps
<1>4. CASE R!Imported(c)
    <2>1. /\ requests[c].phase = "sent" /\ ~R!Decision(c) /\ R!Answer(c, "ok")
          /\ match' = (IF match = "none" THEN "pending" ELSE match) /\ unseen' = TRUE
          /\ UNCHANGED <<decisions, sync, alive, images, again>>
        BY <1>4 DEF R!Imported, R!Serving, R!Decision
    <2> QED
        BY <1>0, <2>1, ItemServedKeeps
<1>5. CASE R!Refused(c)
    <2>1. /\ requests[c].phase \in {"sent", "ok"} /\ R!Answer(c, "error")
          /\ UNCHANGED <<match, decisions, sync, alive, images, again>>
        BY <1>5 DEF R!Refused, R!item
    <2>2. unseen' = (unseen \/ requests[c].phase = "ok")
        BY <1>5 DEF R!Refused
    <2>3. unseen' \in BOOLEAN /\ (unseen => unseen') /\ (requests[c].phase = "ok" => unseen')
        BY <2>2, Zenon
    <2> QED
        BY <1>0, <2>1, <2>3, ItemServedKeeps
<1> QED
    BY <1>1, <1>2, <1>3, <1>4, <1>5

LEMMA ItemElsewhereKeeps ==
    ASSUME ItemInv, R!DecidedElsewhere
    PROVE  ItemInv'
<1>1. /\ match' = "decided" /\ decisions' = decisions + 1 /\ unseen' = TRUE /\ again' = TRUE
      /\ UNCHANGED <<sync, alive, images, requests, sentSoFar, place, offered, inFlight, shownSync,
                     modal, hasty, selected, channelId>>
    BY DEF R!DecidedElsewhere, R!list, R!local
<1>2. decisions' \in Nat /\ decisions' > 0
    BY <1>1 DEF ItemInv, R!TypeOK
<1>3. R!TypeOK'
    BY <1>1, <1>2 DEF ItemInv, R!TypeOK
<1>4. \A d \in ItemCall : (Sound(d)' <=> Sound(d)) /\ (Deciding(d)' <=> Deciding(d))
    BY <1>1 DEF Sound, Deciding, R!Active, R!Decision
<1>5. ItemCounts'
    BY <1>1, <1>2, <1>4 DEF ItemInv, ItemCounts, DecisionCounted, SoundAlone
<1>6. OfferHeld' /\ OfferAnswer'
    BY <1>1 DEF OfferHeld, OfferAnswer
<1>7. DeclineHeld'
    BY <1>1, <1>4, DeclineStays
<1> QED
    BY <1>3, <1>5, <1>6, <1>7 DEF ItemInv, ItemOffers

\* The invariant of a channel item's pages is inductive.
LEMMA ItemStep == ItemInv /\ [R!Next]_(R!vars) => ItemInv'
<1> SUFFICES ASSUME ItemInv, [R!Next]_(R!vars) PROVE ItemInv'
    OBVIOUS
<1>1. CASE UNCHANGED R!vars
    <2>1. UNCHANGED <<match, decisions, sync, alive, images, requests, sentSoFar, place, offered,
                      inFlight, shownSync, modal, hasty, selected, channelId, unseen, again>>
        BY <1>1 DEF R!vars, R!item, R!list, R!local
    <2>2. R!TypeOK'
        BY <2>1 DEF ItemInv, R!TypeOK
    <2>3. ItemCounts' /\ MatchNews' = MatchNews
        BY <2>1, ItemCountsStay
    <2>4. \A d \in ItemCall : Deciding(d)' <=> Deciding(d)
        BY <2>1 DEF Deciding, R!Active, R!Decision
    <2>5. DeclineHeld'
        BY <2>1, <2>4, DeclineStays
    <2>6. OfferHeld' /\ OfferAnswer'
        BY <2>1, <2>3 DEF ItemInv, ItemOffers, OfferHeld, OfferAnswer
    <2> QED
        BY <2>2, <2>3, <2>5, <2>6 DEF ItemInv, ItemOffers
<1>2. CASE R!Next
    BY <1>2, ItemFetchKeeps, ItemStatusKeeps, ItemVisitKeeps, ItemDialogKeeps, ItemDeclineOpens,
       ItemConfirmKeeps, ItemDeclineKeeps, ItemOtherKeeps, ItemSucceedKeeps, ItemFailKeeps,
       ItemDecidedKeeps, ItemHandledKeeps, ItemElsewhereKeeps
    DEF R!Next
<1> QED
    BY <1>1, <1>2

\* A step of the lists is one of the item's pages or leaves them as they are.
LEMMA ItemOfLists == [ListsNext]_listsVars => [R!Next]_(R!vars)
BY DEF ListsNext, listsVars, itemVars, R!vars, R!item, R!list, R!local

\* With any number of requests on an item in flight: a list that still offers a
\* match that is decided is followed by another one, and of the decisions made on
\* current lists one at most is on its way (MatchingList, use-matching).
THEOREM ItemPagesInvariant == ListsSpec => []ItemInv
<1>1. ListsInit => ItemInv
    BY ItemInitInv DEF ListsInit
<1> QED
    BY <1>1, ItemStep, ItemOfLists, PTL DEF ListsSpec

\* A match is decided a second time only from a list that was old, though the
\* handlers decide it any number of times.
THEOREM MatchesDecidedOnce == ListsSpec => []DecidedOnce
<1>1. ItemInv => DecidedOnce
    BY DEF ItemInv, R!TypeOK, ItemCounts, DecisionCounted, DecidedOnce, R!DecidedOnce
<1> QED
    BY <1>1, ItemPagesInvariant, PTL

-----------------------------------------------------------------------------
(* The lists and their ticked rows                                         *)

\* Unless the rows moved under the ticked numbers, the rows they stand for are
\* rows that were ticked.
SelectedTicked == ~moved => L!Selected \subseteq ticked
RowsInv == SelectedTicked /\ SentWereTicked

\* The lists count as the theorems on finite sets do.
LEMMA SameCardinality == ASSUME NEW S PROVE L!Cardinality(S) = Cardinality(S)
BY DEF L!Cardinality, Cardinality, L!IsFiniteSet, IsFiniteSet

\* The rows that are shown are finitely many.
LEMMA ShownIsFinite ==
    /\ L!Shown \subseteq 1 .. N /\ IsFiniteSet(L!Shown)
    /\ Cardinality(L!Shown) \in Nat /\ Cardinality(L!Shown) <= N
<1>1. L!Shown \subseteq 1 .. N
    BY DEF L!Shown, L!Matches, L!Id
<1>2. IsFiniteSet(1 .. N) /\ Cardinality(1 .. N) = N
    BY FS_Interval, ListsAssumption
<1> QED
    BY <1>1, <1>2, FS_Subset, FS_CardinalityType

\* A shown row has one of the numbers 1, 2, ... of the shown rows.
LEMMA NumberIsShown ==
    ASSUME NEW i \in L!Shown
    PROVE  L!Number(i, L!Shown) \in 1 .. Cardinality(L!Shown)
<1> DEFINE above == {j \in L!Shown : j >= i}
<1>1. above \in SUBSET L!Shown /\ i \in above
    BY ShownIsFinite
<1>2. IsFiniteSet(above) /\ Cardinality(above) \in Nat /\ Cardinality(above) <= Cardinality(L!Shown)
    BY <1>1, ShownIsFinite, FS_Subset, FS_CardinalityType
<1>3. Cardinality(above) # 0
    BY <1>1, <1>2, FS_EmptySet
<1>4. L!Number(i, L!Shown) = Cardinality(above)
    BY SameCardinality DEF L!Number
<1> QED
    BY <1>2, <1>3, <1>4, ShownIsFinite

\* Two shown rows have two numbers: the upper one has the smaller.
LEMMA NumberIsUnique ==
    ASSUME NEW i \in L!Shown, NEW j \in L!Shown, L!Number(i, L!Shown) = L!Number(j, L!Shown)
    PROVE  i = j
<1>1. ASSUME NEW a \in L!Shown, NEW b \in L!Shown, a > b,
             L!Number(a, L!Shown) = L!Number(b, L!Shown)
      PROVE  FALSE
    <2> DEFINE from(k) == {m \in L!Shown : m >= k}
    <2>0. \A m \in L!Shown : m \in Int
        BY ShownIsFinite
    <2>1. from(a) \in SUBSET from(b) /\ b \in from(b) /\ b \notin from(a)
        BY <1>1, <2>0
    <2>2. IsFiniteSet(from(b))
        BY ShownIsFinite, FS_Subset
    <2>3. Cardinality(from(a)) = Cardinality(from(b))
        BY <1>1, SameCardinality DEF L!Number
    <2> HIDE DEF from
    <2>4. from(b) = from(a)
        BY <2>1, <2>2, <2>3, FS_Subset
    <2> QED
        BY <2>1, <2>4
<1>2. i \in Nat /\ j \in Nat
    BY ShownIsFinite
<1> QED
    BY <1>1, <1>2

LEMMA RowsInitInv == L!Init => RowsInv
BY DEF L!Init, RowsInv, SelectedTicked, SentWereTicked, L!SentWereTicked, L!Selected

\* Where the selection and the list stay, so do the rows that are selected.
LEMMA RowsStay ==
    ASSUME RowsInv, UNCHANGED <<filter, drawn, rowSelection, ticked, moved, strayed>>
    PROVE  RowsInv'
BY DEF RowsInv, SelectedTicked, SentWereTicked, L!SentWereTicked, L!Selected, L!Shown, L!Matches

\* Without ticked numbers nothing is selected.
LEMMA RowsEmpty ==
    ASSUME RowsInv, rowSelection' = {}, UNCHANGED strayed
    PROVE  RowsInv'
BY DEF RowsInv, SelectedTicked, SentWereTicked, L!SentWereTicked, L!Selected

\* Rows that change under ticked numbers have moved.
LEMMA RowsListKeeps ==
    ASSUME RowsInv, L!Fetch \/ \E f \in L!Filter : L!SetFilter(f)
    PROVE  RowsInv'
<1>1. UNCHANGED <<rowSelection, ticked, strayed>>
    BY DEF L!Fetch, L!SetFilter
<1>2. CASE rowSelection = {}
    BY <1>1, <1>2, RowsEmpty
<1>3. CASE rowSelection # {}
    <2>1. ~moved' => ~moved /\ L!Shown' = L!Shown
        BY <1>3 DEF L!Fetch, L!SetFilter, L!Shown, L!Matches
    <2> QED
        BY <1>1, <2>1 DEF RowsInv, SelectedTicked, SentWereTicked, L!SentWereTicked, L!Selected
<1> QED
    BY <1>2, <1>3

\* What ticking makes of the numbers it makes of the rows.
LEMMA RowsSelectKeeps ==
    ASSUME RowsInv, NEW numbers, NEW rows, L!Select(numbers, rows),
           ~moved /\ numbers # {} => {i \in L!Shown : L!Number(i, L!Shown) \in numbers} \subseteq rows
    PROVE  RowsInv'
<1>1. /\ rowSelection' = numbers /\ ticked' = rows /\ (~moved' => ~moved \/ numbers = {})
      /\ UNCHANGED <<filter, drawn, strayed>>
    BY DEF L!Select, L!list
<1>2. L!Shown' = L!Shown
    BY <1>1 DEF L!Shown, L!Matches
<1>3. CASE numbers = {}
    BY <1>1, <1>3, RowsEmpty
<1>4. CASE numbers # {}
    BY <1>1, <1>2, <1>4 DEF RowsInv, SelectedTicked, SentWereTicked, L!SentWereTicked, L!Selected
<1> QED
    BY <1>3, <1>4

LEMMA RowsToggleKeeps ==
    ASSUME RowsInv, NEW i \in L!Id, L!ToggleSelected(i)
    PROVE  RowsInv'
<1> DEFINE k == L!Number(i, L!Shown)
<1>1. i \in L!Shown
    BY DEF L!ToggleSelected
<1>2. \A j \in L!Shown : L!Number(j, L!Shown) = k => j = i
    BY <1>1, NumberIsUnique
<1>3. ~moved => \A j \in L!Shown : L!Number(j, L!Shown) \in rowSelection => j \in ticked
    BY DEF RowsInv, SelectedTicked, L!Selected
<1> HIDE DEF k
<1>4. CASE L!Select(rowSelection \ {k}, ticked \ {i}) /\ k \in rowSelection
    <2>1. ~moved => {j \in L!Shown : L!Number(j, L!Shown) \in rowSelection \ {k}} \subseteq ticked \ {i}
        BY <1>3 DEF k
    <2> QED
        BY <1>4, <2>1, RowsSelectKeeps
<1>5. CASE L!Select(rowSelection \cup {k}, ticked \cup {i})
    <2>1. ~moved => {j \in L!Shown : L!Number(j, L!Shown) \in rowSelection \cup {k}} \subseteq ticked \cup {i}
        BY <1>2, <1>3
    <2> QED
        BY <1>5, <2>1, RowsSelectKeeps
<1> QED
    BY <1>4, <1>5 DEF L!ToggleSelected, k

LEMMA RowsToggleAllKeeps ==
    ASSUME RowsInv, L!ToggleAllRowsSelected
    PROVE  RowsInv'
<1> DEFINE numbers == 1 .. Cardinality(L!Shown)
<1>1. \A j \in L!Shown : L!Number(j, L!Shown) \in numbers
    BY NumberIsShown
<1>2. \/ L!Select(rowSelection \ numbers, ticked \ L!Shown)
      \/ L!Select(rowSelection \cup numbers, ticked \cup L!Shown)
    BY SameCardinality DEF L!ToggleAllRowsSelected
<1> HIDE DEF numbers
<1>3. {j \in L!Shown : L!Number(j, L!Shown) \in rowSelection \ numbers} = {}
    BY <1>1
<1>4. CASE L!Select(rowSelection \ numbers, ticked \ L!Shown)
    BY <1>3, <1>4, RowsSelectKeeps
<1>5. CASE L!Select(rowSelection \cup numbers, ticked \cup L!Shown)
    BY <1>5, RowsSelectKeeps
<1> QED
    BY <1>2, <1>4, <1>5

\* A bulk action is sent for the selected rows, hence for ticked ones.
LEMMA RowsSendKeeps ==
    ASSUME RowsInv, NEW c \in ListCall, L!Apply(c) \/ L!BulkDelete(c)
    PROVE  RowsInv'
<1>1. UNCHANGED <<filter, drawn, rowSelection, ticked, moved>> /\ L!Strays
    BY DEF L!Apply, L!BulkDelete, L!Request, L!list, L!selection
<1>2. strayed' = (strayed \/ (~moved /\ ~(L!Selected \subseteq ticked)))
    BY <1>1 DEF L!Strays
<1>3. ~strayed'
    BY <1>2, Zenon DEF RowsInv, SelectedTicked, SentWereTicked, L!SentWereTicked
<1>4. SelectedTicked'
    BY <1>1 DEF RowsInv, SelectedTicked, L!Selected, L!Shown, L!Matches
<1> QED
    BY <1>3, <1>4 DEF RowsInv, SentWereTicked, L!SentWereTicked

\* A continuation empties the selection with all that goes with it, or nothing of it.
LEMMA RowsSucceedKeeps ==
    ASSUME RowsInv, NEW c \in ListCall, L!Succeed(c)
    PROVE  RowsInv'
<1> DEFINE kind == asking[c].kind
           clears == L!ClearsSelection(kind)
<1>1. /\ rowSelection' = IF clears THEN {} ELSE rowSelection
      /\ ticked' = IF kind \in {"price", "stock", "status"} \/ clears THEN {} ELSE ticked
      /\ moved' = (moved /\ ~clears)
      /\ UNCHANGED <<filter, drawn, strayed>>
    BY DEF L!Succeed, L!list
<1>2. kind \in {"price", "stock", "status"} => clears
    BY DEF L!ClearsSelection
<1> HIDE DEF kind, clears
<1>3. CASE clears
    BY <1>1, <1>3, RowsEmpty
<1>4. CASE ~clears
    <2>1. rowSelection' = rowSelection /\ ticked' = ticked /\ (moved' <=> moved)
        BY <1>1, <1>2, <1>4
    <2> QED
        BY <1>1, <2>1 DEF RowsInv, SelectedTicked, SentWereTicked, L!SentWereTicked, L!Selected,
                          L!Shown, L!Matches
<1> QED
    BY <1>3, <1>4

\* The rows that are selected are ticked: inductive.
LEMMA RowsStep == RowsInv /\ [L!Next]_(L!vars) => RowsInv'
<1> SUFFICES ASSUME RowsInv, [L!Next]_(L!vars) PROVE RowsInv'
    OBVIOUS
<1>1. CASE UNCHANGED L!vars
    BY <1>1, RowsStay DEF L!vars, L!list, L!selection
<1>2. CASE L!ClearSelection
    BY <1>2, RowsSelectKeeps DEF L!ClearSelection
<1>3. CASE \E i \in L!Id : L!OpenSingle(i)
    BY <1>3, RowsStay DEF L!OpenSingle, L!list, L!selection
<1>4. CASE \E d \in {"price", "bulkDelete", "status", "stock"} : L!OpenBulk(d)
    BY <1>4, RowsStay DEF L!OpenBulk, L!list, L!selection
<1>5. CASE L!Enter \/ L!Close \/ L!ChangedElsewhere
    BY <1>5, RowsStay DEF L!Enter, L!Close, L!ChangedElsewhere, L!list, L!selection
<1>6. ASSUME NEW c \in ListCall,
             L!Single(c) \/ L!SyncOrders(c) \/ L!Fail(c) \/ L!Served(c) \/ L!Refused(c)
      PROVE  RowsInv'
    BY <1>6, RowsStay DEF L!Single, L!SyncOrders, L!Request, L!Fail, L!Served, L!Refused, L!list,
                          L!selection
<1> QED
    BY <1>1, <1>2, <1>3, <1>4, <1>5, <1>6, RowsListKeeps, RowsToggleKeeps, RowsToggleAllKeeps,
       RowsSendKeeps, RowsSucceedKeeps
    DEF L!Next

-----------------------------------------------------------------------------
(* Types of the lists                                                      *)

\* A dialog about one row has its row.
TargetIsRow == opened \in {"delete", "edit"} => target \in L!Id
ListInv == L!TypeOK /\ TargetIsRow

LEMMA ListIdle == L!Idle \in L!Calls
BY DEF L!Idle, L!Calls, L!Kind

\* The dialogs of a table are those that its requests are called by.
LEMMA DialogsAreKinds ==
    ASSUME NEW t \in DOMAIN L!BulkOf
    PROVE  /\ L!BulkOf[t] \cup L!SingleOf[t] \cup {"none"} \subseteq L!Kind \cup {"none"}
           /\ L!SingleOf[t] \subseteq {"delete", "edit"}
           /\ L!BulkOf[t] \cap {"delete", "edit"} = {}
<1>1. t \in {"products", "orders", "inventory"}
    BY DEF L!BulkOf
<1> QED
    BY <1>1 DEF L!BulkOf, L!SingleOf, L!Kind

LEMMA ListInitInv == L!Init => ListInv
<1> SUFFICES ASSUME L!Init PROVE ListInv
    OBVIOUS
<1>1. /\ table \in DOMAIN L!BulkOf /\ changes = 0
      /\ asking = [c \in ListCall |-> L!Idle] /\ asked = 0
      /\ filter = "all" /\ drawn = row /\ rowSelection = {} /\ ticked = {}
      /\ opened = "none" /\ target = NoRow /\ queue = {}
    BY DEF L!Init
<1>2. moved = FALSE /\ entered = FALSE /\ strayed = FALSE
    BY DEF L!Init
<1>3. row \in L!List
    <2> PICK newest \in {"gone", "closed"} : row = [i \in L!Id |-> IF i = N THEN newest ELSE "open"]
        BY DEF L!Init
    <2> QED
        BY DEF L!List, L!Class
<1>4. asking \in [ListCall -> L!Calls]
    BY <1>1, ListIdle
<1>5. changes \in 0 .. MaxChanges /\ asked \in 0 .. MaxListCalls
    BY <1>1, ListsAssumption
<1> QED
    BY <1>1, <1>2, <1>3, <1>4, <1>5 DEF ListInv, L!TypeOK, L!Filter, TargetIsRow

\* An answer has the rows that are there, or none of them.
LEMMA AnswerTypes ==
    ASSUME ListInv, NEW f
    PROVE  L!Answer(f) \in L!List
BY DEF ListInv, L!TypeOK, L!List, L!Class, L!Answer

\* What a request leaves of the selection and of the dialogs is of their types.
LEMMA ListFetchTypes ==
    ASSUME ListInv, L!Fetch \/ \E f \in L!Filter : L!SetFilter(f)
    PROVE  ListInv'
<1>1. /\ UNCHANGED <<table, row, changes, asking, asked, rowSelection, ticked, queue, strayed, opened, target>>
      /\ filter' \in L!Filter /\ drawn' \in L!List
    BY AnswerTypes DEF L!Fetch, L!SetFilter, L!form, ListInv, L!TypeOK
<1>2. moved' \in BOOLEAN
    BY Zenon DEF L!Fetch, L!SetFilter
<1>3. entered' \in BOOLEAN
    BY DEF L!Fetch, L!SetFilter, L!Undraw, L!form, ListInv, L!TypeOK
<1> QED
    BY <1>1, <1>2, <1>3 DEF ListInv, L!TypeOK, TargetIsRow, L!Id

\* Ticked numbers are numbers of rows.
LEMMA ListSelectTypes ==
    ASSUME ListInv, NEW numbers \in SUBSET L!Id, NEW rows \in SUBSET L!Id, L!Select(numbers, rows)
    PROVE  ListInv'
<1>1. /\ rowSelection' = numbers /\ ticked' = rows
      /\ UNCHANGED <<table, row, changes, asking, asked, filter, drawn, opened, target, entered, queue, strayed>>
    BY DEF L!Select, L!list, L!form
<1>2. moved' \in BOOLEAN
    BY Zenon DEF L!Select
<1> QED
    BY <1>1, <1>2 DEF ListInv, L!TypeOK, TargetIsRow, L!Id

LEMMA ListTickTypes ==
    ASSUME ListInv, L!ToggleAllRowsSelected \/ L!ClearSelection \/ \E i \in L!Id : L!ToggleSelected(i)
    PROVE  ListInv'
<1>1. /\ rowSelection \in SUBSET L!Id /\ ticked \in SUBSET L!Id /\ L!Shown \in SUBSET L!Id
      /\ 1 .. Cardinality(L!Shown) \in SUBSET L!Id
    BY ShownIsFinite, ListsAssumption DEF ListInv, L!TypeOK, L!Id
<1>2. CASE L!ToggleAllRowsSelected
    <2> DEFINE numbers == 1 .. Cardinality(L!Shown)
    <2>1. \/ L!Select(rowSelection \ numbers, ticked \ L!Shown)
          \/ L!Select(rowSelection \cup numbers, ticked \cup L!Shown)
        BY <1>2, SameCardinality DEF L!ToggleAllRowsSelected
    <2> QED
        BY <1>1, <2>1, ListSelectTypes
<1>3. CASE L!ClearSelection
    BY <1>3, ListSelectTypes DEF L!ClearSelection
<1>4. ASSUME NEW i \in L!Id, L!ToggleSelected(i)
      PROVE  ListInv'
    <2>1. L!Number(i, L!Shown) \in L!Id
        BY <1>1, <1>4, NumberIsShown DEF L!ToggleSelected
    <2>2. \/ L!Select(rowSelection \ {L!Number(i, L!Shown)}, ticked \ {i})
          \/ L!Select(rowSelection \cup {L!Number(i, L!Shown)}, ticked \cup {i})
        BY <1>4 DEF L!ToggleSelected
    <2> QED
        BY <1>1, <2>1, <2>2, ListSelectTypes
<1> QED
    BY <1>2, <1>3, <1>4

LEMMA ListDialogTypes ==
    ASSUME ListInv,
           \/ \E d \in {"price", "bulkDelete", "status", "stock"} : L!OpenBulk(d)
           \/ \E i \in L!Id : L!OpenSingle(i)
           \/ L!Enter \/ L!Close
    PROVE  ListInv'
<1>1. UNCHANGED <<table, row, changes, asking, asked, filter, drawn, rowSelection, ticked, moved, queue, strayed>>
    BY DEF L!OpenBulk, L!OpenSingle, L!Enter, L!Close, L!list, L!selection
<1>2. L!Shown \subseteq L!Id
    BY ShownIsFinite DEF L!Id
<1>3. /\ opened' \in L!BulkOf[table] \cup L!SingleOf[table] \cup {"none"}
      /\ target' \in L!Id \cup {NoRow} /\ entered' \in BOOLEAN
      /\ opened' \in {"delete", "edit"} => target' \in L!Id
    BY <1>2, DialogsAreKinds DEF L!OpenBulk, L!OpenSingle, L!Enter, L!Close, ListInv, L!TypeOK, TargetIsRow
<1> QED
    BY <1>1, <1>3 DEF ListInv, L!TypeOK, TargetIsRow, L!Id

\* A set of rows that is not empty has a first one, the greatest.
LEMMA FirstIsRow ==
    ASSUME NEW S \in SUBSET L!Id, S # {}
    PROVE  L!First(S) \in S
<1> DEFINE T == {N - x : x \in S}
<1>1. N \in Nat /\ \A x \in S : x \in 1 .. N
    BY ListsAssumption DEF L!Id
<1>2. T \subseteq Nat /\ T # {}
    <2>1. \A x \in S : N - x \in Nat
        BY <1>1
    <2> QED
        BY <2>1
<1>3. PICK t \in T : \A u \in T : ~(<<u, t>> \in OpToRel(<, Nat))
    <2> HIDE DEF T
    <2> QED
        BY <1>2, NatLessThanWellFounded, WFMin
<1>4. \A u \in T : ~(u < t)
    BY <1>2, <1>3 DEF OpToRel
<1>5. PICK x \in S : t = N - x
    BY <1>3
<1>6. \A y \in S : y <= x
    <2> TAKE y \in S
    <2>1. ~(N - y < N - x)
        BY <1>4, <1>5
    <2> QED
        BY <2>1, <1>1
<1> QED
    BY <1>5, <1>6 DEF L!First

LEMMA ListSendTypes ==
    ASSUME ListInv, NEW c \in ListCall, NEW kind \in L!Kind, NEW ids \in SUBSET L!Id,
           L!Request(c, kind, ids), queue' \subseteq L!Id, strayed' \in BOOLEAN
    PROVE  ListInv'
<1> DEFINE r == [phase |-> "sent", kind |-> kind, ids |-> ids]
<1>1. /\ asked < MaxListCalls /\ asked' = asked + 1 /\ asking' = [asking EXCEPT ![c] = r]
      /\ UNCHANGED <<table, row, changes, filter, drawn, opened, target, entered, rowSelection, ticked, moved>>
    BY DEF L!Request, L!list, L!form, L!selection
<1>2. r \in L!Calls
    BY DEF L!Calls
<1> HIDE DEF r
<1>3. asking' \in [ListCall -> L!Calls]
    BY <1>1, <1>2 DEF ListInv, L!TypeOK
<1>4. asked' \in 0 .. MaxListCalls
    BY <1>1, ListsAssumption DEF ListInv, L!TypeOK
<1> QED
    BY <1>1, <1>3, <1>4 DEF ListInv, L!TypeOK, TargetIsRow, L!Id

LEMMA ListAskTypes ==
    ASSUME ListInv, NEW c \in ListCall,
           L!Apply(c) \/ L!BulkDelete(c) \/ L!Single(c) \/ L!SyncOrders(c)
    PROVE  ListInv'
<1>1. L!Selected \in SUBSET L!Id
    BY ShownIsFinite DEF L!Selected, L!Id
<1>2. L!Strays => strayed' \in BOOLEAN
    BY Zenon DEF L!Strays
<1>3. queue \subseteq L!Id /\ strayed \in BOOLEAN
    BY DEF ListInv, L!TypeOK
<1>4. CASE L!Apply(c)
    <2>1. L!Request(c, opened, L!Selected) /\ opened \in L!Kind /\ L!Strays /\ queue' = queue
        BY <1>4 DEF L!Apply, L!Kind
    <2> QED
        BY <1>1, <1>2, <1>3, <2>1, ListSendTypes
<1>5. CASE L!BulkDelete(c)
    <2>1. /\ L!Request(c, "bulkDelete", {L!First(L!Selected)}) /\ L!Selected # {} /\ L!Strays
          /\ queue' = L!Selected \ {L!First(L!Selected)}
        BY <1>5 DEF L!BulkDelete
    <2>2. {L!First(L!Selected)} \in SUBSET L!Id /\ queue' \subseteq L!Id
        BY <1>1, <2>1, FirstIsRow
    <2>3. "bulkDelete" \in L!Kind
        BY DEF L!Kind
    <2> QED
        BY <1>2, <2>1, <2>2, <2>3, ListSendTypes
<1>6. CASE L!Single(c)
    <2>1. L!Request(c, opened, {target}) /\ opened \in {"delete", "edit"} /\ UNCHANGED <<queue, strayed>>
        BY <1>6 DEF L!Single
    <2>2. {target} \in SUBSET L!Id /\ opened \in L!Kind
        BY <2>1 DEF ListInv, TargetIsRow, L!Kind
    <2> QED
        BY <1>3, <2>1, <2>2, ListSendTypes
<1>7. CASE L!SyncOrders(c)
    <2>1. L!Request(c, "sync", {}) /\ UNCHANGED <<queue, strayed>>
        BY <1>7 DEF L!SyncOrders
    <2>2. "sync" \in L!Kind /\ {} \in SUBSET L!Id
        BY DEF L!Kind
    <2> QED
        BY <1>3, <2>1, <2>2, ListSendTypes
<1> QED
    BY <1>4, <1>5, <1>6, <1>7

\* A continuation sends the next id of the queue, the next channel or the undo.
LEMMA ListSucceedTypes ==
    ASSUME ListInv, NEW c \in ListCall, L!Succeed(c)
    PROVE  ListInv'
<1> DEFINE kind == asking[c].kind
           clears == L!ClearsSelection(kind)
           more == {i \in queue : kind = "bulkDelete" /\ i = L!First(queue)}
           r == [phase |-> "sent", kind |-> IF kind = "price" THEN "undo" ELSE kind,
                 ids |-> IF kind = "price" THEN asking[c].ids ELSE more]
<1>1. /\ opened' = IF opened \in L!Closes(kind) THEN "none" ELSE opened
      /\ target' = IF opened \in L!Closes(kind) THEN NoRow ELSE target
      /\ rowSelection' = IF clears THEN {} ELSE rowSelection
      /\ ticked' = IF kind \in {"price", "stock", "status"} \/ clears THEN {} ELSE ticked
      /\ UNCHANGED <<table, row, changes, filter, drawn, entered, strayed>>
    BY DEF L!Succeed, L!list
<1>2. moved' \in BOOLEAN
    BY Zenon DEF L!Succeed
<1>3. \/ asking' = [asking EXCEPT ![c] = L!Idle] /\ UNCHANGED <<asked, queue>>
      \/ /\ asked < MaxListCalls /\ asked' = asked + 1 /\ queue' = queue \ more
         /\ asking' = [asking EXCEPT ![c] = r]
    BY DEF L!Succeed
<1>4. queue \subseteq L!Id /\ asking[c] \in L!Calls
    BY DEF ListInv, L!TypeOK
<1>5. r \in L!Calls
    BY <1>4 DEF L!Calls, L!Kind
<1>6. opened' \in {opened, "none"} /\ (opened' = "none" \/ target' = target) /\ target' \in {target, NoRow}
    BY <1>1
<1>7. rowSelection' \subseteq L!Id /\ ticked' \subseteq L!Id
    BY <1>1 DEF ListInv, L!TypeOK
<1> HIDE DEF r, kind, clears, more
<1>8. asking' \in [ListCall -> L!Calls] /\ queue' \subseteq L!Id
    BY <1>3, <1>4, <1>5, ListIdle DEF ListInv, L!TypeOK
<1>9. asked' \in 0 .. MaxListCalls
    BY <1>3, ListsAssumption DEF ListInv, L!TypeOK
<1> QED
    BY <1>1, <1>2, <1>6, <1>7, <1>8, <1>9 DEF ListInv, L!TypeOK, TargetIsRow, L!Id

LEMMA ListFailTypes ==
    ASSUME ListInv, NEW c \in ListCall, L!Fail(c)
    PROVE  ListInv'
<1> DEFINE r == [asking[c] EXCEPT !.phase = "sent"]
<1>1. UNCHANGED <<table, row, changes, filter, drawn, opened, target, entered, rowSelection, ticked, moved, strayed>>
    BY DEF L!Fail, L!list, L!form, L!selection
<1>2. \/ asking' = [asking EXCEPT ![c] = L!Idle] /\ asked' = asked
      \/ asked < MaxListCalls /\ asked' = asked + 1 /\ asking' = [asking EXCEPT ![c] = r]
    BY DEF L!Fail
<1>3. queue' \in {{}, queue}
    BY DEF L!Fail
<1>4. r \in L!Calls
    BY DEF ListInv, L!TypeOK, L!Calls
<1> HIDE DEF r
<1>5. asking' \in [ListCall -> L!Calls] /\ queue' \subseteq L!Id
    BY <1>2, <1>3, <1>4, ListIdle DEF ListInv, L!TypeOK
<1>6. asked' \in 0 .. MaxListCalls
    BY <1>2, ListsAssumption DEF ListInv, L!TypeOK
<1> QED
    BY <1>1, <1>5, <1>6 DEF ListInv, L!TypeOK, TargetIsRow, L!Id

\* The server and the others make rows of rows.
LEMMA ListServeTypes ==
    ASSUME ListInv, NEW c \in ListCall, L!Served(c) \/ L!Refused(c)
    PROVE  ListInv'
<1>1. PICK p \in {"ok", "error"} : asking' = [asking EXCEPT ![c].phase = p]
    BY DEF L!Served, L!Refused
<1> DEFINE r == [asking[c] EXCEPT !.phase = p]
<1>2. r \in L!Calls
    BY DEF ListInv, L!TypeOK, L!Calls
<1>3. asking' = [asking EXCEPT ![c] = r]
    BY <1>1
<1> HIDE DEF r
<1>4. asking' \in [ListCall -> L!Calls]
    BY <1>2, <1>3 DEF ListInv, L!TypeOK
<1>5. UNCHANGED <<table, changes, asked, filter, drawn, opened, target, entered, rowSelection, ticked, moved, queue, strayed>>
    BY DEF L!Served, L!Refused, L!list, L!form, L!selection
<1>6. row' \in L!List
    <2>1. row \in L!List /\ N \in L!Id
        BY ListsAssumption DEF ListInv, L!TypeOK, L!Id
    <2>2. CASE L!Refused(c)
        BY <2>1, <2>2 DEF L!Refused
    <2>3. CASE L!Effect(c)
        BY <2>1, <2>3 DEF L!Effect, L!List, L!Class
    <2> QED
        BY <2>2, <2>3 DEF L!Served
<1> QED
    BY <1>4, <1>5, <1>6 DEF ListInv, L!TypeOK, TargetIsRow, L!Id

LEMMA ListElsewhereTypes ==
    ASSUME ListInv, L!ChangedElsewhere
    PROVE  ListInv'
<1>1. UNCHANGED <<table, asking, asked, filter, drawn, opened, target, entered, rowSelection, ticked, moved, queue, strayed>>
    BY DEF L!ChangedElsewhere, L!list, L!form, L!selection
<1>2. changes' \in 0 .. MaxChanges
    BY ListsAssumption DEF L!ChangedElsewhere, ListInv, L!TypeOK
<1>3. row' \in L!List
    BY DEF L!ChangedElsewhere, ListInv, L!TypeOK, L!List, L!Class
<1> QED
    BY <1>1, <1>2, <1>3 DEF ListInv, L!TypeOK, TargetIsRow, L!Id

\* Every step keeps the types of the lists.
LEMMA ListStep == ListInv /\ [L!Next]_(L!vars) => ListInv'
<1> SUFFICES ASSUME ListInv, [L!Next]_(L!vars) PROVE ListInv'
    OBVIOUS
<1>1. CASE UNCHANGED L!vars
    <2>1. UNCHANGED <<table, row, changes, asking, asked, filter, drawn, opened, target, entered, rowSelection,
                      ticked, moved, queue, strayed>>
        BY <1>1 DEF L!vars, L!list, L!form, L!selection
    <2> QED
        BY <2>1 DEF ListInv, L!TypeOK, TargetIsRow, L!Id
<1>2. CASE L!Next
    BY <1>2, ListFetchTypes, ListTickTypes, ListDialogTypes, ListAskTypes, ListSucceedTypes,
       ListFailTypes, ListServeTypes, ListElsewhereTypes
    DEF L!Next
<1> QED
    BY <1>1, <1>2

\* A step of the lists is one of theirs or leaves them as they are.
LEMMA RowsOfLists == [ListsNext]_listsVars => [L!Next]_(L!vars)
BY DEF ListsNext, listsVars, listVars, L!vars, L!list, L!form, L!selection

\* Every variable of the lists keeps its type, and a dialog about one row, to
\* delete or to edit it, has a row of the table behind it.
THEOREM ListsTyped == ListsSpec => []ListInv
<1>1. ListsInit => ListInv
    BY ListInitInv DEF ListsInit
<1> QED
    BY <1>1, ListStep, RowsOfLists, PTL DEF ListsSpec

\* For tables of any length and any number of changes from elsewhere: unless rows
\* moved under the ticked numbers, the rows those numbers stand for were ticked.
THEOREM RowsInvariant == ListsSpec => []RowsInv
<1>1. ListsInit => RowsInv
    BY RowsInitInv DEF ListsInit
<1> QED
    BY <1>1, RowsStep, RowsOfLists, PTL DEF ListsSpec

\* A bulk action is sent for rows that were ticked since the last one, unless a
\* filter, a fetch or a load moved the rows under the ticked numbers.
THEOREM BulkSentTicked == ListsSpec => []SentWereTicked
<1>1. RowsInv => SentWereTicked
    BY DEF RowsInv
<1> QED
    BY <1>1, RowsInvariant, PTL

===============================================================================
