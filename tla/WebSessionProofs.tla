--------------------------- MODULE WebSessionProofs ---------------------------
(***************************************************************************)
(* Proofs about the seller's session: for any number of users, concurrent  *)
(* requests, logins and tokens; and about the wizard of the channels page, *)
(* for any number of shops, requests and expiries.                         *)
(***************************************************************************)
EXTENDS MCWebSession, TLAPS

\* Tokens and a user come from a login.
LoggedInBefore == user # Nothing \/ tokens # Nothing \/ stored # Nothing => session >= 1

\* A refresh began in this session or an earlier one, and one of this session
\* is of the user who is logged in.
RefreshOfItsSession ==
    refresh # Nothing =>
        /\ refresh.session <= session
        /\ ~crossed /\ refresh.session = session /\ user # Nothing
               => refresh.tokens.owner = user

\* A pending promise is that of the refresh in flight.
PromiseIsKept == (isRefreshing /\ refreshPromise = "pending") <=> refresh # Nothing

\* No request waits for a refresh that is not in flight.
NobodyWaitsForNothing ==
    \A r \in Request : request[r].phase = "waiting" => refresh # Nothing

IInv == /\ TypeOK /\ LoggedInBefore
        /\ SessionConsistent /\ RefreshOfItsSession
        /\ PromiseIsKept /\ NobodyWaitsForNothing /\ RefreshingMeansInFlight

-----------------------------------------------------------------------------
(* Records                                                                 *)

\* null is neither a user nor any of the records.
LEMMA NotNull ==
    /\ \A u \in User : u # Nothing
    /\ \A t \in Tokens : t # Nothing
    /\ \A s \in [user : User, tokens : Tokens] : s # Nothing
    /\ \A f \in [tokens : Tokens, session : 1 .. MaxLogins] : f # Nothing
<1>1. Tokens \subseteq [owner : User, serial : Nat]
    BY BoundAssumption DEF Tokens
<1>2. 1 .. MaxLogins \subseteq Nat
    BY BoundAssumption
<1> HIDE DEF Tokens
<1> QED
    BY <1>1, <1>2, NothingAssumption

\* A pair that is issued is the next one, of the user who asked.
LEMMA IssueTypes ==
    ASSUME TypeOK, Issues, NEW u \in User
    PROVE  /\ Issue(u) \in Tokens /\ Issue(u).owner = u
           /\ issued' \in 0 .. MaxTokens /\ alive' \subseteq 1 .. issued' /\ enabled' = enabled
BY BoundAssumption DEF TypeOK, Issues, Issue, Tokens

\* A request that is sent, or not at work, is a request.
LEMMA CallTypes ==
    /\ Idle \in Calls
    /\ \A b \in BOOLEAN, t \in Tokens \cup {Nothing} : Sent(b, t) \in Calls
BY DEF Idle, Calls, Sent

\* A request that waits for the refresh is a request.
LEMMA WaitingTypes ==
    ASSUME NEW k \in Calls
    PROVE  /\ [k EXCEPT !.phase = "waiting"] \in Calls
           /\ [k EXCEPT !.phase = "waiting"].phase = "waiting"
BY DEF Calls

\* A refresh that begins is one, of the tokens in the store.
LEMMA RefreshBegins ==
    ASSUME TypeOK, LoggedInBefore, NEW r \in Request, StartRefresh(r)
    PROVE  /\ refresh' \in [tokens : Tokens, session : 1 .. MaxLogins]
           /\ refresh' # Nothing
           /\ refresh'.tokens = tokens /\ refresh'.session = session
<1>1. tokens \in Tokens /\ session \in 1 .. MaxLogins
    BY BoundAssumption DEF TypeOK, LoggedInBefore, StartRefresh, CanAsk
<1>2. refresh' = [tokens |-> tokens, session |-> session]
    BY DEF StartRefresh
<1> QED
    BY <1>1, <1>2, NotNull

-----------------------------------------------------------------------------
(* The requests                                                            *)

\* A step of one request keeps the requests in their type.
LEMMA RequestTypes ==
    ASSUME TypeOK, NEW r \in Request, Send(r) \/ Ends(r)
    PROVE  request' \in [Request -> Calls]
<1> USE DEF TypeOK
<1> DEFINE w == [request[r] EXCEPT !.phase = "waiting"]
<1>1. w \in Calls
    BY WaitingTypes
<1> HIDE DEF w
<1>2. CASE Send(r)
    BY <1>2, CallTypes DEF Send
<1>3. CASE Answer(r) \/ GiveUp(r) \/ NoSession(r)
    BY <1>3, CallTypes DEF Answer, GiveUp, NoSession
<1>4. CASE Join(r)
    <2>1. request' = [request EXCEPT ![r] = w] \/ request' = [request EXCEPT ![r] = Idle]
        BY <1>4 DEF Join, w
    <2> QED
        BY <1>1, <2>1, CallTypes
<1>5. CASE StartRefresh(r)
    <2>1. request' = [request EXCEPT ![r] = w]
        BY <1>5 DEF StartRefresh, w
    <2> QED
        BY <1>1, <2>1
<1> QED
    BY <1>2, <1>3, <1>4, <1>5 DEF Ends

\* A request that ends, or joins a refresh, waits for one that is in flight.
LEMMA WaitersKept ==
    ASSUME IInv, NEW r \in Request, Send(r) \/ Ends(r)
    PROVE  NobodyWaitsForNothing'
<1> USE DEF IInv, TypeOK, NobodyWaitsForNothing
<1>1. CASE Send(r)
    BY <1>1 DEF Send, Sent, client
<1>2. CASE Answer(r) \/ GiveUp(r)
    BY <1>2 DEF Answer, GiveUp, Idle, client
<1>3. CASE NoSession(r)
    BY <1>3 DEF NoSession, Idle
<1>4. CASE Join(r)
    <2>1. refreshPromise # "pending" => request' = [request EXCEPT ![r] = Idle]
        BY <1>4 DEF Join
    <2>2. refreshPromise = "pending" => refresh # Nothing
        BY <1>4 DEF Join, Underway, PromiseIsKept
    <2>3. refresh' = refresh /\ \A d \in Request \ {r} : request'[d] = request[d]
        BY <1>4 DEF Join, client
    <2>4. refreshPromise # "pending" => request'[r].phase = "idle"
        BY <2>1 DEF Idle
    <2> QED
        BY <2>2, <2>3, <2>4
<1>5. CASE StartRefresh(r)
    <2>1. refresh' # Nothing
        BY <1>5, RefreshBegins
    <2> QED
        BY <2>1
<1> QED
    BY <1>1, <1>2, <1>3, <1>4, <1>5 DEF Ends

\* A refresh that settles leaves nobody waiting, and the requests in their type.
LEMMA SettlesRequests ==
    ASSUME IInv, Settles
    PROVE  request' \in [Request -> Calls] /\ NobodyWaitsForNothing'
<1> USE DEF IInv, TypeOK
<1>1. CASE RefreshSucceeds
    <2> DEFINE t == Issue(refresh.tokens.owner)
    <2>1. refresh.tokens.owner \in User
        BY <1>1 DEF RefreshSucceeds
    <2>2. t \in Tokens
        BY <1>1, <2>1, IssueTypes DEF RefreshSucceeds
    <2>3. Sent(TRUE, t) \in Calls /\ Sent(TRUE, t).phase = "sent"
        BY <2>2, CallTypes DEF Sent
    <2>4. request' = [r \in Request |-> Resumed(request[r], Sent(TRUE, t))]
        BY <1>1 DEF RefreshSucceeds
    <2> HIDE DEF t
    <2> QED
        BY <2>3, <2>4 DEF Resumed, NobodyWaitsForNothing
<1>2. CASE RefreshFails
    <2>1. request' = [r \in Request |-> Resumed(request[r], Idle)]
        BY <1>2 DEF RefreshFails, Failed
    <2>2. Idle.phase = "idle"
        BY DEF Idle
    <2> QED
        BY <2>1, <2>2, CallTypes DEF Resumed, NobodyWaitsForNothing
<1> QED
    BY <1>1, <1>2 DEF Settles

-----------------------------------------------------------------------------
(* The steps                                                               *)

\* A login, a logout and a reload begin a session with nothing of another user,
\* or one that some refresh is known to have crossed.
LEMMA StoreSteps ==
    ASSUME IInv, (\E u \in User : Login(u)) \/ LogOut \/ Reload
    PROVE  IInv'
<1> USE DEF IInv
<1>1. ASSUME NEW u \in User, Login(u) PROVE IInv'
    <2>1. /\ user' = u /\ tokens' = Issue(u)
          /\ stored' = [user |-> u, tokens |-> Issue(u)]
          /\ session' = session + 1 /\ session < MaxLogins
          /\ UNCHANGED <<isRefreshing, refreshPromise, refresh, request, late>>
        BY <1>1 DEF Login, client
    <2>2. Issue(u) \in Tokens /\ Issue(u).owner = u
        BY <1>1, IssueTypes DEF Login
    <2>3. TypeOK'
        <3>1. stored' \in [user : User, tokens : Tokens]
            BY <2>1, <2>2
        <3>2. issued' \in 0 .. MaxTokens /\ alive' \subseteq 1 .. issued' /\ enabled' = enabled
            BY <1>1, IssueTypes DEF Login
        <3>3. session' \in 0 .. MaxLogins
            BY <2>1, BoundAssumption DEF TypeOK
        <3>4. crossed' = FALSE
            BY <1>1 DEF Login
        <3> QED
            BY <2>1, <2>2, <3>1, <3>2, <3>3, <3>4 DEF TypeOK
    <2>4. LoggedInBefore' /\ SessionConsistent'
        BY <2>1, <2>2, <2>3, NotNull DEF LoggedInBefore, SessionConsistent, TypeOK
    <2>5. RefreshOfItsSession'
        BY <2>1 DEF RefreshOfItsSession, TypeOK
    <2> QED
        BY <2>1, <2>3, <2>4, <2>5
        DEF PromiseIsKept, NobodyWaitsForNothing, RefreshingMeansInFlight
<1>2. CASE LogOut
    <2>1. /\ user' = Nothing /\ tokens' = Nothing /\ stored' = Nothing
          /\ UNCHANGED <<isRefreshing, refreshPromise, refresh, request, issued, alive,
                         enabled, session, late>> /\ crossed' = FALSE
        BY <1>2 DEF LogOut, SignedOut, client, server
    <2> QED
        BY <2>1 DEF TypeOK, LoggedInBefore, SessionConsistent, RefreshOfItsSession,
                    PromiseIsKept, NobodyWaitsForNothing, RefreshingMeansInFlight
<1>3. CASE Reload
    <2>1. /\ stored = Nothing => user' = Nothing /\ tokens' = Nothing
          /\ stored # Nothing => user' = stored.user /\ tokens' = stored.tokens
          /\ crossed' = (crossed /\ stored # Nothing)
          /\ isRefreshing' = FALSE /\ refreshPromise' = "none" /\ refresh' = Nothing
          /\ request' = [r \in Request |-> Idle] /\ late' = FALSE
          /\ UNCHANGED <<stored, issued, alive, enabled, session>>
        BY <1>3 DEF Reload, server
    <2>2. TypeOK'
        <3>1. user' \in User \cup {Nothing} /\ tokens' \in Tokens \cup {Nothing}
            BY <2>1 DEF TypeOK
        <3> QED
            BY <2>1, <3>1, CallTypes DEF TypeOK
    <2>3. LoggedInBefore'
        BY <2>1 DEF LoggedInBefore
    <2>4. SessionConsistent'
        <3>1. CASE stored = Nothing
            BY <2>1, <3>1 DEF SessionConsistent
        <3>2. CASE stored # Nothing /\ ~crossed
            <4>1. user # Nothing /\ tokens # Nothing /\ tokens.owner = user
                  /\ stored = [user |-> user, tokens |-> tokens]
                BY <3>2 DEF SessionConsistent
            <4>2. user' = user /\ tokens' = tokens
                BY <2>1, <3>2, <4>1
            <4> QED
                BY <2>1, <4>1, <4>2 DEF SessionConsistent
        <3>3. CASE stored # Nothing /\ crossed
            BY <2>1, <3>3 DEF SessionConsistent
        <3> QED
            BY <3>1, <3>2, <3>3 DEF TypeOK
    <2>5. NobodyWaitsForNothing'
        BY <2>1 DEF NobodyWaitsForNothing, Idle
    <2> QED
        BY <2>1, <2>2, <2>3, <2>4, <2>5
        DEF RefreshOfItsSession, PromiseIsKept, RefreshingMeansInFlight
<1> QED
    BY <1>1, <1>2, <1>3

\* A request that is sent, ends or joins a refresh; one that starts a refresh does
\* it for the user who is logged in.
LEMMA RequestSteps ==
    ASSUME IInv, NEW r \in Request, Send(r) \/ Ends(r)
    PROVE  IInv'
<1> USE DEF IInv
<1>1. request' \in [Request -> Calls] /\ NobodyWaitsForNothing'
    BY RequestTypes, WaitersKept
<1>2. CASE Send(r) \/ Answer(r) \/ GiveUp(r) \/ Join(r)
    <2>1. UNCHANGED <<user, tokens, stored, isRefreshing, refreshPromise, refresh,
                      issued, alive, enabled, session, crossed, late>>
        BY <1>2 DEF Send, Answer, GiveUp, Join, store, client, server
    <2> QED
        BY <1>1, <2>1 DEF TypeOK, LoggedInBefore, SessionConsistent, RefreshOfItsSession,
                          PromiseIsKept, RefreshingMeansInFlight
<1>3. CASE StartRefresh(r)
    <2>1. /\ isRefreshing' = TRUE /\ refreshPromise' = "pending" /\ tokens # Nothing
          /\ UNCHANGED <<user, tokens, stored, issued, alive, enabled, session,
                         crossed, late>>
        BY <1>3 DEF StartRefresh, CanAsk, store, server
    <2>2. /\ refresh' \in [tokens : Tokens, session : 1 .. MaxLogins] /\ refresh' # Nothing
          /\ refresh'.tokens = tokens /\ refresh'.session = session
        BY <1>3, RefreshBegins
    <2>3. TypeOK'
        BY <1>1, <2>1, <2>2 DEF TypeOK
    <2>4. RefreshOfItsSession'
        BY <2>1, <2>2 DEF RefreshOfItsSession, SessionConsistent, TypeOK
    <2> QED
        BY <1>1, <2>1, <2>2, <2>3, <2>4 DEF LoggedInBefore, SessionConsistent, PromiseIsKept,
                                            RefreshingMeansInFlight
<1>4. CASE NoSession(r)
    <2>1. /\ user' = Nothing /\ tokens' = Nothing /\ stored' = Nothing /\ crossed' = FALSE
          /\ isRefreshing' = TRUE /\ refreshPromise' = "false" /\ late' = TRUE
          /\ UNCHANGED <<refresh, issued, alive, enabled, session>>
        BY <1>4 DEF NoSession, SignedOut, server
    <2>2. refresh = Nothing
        BY <1>4 DEF NoSession, Underway, PromiseIsKept
    <2> QED
        BY <1>1, <2>1, <2>2 DEF TypeOK, LoggedInBefore, SessionConsistent,
               RefreshOfItsSession, PromiseIsKept, RefreshingMeansInFlight
<1> QED
    BY <1>2, <1>3, <1>4 DEF Ends

\* A refresh that settles brings tokens of the user who is logged in, is known to
\* have crossed a session, or logs out.
LEMMA SettleSteps ==
    ASSUME IInv, Settles
    PROVE  IInv'
<1> USE DEF IInv
<1>1. request' \in [Request -> Calls] /\ NobodyWaitsForNothing'
    BY SettlesRequests
<1>2. /\ refresh # Nothing /\ refresh' = Nothing
      /\ isRefreshing' = FALSE /\ refreshPromise' = "none"
      /\ UNCHANGED <<session, late>>
    BY DEF Settles, RefreshSucceeds, RefreshFails, Finished
<1>3. CASE RefreshSucceeds
    <2> DEFINE t == Issue(refresh.tokens.owner)
    <2>1. refresh.tokens.owner \in User /\ session >= 1
        <3>1. refresh \in [tokens : Tokens, session : 1 .. MaxLogins]
            BY <1>2 DEF TypeOK
        <3>2. refresh.tokens \in Tokens /\ refresh.session \in 1 .. MaxLogins
            BY <3>1
        <3>3. refresh.tokens.owner \in User
            BY <3>2 DEF Tokens
        <3>4. refresh.session <= session /\ session \in Nat
                  /\ refresh.session \in Nat /\ refresh.session >= 1
            BY <1>2, <3>2, BoundAssumption DEF RefreshOfItsSession, TypeOK
        <3> QED
            BY <3>3, <3>4
    <2>2. t \in Tokens /\ t.owner = refresh.tokens.owner
        BY <1>3, <2>1, IssueTypes DEF RefreshSucceeds
    <2>3. /\ tokens' = t /\ user' = user /\ stored' = Persisted(t)
          /\ crossed' = (crossed \/ user = Nothing \/ refresh.session # session)
        BY <1>3 DEF RefreshSucceeds
    <2> HIDE DEF t
    <2>4. stored' \in [user : User, tokens : Tokens] \cup {Nothing}
        BY <2>2, <2>3 DEF Persisted, TypeOK
    <2>5. TypeOK'
        BY <1>1, <1>2, <1>3, <2>1, <2>2, <2>3, <2>4, IssueTypes DEF TypeOK, RefreshSucceeds
    <2>6. SessionConsistent'
        BY <1>2, <2>2, <2>3, NotNull
        DEF SessionConsistent, RefreshOfItsSession, Persisted, TypeOK
    <2> QED
        BY <1>1, <1>2, <2>1, <2>5, <2>6 DEF LoggedInBefore, RefreshOfItsSession, PromiseIsKept,
                                            RefreshingMeansInFlight
<1>4. CASE RefreshFails
    <2>1. /\ user' = Nothing /\ tokens' = Nothing /\ stored' = Nothing /\ crossed' = FALSE
          /\ UNCHANGED <<issued, alive, enabled>>
        BY <1>4 DEF RefreshFails, SignedOut, server
    <2> QED
        BY <1>1, <1>2, <2>1 DEF TypeOK, LoggedInBefore, SessionConsistent,
               RefreshOfItsSession, PromiseIsKept, RefreshingMeansInFlight
<1> QED
    BY <1>3, <1>4 DEF Settles

\* The server's clock and its accounts touch none of the client's state.
LEMMA ServerSteps ==
    ASSUME IInv, Expire \/ (\E u \in User : Disable(u)) \/ UNCHANGED vars
    PROVE  IInv'
<1>1. /\ UNCHANGED <<user, tokens, stored, isRefreshing, refreshPromise, refresh, request,
                     issued, session, crossed, late>>
      /\ alive' \subseteq alive /\ enabled' \subseteq enabled
    BY DEF Expire, Disable, vars, store, client, server
<1> QED
    BY <1>1 DEF IInv, TypeOK, LoggedInBefore, SessionConsistent, RefreshOfItsSession,
                PromiseIsKept, NobodyWaitsForNothing, RefreshingMeansInFlight

-----------------------------------------------------------------------------
(* The theorems                                                            *)

\* Nobody is logged in at the start.
LEMMA InitIInv == Init => IInv
<1> SUFFICES ASSUME Init PROVE IInv
    OBVIOUS
<1>1. TypeOK
    <2>1. request \in [Request -> Calls]
        BY CallTypes DEF Init
    <2>2. issued \in 0 .. MaxTokens /\ session \in 0 .. MaxLogins /\ alive \subseteq 1 .. issued
        BY BoundAssumption DEF Init
    <2> QED
        BY <2>1, <2>2 DEF Init, TypeOK
<1>2. NobodyWaitsForNothing
    BY DEF Init, NobodyWaitsForNothing, Idle
<1> QED
    BY <1>1, <1>2 DEF IInv, Init, LoggedInBefore, SessionConsistent, RefreshOfItsSession,
                      PromiseIsKept, RefreshingMeansInFlight

\* The invariant is inductive.
LEMMA NextIInv == IInv /\ [Next]_vars => IInv'
BY StoreSteps, RequestSteps, SettleSteps, ServerSteps DEF Next

\* The invariant holds in every state.
LEMMA Invariance == Spec => []IInv
BY InitIInv, NextIInv, PTL DEF Spec

\* Every variable of the session keeps its type.
THEOREM TypeCorrect == Spec => []TypeOK
<1>1. IInv => TypeOK
    BY DEF IInv
<1> QED
    BY Invariance, <1>1, PTL

\* The store, localStorage and the identity agree, for any number of users,
\* sessions and requests, unless a refresh has outlived its session.
THEOREM SessionsConsistent == Spec => []SessionConsistent
<1>1. IInv => SessionConsistent
    BY DEF IInv
<1> QED
    BY Invariance, <1>1, PTL

\* The refresh flag outlives its refresh only by a 401 nobody was logged in for.
THEOREM RefreshingIsInFlight == Spec => []RefreshingMeansInFlight
<1>1. IInv => RefreshingMeansInFlight
    BY DEF IInv
<1> QED
    BY Invariance, <1>1, PTL

\* No request ever waits for a refresh that is not in flight: what RequestsEnd
\* rests on, besides the fairness of answers.
THEOREM WaitersAreServed == Spec => []NobodyWaitsForNothing
<1>1. IInv => NobodyWaitsForNothing
    BY DEF IInv
<1> QED
    BY Invariance, <1>1, PTL


-----------------------------------------------------------------------------
(* The wizard of the channels page                                         *)

USE ConnectAssumption

\* What is typed at the Cafe24 step is a mall, and so is what a popup is opened for.
TypedIsMall == C!Open /\ wizard.code = "cafe24" => wizard.typed \in Mall \cup {NoShop}
UrlIsOfMall == \A c \in Call : asking[c].kind = "url" => asking[c].shop \in Mall

NoneIsIdle == \A c \in Call : asking[c].kind = "none" => asking[c].phase = "idle"

\* A request or a poll that is still the wizard's: the wizard is open and has sent
\* a request.
Asker(c) == asking[c].mine /\ asking[c].kind # "disconnect"
AskerIsOpen == \A c \in Call : Asker(c) => C!Open /\ tried
PollerIsOpen == poll.mine => C!Open /\ tried

\* So has one that polls or is done.
PollsOrDone == C!Open /\ (wizard.polling \/ wizard.step = "done") => tried

WizardInv ==
    /\ C!TypeOK
    /\ TypedIsMall /\ UrlIsOfMall /\ NoneIsIdle
    /\ AskerIsOpen /\ PollerIsOpen /\ PollsOrDone

\* The start.
LEMMA WizardInit == C!Init => WizardInv
<1> SUFFICES ASSUME C!Init PROVE WizardInv
  OBVIOUS
<1>1. C!Idle \in C!Calls
  BY DEF C!Idle, C!Calls
<1>2. asking = [c \in Call |-> C!Idle] /\ wizard = C!Closed /\ poll = C!NoPoll
  BY DEF C!Init
<1>3. asking \in [Call -> C!Calls]
  BY <1>1, <1>2
<1>4. poll \in [phase : {"none", "sent"}, mine : BOOLEAN, ref : BOOLEAN]
  BY <1>2 DEF C!NoPoll
<1>5. C!TypeOK
  <2>1. shop \in [C!Shop -> {"none", "on", "off"}]
    BY DEF C!Init
  <2>2. shop \in [C!Shop -> {"none", "on", "off", "deleted"}]
    BY <2>1
  <2>3. expiries = 0 /\ listed = {} /\ popup = "closed" /\ asked = 0
        /\ disconnecting = NoShop /\ tried = FALSE
    BY Zenon DEF C!Init
  <2>4. expiries \in 0 .. MaxExpiries /\ asked \in 0 .. MaxCalls
    BY <2>3
  <2> QED
    BY <1>2, <1>3, <1>4, <2>2, <2>3, <2>4 DEF C!TypeOK
<1>6. ~C!Open /\ ~poll.mine
  BY <1>2 DEF C!Open, C!NoPoll
<1>7. \A c \in Call : ~Asker(c) /\ asking[c].kind = "none" /\ asking[c].phase = "idle"
  BY <1>2 DEF Asker, C!Idle
<1> QED
  BY <1>5, <1>6, <1>7 DEF WizardInv, TypedIsMall, UrlIsOfMall, NoneIsIdle, AskerIsOpen,
     PollerIsOpen, PollsOrDone

-----------------------------------------------------------------------------
(* The steps                                                               *)

\* A step of the page, of the popup or of a token: the wizard is not concerned.
LEMMA ElsewhereKeeps ==
    ASSUME WizardInv, UNCHANGED <<wizard, poll, asking, tried>>, C!TypeOK'
    PROVE  WizardInv'
BY DEF WizardInv, TypedIsMall, UrlIsOfMall, NoneIsIdle, AskerIsOpen, PollerIsOpen,
       PollsOrDone, Asker, C!Open

LEMMA PageTypes ==
    ASSUME C!TypeOK,
           \/ C!Refetch \/ C!OpenDisconnect \/ C!CloseDisconnect
           \/ C!Authorise \/ C!Decline \/ C!ClosePopup
           \/ \E s \in C!Shop : C!Expire(s)
    PROVE  C!TypeOK' /\ UNCHANGED <<wizard, poll, asking, tried>>
<1> USE DEF C!TypeOK
<1>1. CASE C!Refetch
  <2>1. C!Rows \subseteq C!Shop
    BY DEF C!Rows
  <2> QED
    BY <1>1, <2>1 DEF C!Refetch
<1>2. CASE C!OpenDisconnect \/ C!CloseDisconnect
  BY <1>2 DEF C!OpenDisconnect, C!CloseDisconnect
<1>3. CASE C!Authorise
  <2>1. shop' \in [C!Shop -> {"none", "on", "off", "deleted"}]
    BY <1>3 DEF C!Authorise
  <2> QED
    BY <1>3, <2>1 DEF C!Authorise
<1>4. CASE C!Decline \/ C!ClosePopup
  BY <1>4 DEF C!Decline, C!ClosePopup
<1>5. CASE \E s \in C!Shop : C!Expire(s)
  <2>1. shop' \in [C!Shop -> {"none", "on", "off", "deleted"}]
    BY <1>5 DEF C!Expire
  <2>2. expiries' \in 0 .. MaxExpiries
    BY <1>5 DEF C!Expire
  <2> QED
    BY <1>5, <2>1, <2>2 DEF C!Expire
<1> QED
  BY <1>1, <1>2, <1>3, <1>4, <1>5

\* The steps of the open wizard that send nothing.
LEMMA WizardMoves ==
    ASSUME WizardInv, C!Open,
           wizard' \in C!Wizards, wizard'.code = wizard.code,
           wizard.code = "cafe24" => wizard'.typed \in Mall \cup {NoShop},
           wizard'.polling => wizard.polling,
           wizard'.step = "done" => wizard.step = "done",
           UNCHANGED <<shop, expiries, listed, popup, poll, asking, asked,
                       disconnecting, tried>>
    PROVE  WizardInv'
<1>1. C!TypeOK'
  BY DEF WizardInv, C!TypeOK
<1>2. wizard' # C!Closed
  BY DEF C!Wizards, C!Closed
<1> QED
  BY <1>1, <1>2
     DEF WizardInv, TypedIsMall, UrlIsOfMall, NoneIsIdle, AskerIsOpen, PollerIsOpen,
         PollsOrDone, Asker, C!Open

LEMMA LocalKeeps ==
    ASSUME WizardInv,
           C!SetMode \/ C!FillIn \/ C!ToVerify \/ C!Back \/ C!StopPolling
    PROVE  WizardInv'
<1>1. C!Open /\ wizard \in C!Wizards
  BY DEF C!SetMode, C!FillIn, C!ToVerify, C!Back, C!StopPolling, C!Open, WizardInv,
         C!TypeOK
<1>2. wizard.code = "cafe24" => wizard.typed \in Mall \cup {NoShop}
  BY <1>1 DEF WizardInv, TypedIsMall
<1>3. UNCHANGED <<shop, expiries, listed, popup, poll, asking, asked, disconnecting,
                  tried>>
  BY DEF C!SetMode, C!FillIn, C!ToVerify, C!Back, C!StopPolling
<1>4. /\ wizard' \in C!Wizards /\ wizard'.code = wizard.code
      /\ wizard.code = "cafe24" => wizard'.typed \in Mall \cup {NoShop}
      /\ wizard'.polling => wizard.polling
      /\ wizard'.step = "done" => wizard.step = "done"
  <2> USE DEF C!Wizards
  <2>1. CASE C!SetMode
    <3>1. PICK m \in {"oauth", "manual"} : wizard' = [wizard EXCEPT !.mode = m]
      BY <2>1 DEF C!SetMode
    <3> QED
      BY <1>1, <1>2, <3>1
  <2>2. CASE C!FillIn
    <3>1. PICK s \in C!Shop : /\ wizard' = [wizard EXCEPT !.typed = s]
                              /\ wizard.code = "cafe24" => s \in Mall
      BY <2>2 DEF C!FillIn, C!Shop
    <3> QED
      BY <1>1, <1>2, <3>1
  <2>3. CASE C!ToVerify \/ C!Back
    <3>1. PICK t \in {"credentials", "verify"} : wizard' = [wizard EXCEPT !.step = t]
      BY <2>3 DEF C!ToVerify, C!Back
    <3> QED
      BY <1>1, <1>2, <3>1
  <2>4. CASE C!StopPolling
    <3>1. wizard' = [wizard EXCEPT !.polling = FALSE]
      BY <2>4 DEF C!StopPolling
    <3> QED
      BY <1>1, <1>2, <3>1
  <2> QED
    BY <2>1, <2>2, <2>3, <2>4
<1> QED
  BY <1>1, <1>3, <1>4, WizardMoves

\* The wizard opens with nothing of an earlier one.
LEMMA OpenKeeps ==
    ASSUME WizardInv, NEW code \in {"cafe24", "keys"}, C!OpenWizard(code)
    PROVE  WizardInv'
<1>1. wizard = C!Closed /\ ~C!Open
  BY DEF C!OpenWizard, C!Open
<1>2. wizard' = [code |-> code, step |-> "credentials", mode |-> "oauth",
                 typed |-> NoShop, polling |-> FALSE, ref |-> FALSE]
      /\ UNCHANGED <<shop, expiries, listed, popup, poll, asking, asked, disconnecting>>
      /\ tried' = FALSE
  BY DEF C!OpenWizard
<1>3. wizard' \in C!Wizards /\ wizard'.typed = NoShop /\ ~wizard'.polling
      /\ wizard'.step = "credentials"
  BY <1>2 DEF C!Wizards
<1>4. C!TypeOK'
  BY <1>2, <1>3 DEF WizardInv, C!TypeOK
<1>5. ~poll.mine /\ \A c \in Call : ~Asker(c)
  BY <1>1 DEF WizardInv, AskerIsOpen, PollerIsOpen
<1> QED
  BY <1>2, <1>3, <1>4, <1>5
     DEF WizardInv, TypedIsMall, UrlIsOfMall, NoneIsIdle, AskerIsOpen, PollerIsOpen,
         PollsOrDone, Asker, C!Open

\* A request is sent, by the wizard or by the dialog of a disconnection.
LEMMA AskKeeps ==
    ASSUME WizardInv, NEW c \in Call,
           C!ConfirmDisconnect(c) \/ C!SubmitCafe24(c) \/ C!SubmitKeys(c)
    PROVE  WizardInv'
<1>1. PICK kind \in {"url", "manual", "connect", "disconnect"},
           s \in C!Shop \cup {NoShop} :
         /\ C!Ask(c, kind, s)
         /\ kind = "url" => s \in Mall
         /\ kind # "disconnect" => C!Open /\ tried'
         /\ tried => tried'
         /\ tried' \in BOOLEAN
  <2>1. CASE C!ConfirmDisconnect(c)
    BY <2>1 DEF C!ConfirmDisconnect, WizardInv, C!TypeOK
  <2>2. CASE C!SubmitCafe24(c)
    <3>1. wizard.typed \in Mall /\ C!Open
      BY <2>2 DEF C!SubmitCafe24, WizardInv, TypedIsMall
    <3>2. tried' = TRUE
      BY <2>2 DEF C!SubmitCafe24, C!Submit
    <3>3. C!Ask(c, "url", wizard.typed) \/ C!Ask(c, "manual", wizard.typed)
      BY <2>2 DEF C!SubmitCafe24, C!Submit
    <3> QED
      BY <3>1, <3>2, <3>3 DEF C!Shop
  <2>3. CASE C!SubmitKeys(c)
    <3>1. C!Open /\ tried' = TRUE /\ C!Ask(c, "connect", wizard.typed)
      BY <2>3 DEF C!SubmitKeys, C!Submit
    <3>2. wizard.typed \in C!Shop \cup {NoShop}
      BY <3>1 DEF C!Open, WizardInv, C!TypeOK, C!Wizards
    <3> QED
      BY <3>1, <3>2
  <2> QED
    BY <2>1, <2>2, <2>3
<1>2. UNCHANGED <<shop, expiries, listed, popup, wizard, poll, disconnecting>>
  BY DEF C!ConfirmDisconnect, C!SubmitCafe24, C!SubmitKeys, C!Submit
<1> DEFINE r == [kind |-> kind, shop |-> s, mine |-> TRUE, phase |-> "sent"]
<1>3. r \in C!Calls
  BY DEF C!Calls
<1>4. asking' = [asking EXCEPT ![c] = r] /\ asked' \in 0 .. MaxCalls
  BY <1>1 DEF C!Ask, WizardInv, C!TypeOK
<1>5. r.kind = kind /\ r.shop = s /\ r.phase = "sent"
  OBVIOUS
<1> HIDE DEF r
<1>6. /\ asking' \in [Call -> C!Calls] /\ asking'[c] = r
      /\ \A d \in Call \ {c} : asking'[d] = asking[d]
  BY <1>3, <1>4 DEF WizardInv, C!TypeOK
<1>7. C!TypeOK'
  BY <1>1, <1>2, <1>4, <1>6 DEF WizardInv, C!TypeOK
<1> QED
  BY <1>1, <1>2, <1>5, <1>6, <1>7
     DEF WizardInv, TypedIsMall, UrlIsOfMall, NoneIsIdle, AskerIsOpen, PollerIsOpen,
         PollsOrDone, Asker, C!Open

\* The wizard is unmounted, and nothing that is in flight is its own.
LEMMA UnmountKeeps ==
    ASSUME WizardInv, C!Cancel \/ C!Dismiss
    PROVE  WizardInv'
<1>1. C!Unmounted
  BY DEF C!Cancel, C!Dismiss
<1>2. popup' \in {"closed", popup}
  BY DEF C!Cancel, C!Dismiss
<1>3. ~C!Open' /\ wizard' = C!Closed /\ tried' = FALSE
      /\ UNCHANGED <<shop, expiries, listed, asked, disconnecting>>
  BY <1>1 DEF C!Unmounted, C!Open
<1>4. poll' \in [phase : {"none", "sent"}, mine : BOOLEAN, ref : BOOLEAN] /\ ~poll'.mine
  BY <1>1 DEF C!Unmounted, WizardInv, C!TypeOK
<1>5. ASSUME NEW c \in Call
      PROVE  /\ asking'[c] \in C!Calls
             /\ asking'[c].kind = asking[c].kind /\ asking'[c].shop = asking[c].shop
             /\ asking'[c].phase = asking[c].phase
             /\ asking'[c].kind # "disconnect" => ~asking'[c].mine
  <2>1. asking[c] \in C!Calls
    BY DEF WizardInv, C!TypeOK
  <2>2. \/ asking'[c] = asking[c] /\ asking[c].kind = "disconnect"
        \/ asking'[c] = [asking[c] EXCEPT !.mine = FALSE]
    BY <1>1 DEF C!Unmounted
  <2> QED
    BY <2>1, <2>2 DEF C!Calls
<1>6. asking' \in [Call -> C!Calls]
  <2>1. asking' = [c \in Call |-> asking'[c]]
    BY <1>1 DEF C!Unmounted
  <2> QED
    BY <1>5, <2>1
<1>7. C!TypeOK'
  BY <1>2, <1>3, <1>4, <1>6 DEF WizardInv, C!TypeOK
<1> QED
  BY <1>3, <1>4, <1>5, <1>7
     DEF WizardInv, TypedIsMall, UrlIsOfMall, NoneIsIdle, AskerIsOpen, PollerIsOpen,
         PollsOrDone, Asker

\* Answers.  Those of the wizard's own requests find it open.
LEMMA AnswerTypes ==
    ASSUME WizardInv, NEW c \in Call, NEW r \in C!Calls, asking' = [asking EXCEPT ![c] = r]
    PROVE  /\ asking' \in [Call -> C!Calls] /\ asking'[c] = r
           /\ \A d \in Call \ {c} : asking'[d] = asking[d]
BY DEF WizardInv, C!TypeOK

LEMMA DoneTypes ==
    ASSUME WizardInv, C!Open, C!Done
    PROVE  /\ wizard' \in C!Wizards /\ wizard'.code = wizard.code
           /\ wizard'.typed = wizard.typed
           /\ wizard' # C!Closed
<1>1. wizard \in C!Wizards
  BY DEF C!Open, WizardInv, C!TypeOK
<1> QED
  BY <1>1 DEF C!Done, C!Wizards, C!Closed

LEMMA IdleTypes ==
    C!Idle \in C!Calls /\ ~C!Idle.mine /\ C!Idle.kind = "none" /\ C!Idle.phase = "idle"
BY DEF C!Idle, C!Calls

LEMMA UrlKeeps ==
    ASSUME WizardInv, NEW c \in Call, C!UrlArrived(c)
    PROVE  WizardInv'
<1>1. /\ asking' = [asking EXCEPT ![c] = C!Idle] /\ asking[c].kind = "url"
      /\ UNCHANGED <<shop, expiries, listed, poll, asked, disconnecting, tried>>
  BY DEF C!UrlArrived
<1>2. /\ asking' \in [Call -> C!Calls] /\ asking'[c] = C!Idle
      /\ \A d \in Call \ {c} : asking'[d] = asking[d]
  BY <1>1, IdleTypes, AnswerTypes
<1>3. asking[c].shop \in Mall
  BY <1>1 DEF WizardInv, UrlIsOfMall
<1>4. PICK opened \in BOOLEAN :
         /\ popup' = IF opened THEN asking[c].shop ELSE popup
         /\ wizard' = IF asking[c].mine
                      THEN [wizard EXCEPT !.step = "verify", !.polling = TRUE, !.ref = opened]
                      ELSE wizard
  BY DEF C!UrlArrived
<1>5. popup' \in {"closed", "app"} \/ popup' \in Mall
  BY <1>3, <1>4 DEF WizardInv, C!TypeOK
<1>6. CASE asking[c].mine
  <2>1. C!Open /\ tried
    BY <1>1, <1>6 DEF WizardInv, AskerIsOpen, Asker
  <2>2. wizard \in C!Wizards
    BY <2>1 DEF C!Open, WizardInv, C!TypeOK
  <2>3. wizard' = [wizard EXCEPT !.step = "verify", !.polling = TRUE, !.ref = opened]
    BY <1>4, <1>6
  <2>4. wizard' \in C!Wizards /\ wizard'.code = wizard.code /\ wizard'.typed = wizard.typed
    BY <2>2, <2>3 DEF C!Wizards
  <2>5. wizard' # C!Closed
    BY <2>4 DEF C!Wizards, C!Closed
  <2>6. C!TypeOK'
    BY <1>1, <1>2, <1>5, <2>4 DEF WizardInv, C!TypeOK
  <2> QED
    BY <1>1, <1>2, <2>1, <2>4, <2>5, <2>6, IdleTypes
       DEF WizardInv, TypedIsMall, UrlIsOfMall, NoneIsIdle, AskerIsOpen, PollerIsOpen,
           PollsOrDone, Asker, C!Open
<1>7. CASE ~asking[c].mine
  <2>1. wizard' = wizard
    BY <1>4, <1>7
  <2>2. C!TypeOK'
    BY <1>1, <1>2, <1>5, <2>1 DEF WizardInv, C!TypeOK
  <2> QED
    BY <1>1, <1>2, <2>1, <2>2, IdleTypes
       DEF WizardInv, TypedIsMall, UrlIsOfMall, NoneIsIdle, AskerIsOpen, PollerIsOpen,
           PollsOrDone, Asker, C!Open
<1> QED
  BY <1>6, <1>7

LEMMA MadeKeeps ==
    ASSUME WizardInv, NEW c \in Call,
           C!ConnectionMade(c) \/ C!Disconnected(c) \/ C!Failed(c)
    PROVE  WizardInv'
<1>1. /\ asking' = [asking EXCEPT ![c] = C!Idle]
      /\ disconnecting' \in {disconnecting, NoShop}
      /\ UNCHANGED <<shop, expiries, listed, popup, poll, asked, tried>>
  BY DEF C!ConnectionMade, C!Disconnected, C!Failed
<1>2. /\ asking' \in [Call -> C!Calls] /\ asking'[c] = C!Idle
      /\ \A d \in Call \ {c} : asking'[d] = asking[d]
  BY <1>1, IdleTypes, AnswerTypes
<1>3. CASE C!Done /\ asking[c].mine /\ asking[c].kind \in {"manual", "connect"}
  <2>1. C!Open /\ tried
    BY <1>3 DEF WizardInv, AskerIsOpen, Asker
  <2>2. /\ wizard' \in C!Wizards /\ wizard'.code = wizard.code
        /\ wizard'.typed = wizard.typed /\ wizard' # C!Closed
    BY <1>3, <2>1, DoneTypes
  <2>3. C!TypeOK'
    BY <1>1, <1>2, <2>2 DEF WizardInv, C!TypeOK
  <2> QED
    BY <1>1, <1>2, <2>1, <2>2, <2>3, IdleTypes
       DEF WizardInv, TypedIsMall, UrlIsOfMall, NoneIsIdle, AskerIsOpen, PollerIsOpen,
           PollsOrDone, Asker, C!Open
<1>4. CASE wizard' = wizard
  <2>1. C!TypeOK'
    BY <1>1, <1>2, <1>4 DEF WizardInv, C!TypeOK
  <2> QED
    BY <1>1, <1>2, <1>4, <2>1, IdleTypes
       DEF WizardInv, TypedIsMall, UrlIsOfMall, NoneIsIdle, AskerIsOpen, PollerIsOpen,
           PollsOrDone, Asker, C!Open
<1> QED
  BY <1>3, <1>4 DEF C!ConnectionMade, C!Disconnected, C!Failed

\* The interval, and the answers to its polls.
LEMMA PollKeeps ==
    ASSUME WizardInv, C!Tick \/ C!PollAnswered
    PROVE  WizardInv'
<1>1. CASE C!Tick
  <2>1. C!Open /\ wizard \in C!Wizards /\ wizard.polling
    BY <1>1 DEF C!Tick, C!Open, WizardInv, C!TypeOK
  <2>2. poll' = [phase |-> "sent", mine |-> TRUE, ref |-> wizard.ref] /\ tried
    BY <1>1, <2>1 DEF C!Tick, WizardInv, PollsOrDone
  <2>3. poll' \in [phase : {"none", "sent"}, mine : BOOLEAN, ref : BOOLEAN]
    BY <2>1, <2>2 DEF C!Wizards
  <2>4. UNCHANGED <<shop, expiries, listed, popup, wizard, asking, asked, disconnecting,
                    tried>>
    BY <1>1 DEF C!Tick
  <2>5. C!TypeOK'
    BY <2>3, <2>4 DEF WizardInv, C!TypeOK
  <2> QED
    BY <2>1, <2>2, <2>4, <2>5
       DEF WizardInv, TypedIsMall, UrlIsOfMall, NoneIsIdle, AskerIsOpen, PollerIsOpen,
           PollsOrDone, Asker, C!Open
<1>2. CASE C!PollAnswered
  <2>1. poll' = C!NoPoll /\ listed' = C!Rows
        /\ UNCHANGED <<shop, expiries, asking, asked, disconnecting, tried>>
    BY <1>2 DEF C!PollAnswered
  <2>2. popup' \in {"closed", popup} /\ ((C!Done /\ poll.mine) \/ wizard' = wizard)
    BY <1>2 DEF C!PollAnswered, C!StillMine
  <2>3. listed' \subseteq C!Shop /\ ~poll'.mine
        /\ poll' \in [phase : {"none", "sent"}, mine : BOOLEAN, ref : BOOLEAN]
    BY <2>1 DEF C!Rows, C!NoPoll
  <2>4. CASE C!Done /\ poll.mine
    <3>1. C!Open /\ tried
      BY <2>4 DEF WizardInv, PollerIsOpen
    <3>2. /\ wizard' \in C!Wizards /\ wizard'.code = wizard.code
          /\ wizard'.typed = wizard.typed /\ wizard' # C!Closed
      BY <2>4, <3>1, DoneTypes
    <3>3. C!TypeOK'
      BY <2>1, <2>2, <2>3, <3>2 DEF WizardInv, C!TypeOK
    <3> QED
      BY <2>1, <2>3, <3>1, <3>2, <3>3
         DEF WizardInv, TypedIsMall, UrlIsOfMall, NoneIsIdle, AskerIsOpen, PollerIsOpen,
             PollsOrDone, Asker, C!Open
  <2>5. CASE wizard' = wizard
    <3>1. C!TypeOK'
      BY <2>1, <2>2, <2>3, <2>5 DEF WizardInv, C!TypeOK
    <3> QED
      BY <2>1, <2>3, <2>5, <3>1
         DEF WizardInv, TypedIsMall, UrlIsOfMall, NoneIsIdle, AskerIsOpen, PollerIsOpen,
             PollsOrDone, Asker, C!Open
  <2> QED
    BY <2>2, <2>4, <2>5
<1> QED
  BY <1>1, <1>2

\* The server.
LEMMA ServeKeeps ==
    ASSUME WizardInv, NEW c \in Call, C!Serve(c) \/ C!Lose(c)
    PROVE  WizardInv'
<1>1. asking[c] \in C!Calls /\ asking[c].phase = "sent" /\ asking[c].kind # "none"
  BY DEF C!Serve, C!Lose, WizardInv, NoneIsIdle, C!TypeOK
<1>2. PICK row \in {"on", "deleted", shop[asking[c].shop]}, phase \in {"ok", "error"} :
         C!Answers(c, row, phase)
  <2>1. CASE C!Lose(c)
    BY <2>1 DEF C!Lose
  <2>2. CASE C!Serve(c)
    <3>1. PICK phase \in {"ok", "error"} :
            LET s == asking[c].shop IN
            CASE asking[c].kind = "url"        -> C!Answers(c, shop[s], phase)
              [] asking[c].kind = "manual"     -> C!Answers(c, "on", phase)
              [] asking[c].kind = "connect"    ->
                    IF C!Insertable(s) THEN C!Answers(c, "on", phase)
                    ELSE C!Answers(c, shop[s], "error")
              [] asking[c].kind = "disconnect" ->
                    IF s \in C!Rows THEN C!Answers(c, "deleted", phase)
                    ELSE C!Answers(c, shop[s], "error")
      BY <2>2 DEF C!Serve
    <3>2. asking[c].kind \in {"url", "manual", "connect", "disconnect"}
      BY <1>1 DEF C!Calls
    <3> QED
      BY <3>1, <3>2
  <2> QED
    BY <2>1, <2>2
<1>3. /\ shop' = [shop EXCEPT ![asking[c].shop] = row]
      /\ asking' = [asking EXCEPT ![c].phase = phase]
      /\ UNCHANGED <<expiries, listed, popup, wizard, poll, asked, disconnecting, tried>>
  BY <1>2 DEF C!Answers
<1> DEFINE r == [asking[c] EXCEPT !.phase = phase]
<1>4. r \in C!Calls /\ r.kind = asking[c].kind /\ r.shop = asking[c].shop
      /\ r.mine = asking[c].mine
  BY <1>1 DEF C!Calls
<1>5. asking' = [asking EXCEPT ![c] = r]
  BY <1>3 DEF WizardInv, C!TypeOK
<1> HIDE DEF r
<1>6. /\ asking' \in [Call -> C!Calls] /\ asking'[c] = r
      /\ \A d \in Call \ {c} : asking'[d] = asking[d]
  BY <1>4, <1>5, AnswerTypes
<1>7. shop' \in [C!Shop -> {"none", "on", "off", "deleted"}]
  BY <1>3 DEF WizardInv, C!TypeOK
<1>8. C!TypeOK'
  BY <1>3, <1>6, <1>7 DEF WizardInv, C!TypeOK
<1> QED
  BY <1>1, <1>3, <1>4, <1>6, <1>8
     DEF WizardInv, TypedIsMall, UrlIsOfMall, NoneIsIdle, AskerIsOpen, PollerIsOpen,
         PollsOrDone, Asker, C!Open

\* Every step keeps the invariant.
LEMMA WizardStep == WizardInv /\ [C!Next]_(C!vars) => WizardInv'
<1> SUFFICES ASSUME WizardInv, [C!Next]_(C!vars) PROVE WizardInv'
  OBVIOUS
<1>1. CASE UNCHANGED C!vars
  <2>1. C!TypeOK'
    BY <1>1 DEF C!vars, WizardInv, C!TypeOK
  <2> QED
    BY <1>1, <2>1, ElsewhereKeeps DEF C!vars
<1>2. CASE \/ C!Refetch \/ C!OpenDisconnect \/ C!CloseDisconnect
           \/ C!Authorise \/ C!Decline \/ C!ClosePopup
           \/ \E s \in C!Shop : C!Expire(s)
  BY <1>2, PageTypes, ElsewhereKeeps DEF WizardInv
<1>3. CASE C!SetMode \/ C!FillIn \/ C!ToVerify \/ C!Back \/ C!StopPolling
  BY <1>3, LocalKeeps
<1>4. CASE C!Cancel \/ C!Dismiss
  BY <1>4, UnmountKeeps
<1>5. CASE C!Tick \/ C!PollAnswered
  BY <1>5, PollKeeps
<1>6. CASE C!OpenWizard("cafe24") \/ C!OpenWizard("keys")
  BY <1>6, OpenKeeps
<1>7. ASSUME NEW c \in Call,
             C!ConfirmDisconnect(c) \/ C!SubmitCafe24(c) \/ C!SubmitKeys(c)
      PROVE  WizardInv'
  BY <1>7, AskKeeps
<1>8. ASSUME NEW c \in Call, C!UrlArrived(c)
      PROVE  WizardInv'
  BY <1>8, UrlKeeps
<1>9. ASSUME NEW c \in Call, C!ConnectionMade(c) \/ C!Disconnected(c) \/ C!Failed(c)
      PROVE  WizardInv'
  BY <1>9, MadeKeeps
<1>10. ASSUME NEW c \in Call, C!Serve(c) \/ C!Lose(c)
       PROVE  WizardInv'
  BY <1>10, ServeKeeps
<1> QED
  BY <1>1, <1>2, <1>3, <1>4, <1>5, <1>6, <1>7, <1>8, <1>9, <1>10 DEF C!Next

\* A step of the tab is one of its channels page or leaves it alone.
LEMMA WizardStepOrRest == [TabNext]_tabVars => [C!Next]_(C!vars)
BY DEF TabNext, tabVars, connectVars, C!vars

\* Whatever the order in which wizards, popups, polls and answers come and go, the
\* channels page keeps its types, and what is in flight for a wizard finds it open.
THEOREM WizardInvariant == TabSpec => []WizardInv
<1>1. TabInit => WizardInv
  BY WizardInit DEF TabInit
<1>2. WizardInv /\ [TabNext]_tabVars => WizardInv'
  BY WizardStep, WizardStepOrRest
<1> QED
  BY <1>1, <1>2, PTL DEF TabSpec

\* DoneIsOwn: a wizard is done by a request of its own.
THEOREM WizardsDoneByOwn == TabSpec => []DoneIsOwn
<1>1. WizardInv => DoneIsOwn
  BY DEF WizardInv, PollsOrDone, DoneIsOwn, C!DoneIsOwn
<1> QED
  BY <1>1, WizardInvariant, PTL

\* A wizard polls at the Cafe24 step that waits for the popup; the URL of a popup
\* that is still asked for is for such a wizard.
PollerWaits == C!Open /\ wizard.polling => wizard.code = "cafe24" /\ wizard.step = "verify"
UrlIsCafe24s ==
    \A c \in Call : asking[c].mine /\ asking[c].kind = "url" =>
        C!Open /\ wizard.code = "cafe24"
Waits == PollerWaits /\ UrlIsCafe24s

\* A wizard that polls goes on for the shop it asked for, until the popup is
\* closed, the wizard is, or it is told.
PollsUntilTold ==
    C!Open /\ wizard.polling =>
        \/ popup = "closed"
        \/ wizard' = C!Closed
        \/ wizard'.step = "done"
        \/ wizard'.polling /\ wizard'.typed = wizard.typed

\* A wizard is closed or has all its fields.
LEMMA OpenIsWizard == ASSUME WizardInv, C!Open PROVE wizard \in C!Wizards
BY DEF WizardInv, C!TypeOK, C!Open

\* The requests in flight may change beside the wizard, so long as no new one asks
\* for a popup.
LEMMA WaitsBeside ==
    ASSUME Waits, UNCHANGED wizard,
           \A c \in Call : asking'[c].mine /\ asking'[c].kind = "url" =>
               asking[c].mine /\ asking[c].kind = "url"
    PROVE  Waits' /\ PollsUntilTold
BY DEF Waits, PollerWaits, UrlIsCafe24s, PollsUntilTold, C!Open

\* An answer takes a request out of flight.
LEMMA AnsweredUrls ==
    ASSUME WizardInv, NEW c \in Call, asking' = [asking EXCEPT ![c] = C!Idle]
    PROVE  \A d \in Call : asking'[d].mine /\ asking'[d].kind = "url" =>
               asking[d].mine /\ asking[d].kind = "url"
BY DEF WizardInv, C!TypeOK, C!Idle

\* The wizard done, by its own request or poll.
LEMMA DoneWaits ==
    ASSUME WizardInv, Waits, C!Open, C!Done,
           \A c \in Call : asking'[c].mine /\ asking'[c].kind = "url" =>
               asking[c].mine /\ asking[c].kind = "url"
    PROVE  Waits' /\ PollsUntilTold
<1>1. wizard \in C!Wizards
  BY OpenIsWizard
<1>2. wizard' \in C!Wizards /\ wizard'.step = "done" /\ ~wizard'.polling
      /\ wizard'.code = wizard.code
  BY <1>1 DEF C!Done, C!Wizards
<1>3. wizard' # C!Closed
  BY <1>2 DEF C!Wizards, C!Closed
<1> QED
  BY <1>2, <1>3 DEF Waits, PollerWaits, UrlIsCafe24s, PollsUntilTold, C!Open

\* The steps of the open wizard.
LEMMA LocalWaits ==
    ASSUME WizardInv, Waits,
           C!SetMode \/ C!FillIn \/ C!ToVerify \/ C!Back \/ C!StopPolling
    PROVE  Waits' /\ PollsUntilTold
<1>1. C!Open /\ wizard \in C!Wizards
  BY OpenIsWizard DEF C!SetMode, C!FillIn, C!ToVerify, C!Back, C!StopPolling
<1>2. asking' = asking
  BY DEF C!SetMode, C!FillIn, C!ToVerify, C!Back, C!StopPolling
<1>3. CASE C!StopPolling
  <2>1. wizard' \in C!Wizards /\ wizard'.code = wizard.code /\ ~wizard'.polling
        /\ popup = "closed"
    BY <1>1, <1>3 DEF C!StopPolling, C!PopupGone, C!Wizards
  <2>2. wizard' # C!Closed
    BY <2>1 DEF C!Wizards, C!Closed
  <2> QED
    BY <1>1, <1>2, <2>1, <2>2 DEF Waits, PollerWaits, UrlIsCafe24s, PollsUntilTold, C!Open
<1>4. CASE C!SetMode \/ C!FillIn \/ C!ToVerify \/ C!Back
  <2>1. ~wizard.polling
    BY <1>1, <1>4 DEF Waits, PollerWaits, C!SetMode, C!FillIn, C!ToVerify, C!Back
  <2>2. wizard' \in C!Wizards /\ wizard'.code = wizard.code /\ ~wizard'.polling
    <3>1. CASE C!SetMode
      <4>1. PICK m \in {"oauth", "manual"} : wizard' = [wizard EXCEPT !.mode = m]
        BY <3>1 DEF C!SetMode
      <4> QED
        BY <1>1, <2>1, <4>1 DEF C!Wizards
    <3>2. CASE C!FillIn
      <4>1. PICK s \in C!Shop : wizard' = [wizard EXCEPT !.typed = s]
        BY <3>2 DEF C!FillIn, C!Shop
      <4> QED
        BY <1>1, <2>1, <4>1 DEF C!Wizards
    <3>3. CASE C!ToVerify \/ C!Back
      <4>1. PICK t \in {"credentials", "verify"} : wizard' = [wizard EXCEPT !.step = t]
        BY <3>3 DEF C!ToVerify, C!Back
      <4> QED
        BY <1>1, <2>1, <4>1 DEF C!Wizards
    <3> QED
      BY <1>4, <3>1, <3>2, <3>3
  <2>3. wizard' # C!Closed
    BY <2>2 DEF C!Wizards, C!Closed
  <2> QED
    BY <1>1, <1>2, <2>1, <2>2, <2>3
       DEF Waits, PollerWaits, UrlIsCafe24s, PollsUntilTold, C!Open
<1> QED
  BY <1>3, <1>4

\* A request is sent; one for a popup by a wizard of Cafe24.
LEMMA AskWaits ==
    ASSUME WizardInv, Waits, NEW c \in Call,
           C!ConfirmDisconnect(c) \/ C!SubmitCafe24(c) \/ C!SubmitKeys(c)
    PROVE  Waits' /\ PollsUntilTold
<1>1. UNCHANGED wizard
  BY DEF C!ConfirmDisconnect, C!SubmitCafe24, C!SubmitKeys, C!Submit
<1>2. PICK kind, s : C!Ask(c, kind, s) /\ (kind = "url" => C!Open /\ wizard.code = "cafe24")
  <2>1. CASE C!ConfirmDisconnect(c)
    BY <2>1 DEF C!ConfirmDisconnect
  <2>2. CASE C!SubmitKeys(c)
    <3>1. C!Ask(c, "connect", wizard.typed)
      BY <2>2 DEF C!SubmitKeys, C!Submit
    <3> QED
      BY <3>1
  <2>3. CASE C!SubmitCafe24(c)
    <3>1. \E kind : C!Ask(c, kind, wizard.typed)
      BY <2>3 DEF C!SubmitCafe24, C!Submit
    <3> QED
      BY <2>3, <3>1 DEF C!SubmitCafe24
  <2> QED
    BY <2>1, <2>2, <2>3
<1>3. asking' = [asking EXCEPT ![c] = [kind |-> kind, shop |-> s, mine |-> TRUE,
                                       phase |-> "sent"]]
  BY <1>2 DEF C!Ask
<1>4. UrlIsCafe24s'
  BY <1>1, <1>2, <1>3 DEF Waits, UrlIsCafe24s, WizardInv, C!TypeOK, C!Open
<1> QED
  BY <1>1, <1>4 DEF Waits, PollerWaits, PollsUntilTold, C!Open

\* The URL opens the popup, and the wizard polls.
LEMMA UrlWaits ==
    ASSUME WizardInv, Waits, NEW c \in Call, C!UrlArrived(c)
    PROVE  Waits' /\ PollsUntilTold
<1>1. /\ asking[c].kind = "url" /\ asking' = [asking EXCEPT ![c] = C!Idle]
      /\ ~asking[c].mine => wizard' = wizard
  BY DEF C!UrlArrived
<1>2. CASE ~asking[c].mine
  BY <1>1, <1>2, AnsweredUrls, WaitsBeside
<1>3. CASE asking[c].mine
  <2>1. C!Open /\ wizard.code = "cafe24" /\ wizard \in C!Wizards
    BY <1>1, <1>3, OpenIsWizard DEF Waits, UrlIsCafe24s
  <2>2. PICK opened \in BOOLEAN :
           wizard' = [wizard EXCEPT !.step = "verify", !.polling = TRUE, !.ref = opened]
    BY <1>3 DEF C!UrlArrived
  <2>3. /\ wizard' \in C!Wizards /\ wizard'.code = "cafe24" /\ wizard'.step = "verify"
        /\ wizard'.polling /\ wizard'.typed = wizard.typed
    BY <2>1, <2>2 DEF C!Wizards
  <2>4. wizard' # C!Closed
    BY <2>3 DEF C!Wizards, C!Closed
  <2> QED
    BY <1>1, <2>1, <2>3, <2>4, AnsweredUrls
       DEF Waits, PollerWaits, UrlIsCafe24s, PollsUntilTold, C!Open
<1> QED
  BY <1>2, <1>3

\* The other answers.
LEMMA AnswerWaits ==
    ASSUME WizardInv, Waits, NEW c \in Call,
           C!ConnectionMade(c) \/ C!Disconnected(c) \/ C!Failed(c)
    PROVE  Waits' /\ PollsUntilTold
<1>1. asking' = [asking EXCEPT ![c] = C!Idle]
  BY DEF C!ConnectionMade, C!Disconnected, C!Failed
<1>2. CASE C!Disconnected(c) \/ C!Failed(c)
  BY <1>1, <1>2, AnsweredUrls, WaitsBeside DEF C!Disconnected, C!Failed
<1>3. CASE C!ConnectionMade(c)
  <2>1. CASE asking[c].mine
    <3>1. C!Done /\ C!Open
      BY <1>3, <2>1 DEF C!ConnectionMade, WizardInv, AskerIsOpen, Asker
    <3> QED
      BY <1>1, <3>1, AnsweredUrls, DoneWaits
  <2>2. CASE ~asking[c].mine
    <3>1. UNCHANGED wizard
      BY <1>3, <2>2 DEF C!ConnectionMade
    <3> QED
      BY <1>1, <3>1, AnsweredUrls, WaitsBeside
  <2> QED
    BY <2>1, <2>2
<1> QED
  BY <1>2, <1>3

\* The server.
LEMMA ServeWaits ==
    ASSUME WizardInv, Waits, NEW c \in Call, C!Serve(c) \/ C!Lose(c)
    PROVE  Waits' /\ PollsUntilTold
<1>1. \E row, phase : C!Answers(c, row, phase)
  <2>1. CASE C!Lose(c)
    BY <2>1 DEF C!Lose
  <2>2. CASE C!Serve(c)
    <3> DEFINE s == asking[c].shop
    <3>1. PICK phase \in {"ok", "error"} :
             CASE asking[c].kind = "url"        -> C!Answers(c, shop[s], phase)
               [] asking[c].kind = "manual"     -> C!Answers(c, "on", phase)
               [] asking[c].kind = "connect"    ->
                     IF C!Insertable(s) THEN C!Answers(c, "on", phase)
                     ELSE C!Answers(c, shop[s], "error")
               [] asking[c].kind = "disconnect" ->
                     IF s \in C!Rows THEN C!Answers(c, "deleted", phase)
                     ELSE C!Answers(c, shop[s], "error")
      BY <2>2 DEF C!Serve
    <3>2. asking[c].kind \in {"url", "manual", "connect", "disconnect"}
      BY <2>2 DEF C!Serve, WizardInv, NoneIsIdle, C!TypeOK, C!Calls
    <3> QED
      BY <3>1, <3>2
  <2> QED
    BY <2>1, <2>2
<1>2. PICK row, phase : C!Answers(c, row, phase)
  BY <1>1
<1>3. UNCHANGED wizard /\ asking' = [asking EXCEPT ![c].phase = phase]
  BY <1>2 DEF C!Answers
<1>4. \A d \in Call : asking'[d].mine = asking[d].mine /\ asking'[d].kind = asking[d].kind
  BY <1>3 DEF WizardInv, C!TypeOK, C!Calls
<1> QED
  BY <1>3, <1>4, WaitsBeside

\* Every step of the page.
LEMMA WaitsStep ==
    ASSUME WizardInv, Waits, [C!Next]_(C!vars)
    PROVE  Waits' /\ PollsUntilTold
<1>1. CASE UNCHANGED <<wizard, asking>>
  BY <1>1, WaitsBeside
<1>2. CASE C!SetMode \/ C!FillIn \/ C!ToVerify \/ C!Back \/ C!StopPolling
  BY <1>2, LocalWaits
<1>3. CASE C!Cancel \/ C!Dismiss
  <2>1. wizard' = C!Closed /\ ~C!Open'
    BY <1>3 DEF C!Cancel, C!Dismiss, C!Unmounted, C!Open
  <2>2. \A c \in Call : asking'[c].mine => asking'[c].kind = "disconnect"
    <3>1. asking' = [c \in Call |-> IF asking[c].kind = "disconnect" THEN asking[c]
                                    ELSE [asking[c] EXCEPT !.mine = FALSE]]
      BY <1>3 DEF C!Cancel, C!Dismiss, C!Unmounted
    <3>2. \A c \in Call : asking[c] \in C!Calls
      BY DEF WizardInv, C!TypeOK
    <3> QED
      BY <3>1, <3>2 DEF C!Calls
  <2> QED
    BY <2>1, <2>2 DEF Waits, PollerWaits, UrlIsCafe24s, PollsUntilTold
<1>4. CASE C!PollAnswered
  <2>1. UNCHANGED asking /\ (UNCHANGED wizard \/ (C!Done /\ poll.mine))
    BY <1>4 DEF C!PollAnswered, C!StillMine
  <2>2. CASE C!Done /\ poll.mine
    BY <2>1, <2>2, DoneWaits DEF WizardInv, PollerIsOpen
  <2> QED
    BY <2>1, <2>2, WaitsBeside
<1>5. CASE C!OpenWizard("cafe24") \/ C!OpenWizard("keys")
  <2>1. ~C!Open /\ ~wizard'.polling /\ UNCHANGED asking
    BY <1>5 DEF C!OpenWizard, C!Open
  <2> QED
    BY <2>1 DEF Waits, PollerWaits, UrlIsCafe24s, PollsUntilTold
<1>6. ASSUME NEW c \in Call,
             C!ConfirmDisconnect(c) \/ C!SubmitCafe24(c) \/ C!SubmitKeys(c)
      PROVE  Waits' /\ PollsUntilTold
  BY <1>6, AskWaits
<1>7. ASSUME NEW c \in Call, C!UrlArrived(c)
      PROVE  Waits' /\ PollsUntilTold
  BY <1>7, UrlWaits
<1>8. ASSUME NEW c \in Call, C!ConnectionMade(c) \/ C!Disconnected(c) \/ C!Failed(c)
      PROVE  Waits' /\ PollsUntilTold
  BY <1>8, AnswerWaits
<1>9. ASSUME NEW c \in Call, C!Serve(c) \/ C!Lose(c)
      PROVE  Waits' /\ PollsUntilTold
  BY <1>9, ServeWaits
<1>10. C!Refetch \/ C!OpenDisconnect \/ C!CloseDisconnect \/ C!Tick \/ C!Authorise
       \/ C!Decline \/ C!ClosePopup \/ (\E s \in C!Shop : C!Expire(s)) \/ UNCHANGED C!vars
       => UNCHANGED <<wizard, asking>>
  BY DEF C!Refetch, C!OpenDisconnect, C!CloseDisconnect, C!Tick, C!Authorise, C!Decline,
         C!ClosePopup, C!Expire, C!vars
<1> QED
  BY <1>1, <1>2, <1>3, <1>4, <1>5, <1>6, <1>7, <1>8, <1>9, <1>10 DEF C!Next

\* The safety half of AgreedIsTold: whatever the order of popups, answers and polls
\* of this wizard and of closed ones, a wizard that polls does not stop before it
\* is told, but for its popup or itself being closed.
THEOREM PollingGoesOn == TabSpec => [][PollsUntilTold]_tabVars
<1>1. TabInit => Waits
  <2>1. TabInit => wizard = C!Closed /\ \A c \in Call : ~asking[c].mine
    BY DEF TabInit, C!Init, C!Idle
  <2> QED
    BY <2>1 DEF Waits, PollerWaits, UrlIsCafe24s, C!Open
<1>2. WizardInv /\ Waits /\ [TabNext]_tabVars => Waits' /\ [PollsUntilTold]_tabVars
  BY WaitsStep, WizardStepOrRest
<1> QED
  BY <1>1, <1>2, WizardInvariant, PTL DEF TabSpec

===============================================================================
