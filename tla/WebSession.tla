----------------------------- MODULE WebSession -----------------------------
(***************************************************************************)
(* The seller's session in one browser tab: the auth store                 *)
(* (web/stores/auth.ts), the request wrapper that refreshes an expired     *)
(* access token once (web/lib/api/client.ts), and the answers of the API   *)
(* (services/auth_service.py).                                             *)
(*                                                                         *)
(* JavaScript runs one callback at a time: the steps are the stretches     *)
(* between two awaits.  When the shared refresh settles, every request     *)
(* that waits on it resumes before any other callback, so they move in one *)
(* step with it.                                                           *)
(*                                                                         *)
(* `session`, `crossed` and `late` are history variables: no guard reads   *)
(* them.                                                                   *)
(***************************************************************************)
EXTENDS Naturals

CONSTANTS
    User,
    Nothing,        \* null
    Request,        \* concurrent calls of api.get, api.post, ...
    MaxTokens,      \* bound: token pairs issued
    MaxLogins       \* bound: logins

ASSUME NothingAssumption ==
    LET pairs == [owner : User, serial : Nat]
    IN  Nothing \notin User \cup pairs \cup [user : User, tokens : pairs]
                       \cup [tokens : pairs, session : Nat]
ASSUME BoundAssumption == MaxTokens \in Nat /\ MaxLogins \in Nat

VARIABLES
    user, tokens,   \* the store
    stored,         \* localStorage: user and tokens, or Nothing
    isRefreshing,   \* the module variables of client.ts
    refreshPromise, \* "none", "pending", or "false" when settled and kept
    refresh,        \* the POST /auth/refresh in flight, or Nothing
    request,        \* [Request -> the call]
    issued,         \* token pairs issued so far
    alive,          \* serials whose access token has not expired
    enabled,        \* users who are active and whose refresh token works
    session,        \* history: number of the latest login
    crossed,        \* history: tokens arrived from an earlier session
    late            \* history: an answer 401 found nobody logged in

store == <<user, tokens, stored>>
client == <<isRefreshing, refreshPromise, refresh>>
server == <<issued, alive, enabled>>
vars == <<store, client, request, server, session, crossed, late>>

Tokens == [owner : User, serial : 1 .. MaxTokens]
Calls == [phase : {"idle", "sent", "waiting"}, retry : BOOLEAN,
          sent : Tokens \cup {Nothing}]
Idle == [phase |-> "idle", retry |-> FALSE, sent |-> Nothing]

TypeOK ==
    /\ user \in User \cup {Nothing}
    /\ tokens \in Tokens \cup {Nothing}
    /\ stored \in [user : User, tokens : Tokens] \cup {Nothing}
    /\ isRefreshing \in BOOLEAN
    /\ refreshPromise \in {"none", "pending", "false"}
    /\ refresh \in [tokens : Tokens, session : 1 .. MaxLogins] \cup {Nothing}
    /\ request \in [Request -> Calls]
    /\ issued \in 0 .. MaxTokens
    /\ alive \subseteq 1 .. issued
    /\ enabled \subseteq User
    /\ session \in 0 .. MaxLogins
    /\ crossed \in BOOLEAN
    /\ late \in BOOLEAN

Init ==
    /\ user = Nothing /\ tokens = Nothing /\ stored = Nothing
    /\ isRefreshing = FALSE /\ refreshPromise = "none" /\ refresh = Nothing
    /\ request = [r \in Request |-> Idle]
    /\ issued = 0 /\ alive = {} /\ enabled = User
    /\ session = 0
    /\ crossed = FALSE
    /\ late = FALSE

-----------------------------------------------------------------------------
(* The store                                                               *)

\* create_access_token and create_refresh_token.
Issue(u) == [owner |-> u, serial |-> issued + 1]
Issues == /\ issued < MaxTokens
          /\ issued' = issued + 1
          /\ alive' = alive \cup {issued + 1}
          /\ UNCHANGED enabled

\* LoginForm: the tokens, then the user's own record, then setAuth.
Login(u) ==
    /\ user = Nothing
    /\ u \in enabled
    /\ session < MaxLogins
    /\ Issues
    /\ user' = u
    /\ tokens' = Issue(u)
    /\ stored' = [user |-> u, tokens |-> Issue(u)]
    /\ session' = session + 1
    /\ crossed' = FALSE
    /\ UNCHANGED <<client, request, late>>

\* logout()
SignedOut == /\ user' = Nothing /\ tokens' = Nothing /\ stored' = Nothing
             /\ crossed' = FALSE

LogOut ==
    /\ user # Nothing
    /\ SignedOut
    /\ UNCHANGED <<client, request, server, session, late>>

\* The page is loaded again: hydrate() reads what was stored.
Reload ==
    /\ user' = IF stored = Nothing THEN Nothing ELSE stored.user
    /\ tokens' = IF stored = Nothing THEN Nothing ELSE stored.tokens
    /\ isRefreshing' = FALSE /\ refreshPromise' = "none" /\ refresh' = Nothing
    /\ request' = [r \in Request |-> Idle]
    /\ late' = FALSE
    /\ crossed' = (crossed /\ stored # Nothing)
    /\ UNCHANGED <<stored, server, session>>

-----------------------------------------------------------------------------
(* The request wrapper                                                     *)

\* The headers are made when fetch is called.
Sent(retry, t) == [phase |-> "sent", retry |-> retry, sent |-> t]

\* AuthGuard renders pages, which send requests, for a logged-in user.
Send(r) ==
    /\ request[r].phase = "idle"
    /\ user # Nothing
    /\ request' = [request EXCEPT ![r] = Sent(FALSE, tokens)]
    /\ UNCHANGED <<store, client, server, session, crossed, late>>

\* AuthService.get_current_user accepts the header.
Accepted(t) == t # Nothing /\ t.serial \in alive

\* Any answer but 401, or none: the call returns or throws.
Answer(r) ==
    /\ request[r].phase = "sent"
    /\ request' = [request EXCEPT ![r] = Idle]
    /\ UNCHANGED <<store, client, server, session, crossed, late>>

\* A second 401 is thrown.
GiveUp(r) ==
    /\ request[r].phase = "sent" /\ ~Accepted(request[r].sent)
    /\ request[r].retry
    /\ request' = [request EXCEPT ![r] = Idle]
    /\ UNCHANGED <<store, client, server, session, crossed, late>>

Unauthorised(r) ==
    /\ request[r].phase = "sent" /\ ~Accepted(request[r].sent)
    /\ ~request[r].retry

Underway == isRefreshing /\ refreshPromise # "none"

\* tryRefreshToken returns the promise it has; one that is settled is false.
Join(r) ==
    /\ Unauthorised(r)
    /\ Underway
    /\ request' = [request EXCEPT ![r] =
           IF refreshPromise = "pending" THEN [@ EXCEPT !.phase = "waiting"] ELSE Idle]
    /\ UNCHANGED <<store, client, server, session, crossed, late>>

CanAsk(t) == t # Nothing

StartRefresh(r) ==
    /\ Unauthorised(r)
    /\ ~Underway
    /\ CanAsk(tokens)
    /\ isRefreshing' = TRUE /\ refreshPromise' = "pending"
    /\ refresh' = [tokens |-> tokens, session |-> session]
    /\ request' = [request EXCEPT ![r].phase = "waiting"]
    /\ UNCHANGED <<store, server, session, crossed, late>>

\* Nobody is logged in.  The async function returns before its try block, so
\* its finally does not run: isRefreshing and the settled promise stay.
NoSession(r) ==
    /\ Unauthorised(r)
    /\ ~Underway
    /\ ~CanAsk(tokens)
    /\ SignedOut
    /\ isRefreshing' = TRUE /\ refreshPromise' = "false"
    /\ UNCHANGED refresh
    /\ request' = [request EXCEPT ![r] = Idle]
    /\ late' = TRUE
    /\ UNCHANGED <<server, session>>

-----------------------------------------------------------------------------
(* The refresh settles                                                     *)

Fault_Unfinished ==
    /\ isRefreshing' = TRUE /\ refreshPromise' = "false"
    /\ refresh' = Nothing

\* The finally block.
Finished == /\ isRefreshing' = FALSE /\ refreshPromise' = "none"
            /\ refresh' = Nothing

\* The await of the waiting requests.
Resumed(k, retried) == IF k.phase = "waiting" THEN retried ELSE k

Fault_StoresNothing(t) == stored

\* setTokens writes localStorage only beside a user.
Persisted(t) == IF user = Nothing THEN stored ELSE [user |-> user, tokens |-> t]

RefreshSucceeds ==
    /\ refresh # Nothing
    /\ refresh.tokens.owner \in enabled
    /\ Issues
    /\ LET t == Issue(refresh.tokens.owner)
       IN  /\ tokens' = t
           /\ stored' = Persisted(t)
           /\ request' = [r \in Request |-> Resumed(request[r], Sent(TRUE, t))]
    /\ Finished
    /\ crossed' = (crossed \/ user = Nothing \/ refresh.session # session)
    /\ UNCHANGED <<user, session, late>>

Fault_NeverResolves(k) == k

\* A waiting request after a failed refresh throws its 401.
Failed(k) == Resumed(k, Idle)

\* Refused, or not answered: both log the user out.
RefreshFails ==
    /\ refresh # Nothing
    /\ SignedOut
    /\ request' = [r \in Request |-> Failed(request[r])]
    /\ Finished
    /\ UNCHANGED <<server, session, late>>

-----------------------------------------------------------------------------
(* The server                                                              *)

\* Fifteen minutes have passed.
Expire ==
    /\ \E n \in alive : alive' = alive \ {n}
    /\ UNCHANGED <<store, client, request, issued, enabled, session, crossed, late>>

\* Fourteen days have passed, or is_active has been set to false.
Disable(u) ==
    /\ u \in enabled
    /\ enabled' = enabled \ {u}
    /\ UNCHANGED <<store, client, request, issued, alive, session, crossed, late>>

Ends(r) == Answer(r) \/ GiveUp(r) \/ Join(r) \/ StartRefresh(r) \/ NoSession(r)
Settles == RefreshSucceeds \/ RefreshFails

Next ==
    \/ \E u \in User : Login(u) \/ Disable(u)
    \/ \E r \in Request : Send(r) \/ Ends(r)
    \/ Settles \/ LogOut \/ Reload \/ Expire

Spec == Init /\ [][Next]_vars

\* Every fetch is answered or fails.
FairSpec == Spec /\ WF_vars(Settles) /\ \A r \in Request : WF_vars(Ends(r))

-----------------------------------------------------------------------------
(* Properties                                                              *)

\* The store, its copy in localStorage and the identity agree: nobody or one
\* user with tokens of that user, unless a refresh of an earlier session has
\* brought its tokens since the last login or logout.
SessionConsistent ==
    ~crossed =>
        \/ user = Nothing /\ tokens = Nothing /\ stored = Nothing
        \/ /\ user # Nothing /\ tokens # Nothing
           /\ tokens.owner = user
           /\ stored = [user |-> user, tokens |-> tokens]

\* isRefreshing outlives the refresh (after which no access token is refreshed
\* again until the page is reloaded) only when a 401 arrived while nobody was
\* logged in.
RefreshingMeansInFlight == isRefreshing => refresh # Nothing \/ late

\* Every call of the wrapper returns or throws, however many requests meet the
\* expiry together.
RequestsEnd ==
    \A r \in Request : (request[r].phase # "idle") ~> (request[r].phase = "idle")

=============================================================================
