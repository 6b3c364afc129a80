---------------------------- MODULE ChannelClient ----------------------------
(***************************************************************************)
(* One connected channel: its row in `channels` (stored credentials,       *)
(* is_active, deleted_at), the calls that talk to the sales channel on its *)
(* behalf (infra/channels/*/client.py, one client per call, made by        *)
(* factory.create_gateway), and the two ways its credentials are replaced: *)
(* a token refresh in the middle of a request, and a new OAuth consent.    *)
(*                                                                         *)
(* Three clients share the retry loop and differ in how they authorise:    *)
(* cafe24 refreshes an expired access token with a refresh token that it   *)
(* saves back to the row, naver issues itself a token with its client      *)
(* secret and keeps it in memory, coupang signs each request.              *)
(*                                                                         *)
(* Tokens are numbered as the channel issues them; what the channel still  *)
(* accepts is `accessLive` and `refreshLive`.  Back-off delays and rate    *)
(* limits are left out: the answer to a request comes at any time, or a    *)
(* 30 s timeout does.  `blame` and `lost` are history variables: no guard  *)
(* reads them.                                                             *)
(***************************************************************************)
EXTENDS Naturals

CONSTANTS
    Call,           \* concurrent requests and jobs
    Caller,         \* what they do: a subset of AllCallers
    MaxTokens,      \* bound: tokens the channel issues
    MaxRequests,    \* bound: requests of one call
    MaxRetries      \* 3 in the code, smaller in the runs

Platform == {"cafe24", "naver", "coupang"}
AllCallers == {"sync", "push", "import", "cron"}

ASSUME CallerAssumption == Caller \subseteq AllCallers
ASSUME BoundAssumption ==
    MaxTokens \in Nat \ {0} /\ MaxRequests \in Nat \ {0}
ASSUME RetriesAssumption == MaxRetries \in Nat \ {0}

VARIABLES
    platform,       \* the row's channel_type
    row,            \* the channels row
    accessLive,     \* access tokens the channel accepts
    refreshLive,    \* refresh tokens it accepts; for naver the secret
    issued,         \* tokens issued so far
    call,           \* [Call -> the call]
    consent,        \* the OAuth callback being served
    blame,          \* history: why the row is inactive
    lost            \* history: the row's refresh token died unreplaced

channel == <<platform, accessLive, refreshLive, issued>>
vars == <<channel, row, call, consent, blame, lost>>

Token == 1 .. MaxTokens
NoToken == 0
Credentials == [access : Token \cup {NoToken}, refresh : Token \cup {NoToken}]
NoCredentials == [access |-> NoToken, refresh |-> NoToken]

\* The callers that look for an active channel: products.py and the cron.
NeedsActive == {"push", "cron"}

\* Those that turn the channel off when authentication fails.  The product
\* import reports the error, the cron only logs it.
Deactivates == {"sync", "push"}

Phase == {"idle", "sent", "refresh", "save", "denied"}
Calls == [phase : Phase, caller : AllCallers, held : Credentials,
          sawActive : BOOLEAN, retries : 0 .. MaxRetries, answering401 : BOOLEAN,
          attempts : 0 .. MaxRetries + 3, refreshes : 0 .. MaxRetries + 3,
          requests : 0 .. MaxRequests, outage : BOOLEAN]
NoCall == [phase |-> "idle", caller |-> "cron", held |-> NoCredentials,
           sawActive |-> FALSE, retries |-> 0, answering401 |-> FALSE,
           attempts |-> 0, refreshes |-> 0, requests |-> 0, outage |-> FALSE]

NoConsent == [phase |-> "none", granted |-> NoCredentials,
              sawActive |-> FALSE, sawDeleted |-> FALSE]

TypeOK ==
    /\ platform \in Platform
    /\ row \in [stored : Credentials, active : BOOLEAN, deleted : BOOLEAN]
    /\ accessLive \subseteq Token
    /\ refreshLive \subseteq Token
    /\ issued \in 0 .. MaxTokens
    /\ call \in [Call -> Calls]
    /\ consent \in [phase : {"none", "exchanged", "read"}, granted : Credentials,
                    sawActive : BOOLEAN, sawDeleted : BOOLEAN]
    /\ blame \in {"none", "refused", "outage", "overtaken"}
    /\ lost \in BOOLEAN

\* connect_channel: a cafe24 row comes with a pair of tokens, the others with
\* the keys the seller typed, which no request replaces.
Init ==
    /\ platform \in Platform
    /\ row = [stored |-> [access |-> IF platform = "cafe24" THEN 1 ELSE NoToken,
                          refresh |-> 1],
              active |-> TRUE, deleted |-> FALSE]
    /\ accessLive = {1}
    /\ refreshLive = {1}
    /\ issued = 1
    /\ call = [c \in Call |-> NoCall]
    /\ consent = NoConsent
    /\ blame = "none"
    /\ lost = FALSE

-----------------------------------------------------------------------------
(* The request loop, Client._request                                       *)

Ended(c) == call' = [call EXCEPT ![c] = NoCall]

\* Counted up to a bound beyond the one to show.
Plus1(n) == IF n < MaxRetries + 3 THEN n + 1 ELSE n

Sent(k) == [k EXCEPT !.phase = "sent", !.attempts = Plus1(@)]

Refreshing(k, after401) ==
    [k EXCEPT !.phase = "refresh", !.answering401 = after401,
              !.refreshes = Plus1(@)]

\* A new request.  naver's _ensure_token asks for a token first when it has
\* none or its own clock says the one it has is over.
Starts(k) ==
    LET new == [k EXCEPT !.retries = 0, !.attempts = 0, !.refreshes = 0,
                         !.requests = @ + 1]
    IN  IF platform # "naver" THEN {Sent(new)}
        ELSE IF k.held.access = NoToken THEN {Refreshing(new, FALSE)}
        ELSE {Sent(new), Refreshing(new, FALSE)}

\* A handler or the cron reads the row and makes a gateway from it.
Begin(c, w) ==
    /\ call[c].phase = "idle"
    /\ ~row.deleted
    /\ w \in NeedsActive => row.active
    /\ \E k \in Starts([NoCall EXCEPT !.caller = w, !.held = row.stored,
                                     !.sawActive = row.active]) :
           call' = [call EXCEPT ![c] = k]
    /\ UNCHANGED <<channel, row, consent, blame, lost>>

Authorised(c) == platform = "coupang" \/ call[c].held.access \in accessLive

Succeed(c) ==
    /\ call[c].phase = "sent"
    /\ Authorised(c)
    /\ \/ Ended(c)
       \/ /\ call[c].requests < MaxRequests
          /\ \E k \in Starts(call[c]) : call' = [call EXCEPT ![c] = k]
    /\ UNCHANGED <<channel, row, consent, blame, lost>>

\* 429 or 5xx: the same request again, up to MaxRetries times.
CanRetry(k) == k.retries < MaxRetries

Retried(k) == [Sent(k) EXCEPT !.retries = @ + 1]

Busy(c) ==
    /\ call[c].phase = "sent"
    /\ IF CanRetry(call[c])
       THEN call' = [call EXCEPT ![c] = Retried(@)]
       ELSE Ended(c)
    /\ UNCHANGED <<channel, row, consent, blame, lost>>

CanRefresh(k) == platform # "coupang" /\ k.retries = 0

\* 401 refreshes the token, but only as the first failure of a request; a
\* cafe24 channel stored without a refresh token is denied at once.
Unauthorised(c) ==
    /\ call[c].phase = "sent"
    /\ ~Authorised(c)
    /\ IF ~CanRefresh(call[c])
       THEN Ended(c)
       ELSE IF call[c].held.refresh = NoToken
            THEN call' = [call EXCEPT ![c].phase = "denied"]
            ELSE call' = [call EXCEPT ![c] = Refreshing(@, TRUE)]
    /\ UNCHANGED <<channel, row, consent, blame, lost>>

\* 404, any other status, a timeout or a broken connection: the caller gets
\* an error that is not about authentication.
Fail(c) ==
    /\ call[c].phase = "sent"
    /\ Ended(c)
    /\ UNCHANGED <<channel, row, consent, blame, lost>>

-----------------------------------------------------------------------------
(* Token refresh, Client._refresh_access_token and naver's _refresh_token  *)

\* The retry spent on a 401 is not counted.
Fault_UncountedRefresh(k) == [Sent(k) EXCEPT !.answering401 = FALSE]

\* Back in the request loop with the new token; a 401 used up one retry.
Resumed(k) ==
    [Sent(k) EXCEPT !.retries = IF k.answering401 THEN @ + 1 ELSE @,
                    !.answering401 = FALSE]

Held(c, access, refresh) ==
    [call[c] EXCEPT !.held = [access |-> access, refresh |-> refresh]]

\* The channel gives a new token.  cafe24's may come with a new refresh token,
\* which ends the old one at once or after a period of grace.
Refresh(c) ==
    /\ call[c].phase = "refresh"
    /\ issued < MaxTokens
    /\ LET old == call[c].held.refresh
           new == issued + 1
       IN  /\ old \in refreshLive
           /\ issued' = new
           /\ accessLive' = accessLive \cup {new}
           /\ \/ /\ platform = "naver"
                 /\ call' = [call EXCEPT ![c] = Resumed(Held(c, new, old))]
                 /\ UNCHANGED refreshLive
              \/ /\ platform = "cafe24"
                 /\ call' = [call EXCEPT ![c] = [Held(c, new, old) EXCEPT !.phase = "save"]]
                 /\ UNCHANGED refreshLive
              \/ /\ platform = "cafe24"
                 /\ call' = [call EXCEPT ![c] = [Held(c, new, new) EXCEPT !.phase = "save"]]
                 /\ refreshLive' \in {refreshLive \cup {new},
                                      (refreshLive \ {old}) \cup {new}}
    /\ UNCHANGED <<platform, row, consent, blame, lost>>

\* Any other status than 200 is an authentication failure: a refresh token
\* the channel no longer accepts, or an endpoint that is down.
RefreshRefused(c) ==
    /\ call[c].phase = "refresh"
    /\ call' = [call EXCEPT ![c].phase = "denied",
                            ![c].outage = call[c].held.refresh \in refreshLive]
    /\ UNCHANGED <<channel, row, consent, blame, lost>>

\* The answer does not arrive: the exception is not an AuthenticationError.
\* The channel may have spent the refresh token all the same.
RefreshLost(c) ==
    /\ call[c].phase = "refresh"
    /\ Ended(c)
    /\ \/ UNCHANGED <<refreshLive, lost>>
       \/ /\ platform = "cafe24"
          /\ refreshLive' = refreshLive \ {call[c].held.refresh}
          /\ lost' = (lost \/ call[c].held.refresh \in refreshLive)
    /\ UNCHANGED <<platform, accessLive, issued, row, consent, blame>>

\* Only the access token is saved.
Fault_KeepsRefreshToken(stored, held) == [held EXCEPT !.refresh = stored.refresh]

\* on_token_refresh: the credentials this call read, with the new tokens.
Saved(stored, held) == held

Save(c) ==
    /\ call[c].phase = "save"
    /\ row' = [row EXCEPT !.stored = Saved(@, call[c].held)]
    /\ call' = [call EXCEPT ![c] = Resumed(@)]
    /\ lost' = (call[c].held.refresh \notin refreshLive)
    /\ blame' = IF row.active THEN blame ELSE "overtaken"
    /\ UNCHANGED <<channel, consent>>

\* An exception of the callback is logged, and the request goes on.
SaveFails(c) ==
    /\ call[c].phase = "save"
    /\ call' = [call EXCEPT ![c] = Resumed(@)]
    /\ lost' = TRUE
    /\ UNCHANGED <<channel, row, consent, blame>>

-----------------------------------------------------------------------------
(* Who hears of an authentication failure                                  *)

\* A token better than the row's is on its way to it.
Underway == \/ \E c \in Call : call[c].phase = "save"
            \/ consent.phase # "none"

TurnsOff(k) == k.caller \in Deactivates /\ k.phase = "denied"

\* SQLAlchemy writes is_active only when this session read it as true.
Deactivated(k) == [row EXCEPT !.active = @ /\ ~k.sawActive]

Conclude(c) ==
    /\ call[c].phase = "denied"
    /\ Ended(c)
    /\ IF TurnsOff(call[c])
       THEN /\ row' = Deactivated(call[c])
            /\ blame' = IF row = row' THEN blame
                        ELSE IF call[c].outage THEN "outage"
                        ELSE IF call[c].held.refresh # row.stored.refresh \/ Underway
                             THEN "overtaken" ELSE "refused"
       ELSE UNCHANGED <<row, blame>>
    /\ UNCHANGED <<channel, consent, lost>>

\* The process dies in the middle of a call.
Crash(c) ==
    /\ call[c].phase # "idle"
    /\ Ended(c)
    /\ lost' = (lost \/ call[c].phase = "save")
    /\ UNCHANGED <<channel, row, consent, blame>>

-----------------------------------------------------------------------------
(* Connecting and disconnecting, api/v1/channels.py                        *)

\* cafe24_oauth_callback trades the code for tokens.  The channel may end
\* the older ones, and may give no refresh token.
Exchange ==
    /\ platform = "cafe24"
    /\ consent.phase = "none"
    /\ issued < MaxTokens
    /\ LET new == issued + 1
       IN  /\ issued' = new
           /\ accessLive' = accessLive \cup {new}
           /\ \E old \in {{}, refreshLive} :
                  \/ /\ refreshLive' = old \cup {new}
                     /\ consent' = [NoConsent EXCEPT !.phase = "exchanged",
                            !.granted = [access |-> new, refresh |-> new]]
                  \/ /\ refreshLive' = old
                     /\ consent' = [NoConsent EXCEPT !.phase = "exchanged",
                            !.granted = [access |-> new, refresh |-> NoToken]]
    /\ UNCHANGED <<platform, row, call, blame, lost>>

ReadRow ==
    /\ consent.phase = "exchanged"
    /\ consent' = [consent EXCEPT !.phase = "read", !.sawActive = row.active,
                                  !.sawDeleted = row.deleted]
    /\ UNCHANGED <<channel, row, call, blame, lost>>

\* The reconnect leaves is_active as it is.
Fault_StaysOff ==
    [stored |-> consent.granted, active |-> row.active,
     deleted |-> row.deleted /\ ~consent.sawDeleted]

\* The commit writes the columns that changed from what this session read.
Reconnected ==
    [stored |-> consent.granted,
     active |-> row.active \/ ~consent.sawActive,
     deleted |-> row.deleted /\ ~consent.sawDeleted]

Connect ==
    /\ consent.phase = "read"
    /\ row' = Reconnected
    /\ consent' = NoConsent
    /\ lost' = (consent.granted.refresh \notin refreshLive)
    /\ blame' = IF consent.sawActive /\ ~row.active THEN "overtaken" ELSE "none"
    /\ UNCHANGED <<channel, call>>

\* The callback dies after the exchange.
ConsentLost ==
    /\ consent.phase # "none"
    /\ consent' = NoConsent
    /\ lost' = (lost \/ row.stored.refresh \notin refreshLive)
    /\ UNCHANGED <<channel, row, call, blame>>

Disconnect ==
    /\ ~row.deleted
    /\ row' = [row EXCEPT !.deleted = TRUE, !.active = FALSE]
    /\ blame' = "none"
    /\ UNCHANGED <<channel, call, consent, lost>>

-----------------------------------------------------------------------------
(* The channel                                                             *)

ExpireAccess ==
    /\ accessLive # {}
    /\ \E a \in accessLive : accessLive' = accessLive \ {a}
    /\ UNCHANGED <<platform, refreshLive, issued, row, call, consent, blame, lost>>

\* The seller withdraws the app, or a refresh token reaches its end.
Revoke ==
    /\ row.stored.refresh \in refreshLive
    /\ refreshLive' = refreshLive \ {row.stored.refresh}
    /\ lost' = TRUE
    /\ UNCHANGED <<platform, accessLive, issued, row, call, consent, blame>>

-----------------------------------------------------------------------------
Proceed(c) ==
    \/ Succeed(c) \/ Busy(c) \/ Unauthorised(c) \/ Fail(c)
    \/ Refresh(c) \/ RefreshRefused(c) \/ RefreshLost(c)
    \/ Save(c) \/ SaveFails(c) \/ Conclude(c)

Next ==
    \/ \E c \in Call : \/ \E w \in Caller : Begin(c, w)
                       \/ Proceed(c)
                       \/ Crash(c)
    \/ Exchange \/ ReadRow \/ Connect \/ ConsentLost \/ Disconnect
    \/ ExpireAccess \/ Revoke

Spec == Init /\ [][Next]_vars

-----------------------------------------------------------------------------
(* Properties                                                              *)

\* The row's refresh token works, or its replacement is on its way to the row,
\* or the history names a loss: a lost answer, a failed save, a crash before
\* it, a withdrawal, or a late save over a newer consent.  Otherwise the token
\* chain of cafe24 breaks without a trace and the seller must reconnect.
StoredTokenUsable ==
    \/ row.stored.refresh \in refreshLive \cup {NoToken}
    \/ lost
    \/ \E c \in Call : call[c].phase = "save" /\ call[c].held.refresh \in refreshLive
    \/ consent.phase # "none"

\* A channel that is off while the row's token would work has been turned off
\* by an outage of the token endpoint, or by a call that a refresh, a reconnect
\* or both overtook.  In every other history an inactive channel has no usable
\* token, and a reconnect brings it back.
OffMeansDead ==
    ~row.active /\ ~row.deleted /\ blame \notin {"outage", "overtaken"} =>
        row.stored.refresh \notin refreshLive

\* A request is sent at most MaxRetries + 1 times and refreshes its token at most once
\* after a 401 (naver once more before its first attempt), whatever mix of
\* answers comes back: a 401 spends one of the retries.
RequestBounded ==
    \A c \in Call : /\ call[c].attempts <= MaxRetries + 1
                    /\ call[c].refreshes <= IF platform = "naver" THEN 2 ELSE 1

=============================================================================
