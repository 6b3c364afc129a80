------------------------- MODULE ChannelClientProofs -------------------------
(***************************************************************************)
(* Theorems of ChannelClient, for any set of calls and any bounds.         *)
(*                                                                         *)
(* The counters of a request are tied to its phase (Counted), no client    *)
(* holds a token the channel has not issued, and a call that was denied    *)
(* without an outage holds a dead token (Known).                           *)
(***************************************************************************)
EXTENDS ChannelClient, TLAPS

\* naver may ask for a token before its first attempt.
First(p) == IF p = "naver" THEN 1 ELSE 0

Counted(p, k) ==
    /\ k.phase = "sent" =>
           /\ k.attempts = k.retries + 1
           /\ k.refreshes <= First(p) + (IF k.retries = 0 THEN 0 ELSE 1)
    /\ k.phase \in {"refresh", "save"} => k.retries = 0
    /\ k.phase \in {"refresh", "save"} /\ k.answering401 =>
           k.attempts = 1 /\ k.refreshes <= First(p) + 1
    /\ k.phase \in {"refresh", "save"} /\ ~k.answering401 =>
           /\ p = "naver" /\ k.phase = "refresh"
           /\ k.attempts = 0 /\ k.refreshes <= First(p)
    /\ k.attempts <= MaxRetries + 1
    /\ k.refreshes <= First(p) + 1

Known(n, live, k) ==
    /\ k.held.refresh <= n
    /\ k.phase = "denied" /\ ~k.outage => k.held.refresh \notin live

CallsInv ==
    \A c \in Call : /\ Counted(platform, call[c])
                    /\ Known(issued, refreshLive, call[c])

TokensInv ==
    /\ refreshLive \subseteq 1 .. issued
    /\ row.stored.refresh <= issued
    /\ consent.granted.refresh <= issued

IInv == TypeOK /\ CallsInv /\ TokensInv

USE BoundAssumption, RetriesAssumption, CallerAssumption

-----------------------------------------------------------------------------

LEMMA NoCallOK ==
    ASSUME platform \in Platform, issued \in Nat
    PROVE  NoCall \in Calls /\ Counted(platform, NoCall)
           /\ Known(issued, refreshLive, NoCall)
BY DEF NoCall, Calls, Counted, Known, First, Platform, Phase, AllCallers,
       Credentials, NoCredentials, NoToken, Token

LEMMA Plus1OK ==
    ASSUME NEW n \in 0 .. MaxRetries + 3
    PROVE  /\ Plus1(n) \in 0 .. MaxRetries + 3
           /\ n <= MaxRetries => Plus1(n) = n + 1
BY DEF Plus1

LEMMA SentOK ==
    ASSUME NEW k \in Calls
    PROVE  /\ Sent(k) \in Calls
           /\ Sent(k).phase = "sent"
           /\ Sent(k).attempts = Plus1(k.attempts)
           /\ Sent(k).retries = k.retries
           /\ Sent(k).refreshes = k.refreshes
           /\ Sent(k).answering401 = k.answering401
           /\ Sent(k).held = k.held
           /\ Sent(k).outage = k.outage
<1>1. k.attempts \in 0 .. MaxRetries + 3
  BY DEF Calls
<1>2. Plus1(k.attempts) \in 0 .. MaxRetries + 3
  BY <1>1, Plus1OK
<1>3. "sent" \in Phase
  BY DEF Phase
<1> QED BY <1>2, <1>3 DEF Sent, Calls

LEMMA RefreshingOK ==
    ASSUME NEW k \in Calls, NEW b \in BOOLEAN
    PROVE  /\ Refreshing(k, b) \in Calls
           /\ Refreshing(k, b).phase = "refresh"
           /\ Refreshing(k, b).attempts = k.attempts
           /\ Refreshing(k, b).retries = k.retries
           /\ Refreshing(k, b).refreshes = Plus1(k.refreshes)
           /\ Refreshing(k, b).answering401 = b
           /\ Refreshing(k, b).held = k.held
           /\ Refreshing(k, b).outage = k.outage
<1>1. k.refreshes \in 0 .. MaxRetries + 3
  BY DEF Calls
<1>2. Plus1(k.refreshes) \in 0 .. MaxRetries + 3
  BY <1>1, Plus1OK
<1>3. "refresh" \in Phase
  BY DEF Phase
<1> QED BY <1>2, <1>3 DEF Refreshing, Calls

\* A request starts with its counters at zero.
LEMMA StartsOK ==
    ASSUME platform \in Platform, NEW k \in Calls, k.requests < MaxRequests,
           NEW x \in Starts(k)
    PROVE  /\ x \in Calls
           /\ Counted(platform, x)
           /\ x.held = k.held
           /\ x.phase \in {"sent", "refresh"}
<1> DEFINE new == [k EXCEPT !.retries = 0, !.attempts = 0, !.refreshes = 0,
                            !.requests = @ + 1]
<1>1. PICK n : n = k.requests + 1
  OBVIOUS
<1>2. n \in 0 .. MaxRequests
  BY <1>1 DEF Calls
<1>3. new = [k EXCEPT !.retries = 0, !.attempts = 0, !.refreshes = 0, !.requests = n]
  BY <1>1
<1>4. 0 \in 0 .. MaxRetries /\ 0 \in 0 .. MaxRetries + 3
  OBVIOUS
<1>5. /\ new \in Calls
      /\ new.retries = 0 /\ new.attempts = 0 /\ new.refreshes = 0
      /\ new.held = k.held
  BY <1>2, <1>3, <1>4 DEF Calls
<1> HIDE DEF new
<1>6. x = Sent(new) \/ (x = Refreshing(new, FALSE) /\ platform = "naver")
  BY DEF Starts, new
<1>7. Plus1(0) = 1
  BY Plus1OK
<1>8. CASE x = Sent(new)
  BY <1>5, <1>7, <1>8, SentOK DEF Counted, First
<1>9. CASE x = Refreshing(new, FALSE) /\ platform = "naver"
  <2>1. /\ x \in Calls
        /\ x.phase = "refresh" /\ ~x.answering401
        /\ x.attempts = 0 /\ x.retries = 0 /\ x.refreshes = 1
        /\ x.held = k.held
    BY <1>5, <1>7, <1>9, RefreshingOK
  <2>2. Counted(platform, x)
    <3>1. First(platform) = 1
      BY <1>9 DEF First
    <3>2. 0 <= MaxRetries + 1 /\ 1 <= 1 /\ 1 <= 1 + 1
      OBVIOUS
    <3>3. x.phase # "sent" /\ x.attempts <= MaxRetries + 1
      BY <2>1, <3>2
    <3>4. x.refreshes <= First(platform) /\ x.refreshes <= First(platform) + 1
      BY <2>1, <3>1
    <3> QED BY <1>9, <2>1, <3>3, <3>4 DEF Counted
  <2> QED BY <2>1, <2>2
<1> QED BY <1>6, <1>8, <1>9

\* The request goes on with a new token.
LEMMA ResumedOK ==
    ASSUME platform \in Platform, NEW k \in Calls, Counted(platform, k),
           k.phase \in {"refresh", "save"}
    PROVE  /\ Resumed(k) \in Calls
           /\ Counted(platform, Resumed(k))
           /\ Resumed(k).held = k.held
           /\ Resumed(k).phase = "sent"
<1> DEFINE s == Sent(k)
<1>1. /\ k.retries = 0 /\ k.answering401 \in BOOLEAN
      /\ k.attempts = IF k.answering401 THEN 1 ELSE 0
      /\ k.refreshes \in Nat
  BY DEF Counted, Calls
<1>2. k.attempts \in 0 .. MaxRetries + 3 /\ k.attempts <= MaxRetries
  BY <1>1 DEF Calls
<1>3. /\ s \in Calls
      /\ s.phase = "sent"
      /\ s.attempts = k.attempts + 1
      /\ s.retries = 0 /\ s.refreshes = k.refreshes
      /\ s.answering401 = k.answering401 /\ s.held = k.held
  BY <1>1, <1>2, SentOK, Plus1OK
<1> HIDE DEF s
<1>4. PICK n : n = IF k.answering401 THEN 1 ELSE 0
  OBVIOUS
<1>5. n \in 0 .. MaxRetries
  BY <1>4
<1>6. Resumed(k) = [s EXCEPT !.retries = n, !.answering401 = FALSE]
  BY <1>1, <1>3, <1>4 DEF Resumed, s
<1>7. /\ Resumed(k) \in Calls
      /\ Resumed(k).phase = "sent"
      /\ Resumed(k).retries = n
      /\ Resumed(k).attempts = k.attempts + 1
      /\ Resumed(k).refreshes = k.refreshes
      /\ Resumed(k).held = k.held
  BY <1>3, <1>5, <1>6 DEF Calls
<1> HIDE DEF s
<1>8. Counted(platform, Resumed(k))
  BY <1>1, <1>4, <1>7 DEF Counted, First
<1> QED BY <1>7, <1>8

\* A client's new tokens change nothing else of the call.
LEMMA HeldOK ==
    ASSUME NEW c \in Call, call[c] \in Calls,
           NEW a \in Token \cup {NoToken}, NEW r \in Token \cup {NoToken}
    PROVE  /\ Held(c, a, r) \in Calls
           /\ Held(c, a, r).held = [access |-> a, refresh |-> r]
           /\ Counted(platform, call[c]) => Counted(platform, Held(c, a, r))
           /\ Held(c, a, r).phase = call[c].phase
<1>1. [access |-> a, refresh |-> r] \in Credentials
  BY DEF Credentials
<1> QED BY <1>1 DEF Held, Calls, Counted

-----------------------------------------------------------------------------

LEMMA InitInv == Init => IInv
<1> SUFFICES ASSUME Init PROVE IInv
  OBVIOUS
<1>1. 1 \in Token /\ issued = 1 /\ issued \in Nat
  BY DEF Init, Token
<1>2. platform \in Platform
  BY DEF Init
<1>3. NoCall \in Calls /\ Counted(platform, NoCall)
           /\ Known(issued, refreshLive, NoCall)
  BY <1>1, <1>2, NoCallOK
<1>4. NoCredentials \in Credentials
  BY DEF NoCredentials, Credentials
<1>5. row \in [stored : Credentials, active : BOOLEAN, deleted : BOOLEAN]
  BY <1>1 DEF Init, Credentials
<1>6. /\ consent \in [phase : {"none", "exchanged", "read"}, granted : Credentials,
                      sawActive : BOOLEAN, sawDeleted : BOOLEAN]
      /\ call \in [Call -> Calls]
      /\ accessLive \subseteq Token /\ refreshLive \subseteq Token
      /\ issued \in 0 .. MaxTokens
  BY <1>1, <1>3, <1>4 DEF Init, NoConsent
<1>7. TypeOK
  BY <1>2, <1>5, <1>6 DEF Init, TypeOK
<1>8. CallsInv
  BY <1>3 DEF Init, CallsInv
<1>9. TokensInv
  BY DEF Init, TokensInv, NoConsent, NoCredentials, NoToken
<1> QED BY <1>7, <1>8, <1>9 DEF IInv

\* One call moves to a new record; tokens are only issued or ended, so what
\* held of the other calls still does.
LEMMA OneCall ==
    ASSUME IInv, platform' = platform, issued' \in Nat, issued <= issued',
           refreshLive' \subseteq refreshLive \cup (issued + 1 .. issued'),
           NEW c \in Call, NEW k \in Calls, call' = [call EXCEPT ![c] = k],
           Counted(platform, k), Known(issued', refreshLive', k)
    PROVE  call' \in [Call -> Calls] /\ CallsInv'
<1>1. call' \in [Call -> Calls]
  BY DEF IInv, TypeOK
<1>2. ASSUME NEW d \in Call
      PROVE  Counted(platform, call'[d]) /\ Known(issued', refreshLive', call'[d])
  <2>1. CASE d = c
    BY <2>1 DEF IInv, TypeOK
  <2>2. CASE d # c
    <3>1. call'[d] = call[d] /\ call[d] \in Calls
      BY <2>2 DEF IInv, TypeOK
    <3>2. Counted(platform, call[d]) /\ Known(issued, refreshLive, call[d])
      BY DEF IInv, CallsInv
    <3>3. call[d].held.refresh \in Nat
      BY <3>1 DEF Calls, Credentials, Token, NoToken
    <3>4. issued \in Nat
      BY DEF IInv, TypeOK
    <3>5. Known(issued', refreshLive', call[d])
      BY <3>2, <3>3, <3>4 DEF Known
    <3> QED BY <3>1, <3>2, <3>5
  <2> QED BY <2>1, <2>2
<1> QED BY <1>1, <1>2 DEF CallsInv

LEMMA SameTokens ==
    ASSUME IInv, UNCHANGED <<platform, issued, refreshLive>>,
           NEW c \in Call, NEW k \in Calls, call' = [call EXCEPT ![c] = k],
           Counted(platform, k), Known(issued, refreshLive, k)
    PROVE  call' \in [Call -> Calls] /\ CallsInv'
<1>1. platform' = platform /\ issued' = issued /\ refreshLive' = refreshLive
  OBVIOUS
<1>2. issued \in Nat
  BY DEF IInv, TypeOK
<1>3. Known(issued', refreshLive', k) /\ issued' \in Nat /\ issued <= issued'
  BY <1>1, <1>2
<1>4. refreshLive' \subseteq refreshLive \cup (issued + 1 .. issued')
  BY <1>1
<1> QED BY <1>1, <1>3, <1>4, OneCall

\* A call that ends, and nothing else about it.
LEMMA EndedOK ==
    ASSUME IInv, platform' = platform, issued' = issued,
           refreshLive' \subseteq refreshLive, NEW c \in Call, Ended(c)
    PROVE  call' \in [Call -> Calls] /\ CallsInv'
<1>1. platform \in Platform /\ issued \in Nat
  BY DEF IInv, TypeOK
<1>2. /\ NoCall \in Calls
      /\ Counted(platform, NoCall)
      /\ Known(issued', refreshLive', NoCall)
  BY <1>1, NoCallOK DEF Known, NoCall
<1>3. /\ issued' \in Nat /\ issued <= issued'
      /\ refreshLive' \subseteq refreshLive \cup (issued + 1 .. issued')
  BY <1>1
<1>4. call' = [call EXCEPT ![c] = NoCall]
  BY DEF Ended
<1> QED BY <1>2, <1>3, <1>4, OneCall

LEMMA BeginInv == ASSUME IInv, NEW c \in Call, NEW w \in Caller, Begin(c, w) PROVE IInv'
<1> DEFINE k == [NoCall EXCEPT !.caller = w, !.held = row.stored,
                               !.sawActive = row.active]
<1>1. /\ w \in AllCallers /\ row.stored \in Credentials /\ row.active \in BOOLEAN
      /\ platform \in Platform /\ issued \in Nat
  BY DEF IInv, TypeOK
<1>2. NoCall \in Calls
  BY <1>1, NoCallOK
<1>3. /\ k \in Calls /\ k.requests = 0 /\ k.held = row.stored
  BY <1>1, <1>2 DEF Calls, NoCall
<1>4. PICK x \in Starts(k) : call' = [call EXCEPT ![c] = x]
  BY DEF Begin
<1> HIDE DEF k
<1>5. /\ x \in Calls /\ Counted(platform, x) /\ x.held = row.stored
      /\ x.phase \in {"sent", "refresh"}
  BY <1>1, <1>3, StartsOK
<1>6. Known(issued, refreshLive, x)
  BY <1>5 DEF Known, IInv, TokensInv
<1>7. UNCHANGED <<channel, row, consent, blame, lost>>
  BY DEF Begin
<1>8. call' \in [Call -> Calls] /\ CallsInv'
  BY <1>1, <1>4, <1>5, <1>6, <1>7, SameTokens DEF channel
<1> QED BY <1>7, <1>8 DEF IInv, TypeOK, TokensInv, channel

LEMMA SucceedInv == ASSUME IInv, NEW c \in Call, Succeed(c) PROVE IInv'
<1>1. /\ call[c] \in Calls /\ platform \in Platform /\ issued \in Nat
      /\ Known(issued, refreshLive, call[c])
  BY DEF IInv, TypeOK, CallsInv
<1>2. UNCHANGED <<channel, row, consent, blame, lost>>
  BY DEF Succeed
<1>3. call' \in [Call -> Calls] /\ CallsInv'
  <2>1. CASE Ended(c)
    BY <1>2, <2>1, EndedOK DEF channel
  <2>2. CASE call[c].requests < MaxRequests
             /\ \E x \in Starts(call[c]) : call' = [call EXCEPT ![c] = x]
    <3>1. PICK x \in Starts(call[c]) : call' = [call EXCEPT ![c] = x]
      BY <2>2
    <3>2. /\ x \in Calls /\ Counted(platform, x) /\ x.held = call[c].held
          /\ x.phase \in {"sent", "refresh"}
      BY <1>1, <2>2, StartsOK
    <3>3. Known(issued, refreshLive, x)
      BY <1>1, <3>2 DEF Known
    <3> QED BY <1>1, <1>2, <3>1, <3>2, <3>3, SameTokens DEF channel
  <2> QED BY <2>1, <2>2 DEF Succeed
<1> QED BY <1>2, <1>3 DEF IInv, TypeOK, TokensInv, channel

LEMMA BusyInv == ASSUME IInv, NEW c \in Call, Busy(c) PROVE IInv'
<1>1. /\ call[c] \in Calls /\ platform \in Platform /\ issued \in Nat
      /\ Known(issued, refreshLive, call[c]) /\ Counted(platform, call[c])
      /\ call[c].phase = "sent"
  BY DEF IInv, TypeOK, CallsInv, Busy
<1>2. UNCHANGED <<channel, row, consent, blame, lost>>
  BY DEF Busy
<1>3. call' \in [Call -> Calls] /\ CallsInv'
  <2>1. CASE Ended(c)
    BY <1>2, <2>1, EndedOK DEF channel
  <2>2. CASE CanRetry(call[c])
             /\ call' = [call EXCEPT ![c] = Retried(call[c])]
    <3> DEFINE s == Sent(call[c])
               x == Retried(call[c])
    <3>1. /\ call[c].retries \in 0 .. MaxRetries - 1
          /\ call[c].attempts = call[c].retries + 1
          /\ call[c].attempts \in 0 .. MaxRetries + 3
          /\ call[c].refreshes \in Nat
      BY <1>1, <2>2 DEF CanRetry, Calls, Counted
    <3>2. /\ s \in Calls /\ s.phase = "sent"
          /\ s.attempts = call[c].attempts + 1
          /\ s.retries = call[c].retries /\ s.refreshes = call[c].refreshes
          /\ s.held = call[c].held
      BY <1>1, <3>1, SentOK, Plus1OK
    <3>3. PICK n : n = call[c].retries + 1
      OBVIOUS
    <3>4. n \in 1 .. MaxRetries /\ n \in 0 .. MaxRetries
      BY <3>1, <3>3
    <3>5. call' = [call EXCEPT ![c] = x]
      BY <2>2
    <3>6. x = [s EXCEPT !.retries = n]
      BY <3>2, <3>3 DEF Retried
    <3> HIDE DEF s, x
    <3>7. /\ x \in Calls /\ x.phase = "sent" /\ x.attempts = n + 1 /\ x.retries = n
          /\ x.refreshes = call[c].refreshes /\ x.held = call[c].held
      BY <3>1, <3>2, <3>3, <3>4, <3>6 DEF Calls
    <3>8. Counted(platform, x)
      BY <1>1, <3>1, <3>4, <3>7 DEF Counted, First
    <3>9. Known(issued, refreshLive, x)
      BY <1>1, <3>7 DEF Known
    <3> QED BY <1>1, <1>2, <3>5, <3>7, <3>8, <3>9, SameTokens DEF channel
  <2> QED BY <2>1, <2>2 DEF Busy
<1> QED BY <1>2, <1>3 DEF IInv, TypeOK, TokensInv, channel

LEMMA UnauthorisedInv == ASSUME IInv, NEW c \in Call, Unauthorised(c) PROVE IInv'
<1>1. /\ call[c] \in Calls /\ platform \in Platform /\ issued \in Nat
      /\ Known(issued, refreshLive, call[c]) /\ Counted(platform, call[c])
      /\ call[c].phase = "sent"
  BY DEF IInv, TypeOK, CallsInv, Unauthorised
<1>2. UNCHANGED <<channel, row, consent, blame, lost>>
  BY DEF Unauthorised
<1>3. call' \in [Call -> Calls] /\ CallsInv'
  <2>1. CASE Ended(c)
    BY <1>2, <2>1, EndedOK DEF channel
  <2>2. CASE CanRefresh(call[c]) /\ call[c].held.refresh = NoToken
             /\ call' = [call EXCEPT ![c].phase = "denied"]
    <3> DEFINE x == [call[c] EXCEPT !.phase = "denied"]
    <3>1. "denied" \in Phase
      BY DEF Phase
    <3>2. /\ x \in Calls /\ x.phase = "denied" /\ x.held = call[c].held
          /\ x.attempts = call[c].attempts /\ x.refreshes = call[c].refreshes
      BY <1>1, <3>1 DEF Calls
    <3>3. call' = [call EXCEPT ![c] = x]
      BY <2>2
    <3> HIDE DEF x
    <3>4. Counted(platform, x)
      BY <1>1, <3>2 DEF Counted
    <3>5. 0 \notin refreshLive
      BY <1>1 DEF IInv, TokensInv
    <3>6. Known(issued, refreshLive, x)
      BY <1>1, <2>2, <3>2, <3>5 DEF Known, NoToken
    <3> QED BY <1>1, <1>2, <3>2, <3>3, <3>4, <3>6, SameTokens DEF channel
  <2>3. CASE CanRefresh(call[c])
             /\ call' = [call EXCEPT ![c] = Refreshing(call[c], TRUE)]
    <3> DEFINE x == Refreshing(call[c], TRUE)
    <3>1. call[c].retries = 0
      BY <2>3 DEF CanRefresh
    <3>2. /\ call[c].attempts = 1 /\ call[c].refreshes <= First(platform)
          /\ call[c].refreshes \in 0 .. MaxRetries + 3
      BY <1>1, <3>1 DEF Counted, Calls, First
    <3>3. call[c].refreshes <= MaxRetries
      BY <3>2 DEF First
    <3>4. Plus1(call[c].refreshes) = call[c].refreshes + 1
      BY <3>2, <3>3, Plus1OK
    <3>5. /\ x \in Calls /\ x.phase = "refresh" /\ x.attempts = 1 /\ x.retries = 0
          /\ x.refreshes = call[c].refreshes + 1 /\ x.answering401
          /\ x.held = call[c].held
      BY <1>1, <3>1, <3>2, <3>4, RefreshingOK
    <3> HIDE DEF x
    <3>6. Counted(platform, x)
      BY <3>2, <3>5 DEF Counted, First
    <3>7. Known(issued, refreshLive, x)
      BY <1>1, <3>5 DEF Known
    <3>8. call' = [call EXCEPT ![c] = x]
      BY <2>3 DEF x
    <3> QED BY <1>1, <1>2, <3>5, <3>6, <3>7, <3>8, SameTokens DEF channel
  <2> QED BY <2>1, <2>2, <2>3 DEF Unauthorised
<1> QED BY <1>2, <1>3 DEF IInv, TypeOK, TokensInv, channel

LEMMA RefreshRefusedInv == ASSUME IInv, NEW c \in Call, RefreshRefused(c) PROVE IInv'
<1>1. /\ call[c] \in Calls /\ platform \in Platform /\ issued \in Nat
      /\ Known(issued, refreshLive, call[c]) /\ Counted(platform, call[c])
  BY DEF IInv, TypeOK, CallsInv
<1> DEFINE o == call[c].held.refresh \in refreshLive
           x == [call[c] EXCEPT !.phase = "denied", !.outage = o]
<1>2. "denied" \in Phase /\ o \in BOOLEAN
  BY DEF Phase
<1>3. call' = [call EXCEPT ![c] = x]
  BY DEF RefreshRefused
<1>4. PICK b \in BOOLEAN : b = o
  BY <1>2
<1>5. x = [call[c] EXCEPT !.phase = "denied", !.outage = b]
  BY <1>4
<1>6. /\ x \in Calls /\ x.phase = "denied" /\ x.held = call[c].held /\ x.outage = b
      /\ x.attempts = call[c].attempts /\ x.refreshes = call[c].refreshes
  BY <1>1, <1>2, <1>4, <1>5 DEF Calls
<1> HIDE DEF x
<1>7. Counted(platform, x)
  BY <1>1, <1>6 DEF Counted
<1>8. Known(issued, refreshLive, x)
  BY <1>1, <1>4, <1>6 DEF Known
<1>9. UNCHANGED <<channel, row, consent, blame, lost>>
  BY DEF RefreshRefused
<1>10. call' \in [Call -> Calls] /\ CallsInv'
  BY <1>3, <1>6, <1>7, <1>8, <1>9, SameTokens DEF channel
<1> QED BY <1>9, <1>10 DEF IInv, TypeOK, TokensInv, channel

LEMMA FailInv == ASSUME IInv, NEW c \in Call, Fail(c) PROVE IInv'
<1>1. UNCHANGED <<channel, row, consent, blame, lost>> /\ Ended(c)
  BY DEF Fail
<1>2. call' \in [Call -> Calls] /\ CallsInv'
  BY <1>1, EndedOK DEF channel
<1> QED BY <1>1, <1>2 DEF IInv, TypeOK, TokensInv, channel

LEMMA RefreshInv == ASSUME IInv, NEW c \in Call, Refresh(c) PROVE IInv'
<1> DEFINE old == call[c].held.refresh
           new == issued + 1
<1>1. /\ call[c] \in Calls /\ platform \in Platform /\ issued \in Nat
      /\ Counted(platform, call[c]) /\ call[c].phase = "refresh"
  BY DEF IInv, TypeOK, CallsInv, Refresh
<1>2. /\ old \in refreshLive /\ issued' = new /\ new \in Token
      /\ accessLive' = accessLive \cup {new}
      /\ UNCHANGED <<platform, row, consent, blame, lost>>
  BY <1>1 DEF Refresh, Token
<1>3. /\ refreshLive \subseteq Token /\ refreshLive \subseteq 1 .. issued
      /\ old \in Token /\ old <= issued /\ new # old
  <2>1. refreshLive \subseteq Token /\ refreshLive \subseteq 1 .. issued
    BY DEF IInv, TypeOK, TokensInv
  <2>2. old \in 1 .. issued /\ old \in Token
    BY <1>2, <2>1
  <2> QED BY <1>1, <2>1, <2>2
<1> HIDE DEF old, new
<1>7. new \in Nat /\ issued <= new /\ new \in issued + 1 .. new
  BY <1>1 DEF new
<1>4. /\ call' \in [Call -> Calls] /\ CallsInv'
      /\ refreshLive' \subseteq refreshLive \cup {new}
  <2>1. CASE /\ platform = "naver"
             /\ call' = [call EXCEPT ![c] = Resumed(Held(c, new, old))]
             /\ UNCHANGED refreshLive
    <3> DEFINE h == Held(c, new, old)
               x == Resumed(h)
    <3>1. /\ h \in Calls /\ Counted(platform, h) /\ h.phase = "refresh"
          /\ h.held = [access |-> new, refresh |-> old]
      BY <1>1, <1>2, <1>3, HeldOK
    <3> HIDE DEF h
    <3>6. h.held.refresh = old
      BY <3>1
    <3>2. /\ x \in Calls /\ Counted(platform, x) /\ x.held = h.held /\ x.phase = "sent"
      BY <1>1, <3>1, ResumedOK
    <3> HIDE DEF x
    <3>3. Known(issued', refreshLive', x)
      BY <1>1, <1>2, <1>3, <1>7, <3>6, <3>2 DEF Known
    <3>4. call' = [call EXCEPT ![c] = x]
      BY <2>1 DEF x, h
    <3>5. /\ issued' \in Nat /\ issued <= issued'
          /\ refreshLive' \subseteq refreshLive \cup (issued + 1 .. issued')
      BY <1>1, <1>2, <1>7, <2>1
    <3> QED BY <1>2, <2>1, <3>2, <3>3, <3>4, <3>5, OneCall
  <2>2. ASSUME NEW r \in {old, new}, platform = "cafe24",
               call' = [call EXCEPT ![c] = [Held(c, new, r) EXCEPT !.phase = "save"]],
               refreshLive' \subseteq refreshLive \cup {new}
        PROVE  call' \in [Call -> Calls] /\ CallsInv'
    <3> DEFINE h == Held(c, new, r)
               x == [h EXCEPT !.phase = "save"]
    <3>1. /\ h \in Calls /\ Counted(platform, h) /\ h.phase = "refresh"
          /\ h.held = [access |-> new, refresh |-> r]
      BY <1>1, <1>2, <1>3, HeldOK
    <3>2. call' = [call EXCEPT ![c] = x]
      BY <2>2
    <3> HIDE DEF h
    <3>3. "save" \in Phase
      BY DEF Phase
    <3>4. /\ x \in Calls /\ x.phase = "save" /\ x.held = h.held
          /\ x.retries = h.retries /\ x.attempts = h.attempts
          /\ x.refreshes = h.refreshes /\ x.answering401 = h.answering401
      BY <3>1, <3>3 DEF Calls
    <3> HIDE DEF x
    <3>5. h.answering401 \in BOOLEAN
      BY <3>1 DEF Calls
    <3>6. h.answering401
      BY <2>2, <3>1, <3>5 DEF Counted
    <3>7. Counted(platform, x)
      BY <3>1, <3>4, <3>6 DEF Counted
    <3>10. x.held.refresh <= new
      <4>1. x.held.refresh = r
        BY <3>1, <3>4
      <4> QED BY <1>1, <1>3, <1>7, <2>2, <4>1 DEF Token
    <3>8. Known(issued', refreshLive', x)
      BY <1>2, <3>4, <3>10 DEF Known
    <3>9. /\ issued' \in Nat /\ issued <= issued'
          /\ refreshLive' \subseteq refreshLive \cup (issued + 1 .. issued')
      BY <1>1, <1>2, <1>7, <2>2
    <3> QED BY <1>2, <3>2, <3>4, <3>7, <3>8, <3>9, OneCall
  <2>3. CASE /\ platform = "cafe24"
             /\ call' = [call EXCEPT ![c] = [Held(c, new, old) EXCEPT !.phase = "save"]]
             /\ UNCHANGED refreshLive
    BY <2>2, <2>3
  <2>4. CASE /\ platform = "cafe24"
             /\ call' = [call EXCEPT ![c] = [Held(c, new, new) EXCEPT !.phase = "save"]]
             /\ refreshLive' \in {refreshLive \cup {new},
                                  (refreshLive \ {old}) \cup {new}}
    <3>1. refreshLive' \subseteq refreshLive \cup {new}
      BY <2>4
    <3> QED BY <2>2, <2>4, <3>1
  <2>5. /\ UNCHANGED refreshLive => refreshLive' \subseteq refreshLive \cup {new}
        /\ refreshLive' \in {refreshLive \cup {new}, (refreshLive \ {old}) \cup {new}}
              => refreshLive' \subseteq refreshLive \cup {new}
    OBVIOUS
  <2> QED BY <2>1, <2>3, <2>4, <2>5 DEF Refresh, old, new
<1>5. /\ refreshLive' \subseteq Token /\ refreshLive' \subseteq 1 .. issued'
      /\ accessLive' \subseteq Token /\ issued' \in 0 .. MaxTokens
  <2>1. new \in 1 .. issued' /\ 1 .. issued \subseteq 1 .. issued'
    BY <1>1, <1>2 DEF new
  <2>2. accessLive \subseteq Token /\ issued' \in 0 .. MaxTokens
    BY <1>2 DEF IInv, TypeOK, Token
  <2> QED BY <1>2, <1>3, <1>4, <2>1, <2>2
<1>6. row.stored.refresh <= issued' /\ consent.granted.refresh <= issued'
  <2>1. row.stored.refresh \in Nat /\ consent.granted.refresh \in Nat
    BY DEF IInv, TypeOK, Credentials, Token, NoToken
  <2> QED BY <1>1, <1>2, <1>7, <2>1 DEF IInv, TokensInv
<1> QED BY <1>2, <1>4, <1>5, <1>6 DEF IInv, TypeOK, TokensInv

LEMMA RefreshLostInv == ASSUME IInv, NEW c \in Call, RefreshLost(c) PROVE IInv'
<1>1. /\ Ended(c) /\ UNCHANGED <<platform, accessLive, issued, row, consent, blame>>
      /\ refreshLive' \subseteq refreshLive
      /\ lost' \in BOOLEAN
  BY DEF RefreshLost, IInv, TypeOK
<1>2. call' \in [Call -> Calls] /\ CallsInv'
  BY <1>1, EndedOK
<1> QED BY <1>1, <1>2 DEF IInv, TypeOK, TokensInv

\* The two ways out of a save.
LEMMA AfterSave ==
    ASSUME IInv, NEW c \in Call, call[c].phase = "save", UNCHANGED channel,
           call' = [call EXCEPT ![c] = Resumed(call[c])]
    PROVE  call' \in [Call -> Calls] /\ CallsInv'
<1> DEFINE x == Resumed(call[c])
<1>1. /\ call[c] \in Calls /\ platform \in Platform
      /\ Counted(platform, call[c]) /\ Known(issued, refreshLive, call[c])
  BY DEF IInv, TypeOK, CallsInv
<1>2. /\ x \in Calls /\ Counted(platform, x) /\ x.held = call[c].held /\ x.phase = "sent"
  BY <1>1, ResumedOK
<1> HIDE DEF x
<1>3. Known(issued, refreshLive, x)
  BY <1>1, <1>2 DEF Known
<1>4. call' = [call EXCEPT ![c] = x]
  BY DEF x
<1> QED BY <1>2, <1>3, <1>4, SameTokens DEF channel

LEMMA SaveInv == ASSUME IInv, NEW c \in Call, Save(c) PROVE IInv'
<1>1. /\ call[c].phase = "save" /\ UNCHANGED <<channel, consent>>
      /\ call' = [call EXCEPT ![c] = Resumed(call[c])]
      /\ row' = [row EXCEPT !.stored = call[c].held]
      /\ lost' \in BOOLEAN /\ blame' \in {blame, "overtaken"}
  BY DEF Save, Saved
<1>2. call' \in [Call -> Calls] /\ CallsInv'
  BY <1>1, AfterSave
<1>3. call[c].held \in Credentials /\ call[c].held.refresh <= issued
  BY DEF IInv, TypeOK, CallsInv, Known, Calls
<1>4. /\ row' \in [stored : Credentials, active : BOOLEAN, deleted : BOOLEAN]
      /\ row'.stored.refresh <= issued
  BY <1>1, <1>3 DEF IInv, TypeOK
<1> QED BY <1>1, <1>2, <1>4 DEF IInv, TypeOK, TokensInv, channel

LEMMA SaveFailsInv == ASSUME IInv, NEW c \in Call, SaveFails(c) PROVE IInv'
<1>1. /\ call[c].phase = "save" /\ UNCHANGED <<channel, row, consent, blame>>
      /\ call' = [call EXCEPT ![c] = Resumed(call[c])] /\ lost' \in BOOLEAN
  BY DEF SaveFails
<1>2. call' \in [Call -> Calls] /\ CallsInv'
  BY <1>1, AfterSave
<1> QED BY <1>1, <1>2 DEF IInv, TypeOK, TokensInv, channel

LEMMA ConcludeInv == ASSUME IInv, NEW c \in Call, Conclude(c) PROVE IInv'
<1>1. Ended(c) /\ UNCHANGED <<channel, consent, lost>>
  BY DEF Conclude
<1>2. call' \in [Call -> Calls] /\ CallsInv'
  BY <1>1, EndedOK DEF channel
<1>3. /\ row' \in [stored : Credentials, active : BOOLEAN, deleted : BOOLEAN]
      /\ row'.stored = row.stored
      /\ blame' \in {"none", "refused", "outage", "overtaken"}
  <2>1. row \in [stored : Credentials, active : BOOLEAN, deleted : BOOLEAN]
        /\ blame \in {"none", "refused", "outage", "overtaken"}
    BY DEF IInv, TypeOK
  <2>2. PICK b \in BOOLEAN : b = (row.active /\ ~call[c].sawActive)
    BY <2>1
  <2>3. row' = row \/ row' = [row EXCEPT !.active = b]
    BY <2>2 DEF Conclude, Deactivated
  <2>4. blame' \in {blame, "refused", "outage", "overtaken"}
    BY DEF Conclude
  <2> QED BY <2>1, <2>3, <2>4
<1> QED BY <1>1, <1>2, <1>3 DEF IInv, TypeOK, TokensInv, channel

LEMMA CrashInv == ASSUME IInv, NEW c \in Call, Crash(c) PROVE IInv'
<1>1. Ended(c) /\ UNCHANGED <<channel, row, consent, blame>> /\ lost' \in BOOLEAN
  BY DEF Crash
<1>2. call' \in [Call -> Calls] /\ CallsInv'
  BY <1>1, EndedOK DEF channel
<1> QED BY <1>1, <1>2 DEF IInv, TypeOK, TokensInv, channel

\* Steps that move no call.
LEMMA CallsKept ==
    ASSUME IInv, UNCHANGED <<platform, call>>, issued' \in Nat, issued <= issued',
           refreshLive' \subseteq refreshLive \cup (issued + 1 .. issued')
    PROVE  CallsInv'
<1> SUFFICES ASSUME NEW d \in Call
             PROVE  Counted(platform, call[d]) /\ Known(issued', refreshLive', call[d])
  BY DEF CallsInv
<1>1. /\ Counted(platform, call[d]) /\ Known(issued, refreshLive, call[d])
      /\ call[d] \in Calls /\ issued \in Nat
  BY DEF IInv, TypeOK, CallsInv
<1>2. call[d].held.refresh \in Nat
  BY <1>1 DEF Calls, Credentials, Token, NoToken
<1> QED BY <1>1, <1>2 DEF Known

LEMMA ExchangeInv == ASSUME IInv, Exchange PROVE IInv'
<1> DEFINE new == issued + 1
           C == [phase : {"none", "exchanged", "read"}, granted : Credentials,
                 sawActive : BOOLEAN, sawDeleted : BOOLEAN]
<1>1. /\ issued' = new /\ new \in Token /\ issued \in Nat
      /\ accessLive' = accessLive \cup {new}
      /\ UNCHANGED <<platform, row, call, blame, lost>>
  BY DEF Exchange, IInv, TypeOK, Token
<1>2. refreshLive' \subseteq refreshLive \cup {new}
  BY DEF Exchange
<1>3. PICK r \in {new, NoToken} :
          consent' = [NoConsent EXCEPT !.phase = "exchanged",
                          !.granted = [access |-> new, refresh |-> r]]
  BY DEF Exchange
<1>4. [access |-> new, refresh |-> r] \in Credentials
  BY <1>1 DEF Credentials
<1>5. PICK g \in Credentials : g = [access |-> new, refresh |-> r]
  BY <1>4
<1>6. consent' = [NoConsent EXCEPT !.phase = "exchanged", !.granted = g]
  BY <1>3, <1>5
<1>7. NoConsent \in C
  BY DEF NoConsent, NoCredentials, Credentials
<1>8. consent' \in C /\ consent'.granted = g
  BY <1>6, <1>7
<1>9. consent'.granted.refresh <= issued'
  <2>1. g.refresh = r
    BY <1>5
  <2> QED BY <1>1, <1>8, <2>1 DEF NoToken
<1>10. CallsInv'
  BY <1>1, <1>2, CallsKept
<1>11. /\ refreshLive \subseteq Token /\ refreshLive \subseteq 1 .. issued
       /\ accessLive \subseteq Token
  BY DEF IInv, TypeOK, TokensInv
<1>12. /\ refreshLive' \subseteq Token /\ refreshLive' \subseteq 1 .. issued'
       /\ accessLive' \subseteq Token
  <2>1. new \in 1 .. issued' /\ 1 .. issued \subseteq 1 .. issued'
    BY <1>1
  <2> QED BY <1>1, <1>2, <1>11, <2>1
<1>13. row.stored.refresh <= issued' /\ issued' \in 0 .. MaxTokens
  <2>1. row.stored.refresh \in Nat
    BY DEF IInv, TypeOK, Credentials, Token, NoToken
  <2> QED BY <1>1, <2>1 DEF IInv, TokensInv, Token
<1> QED BY <1>1, <1>8, <1>9, <1>10, <1>12, <1>13 DEF IInv, TypeOK, TokensInv

LEMMA ReadRowInv == ASSUME IInv, ReadRow PROVE IInv'
<1>1. UNCHANGED <<channel, row, call, blame, lost>>
  BY DEF ReadRow
<1>2. row.active \in BOOLEAN /\ row.deleted \in BOOLEAN
  BY DEF IInv, TypeOK
<1>3. /\ consent' \in [phase : {"none", "exchanged", "read"}, granted : Credentials,
                       sawActive : BOOLEAN, sawDeleted : BOOLEAN]
      /\ consent'.granted = consent.granted
  BY <1>2 DEF ReadRow, IInv, TypeOK
<1> QED BY <1>1, <1>3 DEF IInv, TypeOK, TokensInv, CallsInv, channel

LEMMA ConnectInv == ASSUME IInv, Connect PROVE IInv'
<1>1. /\ UNCHANGED <<channel, call>> /\ consent' = NoConsent
      /\ lost' \in BOOLEAN /\ blame' \in {"overtaken", "none"}
      /\ row' = Reconnected
  BY DEF Connect
<1>2. /\ consent.granted \in Credentials /\ consent.granted.refresh <= issued
      /\ issued \in Nat
  BY DEF IInv, TypeOK, TokensInv
<1>3. /\ row' \in [stored : Credentials, active : BOOLEAN, deleted : BOOLEAN]
      /\ row'.stored = consent.granted
  BY <1>1, <1>2 DEF Reconnected, IInv, TypeOK
<1>4. /\ NoConsent \in [phase : {"none", "exchanged", "read"}, granted : Credentials,
                        sawActive : BOOLEAN, sawDeleted : BOOLEAN]
      /\ NoConsent.granted.refresh <= issued
  BY <1>2 DEF NoConsent, NoCredentials, Credentials, NoToken
<1> QED BY <1>1, <1>2, <1>3, <1>4 DEF IInv, TypeOK, TokensInv, CallsInv, channel

LEMMA ConsentLostInv == ASSUME IInv, ConsentLost PROVE IInv'
<1>1. /\ UNCHANGED <<channel, row, call, blame>> /\ consent' = NoConsent
      /\ lost' \in BOOLEAN
  BY DEF ConsentLost
<1>2. issued \in Nat
  BY DEF IInv, TypeOK
<1>3. /\ NoConsent \in [phase : {"none", "exchanged", "read"}, granted : Credentials,
                        sawActive : BOOLEAN, sawDeleted : BOOLEAN]
      /\ NoConsent.granted.refresh <= issued
  BY <1>2 DEF NoConsent, NoCredentials, Credentials, NoToken
<1> QED BY <1>1, <1>3 DEF IInv, TypeOK, TokensInv, CallsInv, channel

LEMMA DisconnectInv == ASSUME IInv, Disconnect PROVE IInv'
<1>1. /\ UNCHANGED <<channel, call, consent, lost>> /\ blame' = "none"
      /\ row' = [row EXCEPT !.deleted = TRUE, !.active = FALSE]
  BY DEF Disconnect
<1>2. /\ row' \in [stored : Credentials, active : BOOLEAN, deleted : BOOLEAN]
      /\ row'.stored = row.stored
  BY <1>1 DEF IInv, TypeOK
<1> QED BY <1>1, <1>2 DEF IInv, TypeOK, TokensInv, CallsInv, channel

LEMMA ExpireAccessInv == ASSUME IInv, ExpireAccess PROVE IInv'
<1>1. /\ UNCHANGED <<platform, refreshLive, issued, row, call, consent, blame, lost>>
      /\ accessLive' \subseteq accessLive
  BY DEF ExpireAccess
<1> QED BY <1>1 DEF IInv, TypeOK, TokensInv, CallsInv

LEMMA RevokeInv == ASSUME IInv, Revoke PROVE IInv'
<1>1. /\ UNCHANGED <<platform, accessLive, issued, row, call, consent, blame>>
      /\ refreshLive' \subseteq refreshLive /\ lost' \in BOOLEAN /\ issued \in Nat
  BY DEF Revoke, IInv, TypeOK
<1>2. CallsInv'
  BY <1>1, CallsKept
<1> QED BY <1>1, <1>2 DEF IInv, TypeOK, TokensInv

-----------------------------------------------------------------------------

LEMMA NextInv == IInv /\ [Next]_vars => IInv'
<1> SUFFICES ASSUME IInv, [Next]_vars PROVE IInv'
  OBVIOUS
<1>1. ASSUME NEW c \in Call, NEW w \in Caller, Begin(c, w) PROVE IInv'
  BY <1>1, BeginInv
<1>2. ASSUME NEW c \in Call, Proceed(c) PROVE IInv'
  <2>1. CASE Succeed(c)
    BY <2>1, SucceedInv
  <2>2. CASE Busy(c)
    BY <2>2, BusyInv
  <2>3. CASE Unauthorised(c)
    BY <2>3, UnauthorisedInv
  <2>4. CASE Fail(c)
    BY <2>4, FailInv
  <2>5. CASE Refresh(c)
    BY <2>5, RefreshInv
  <2>6. CASE RefreshRefused(c)
    BY <2>6, RefreshRefusedInv
  <2>7. CASE RefreshLost(c)
    BY <2>7, RefreshLostInv
  <2>8. CASE Save(c)
    BY <2>8, SaveInv
  <2>9. CASE SaveFails(c)
    BY <2>9, SaveFailsInv
  <2>10. CASE Conclude(c)
    BY <2>10, ConcludeInv
  <2> QED BY <1>2, <2>1, <2>2, <2>3, <2>4, <2>5, <2>6, <2>7, <2>8, <2>9, <2>10 DEF Proceed
<1>3. ASSUME NEW c \in Call, Crash(c) PROVE IInv'
  BY <1>3, CrashInv
<1>4. CASE Exchange
  BY <1>4, ExchangeInv
<1>5. CASE ReadRow
  BY <1>5, ReadRowInv
<1>6. CASE Connect
  BY <1>6, ConnectInv
<1>7. CASE ConsentLost
  BY <1>7, ConsentLostInv
<1>8. CASE Disconnect
  BY <1>8, DisconnectInv
<1>9. CASE ExpireAccess
  BY <1>9, ExpireAccessInv
<1>10. CASE Revoke
  BY <1>10, RevokeInv
<1>11. CASE UNCHANGED vars
  BY <1>11 DEF vars, channel, IInv, TypeOK, TokensInv, CallsInv
<1> QED BY <1>1, <1>2, <1>3, <1>4, <1>5, <1>6, <1>7, <1>8, <1>9, <1>10, <1>11 DEF Next

LEMMA Invariant == Spec => []IInv
<1> QED BY InitInv, NextInv, PTL DEF Spec

\* The channel's row, its clients and the history variables keep their types.
THEOREM TypeCorrect == Spec => []TypeOK
<1>1. IInv => TypeOK
  BY DEF IInv
<1> QED BY <1>1, Invariant, PTL

\* Client._request: however the channel answers, a request is sent at most
\* MaxRetries + 1 times and refreshes at most once after a 401.
THEOREM RequestsBounded == Spec => []RequestBounded
<1>1. IInv => RequestBounded
  <2>1. ASSUME NEW c \in Call, Counted(platform, call[c])
        PROVE  /\ call[c].attempts <= MaxRetries + 1
               /\ call[c].refreshes <= IF platform = "naver" THEN 2 ELSE 1
    <3>1. call[c].attempts <= MaxRetries + 1 /\ call[c].refreshes <= First(platform) + 1
      BY <2>1 DEF Counted
    <3>2. First(platform) + 1 = IF platform = "naver" THEN 2 ELSE 1
      BY DEF First
    <3> QED BY <3>1, <3>2
  <2> QED BY <2>1 DEF IInv, CallsInv, RequestBounded
<1> QED BY <1>1, Invariant, PTL

-----------------------------------------------------------------------------
(* The row's refresh token                                                 *)

LEMMA InitUsable == Init => StoredTokenUsable
BY DEF Init, StoredTokenUsable

\* A call that was not saving ends or moves: whoever was saving still is.
LEMMA OthersSaving ==
    ASSUME StoredTokenUsable, IInv, NEW c \in Call, call[c].phase # "save",
           NEW k, call' = [call EXCEPT ![c] = k],
           UNCHANGED <<refreshLive, row, consent>>, lost => lost'
    PROVE  StoredTokenUsable'
<1>1. call \in [Call -> Calls]
  BY DEF IInv, TypeOK
<1>2. \A d \in Call : call[d].phase = "save" => call'[d] = call[d]
  BY <1>1
<1> QED BY <1>2 DEF StoredTokenUsable

LEMMA RefreshUsable ==
    ASSUME StoredTokenUsable, IInv, NEW c \in Call, Refresh(c)
    PROVE  StoredTokenUsable'
<1> DEFINE old == call[c].held.refresh
           new == issued + 1
<1>1. /\ call \in [Call -> Calls] /\ call[c] \in Calls /\ call[c].phase = "refresh"
      /\ UNCHANGED <<row, consent, lost>>
      /\ old \in Token /\ new \in Token
  BY DEF IInv, TypeOK, Refresh, Token
<1>2. CASE UNCHANGED refreshLive
  <2>1. PICK k : call' = [call EXCEPT ![c] = k]
    BY DEF Refresh
  <2> QED BY <1>1, <1>2, <2>1, OthersSaving
<1>3. CASE /\ call' = [call EXCEPT ![c] = [Held(c, new, new) EXCEPT !.phase = "save"]]
           /\ refreshLive' \in {refreshLive \cup {new}, (refreshLive \ {old}) \cup {new}}
  <2> DEFINE h == Held(c, new, new)
             x == [h EXCEPT !.phase = "save"]
  <2>1. call' = [call EXCEPT ![c] = x]
    BY <1>3
  <2>2. h \in Calls /\ h.held = [access |-> new, refresh |-> new]
    BY <1>1, HeldOK
  <2> HIDE DEF h
  <2>3. x.phase = "save" /\ x.held = h.held
    BY <2>2 DEF Calls
  <2>4. x.held.refresh = new
    BY <2>2, <2>3
  <2> HIDE DEF x
  <2>5. call'[c] = x
    BY <1>1, <2>1
  <2>6. new \in refreshLive'
    BY <1>3
  <2> QED BY <2>3, <2>4, <2>5, <2>6 DEF StoredTokenUsable
<1> QED BY <1>2, <1>3 DEF Refresh

LEMMA NextUsable == StoredTokenUsable /\ IInv /\ [Next]_vars => StoredTokenUsable'
<1> SUFFICES ASSUME StoredTokenUsable, IInv, [Next]_vars PROVE StoredTokenUsable'
  OBVIOUS
<1>1. ASSUME NEW c \in Call, NEW w \in Caller, Begin(c, w) PROVE StoredTokenUsable'
  <2>1. /\ call[c].phase # "save" /\ UNCHANGED <<refreshLive, row, consent, lost>>
        /\ \E k : call' = [call EXCEPT ![c] = k]
    BY <1>1 DEF Begin, channel
  <2> QED BY <2>1, OthersSaving
<1>2. ASSUME NEW c \in Call, Proceed(c) PROVE StoredTokenUsable'
  <2>1. CASE Succeed(c) \/ Busy(c) \/ Unauthorised(c) \/ Fail(c) \/ RefreshRefused(c)
    <3>1. /\ call[c].phase # "save" /\ UNCHANGED <<refreshLive, row, consent, lost>>
          /\ \E k : call' = [call EXCEPT ![c] = k]
      BY <2>1 DEF Succeed, Busy, Unauthorised, Fail, RefreshRefused, Ended, channel
    <3> QED BY <3>1, OthersSaving
  <2>2. CASE Refresh(c)
    BY <2>2, RefreshUsable
  <2>3. CASE RefreshLost(c)
    <3>1. /\ call[c].phase # "save" /\ UNCHANGED <<row, consent>>
          /\ \E k : call' = [call EXCEPT ![c] = k]
      BY <2>3 DEF RefreshLost, Ended
    <3>2. CASE UNCHANGED <<refreshLive, lost>>
      BY <3>1, <3>2, OthersSaving
    <3>3. CASE /\ refreshLive' = refreshLive \ {call[c].held.refresh}
               /\ lost' = (lost \/ call[c].held.refresh \in refreshLive)
      <4>1. CASE call[c].held.refresh \in refreshLive
        BY <3>3, <4>1 DEF StoredTokenUsable
      <4>2. CASE call[c].held.refresh \notin refreshLive
        BY <3>1, <3>3, <4>2, OthersSaving
      <4> QED BY <4>1, <4>2
    <3>4. \/ UNCHANGED <<refreshLive, lost>>
          \/ /\ refreshLive' = refreshLive \ {call[c].held.refresh}
             /\ lost' = (lost \/ call[c].held.refresh \in refreshLive)
      BY <2>3 DEF RefreshLost
    <3> QED BY <3>2, <3>3, <3>4
  <2>4. CASE Save(c)
    <3>1. /\ row' = [row EXCEPT !.stored = call[c].held]
          /\ lost' = (call[c].held.refresh \notin refreshLive)
          /\ UNCHANGED refreshLive
      BY <2>4 DEF Save, Saved, channel
    <3>2. row'.stored = call[c].held
      BY <3>1 DEF IInv, TypeOK
    <3>3. CASE call[c].held.refresh \in refreshLive
      <4>1. row'.stored.refresh \in refreshLive'
        BY <3>1, <3>2, <3>3
      <4> QED BY <4>1 DEF StoredTokenUsable
    <3>4. CASE call[c].held.refresh \notin refreshLive
      <4>1. lost'
        BY <3>1, <3>4
      <4> QED BY <4>1 DEF StoredTokenUsable
    <3> QED BY <3>3, <3>4
  <2>5. CASE SaveFails(c)
    BY <2>5 DEF SaveFails, StoredTokenUsable
  <2>6. CASE Conclude(c)
    <3>1. /\ call[c].phase # "save" /\ UNCHANGED <<refreshLive, consent, lost>>
          /\ call' = [call EXCEPT ![c] = NoCall]
      BY <2>6 DEF Conclude, Ended, channel
    <3>2. row'.stored = row.stored
      BY <2>6 DEF Conclude, Deactivated, IInv, TypeOK
    <3>3. \A d \in Call : call[d].phase = "save" => call'[d] = call[d]
      BY <3>1 DEF IInv, TypeOK
    <3> QED BY <3>1, <3>2, <3>3 DEF StoredTokenUsable
  <2> QED BY <1>2, <2>1, <2>2, <2>3, <2>4, <2>5, <2>6 DEF Proceed
<1>3. ASSUME NEW c \in Call, Crash(c) PROVE StoredTokenUsable'
  <2>1. CASE call[c].phase = "save"
    BY <1>3, <2>1 DEF Crash, StoredTokenUsable
  <2>2. CASE call[c].phase # "save"
    BY <1>3, <2>2, OthersSaving DEF Crash, Ended, channel
  <2> QED BY <2>1, <2>2
<1>4. CASE Exchange
  <2>1. consent'.phase = "exchanged"
    BY <1>4 DEF Exchange, NoConsent
  <2> QED BY <2>1 DEF StoredTokenUsable
<1>5. CASE ReadRow
  <2>1. consent'.phase = "read"
    BY <1>5 DEF ReadRow, IInv, TypeOK
  <2> QED BY <2>1 DEF StoredTokenUsable
<1>6. CASE Connect
  <2>1. /\ row'.stored = consent.granted /\ UNCHANGED refreshLive
        /\ lost' = (consent.granted.refresh \notin refreshLive)
    BY <1>6 DEF Connect, Reconnected, channel
  <2> QED BY <2>1 DEF StoredTokenUsable
<1>7. CASE ConsentLost
  <2>1. /\ UNCHANGED <<refreshLive, row>>
        /\ lost' = (lost \/ row.stored.refresh \notin refreshLive)
    BY <1>7 DEF ConsentLost, channel
  <2> QED BY <2>1 DEF StoredTokenUsable
<1>8. CASE Disconnect
  <2>1. /\ UNCHANGED <<refreshLive, call, consent, lost>> /\ row'.stored = row.stored
    BY <1>8 DEF Disconnect, channel, IInv, TypeOK
  <2> QED BY <2>1 DEF StoredTokenUsable
<1>9. CASE ExpireAccess
  BY <1>9 DEF ExpireAccess, StoredTokenUsable
<1>10. CASE Revoke
  BY <1>10 DEF Revoke, StoredTokenUsable
<1>11. CASE UNCHANGED vars
  BY <1>11 DEF vars, channel, StoredTokenUsable
<1> QED BY <1>1, <1>2, <1>3, <1>4, <1>5, <1>6, <1>7, <1>8, <1>9, <1>10, <1>11 DEF Next

\* factory.on_token_refresh and the OAuth callback: the token chain of a
\* channel only breaks by one of the losses the history names.
THEOREM TokenChain == Spec => []StoredTokenUsable
<1> QED BY InitUsable, NextUsable, Invariant, PTL DEF Spec

-----------------------------------------------------------------------------
(* Who turns a channel off                                                 *)

LEMMA InitOff == Init => OffMeansDead
BY DEF Init, OffMeansDead

\* Steps that leave the row alone and make no token but new ones usable.
LEMMA RowKept ==
    ASSUME OffMeansDead, IInv, UNCHANGED <<row, blame>>,
           \A t \in refreshLive' : t \in refreshLive \/ t = issued + 1
    PROVE  OffMeansDead'
<1>1. row.stored.refresh # issued + 1
  <2>1. /\ row.stored.refresh \in Nat /\ issued \in Nat
        /\ row.stored.refresh <= issued
    BY DEF IInv, TypeOK, TokensInv, Credentials, Token, NoToken
  <2> QED BY <2>1
<1> QED BY <1>1 DEF OffMeansDead

LEMMA NextOff == OffMeansDead /\ IInv /\ [Next]_vars => OffMeansDead'
<1> SUFFICES ASSUME OffMeansDead, IInv, [Next]_vars PROVE OffMeansDead'
  OBVIOUS
<1>1. ASSUME NEW c \in Call, NEW w \in Caller, Begin(c, w) PROVE OffMeansDead'
  BY <1>1, RowKept DEF Begin, channel
<1>2. ASSUME NEW c \in Call, Proceed(c) PROVE OffMeansDead'
  <2>1. CASE \/ Succeed(c) \/ Busy(c) \/ Unauthorised(c) \/ Fail(c)
             \/ RefreshRefused(c) \/ SaveFails(c)
    <3>1. UNCHANGED <<row, blame, refreshLive>>
      BY <2>1 DEF Succeed, Busy, Unauthorised, Fail, RefreshRefused, SaveFails, channel
    <3> QED BY <3>1, RowKept
  <2>2. CASE Refresh(c)
    <3>1. /\ UNCHANGED <<row, blame>>
          /\ \A t \in refreshLive' : t \in refreshLive \/ t = issued + 1
      BY <2>2 DEF Refresh
    <3> QED BY <3>1, RowKept
  <2>3. CASE RefreshLost(c)
    <3>1. UNCHANGED <<row, blame>> /\ refreshLive' \subseteq refreshLive
      BY <2>3 DEF RefreshLost
    <3> QED BY <3>1, RowKept
  <2>4. CASE Save(c)
    <3>1. /\ row' = [row EXCEPT !.stored = call[c].held]
          /\ blame' = IF row.active THEN blame ELSE "overtaken"
      BY <2>4 DEF Save, Saved
    <3>2. row'.active = row.active
      BY <3>1 DEF IInv, TypeOK
    <3> QED BY <3>1, <3>2 DEF OffMeansDead
  <2>5. CASE Conclude(c)
    <3>1. UNCHANGED refreshLive /\ call[c].phase = "denied"
      BY <2>5 DEF Conclude, channel
    <3>2. CASE UNCHANGED <<row, blame>>
      BY <3>1, <3>2, RowKept
    <3>3. CASE TurnsOff(call[c]) /\ row' # row
      <4>1. /\ row' = [row EXCEPT !.active = row.active /\ ~call[c].sawActive]
            /\ blame' = IF call[c].outage THEN "outage"
                        ELSE IF call[c].held.refresh # row.stored.refresh \/ Underway
                             THEN "overtaken" ELSE "refused"
        BY <2>5, <3>3 DEF Conclude, Deactivated
      <4>2. row'.stored = row.stored
        BY <4>1 DEF IInv, TypeOK
      <4>3. CASE ~call[c].outage /\ call[c].held.refresh = row.stored.refresh
        <5>1. call[c].held.refresh \notin refreshLive
          BY <3>1, <4>3 DEF IInv, CallsInv, Known
        <5>2. row'.stored.refresh \notin refreshLive'
          BY <3>1, <4>2, <4>3, <5>1
        <5> QED BY <5>2 DEF OffMeansDead
      <4>4. CASE call[c].outage \/ call[c].held.refresh # row.stored.refresh
        <5>1. blame' \in {"outage", "overtaken"}
          BY <4>1, <4>4
        <5> QED BY <5>1 DEF OffMeansDead
      <4> QED BY <4>3, <4>4
    <3>4. CASE TurnsOff(call[c]) /\ row' = row
      <4>1. blame' = blame
        BY <2>5, <3>4 DEF Conclude
      <4> QED BY <3>2, <3>4, <4>1
    <3>5. CASE ~TurnsOff(call[c])
      BY <2>5, <3>2, <3>5 DEF Conclude
    <3> QED BY <3>3, <3>4, <3>5
  <2> QED BY <1>2, <2>1, <2>2, <2>3, <2>4, <2>5 DEF Proceed
<1>3. ASSUME NEW c \in Call, Crash(c) PROVE OffMeansDead'
  BY <1>3, RowKept DEF Crash, channel
<1>4. CASE Exchange
  <2>1. /\ UNCHANGED <<row, blame>>
        /\ \A t \in refreshLive' : t \in refreshLive \/ t = issued + 1
    BY <1>4 DEF Exchange
  <2> QED BY <2>1, RowKept
<1>5. CASE ReadRow
  BY <1>5, RowKept DEF ReadRow, channel
<1>6. CASE Connect
  <2>1. /\ row'.active = (row.active \/ ~consent.sawActive)
        /\ blame' = IF consent.sawActive /\ ~row.active THEN "overtaken" ELSE "none"
    BY <1>6 DEF Connect, Reconnected
  <2>2. CASE consent.sawActive /\ ~row.active
    BY <2>1, <2>2 DEF OffMeansDead
  <2>3. CASE ~(consent.sawActive /\ ~row.active)
    <3>1. row'.active
      BY <2>1, <2>3
    <3> QED BY <3>1 DEF OffMeansDead
  <2> QED BY <2>2, <2>3
<1>7. CASE ConsentLost
  BY <1>7, RowKept DEF ConsentLost, channel
<1>8. CASE Disconnect
  <2>1. row'.deleted
    BY <1>8 DEF Disconnect, IInv, TypeOK
  <2> QED BY <2>1 DEF OffMeansDead
<1>9. CASE ExpireAccess
  BY <1>9, RowKept DEF ExpireAccess
<1>10. CASE Revoke
  <2>1. UNCHANGED <<row, blame>> /\ refreshLive' \subseteq refreshLive
    BY <1>10 DEF Revoke
  <2> QED BY <2>1, RowKept
<1>11. CASE UNCHANGED vars
  BY <1>11, RowKept DEF vars, channel
<1> QED BY <1>1, <1>2, <1>3, <1>4, <1>5, <1>6, <1>7, <1>8, <1>9, <1>10, <1>11 DEF Next

\* sync_orders and the product handlers: a channel that is off while its token
\* works was turned off by an outage or by a call something overtook.
THEOREM OffExplained == Spec => []OffMeansDead
<1> QED BY InitOff, NextOff, Invariant, PTL DEF Spec
=============================================================================
