\* Two users in turn, two concurrent requests, two logins and two refreshes; or
\* one mall and one key pair, two requests of the channels page, one dying link.
SPECIFICATION TabSpec
CONSTANTS
    User = {u1, u2}
    Nothing = Nothing
    Request = {r1, r2}
    MaxTokens = 4
    MaxLogins = 2
    Mall = {m1}
    Key = {k1}
    Call = {c1, c2}
    NoShop = NoShop
    MaxCalls = 2
    MaxExpiries = 1
INVARIANTS
    SessionConsistent
    RefreshingMeansInFlight
    DoneIsOwn
PROPERTIES
    RequestsEnd
    AgreedIsTold
