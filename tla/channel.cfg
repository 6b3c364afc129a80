\* Two overlapping calls on a channel of each kind, with reconnection.
SPECIFICATION Spec
CONSTANTS
    Call = {c1, c2}
    Caller = {"sync", "cron"}
    MaxTokens = 3
    MaxRequests = 1
    MaxRetries = 2
INVARIANTS
    StoredTokenUsable
    OffMeansDead
    RequestBounded
SYMMETRY Symmetry
CHECK_DEADLOCK FALSE
