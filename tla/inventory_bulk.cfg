\* Two bulk edits that lock two rows in any order, with channel calls.
SPECIFICATION FairSpec
CONSTANTS
    NoSession = NoSession
    Sku = {1, 2}
    Session = {s1, s2}
    Ops = {"bulk"}
    Qty = {1}
    Amount = {1}
    Modes = {"absolute"}
    MaxPromised = 1
    MaxAvailable = 0

    
PROPERTY
    RequestsEnd
