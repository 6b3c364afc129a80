\* A bulk edit that overlaps an allocation.
SPECIFICATION Spec
CONSTANTS
    NoSession = NoSession
    Sku = {1}
    Session = {s1, s2}
    Ops = {"allocate", "bulk"}
    Qty = {1}
    Amount = {1, 2}
    Modes = {"absolute"}
    MaxPromised = 1
    MaxAvailable = 1
PROPERTY
    AvailableMovesByDiff
