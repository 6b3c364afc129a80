\* An edit of two products beside an edit, an update, a resync and undos.
SPECIFICATION Spec
CONSTANTS
    p1 = p1
    p2 = p2
    r1 = r1
    r2 = r2
    r3 = r3
    None = None
    Product = {p1, p2}
    Request = {r1, r2, r3}
    Handles <- HandlesAny
    Change <- Changes
    NewPrice = {3}
    Initial <- Values
    Listed = {p1}
    MaxInFlight = 2
    MaxGone = 1
INVARIANTS
    ChangesAreRecorded
    
    UndoneOnce
    PreviewOffAtTies
PROPERTIES
    UndoRestores
    
CHECK_DEADLOCK FALSE
