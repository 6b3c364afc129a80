\* Two rows, one request at a time, two in all, one change from elsewhere; or one
\* channel item and two requests, overlapping.
SPECIFICATION ListsSpec
CONSTANTS
    N = 2
    ListCall = {d1}
    NoRow = NoRow
    MaxListCalls = 2
    MaxChanges = 1
    ItemCall = {c1, c2}
    MaxItemCalls = 2
INVARIANTS
    DecidedOnce
    
SYMMETRY ListsSymmetry
\* A page rests when the requests are used up.
CHECK_DEADLOCK FALSE
