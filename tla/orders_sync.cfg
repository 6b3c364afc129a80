\* One import at a time beside overlapping user requests.
SPECIFICATION FairSpec
CONSTANTS
    Nobody = Nobody
    Ext = {x}
    Importer = {i1}
    User = {u1, u2}
    Tag = {t1, t2, t3}
    Tracker = {u1}
    MaxMoves = 1
INVARIANTS
    OneRowPerOrder
    ItemsOnce
PROPERTIES
    ConcludedStays
    
