\* Two overlapping imports of a new order.
SPECIFICATION Spec
CONSTANTS
    Nobody = Nobody
    Ext = {x}
    Importer = {i1, i2}
    User = {}
    Tag = {t1, t2, t3, t4, t5, t6}
    Tracker = {}
    MaxMoves = 0
INVARIANT
    OneRowPerOrder
