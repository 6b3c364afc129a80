\* Two overlapping imports, one publication, reviews and deletions.
SPECIFICATION Spec
CONSTANTS
    x1 = x1
    x2 = x2
    a = a
    b = b
    c = c
    None = None
    Item = {x1, x2}
    Name = {a, b, c}
    Likeness <- Alike
    MaxProducts = 2
    MaxBusy = 2
    MaxTroubles = 1
    Importer = {i1, i2}
    Publisher = {u1}
    OnSale <- Selling
SYMMETRY Symmetry
INVARIANTS
    OneListingPerItem
    
    
CHECK_DEADLOCK FALSE
