\* Two requests of the page, two tracking numbers or two prices, one change from
\* elsewhere; or every pair of one query and two requests.
SPECIFICATION PagesSpec
CONSTANTS
    Number = {n1, n2}
    Price = {p1, p2}
    OldPrice = p1
    Zero = Zero
    Call = {c1, c2}
    NoValue = NoValue
    Asked = Asked
    MaxCalls = 2
    MaxImports = 1
    MaxForeign = 1
INVARIANTS
    ShownIsCurrent
    NumberKept
    PriceIsIntended
    
SYMMETRY Symmetry
\* A page rests when the requests are used up.
CHECK_DEADLOCK FALSE
