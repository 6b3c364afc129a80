\* One row, two sessions: every endpoint against every other one.
SPECIFICATION Spec
CONSTANTS
    NoSession = NoSession
    Sku = {1}
    Session = {s1, s2}
    Modes = {"inc_amount"}
    Ops = {"allocate", "deallocate", "upsert", "bulk", "seed"}
    Qty = {1}
    Amount <- RowAmount
    MaxPromised = 1
    MaxAvailable = 1
SYMMETRY Symmetry
INVARIANTS
    AllocatedIsPromised
    LockedReadIsCurrent
    StockLostOnlyByRace
    StockBalanced
PROPERTIES
    AllocationConserves
    LedgerSpec
