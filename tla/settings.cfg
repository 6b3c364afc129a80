\* Two instances, two overlapping edits, one reader, one value that does not parse;
\* or three settings, one on a page, each changed up to three times.
SPECIFICATION SettingsSpec
CONSTANTS
    Instance = {i1, i2}
    Nowhere = Nowhere
    Reader = {r1}
    Admin = {a1, a2}
    Value = {"on", "broken"}
    Bad = {"broken"}
    NoConfig = NoConfig
    Initial = "on"
    MaxWrites = 2
    K = 3
    PAGE_SIZE = 1
    MaxEntries = 3
INVARIANTS
    
    RollbackIsOfShown
    HistoryFaithful
    StaleHasReason
PROPERTY
    StaleEnds
\* The page does nothing for a user who is not an administrator.
CHECK_DEADLOCK FALSE
