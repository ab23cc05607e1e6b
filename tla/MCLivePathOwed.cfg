SPECIFICATION Spec
CONSTANTS
    IsSync = FALSE
    HasEph = TRUE
    Owed = 1
    SkipAhead = 4
    EphAhead = 4
    Fallback = 2
    MaxTxs = 3
    MaxClock = 4
    MaxCrashes = 0
INVARIANTS
    MkUnique
CHECK_DEADLOCK FALSE
