SPECIFICATION FairSpec
CONSTANTS
    IsSync = TRUE
    HasEph = TRUE
    Owed = 2
    SkipAhead = 4
    EphAhead = 4
    Fallback = 2
    MaxTxs = 3
    MaxClock = 5
    MaxCrashes = 1
INVARIANTS
    TypeOK
    MkUnique
    NothingForgotten
    LastAckSound
    SenderRemembers
PROPERTIES
    FallsBack
CHECK_DEADLOCK FALSE
