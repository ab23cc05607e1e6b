SPECIFICATION Spec
CONSTANTS
    Parties = {a, b}
    Top = 3
    Ids = {1, 2}
    IdCap = 1
    Ephemeral = TRUE
    SkipAhead = 2
    MaxSeq = 6
    MaxFaults = 2
    MaxAir = 1
INVARIANTS
    TypeOK
    ReadyIsCurrent
    AsksAndOffers
    FallbackPosts
PROPERTIES
    Implements
CHECK_DEADLOCK FALSE
