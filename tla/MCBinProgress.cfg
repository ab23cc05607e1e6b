SPECIFICATION FairSpec
CONSTANTS
    ListFrom = 0
    MaxBin = 2
    Hours = {0, 2}
    Ttl = 1
    Ids = {p1, p2}
    Far = {p2}
    Unruly = {p2}
    MaxDelay = 2
    MaxPosts = 1
    MaxFetched = 1
    MaxCrashes = 1
INVARIANTS
    TypeOK
    
    

    
VIEW UnreadSnapshot
CHECK_DEADLOCK FALSE
