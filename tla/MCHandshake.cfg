SPECIFICATION FairSpec
CONSTANTS
    None = None
    Inviter = inviter
    Invitees = {e1}
    Channels = {c1, c2}
    IsSync = TRUE
    MaxPosts = 12
    MaxProbes = 0
INVARIANTS
    TypeOK
    PhaseMeansPosted
    DekAfterConfirm
PROPERTIES
    
    InviterAnswers
CHECK_DEADLOCK FALSE
