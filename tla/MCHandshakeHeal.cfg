SPECIFICATION Spec
CONSTANTS
    None = None
    Inviter = inviter
    Invitees = {e1}
    Channels = {c1}
    IsSync = FALSE
    MaxProbes = 1
    MaxPosts = 5
SYMMETRY Symmetric
INVARIANTS
    DecidedOnce
    AckSound
CHECK_DEADLOCK FALSE
