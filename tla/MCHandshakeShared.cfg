SPECIFICATION Spec
CONSTANTS
    None = None
    Inviter = inviter
    Invitees = {e1, e2}
    Channels = {c1}
    IsSync = FALSE
    MaxProbes = 0
    MaxPosts = 8
SYMMETRY Symmetric
INVARIANTS
    DigestAgreement
    ChildExclusive
    ConfirmingHasDigest
CHECK_DEADLOCK FALSE
