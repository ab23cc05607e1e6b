SPECIFICATION Spec
CONSTANTS
    None = None
    Inviter = inviter
    Invitees = {e1}
    Channels = {c1, c2}
    IsSync = FALSE
    MaxPosts = 6
    MaxProbes = 0
SYMMETRY Symmetric
INVARIANT IntroIsAnswered
CHECK_DEADLOCK FALSE
