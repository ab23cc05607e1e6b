SPECIFICATION Spec
CONSTANTS
    Pad = 6
    HeadLen = 2
    XorLen = 1
    WideFrom = 3
    FillerCost = 1
    MaxFrags = 3
    MaxPostings = 2
    PayloadTypes <- MCPayloadTypes
    HandshakeTypes <- MCHandshakeTypes
    durable_body <- MCdurable_body
    Garbled = Garbled
    Variants = {0, 1, 2, 3}
    LenPerVariant = 3
INVARIANTS
    MergedAsMinted
    UniformMerges
    ReadBack
CHECK_DEADLOCK FALSE
