SPECIFICATION Spec
CONSTANTS
    Owner = owner
    Others = {a, b, c}
    Cap = 3
    MaxEpoch = 2
    MaxInvites = 1
    MaxCrashes = 1
SYMMETRY Symmetric
INVARIANTS
    TypeOK
    EachPersonOnce
    EpochNamesRoster
    AdmissionsAnswered
    NoPanic
PROPERTIES
    EndIsFinal
CHECK_DEADLOCK FALSE
