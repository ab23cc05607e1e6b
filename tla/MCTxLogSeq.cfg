SPECIFICATION Spec
CONSTANTS
    x = x
    a = a
    p = p
    Texts = {x}
    Marks = {a}
    Prefs = {p}
    DisappearAfter <- MCDisappearAfter
    Hash <- MCHash
    Life = 1
    HistoryCap = 1
    MaxSeq = 3
    MaxClock = 1
    MaxLog = 3
    MaxCrashes = 0
INVARIANTS
    SeqUnique
CHECK_DEADLOCK FALSE
