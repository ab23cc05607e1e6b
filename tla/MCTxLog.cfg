SPECIFICATION Spec
CONSTANTS
    x = x
    a = a
    p = p
    Texts = {x}
    Marks = {}
    Prefs = {p}
    DisappearAfter <- MCDisappearAfter
    Hash <- MCHash
    Life = 1
    HistoryCap = 1
    MaxSeq = 3
    MaxClock = 1
    MaxLog = 2
    MaxCrashes = 1
INVARIANTS
    TypeOK
    Kept
    SeqFresh
    HistoryShows
PROPERTIES
    TimeStable
CHECK_DEADLOCK FALSE
