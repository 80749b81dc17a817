SPECIFICATION FairSpec

CONSTANTS
    Shop = {s1, s2}
    Thread = {t1, t2}
    Content = {c1, c2}
    NoRow = NoRow
    Blank = Blank
    Nil = Nil
    MaxUpdates = 2
    MaxSaves = 1
    MayFail = TRUE

INVARIANTS
    IInv

PROPERTIES
    ServedIsRecent
    EventuallyCoherent

CHECK_DEADLOCK FALSE
