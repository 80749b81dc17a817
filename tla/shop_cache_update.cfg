SPECIFICATION Spec

CONSTANTS
    Shop = {s1}
    Thread = {t1, t2}
    Content = {c1, c2}
    NoRow = NoRow
    Blank = Blank
    Nil = Nil
    MaxUpdates = 1
    MaxSaves = 0
    MayFail = FALSE

PROPERTIES
    UpdateClearsCache

CHECK_DEADLOCK FALSE
