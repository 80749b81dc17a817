SPECIFICATION FairSpec

CONSTANTS
    Key = {k1, k2}
    Logical = {k2}
    Thread = {t1, t2}
    MaxDepth = 2
    MaxCalls = 3
    MaxCrashes = 1
    MayFail = TRUE

INVARIANTS
    LogicalRebuildIsExclusive
    IInv

PROPERTIES
    EveryQueryEnds

CHECK_DEADLOCK FALSE
