SPECIFICATION Spec

CONSTANTS
    Thread = {t1, t2, t3}
    LastSecond = 3
    DayLength = 2
    CountLimit = 4

SYMMETRY Symmetry

INVARIANTS
    UniqueIds
    IInv

PROPERTIES
    ImplementsIdSource

CHECK_DEADLOCK FALSE
