SPECIFICATION FrontSpec

CONSTANTS
    Phone = {p1, p2}
    Code = {c1}
    NoCode = NoCode
    Thread = {t1, t2}
    MaxRequests = 4
    MayFail = TRUE
    Tab = {tab1, tab2}
    Browser = {tab1, tab2}
    BrowserOf <- OneEach
    NoThread = NoThread

SYMMETRY Symmetry

INVARIANTS
    NothingIsLeftBehind
    ActsForItsCaller
    TokensAreEarned
    IInv
    FrontInv
    DoneForItsBrowser

CHECK_DEADLOCK FALSE
