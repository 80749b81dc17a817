SPECIFICATION Spec

CONSTANTS
    u1 = u1
    u2 = u2
    v1 = v1
    Request <- MCRequest
    User = {u1, u2}
    Voucher = {v1}
    Quantity = {0, 1, 2}
    Absent = Absent
    MaxRetries = 3
    MaxCrashes = 2
    Faults = {"redis", "send", "db", "dlt"}

INVARIANTS
    Conservation
    NoOversell
    OneOrderPerUser
    DbConservation
    NeverDropped
    CommittedIsSettled
    IInv
    StoresAgree

PROPERTIES
    ImplementsFlashSale
    ImplementsIdSource

CHECK_DEADLOCK FALSE
