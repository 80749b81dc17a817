SPECIFICATION FairFaultsSpec

CONSTANTS
    u1 = u1
    u2 = u2
    v1 = v1
    Request <- MCRequest
    User = {u1, u2}
    Voucher = {v1}
    Quantity = {0, 1}
    Absent = Absent
    Malformed = Malformed
    MaxRetries = 1
    MaxCrashes = 1
    MaxOfEach = 1
    MaxFaults = 2
    Faults = {"redis", "db"}

INVARIANTS
    FaultsInv
    ResendsCostOneEach
    SoldWithinUnits
    StoredWasSold
    SettledOrWaiting

PROPERTIES
    DrainsToMalformed
    EveryRequestEnds

CHECK_DEADLOCK FALSE
