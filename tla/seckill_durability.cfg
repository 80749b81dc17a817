SPECIFICATION Spec

CONSTANTS
    u1 = u1
    u2 = u2
    v1 = v1
    Request <- MCRequest
    User = {u1, u2}
    Voucher = {v1}
    Quantity = {1, 2}
    Absent = Absent
    MaxRetries = 1
    MaxCrashes = 1
    Faults = {}

INVARIANTS
    AcceptedIsDurable

CHECK_DEADLOCK FALSE
