CONSTANTS
    Connections = {a1, a2}
    Devices = {d1, d2}
    Clients = {c1}
    Account = account
    None = None
    QuotaBytes = 6
    ReservationBytes = 2
    FrameSizes = {1}
    MaxConcurrent = 1
    MaxAttempts = 1
    WindowSeconds = 1
    FenceSeconds = 2
    GrantSeconds = {1, 2}
    MaxTime = 2
    MaxQueued = 2

SYMMETRY IdSymmetry

SPECIFICATION Spec

INVARIANTS
    UsageTypeOK
    AccountIsSumOfDevices
    RefundsAreCovered
    ChargedIsTransferred
    ConcurrencyIsBounded

CHECK_DEADLOCK FALSE
