CONSTANTS
    MaxCommands = 2
    Scopes <- MCReattached
    MaxRetainedCommands = 2
    MaxEventsPerCommand = 2
    MaxCrashes = 0
    None = None
    Tunnels = {t1, t2}
    Emitters = {1}
    Outcomes = {"complete"}
    Desktop = d

SPECIFICATION Spec

SYMMETRY TunnelSymmetry

CHECK_DEADLOCK FALSE

INVARIANTS
    TunnelTypeOK
    ResendsAreIdentical
    StreamIsPersisted
    FirstFlushIsComplete

PROPERTY ImplementsRemoteCommands
