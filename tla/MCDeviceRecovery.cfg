CONSTANTS
    MaxCommands = 2
    Scopes <- MCAttached
    MaxRetainedCommands = 2
    MaxEventsPerCommand = 1
    MaxCrashes = 1
    None = None
    Tunnels = {t1, t2}
    Emitters = {}
    Outcomes = {"complete"}
    Desktop = d

SPECIFICATION FairSpec

CHECK_DEADLOCK FALSE

PROPERTIES
    ImplementsRemoteCommands
    TerminalEventsReachRelay
