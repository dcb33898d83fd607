CONSTANTS
    MaxCommands = 2
    Scopes <- MCScopes
    MaxRetainedCommands = 2
    MaxEventsPerCommand = 2
    MaxCrashes = 1
    None = None
    Desktop1 = d1
    Desktop2 = d2

SPECIFICATION Spec

CHECK_DEADLOCK FALSE

INVARIANT OneTerminalEvent
