CONSTANTS
    MaxCommands = 3
    Scopes <- MCScopes
    MaxRetainedCommands = 2
    MaxEventsPerCommand = 2
    MaxCrashes = 1
    None = None
    Desktop1 = d1
    Desktop2 = d2

SPECIFICATION Spec

CHECK_DEADLOCK FALSE

INVARIANTS
    LedgerTypeOK
    ExecutedAtMostOnce
    AcknowledgedWhenAnswered
    TerminalEventFits
    OutgoingNumbersAreUnique
    ExecutionIsFenced
    UnconsumedRunIsComplete

PROPERTY SettledIsFinal
