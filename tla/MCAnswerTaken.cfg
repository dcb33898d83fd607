CONSTANTS
    Callers = {k1, k2}
    Operations = {run}
    MaxFailures = 3
    Connections = {n1, n2}
    MaxEvents = 0
    MaxCrashes = 0
    None = None
SPECIFICATION Spec
CHECK_DEADLOCK FALSE

INVARIANT AnswersReachTheirCaller
