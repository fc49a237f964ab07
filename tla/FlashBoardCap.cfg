CONSTANTS
    Threads = {t1}
    Limit = 1
    MaxBuilds = 1
    MaxCalls = 2
    MaxSessions = 1
SPECIFICATION Spec
INVARIANTS BoardCap
CHECK_DEADLOCK FALSE
