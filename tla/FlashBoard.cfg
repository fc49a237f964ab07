CONSTANTS
    Threads = {t1, t2}
    Limit = 1
    MaxBuilds = 2
    MaxCalls = 2
    MaxSessions = 2
SPECIFICATION Spec
INVARIANTS
    FlashedAsSigned
    WritesSound
    ReleasedOnlyToAsk
    SessionsAreKnown
CHECK_DEADLOCK FALSE
