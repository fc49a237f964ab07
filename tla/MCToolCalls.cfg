CONSTANTS
    Threads = {t1, t2}
    Targets = {a}
    Beside <- MCBeside
    MaxCalls = 2
    MaxEdits = 2
SPECIFICATION Spec
INVARIANTS
    CallsSound
    ActsAreBacked
    TouchesAllowed
    RejectedCostNothing
CHECK_DEADLOCK FALSE
