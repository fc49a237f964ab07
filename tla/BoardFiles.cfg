CONSTANTS
    Workers = {w1, w2}
    Processes = {p1, p2}
    Firmwares = {1, 2}
    MAX_UPLOADS = 2
    KEEP_ELFS = 1
    KEEP = 1
    MaxOps = 3
    MaxFaults = 2
    MaxNow = 4
SPECIFICATION FilesSpec
INVARIANTS
    NoUpdateLost
    LastAreKept
    RestoredAsNamed
PROPERTIES
    ElfsSpared
CHECK_DEADLOCK FALSE
