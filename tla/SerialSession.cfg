CONSTANTS
    Threads = {t1, t2}
    NoThread = NoThread
    LineEnds = {2}
    Wanted = {2}
    ReadSizes = {2}
    QuerySize = 2
    BufferLimit = 2
    LineLimit = 2
    ReadChunk = 2
    MaxBytes = 3
    MaxClears = 2
SPECIFICATION FairSpec
INVARIANTS InputSound QueryOwnsInput
PROPERTIES StreamSpec CallsReturn
