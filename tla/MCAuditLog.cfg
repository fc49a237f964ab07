CONSTANTS
    p1 = p1
    p2 = p2
    t1 = t1
    t2 = t2
    t3 = t3
    NoThread = NoThread
    None = None
    Procs <- MCProcs
    Threads <- MCThreads
    ProcOf <- MCProcOf
    MaxRecords = 3
SPECIFICATION Spec
INVARIANTS
    LogSound
    AckedSurvive
PROPERTIES
    DamageStays
    DurableSpec
