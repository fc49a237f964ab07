CONSTANTS
    Threads = {t1, t2}
    Ports = {tty0, tty1}
    MaxBridges = 1
    MaxBuilt = 3
SPECIFICATION FairSpec
INVARIANTS StartsSound SharedByRaceOnly
PROPERTIES EndsAreAudited
CHECK_DEADLOCK FALSE
