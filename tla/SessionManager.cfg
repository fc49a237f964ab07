CONSTANTS
    Threads = {t1, t2}
    Ports = {tty}
    Bauds = {b1}
    MaxSessions = 3
SPECIFICATION FairSpec
INVARIANTS RegistrySound
PROPERTIES LiveStaysRegistered CallsReturn
