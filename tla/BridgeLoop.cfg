CONSTANTS
    MaxReadings = 4
    KeptErrors = 2
SPECIFICATION LoopFairSpec
INVARIANTS ReadingsSound
PROPERTIES QuietAfterStop EndsAtLast
CHECK_DEADLOCK FALSE
