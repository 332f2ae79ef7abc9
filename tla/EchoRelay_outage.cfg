SPECIFICATION Spec
CONSTANTS
    Keys = {k1}
    TTL = 3
    MaxDelay = 2
    MaxNow = 4
    MaxSends = 2
    MaxForeign = 1
    MaxOutages = 1
INVARIANTS
    DropsOnlyPublished
CHECK_DEADLOCK FALSE
