SPECIFICATION Spec
CONSTANTS
    Halves = {"echo"}
    Channels = {general}
    Reserved = {}
    Floor = {general}
    Msgs = {m1}
    MaxEpoch = 1
    MaxEdits = 1
    Restarts = {"remove-add", "add", "add-remove"}
    Keys = {k1, k2}
    TTL = 3
    MaxDelay = 2
    MaxNow = 4
    MaxSends = 2
    MaxForeign = 1
    MaxOutages = 1
INVARIANTS
    NoSecondRow
    ForeignKept
CHECK_DEADLOCK FALSE
