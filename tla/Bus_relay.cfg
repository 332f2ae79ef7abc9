SPECIFICATION FairSpec
CONSTANTS
    Halves = {"topology"}
    Channels = {general, dm}
    Reserved = {dm}
    Floor = {general}
    Msgs = {m1}
    MaxEpoch = 3
    MaxEdits = 1
    Restarts = {"remove-add", "add", "add-remove"}
    Keys = {k1}
    TTL = 3
    MaxDelay = 2
    MaxNow = 4
    MaxSends = 2
    MaxForeign = 1
    MaxOutages = 1
PROPERTIES
    ListedGetsRow
INVARIANTS
    RelayMirrorsList
CHECK_DEADLOCK FALSE
