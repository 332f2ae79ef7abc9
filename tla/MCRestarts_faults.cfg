SPECIFICATION Spec
CONSTANTS
    Programs = {"gateway", "bridge"}
    old = old
    new1 = new1
    new2 = new2
    Containers = {old, new1, new2}
    Head <- MCHead
    Baseline = 1
    Blind = {2}
    MultiWorker = {old}
    MaxBoots = 4
    Handlers = {h1, h2, h3}
    Envelopes = {"first", "second", "other", "forged"}
    Robot <- MCRobot
    Seq <- MCSeq
    SignedAt <- MCSignedAt
    Authentic = {"first", "second", "other"}
    Mine = {"arm", "dog"}
    MaxAge = 1
    Skew = 1
    MaxNow = 3
    MaxFaults = 3
INVARIANTS
    ServesTheIsland
    AtMostOnce
SYMMETRY Symmetric
CHECK_DEADLOCK FALSE
