SPECIFICATION Spec
CONSTANTS
    Users = {u1, u2}
    Callees = {u1}
    ApnsTokens = {a1}
    VoipTokens = {a1}
    FcmTokens = {f1}
    Wakes = {w1}
    GateOpen = FALSE
    NoUser = NoUser
    MaxClock = 4
PROPERTIES
    RingsCurrentOwner
