SPECIFICATION FairSpec
CONSTANTS
    Senders = {s1, s2}
    Lifetimes = {0, 3}
    FlatBackoff = 1
    GrantBase = 1
    DeniedBase = 2
    Cap = 3
    MaxNow = 6
PROPERTIES
    SilenceIsSilent
    DenialsCoalesce
    GoodTokenIsKept
    RefusedIsNotReused
    WaitersAreReleased
