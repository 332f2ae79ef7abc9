SPECIFICATION FairSpec
CONSTANTS
    u1 = u1  u2 = u2
    c1 = c1  c2 = c2
    b1 = b1  b2 = b2
    External = External
    None = None
    Users = {u1}
    Conns = {c1, c2}
    Cmids = {k1}
    Inbound = {}
    Resolves = {r1}
    Ids = {1, 2}
    Owner <- SameOwner
    From <- NoInbound
    Ms <- MCMs
INVARIANTS
    SentOnce
PROPERTIES
    StoredIsFannedOut
CHECK_DEADLOCK FALSE
