SPECIFICATION Spec
CONSTANTS
    u1 = u1  u2 = u2
    c1 = c1  c2 = c2
    b1 = b1  b2 = b2
    External = External
    None = None
    Users = {u1, u2}
    Conns = {c1}
    Cmids = {k1}
    Inbound = {b1}
    Resolves = {r1, r2}
    Ids = {1, 2, 3, 4}
    Owner <- FenceOwner
    From <- NoInbound
    Ms <- MCMs
\* Each is refuted: check them one at a time.
INVARIANTS
    PublishedBeforeAck
\*  OneRetractionPerMessage
\* PROPERTIES
\*  LiveOnlyToMembers
CHECK_DEADLOCK FALSE
