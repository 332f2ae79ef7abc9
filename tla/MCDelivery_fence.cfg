SPECIFICATION Spec
CONSTANTS
    u1 = u1  u2 = u2
    c1 = c1  c2 = c2
    b1 = b1  b2 = b2
    External = External
    None = None
    Users = {u1, u2}
    Conns = {c1}
    Cmids = {}
    Inbound = {b1, b2}
    Resolves = {r1}
    Ids = {1, 2, 3}
    Owner <- FenceOwner
    From <- FenceFrom
    Ms <- MCMs
INVARIANTS
    NoMessageGap
    NoRetractionGap
    BlockRespected
CHECK_DEADLOCK FALSE
