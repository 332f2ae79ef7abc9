SPECIFICATION Spec
CONSTANTS
    Features = {"community"}
    u1 = u1
    Users = {u1, u2}
    Requests = {r1, r2}
    Callers = {q1, q2, q3, q4}
    Owners = {k1, k2, k3}
    Reporters = {p1, p2}
    Kinds = {"report", "takedown", "dismiss", "block", "unblock"}
    Viewer = u1
    Emojis = {1, 2}
    Origins = {o1, o2}
    PerUser = 1
    MaxEmojis = 1
    MaxReactors = 1
    MaxDeletions = 1
    MaxId = 4
    Foe = {1, 3}
    Limit = 2
    Comms = {1, 2}
    Name <- MCName
    PageSize = 1
    MaxCrashes = 1
    MaxEdits = 1
    Keys = {x1, x2, x3}
    MaxKeys = 2
    Conns = {c1, c2}
    Revokers = {e1, e2}
    MaxGen = 2
\* Refuted.
INVARIANTS
    JoinIsOneTransaction
CHECK_DEADLOCK FALSE
