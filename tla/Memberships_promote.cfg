SPECIFICATION Spec
CONSTANTS
    Users = {u1, u2, u3}
    Requests = {r1, r2, r3, r4}
    AddRoles = {"member", "admin"}
    OpenJoin = TRUE
    None = None
INVARIANTS
    HasAdmin
CHECK_DEADLOCK FALSE
