SPECIFICATION Spec
CONSTANTS
    Areas = {"members", "recovery"}
    Users = {u1, u2, u3}
    Requests = {r1, r2, r3, r4}
    AddRoles = {"member", "admin"}
    OpenJoin = TRUE
    None = None
    Devices = {d1, d2}
    Owner = d1
    Nonces = {n1, n2}
    Kinds = {"add", "cancel", "delete", "enroll", "finish"}
    MaxRecoveries = 2
    NoRow = NoRow
    Writers = {p1}
    MaxId = 1
    MaxSeq = 1
    Privacy = "public"
    NoAnswer = NoAnswer
INVARIANTS
    NeverOrphaned
    OneOutcome
    SessionsMatchKeys
PROPERTIES
    OwnerDecides
SYMMETRY Symmetric
CHECK_DEADLOCK FALSE
