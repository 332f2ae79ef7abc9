SPECIFICATION Spec
CONSTANTS
    Areas = {"positions"}
    Users = {u1}
    Requests = {r1}
    AddRoles = {"member"}
    OpenJoin = TRUE
    None = None
    Devices = {d1}
    Owner = d1
    Nonces = {n1}
    Kinds = {"add", "cancel", "delete", "enroll", "finish"}
    MaxRecoveries = 1
    NoRow = NoRow
    Writers = {p1, p2, p3}
    MaxId = 2
    MaxSeq = 2
    Privacy = "public"
    NoAnswer = NoAnswer
INVARIANTS
    NoGhostPosition
    NotPastTheEnd
PROPERTIES
    IsRegister
CHECK_DEADLOCK FALSE
