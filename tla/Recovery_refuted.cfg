SPECIFICATION Spec
CONSTANTS
    Devices = {d1, d2}
    Owner = d1
    Nonces = {n1}
    Requests = {r1, r2, r3}
    Kinds = {"add", "enroll", "finish"}
    MaxRecoveries = 1
    NoRow = NoRow
\* Each is refuted: check them one at a time.
INVARIANTS
    CleanRekey
\* PROPERTIES
\*  OnlyGoodStandingIsRekeyed
CHECK_DEADLOCK FALSE
