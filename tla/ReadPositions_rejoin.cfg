SPECIFICATION Spec
CONSTANTS
    Requests = {p1}
    MaxId = 2
    MaxSeq = 2
    Privacy = "private"
    NoAnswer = NoAnswer
INVARIANTS
    NotPastTheEnd
CHECK_DEADLOCK FALSE
