SPECIFICATION Spec
CONSTANTS
    Conns = {c1}
    Revokers = {e1}
    MaxGen = 2
INVARIANTS
    NoneSurvives
CHECK_DEADLOCK FALSE
