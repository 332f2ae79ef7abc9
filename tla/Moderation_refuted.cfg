SPECIFICATION Spec
CONSTANTS
    Reporters = {p1}
    Requests = {r1, r2, r3}
    Kinds = {"report", "takedown", "dismiss", "block", "unblock"}
\* Each is refuted: check them one at a time.
INVARIANTS
    RepeatBlockIsNoOp
\* PROPERTIES
\*  ResolvesOnce
CHECK_DEADLOCK FALSE
