SPECIFICATION Spec
CONSTANTS
    Channels = {general, robots}
    Reserved = {dm}
    Floor = {general}
    Msgs = {m1}
    MaxEpoch = 2
    MaxEdits = 1
    Restarts = {"remove-add", "add", "add-remove"}
\* Each is refuted: check them one at a time.
INVARIANTS
    RestartRebinds
\*  NoRelayLost
CHECK_DEADLOCK FALSE
