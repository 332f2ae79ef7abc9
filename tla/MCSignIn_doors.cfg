SPECIFICATION Spec
CONSTANTS
    Users = {u1, u2}
    Idents = {i1, i2}
    Handles = {"a b", "a_b", "aiko-1"}
    AutoHandles = {"aiko-1"}
    Wire <- MCWire
    BusNames = {"a_b", "aiko_1", "old"}
    Apps = {a1, a2}
    Nonces = {n1}
    Flows = {f1, f2}
    Codes = {c1, c2}
    Requests = {r1, r2, r3}
    NonceRequired = TRUE
    SocialEnabled = TRUE
    OpenRegistration = TRUE
    MaxOld = 1
    None = None
INVARIANTS
    NonceForOutcome
    StarterRedeemsOnce
    IdentityIsOneAccount
    OneChangePerWindow
PROPERTIES
    NamesAreOwned
    SessionIsTheIdentitys
SYMMETRY Symmetry
CHECK_DEADLOCK FALSE
