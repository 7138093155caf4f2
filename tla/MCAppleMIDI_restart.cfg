CONSTANTS
    MaxPeers = 1
    Peers = {p1, p2}
    NULL = NULL
    Drivers = {1, 2, 3, 4}
    HostOf <- Host4
    TokenOf <- Tokens4
    FirstUp = {1, 2}
    Acceptors = {2}
    Ops = {"accept", "add", "create", "destroy", "send"}
    Reentrant = {}
    MaxOps = 3
    Duplicating = TRUE
    Lossy = FALSE
    a = a
    b = b
    p1 = p1
    p2 = p2
SPECIFICATION Spec
SYMMETRY CellSymmetry
INVARIANTS TypeOK EntriesReachable Consent
CHECK_DEADLOCK FALSE
