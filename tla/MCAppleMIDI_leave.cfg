CONSTANTS
    MaxPeers = 1
    Peers = {p1, p2}
    NULL = NULL
    Drivers = {1, 2}
    HostOf <- Host2
    TokenOf <- Tokens2
    FirstUp = {1, 2}
    Acceptors = {1, 2}
    Ops = {"accept", "refuse", "add", "remove", "send", "destroy", "idle"}
    Reentrant = {"accept", "remove"}
    MaxOps = 2
    Duplicating = FALSE
    Lossy = TRUE
    a = a
    b = b
    p1 = p1
    p2 = p2
SPECIFICATION Spec
SYMMETRY CellSymmetry
INVARIANTS Owned
CHECK_DEADLOCK FALSE
VIEW NoHistory
