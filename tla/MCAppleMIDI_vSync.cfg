CONSTANTS
    MaxPeers = 1
    Peers = {p1, p2}
    NULL = NULL
    Drivers = {1, 2}
    HostOf <- Host2
    TokenOf <- Tokens2
    FirstUp = {1, 2}
    Acceptors = {1, 2}
    Ops = {"accept", "add", "idle"}
    Reentrant = {}
    MaxOps = 1
    Duplicating = FALSE
    Lossy = TRUE
    a = a
    b = b
    p1 = p1
    p2 = p2
SPECIFICATION FairSpec
PROPERTIES SyncEnds
CHECK_DEADLOCK FALSE
