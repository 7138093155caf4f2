CONSTANTS
    MaxPeers = 2
    Peers = {p1, p2, p3}
    NULL = NULL
    Drivers = {1, 2}
    HostOf <- Host2
    TokenOf <- Tokens2
    FirstUp = {1, 2}
    Acceptors = {1, 2}
    Ops = {"accept", "add"}
    Reentrant = {}
    MaxOps = 3
    Duplicating = FALSE
    Lossy = FALSE
    a = a
    b = b
    p1 = p1
    p2 = p2
    p3 = p3
SPECIFICATION FairSpec
PROPERTIES SessionOpens SyncEnds
CHECK_DEADLOCK FALSE
