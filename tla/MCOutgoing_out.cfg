CONSTANTS
    Cells = {c1, c2, c3}
    Messages = {m1, m2}
    Peers = {p1, p2}
    NULL = NULL
    MaxPeers = 2
    Batch = 2
    MaxSends = 4
SPECIFICATION FairSpec
INVARIANTS TypeOK RefsExact Broadcast Interested
PROPERTIES ImplementsFIFO SendEnds
CHECK_DEADLOCK FALSE
