SPECIFICATION MCSpec
CONSTANTS
    Peers = {c1, c2, c3}
    NULL = NULL
    MaxPeers = 2
    SSRCs = {0, 1, 2}
    SeqMod = 3
    Seqs = {0, 1, 2}
    MaxHeld = 1
SYMMETRY CellSymmetry
INVARIANTS TypeOK RefsExact CumulativeSeq
PROPERTIES OneEntryPerSender ImplementsRegistry
CHECK_DEADLOCK FALSE
