CONSTANTS
    p1 = p1
    p2 = p2
    p3 = p3
    w1 = w1
    w2 = w2
    Peers <- ThreePeers
    Workers <- TwoWorkers
    Nobody = Nobody
SPECIFICATION FairSpec
CHECK_DEADLOCK FALSE
INVARIANTS OnlyWholeMessagesHandled OneOwner
PROPERTY ServedUnlessAllStuck
