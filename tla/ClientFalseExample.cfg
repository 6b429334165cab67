SPECIFICATION Spec
CONSTANTS
    t0 = t0
    t1 = t1
    Threads <- TwoThreads
    Poller = t0
    Graphs <- Few
    Nodes <- NodesOf
    Cliques <- CliquesOf
    Offers <- OffersOf
    NoGraph = NoGraph
    NoReply = NoReply
    START = 2
    LIMIT = 4
    MAX_CLIQUE_CNT = 8
    INT_MAX = 9
    MAX_LEFT = 1
    MAX_FLIPS = 2
    POLL_EVERY = 1
    OTHERS = TRUE
    BEHIND = FALSE
INVARIANT CounterExamplesAreReal
CHECK_DEADLOCK FALSE
