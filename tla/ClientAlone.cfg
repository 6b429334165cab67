SPECIFICATION DeliverySpec
CONSTANTS
    t0 = t0
    t1 = t1
    Threads <- OneThread
    Poller = t0
    Graphs <- Many
    Nodes <- NodesOf
    Cliques <- CliquesOf
    Offers <- OffersOf
    NoGraph = NoGraph
    NoReply = NoReply
    START = 2
    LIMIT = 4
    MAX_CLIQUE_CNT = 8
    INT_MAX = 9
    MAX_LEFT = 1
    MAX_FLIPS = 2
    POLL_EVERY = 1
    OTHERS = FALSE
    BEHIND = FALSE
INVARIANT ClaimsAreTrue
INVARIANT CounterExamplesAreReal
PROPERTY CounterExamplesArrive
CHECK_DEADLOCK FALSE
