CONSTANTS
    w1 = w1
    w2 = w2
    none = none
    NoGraph = none
    Graphs <- AllGraphs
    Ones <- OnesOf
    MAX_CLIQUE_CNT = 9
    MAX_LEFT = 2
    Workers <- OneWorker
    Host <- OnServer1
    NO_OF_SERVERS = 1
    Offers <- OfferAll
    DbMayFail = FALSE
    MayCrash = FALSE
SPECIFICATION Spec
CHECK_DEADLOCK FALSE
PROPERTY ImplementsCoordinator
