CONSTANTS
    w1 = w1
    w2 = w2
    none = none
    NoGraph = none
    Graphs <- AllGraphs
    Ones <- OnesOf
    MAX_CLIQUE_CNT = 9
    MAX_LEFT = 2
    Workers <- TwoWorkers
    Host <- OnBoth
    NO_OF_SERVERS = 2
    Offers <- ForcedAndZero
    DbMayFail = FALSE
    MayCrash = FALSE
SPECIFICATION AskedSpec
CHECK_DEADLOCK FALSE
INVARIANTS NumbersAreStored
PROPERTY NewsSpreads
