CONSTANTS
    w1 = w1
    w2 = w2
    none = none
    NoGraph = none
    Graphs <- AllGraphs
    Ones <- OnesOf
    MAX_CLIQUE_CNT = 9
    MAX_LEFT = 2
    Workers <- TwoWorkers
    Host <- OnServer1
    NO_OF_SERVERS = 1
    Offers <- ForcedAndZero
    DbMayFail = TRUE
    MayCrash = TRUE
SPECIFICATION Spec
CHECK_DEADLOCK FALSE
INVARIANTS RepliesWereStored RepliesSurviveRestart QueueFitsGraph OnlyForcedSetsBack
