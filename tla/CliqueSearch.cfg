SPECIFICATION Spec
CONSTANTS
    ELEMENTSIZE = 3
    BYTE = 2
    MAX_N = 5
    WEIGHTS = {1, 3}
    MAX_WEIGHT = 8
    RANDOM_N = 3
    NoGraph = NoGraph
    CALLS <- SomeCalls
INVARIANTS
    GraphsStayWhole
    CopiesAreSame
    SizesAreExact
    AnswersAreRight
