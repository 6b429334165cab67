SPECIFICATION Spec
CONSTANTS
    Threads = {t1, t2}
    START = 1
    LIMIT = 3
    None = None
INVARIANTS
    NumbersHaveExamples
    ExamplesAreKept
    FilesEndWhole
PROPERTIES
    FoundNeverFalls
    NobodyStaysBehind
CHECK_DEADLOCK FALSE
