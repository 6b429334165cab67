SPECIFICATION FairSpec
CONSTANTS
    Null = Null
    Dims <- SmallDims
    StartsOf <- SmallStarts
    POLL_EVERY = 3
    ATTEMPTS = 1
    FLIPS = 2
    TURNS = 2
INVARIANTS BooksAgree RowsAreTriedOut OffersAreCounted
PROPERTIES OnlyGoodChanges CallsEnd
CHECK_DEADLOCK FALSE
