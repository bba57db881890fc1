SPECIFICATION Spec
CONSTANTS
    p1 = p1
    p2 = p2
    w1 = w1
    w2 = w2
    Procs = {p1, p2}
    Limits <- MCLimits
    MaxTime = 2
    Users <- MCUsers
    Activities <- ActivityIDs
    Stock0 <- InitialStock
    Plans <- MCPlans
    Workers = {w1, w2}
    UserCount = 2
    Stock = 1
    Duplicates = 2
    Writes = 2
    BatchCap = 1
    MaxQueries = 1
    MaxPolls = 1
SYMMETRY Symmetry
CHECK_DEADLOCK FALSE
INVARIANTS
    TypeOK
    WindowBound
    AcceptedIsAccounted
    HistogramConsistent
    PassedMeansCorrect
    FailedOnlyIfUnsettled
PROPERTIES
    NoUndueRejection
