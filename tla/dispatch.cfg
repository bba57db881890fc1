SPECIFICATION FairSpec
CONSTANTS
    o1 = o1
    o2 = o2
    w1 = w1
    w2 = w2
    Orders = {o1, o2}
    Workers = {w1, w2}
    MaxOpenConns = 2
    MaxRetries = 1
    ChanCap = 1
    Configs = {"rabbit", "channel"}
    CompensationEnabled = TRUE
    Faults = {"crash", "db", "link", "publish", "lost", "consume"}
    MaxFaults = 2
    MaxCopies = 2
CHECK_DEADLOCK FALSE
INVARIANTS TypeOK AcceptedTaskSurvives DeadLetterAfterAllRetries
PROPERTY ConfirmedUnlessDetached
