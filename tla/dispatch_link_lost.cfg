SPECIFICATION FairSpec
CONSTANTS
    o1 = o1
    w1 = w1
    Orders = {o1}
    Workers = {w1}
    MaxOpenConns = 2
    MaxRetries = 1
    ChanCap = 1
    Configs = {"rabbit"}
    CompensationEnabled = TRUE
    Faults = {"link"}
    MaxFaults = 1
    MaxCopies = 2
CHECK_DEADLOCK FALSE
PROPERTY EventuallyConfirmed
