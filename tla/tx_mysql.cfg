SPECIFICATION Spec
CONSTANTS
    p1 = p1
    p2 = p2
    u1 = u1
    u2 = u2
    u3 = u3
    o1 = o1
    o2 = o2
    o3 = o3
    t1 = t1
    t2 = t2
    Procs = {p1, p2}
    Users = {u1, u2}
    OrderNos = {o1, o2}
    TransactionNos = {t1, t2}
    Stock0 = 1
    MaxOpenConns = 2
    RedisEnabled = TRUE
    StatusEdits = {"PUBLISHED", "OFFLINE"}
    None = None
SYMMETRY Symmetry
CHECK_DEADLOCK FALSE
INVARIANTS TypeOK OneOrderPerUser StockNonNegative PaidHasReceipt
PROPERTY ReceiptsAreFinal
