SPECIFICATION Spec
CONSTANTS
    p1 = p1
    p2 = p2
    u1 = u1
    u2 = u2
    a = a
    b = b
    o1 = o1
    o2 = o2
    None = None
    Procs = {p1, p2}
    Users = {u1, u2}
    Products = {a, b}
    OrderNos = {o1, o2}
    Stock0 = 1
    CouponStock0 = 1
    Threshold = 2
    Requested = {1}
    MaxQuantity = 2
    MaxOpenConns = 1
SYMMETRY Symmetry
CHECK_DEADLOCK FALSE
INVARIANTS TypeOK ProductConserved CouponConserved CouponSpentOnce
