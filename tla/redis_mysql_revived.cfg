SPECIFICATION Spec
CONSTANTS
    u1 = u1
    u2 = u2
    p1 = p1
    p2 = p2
    None = None
    Missing = Missing
    Procs = {p1, p2}
    Users = {u1, u2}
    Stock0 = 1
    Engines = {"mysql"}
    Mishaps = {}
    MaxMishaps = 0
    MaxRevived = 1
SYMMETRY Symmetry
CHECK_DEADLOCK FALSE
INVARIANTS SoldWithinStock
