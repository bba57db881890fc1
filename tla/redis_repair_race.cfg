SPECIFICATION Spec
CONSTANTS
    u1 = u1
    u2 = u2
    p1 = p1
    p2 = p2
    None = None
    Missing = Missing
    Procs = {p1, p2}
    Users = {u1, u2}
    Stock0 = 2
    Engines = {"sqlite"}
    Mishaps = {"repair"}
    MaxMishaps = 1
    MaxRevived = 0
SYMMETRY Symmetry
CHECK_DEADLOCK FALSE
INVARIANTS AgreeAfterRepair
