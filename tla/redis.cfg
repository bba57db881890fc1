SPECIFICATION Spec
CONSTANTS
    u1 = u1
    u2 = u2
    u3 = u3
    p1 = p1
    p2 = p2
    None = None
    Missing = Missing
    Procs = {p1, p2}
    Users = {u1, u2, u3}
    Stock0 = 1
    Engines = {"sqlite", "mysql"}
    Mishaps = {"crash", "reply", "database", "commit", "rollback", "evict", "repair", "edit"}
    MaxMishaps = 2
    MaxRevived = 1
SYMMETRY Symmetry
CHECK_DEADLOCK FALSE
INVARIANTS TypeOK DatabaseConserved GuardBalanced AgreeWhenQuiet BuyersAreMarked NoOversell
           GivenBackIsFinal
