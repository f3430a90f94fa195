\* Nothing to lock: both tables are empty, and may be empty again.
CONSTANTS
    t1 = t1
    t2 = t2
    t3 = t3
    Transactions = {t1, t2, t3}
    Stock = {}
    Past = {}
    Lasting = {}
    MaxNumber = 2
    MaxFaults = 1
SPECIFICATION Spec
SYMMETRY Symmetry
INVARIANTS
    TypeOK
    NoHole
CHECK_DEADLOCK FALSE
