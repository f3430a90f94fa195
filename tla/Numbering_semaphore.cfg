\* Three transactions; an approval that lasts, after one that may be cancelled.
CONSTANTS
    t1 = t1
    t2 = t2
    t3 = t3
    Transactions = {t1, t2, t3}
    Stock <- OneLasting
    Past = {}
    Lasting <- Second
    MaxNumber = 2
    MaxFaults = 1
SPECIFICATION FairSpec
INVARIANTS
    Serialised
    NoDuplicate
    NoHole
    NoDeadlock
PROPERTIES
    Counter
    TransactionsEnd
CHECK_DEADLOCK FALSE
