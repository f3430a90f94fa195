CONSTANTS
    e1 = e1
    e2 = e2
    a1 = a1
    a2 = a2
    k1 = k1
    k2 = k2
    Siaes = {e1, e2}
    Applications = {a1, a2}
    Keys = {k1, k2}
    KeysOf <- KeysOfMC
    Percents = {30}
    DefaultPercent = 30
    Sanctions = {"TRAINING", "NO_SANCTIONS"}
SPECIFICATION Spec
SYMMETRY Symmetry
INVARIANTS
    TypeOK
    SubmittedHasProof
    RefusalIsContested
    StagesArePossible
    EmployerCanAnswer
    RefusedIsTold
    SanctionedIsRefused
PROPERTIES
    FrozenIsKept
    VerdictIsFinal
CHECK_DEADLOCK FALSE
