CONSTANTS
    s1 = s1
    s2 = s2
    p1 = p1
    p2 = p2
    q1 = q1
    q2 = q2
    w1 = w1
    w2 = w2
    Suspensions = {s1, s2}
    Prolongations = {p1, p2}
    Requests = {q1}
    Sessions = {w1, w2}
    Reasons = {"COMPLETE_TRAINING", "RQTH"}
    Direct = {"COMPLETE_TRAINING"}
    MaxCumulative <- TwoDays
    MaxEach <- OneDay
    DefaultDays = 3
    OpenDays = 1
    MaxSuspension = 2
    MaxPostpone = 1
    Horizon = 3
SPECIFICATION Spec
CONSTRAINT Bounded
SYMMETRY Symmetry
INVARIANTS
    TypeOK
    Balance
    UnstartedIsBare
    Decided
    ProlongedAfterDefault
PROPERTIES
    StartIsKept
CHECK_DEADLOCK FALSE
