\* A pass that starts in the night and one that lacks data; see StartsMC.
CONSTANTS
    p1 = p1
    p2 = p2
    Passes = {p1, p2}
    Rank <- RankMC
    Future = {p1}
    Incomplete = {p2}
    Changing = {p1}
    Runs = {"r1", "r2"}
    Starts <- StartsMC
    BatchSize = 1
    MaxVersion = 2
    MaxKills = 1
SPECIFICATION Spec
INVARIANTS
    TypeOK
    SuccessIsCurrent
    CancelledIsTold
PROPERTIES
    DueIsAnswered
    CancellationIsAnswered
CHECK_DEADLOCK FALSE
