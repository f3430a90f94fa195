\* A record that is rejected, corrected and sent again, uploads that fail; every request of the employer.
CONSTANTS
    r1 = r1
    r2 = r2
    f1 = f1
    f2 = f2
    f3 = f3
    f4 = f4
    w1 = w1
    w2 = w2
    NoFile = NoFile
    FileNames = {f1, f2, f3}
    RejectionCode = {"32xx"}
    Records = {r1}
    Workers = {w1}
    Operations = {"create", "edit", "ready", "disable", "reactivate"}
    MaxBatch = 2
    Legacy = {}
    Disruptions = {"kill_upload", "put_error"}
    MaxFaults = 1
SPECIFICATION FairSpec
PROPERTIES
    ReadyIsAnswered
    FeedbackIsConsumed
    ProcessedOnlyFromSent
CHECK_DEADLOCK FALSE
