\* The profile of an applicant changes between the upload and the answer.
CONSTANTS
    r1 = r1
    r2 = r2
    f1 = f1
    f2 = f2
    f3 = f3
    f4 = f4
    w1 = w1
    w2 = w2
    NoFile = NoFile
    FileNames = {f1, f2, f3}
    RejectionCode = {"32xx"}
    Records = {r1}
    Workers = {w1}
    Operations = {"create", "edit", "ready", "disable", "reactivate"}
    MaxBatch = 2
    Legacy = {}
    Disruptions = {"hiring_change"}
    MaxFaults = 1
SPECIFICATION Spec
PROPERTIES
    RemovedIsApplied
CHECK_DEADLOCK FALSE
