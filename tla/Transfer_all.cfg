\* One record, every disruption, two error codes.
CONSTANTS
    r1 = r1
    r2 = r2
    f1 = f1
    f2 = f2
    f3 = f3
    f4 = f4
    w1 = w1
    w2 = w2
    NoFile = NoFile
    FileNames = {f1, f2}
    RejectionCode = {"32xx", "other"}
    Records = {r1}
    Workers = {w1}
    Operations = {"create", "edit", "ready", "disable", "reactivate"}
    MaxBatch = 2
    Legacy = {r1}
    Disruptions = {"kill_upload", "kill_download", "put_error", "hiring_change", "malformed", "sanitize", "archive"}
    MaxFaults = 1
SPECIFICATION Spec
SYMMETRY FileSymmetry
INVARIANTS
    IntegratedIsKnown
CHECK_DEADLOCK FALSE
