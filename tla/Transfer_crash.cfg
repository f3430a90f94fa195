\* Two records; commands killed anywhere, transfers that fail, lines without number.
CONSTANTS
    r1 = r1
    r2 = r2
    f1 = f1
    f2 = f2
    f3 = f3
    f4 = f4
    w1 = w1
    w2 = w2
    NoFile = NoFile
    FileNames = {f1, f2}
    RejectionCode = {"32xx"}
    Records = {r1, r2}
    Workers = {w1}
    Operations = {"create", "edit", "ready", "disable", "reactivate"}
    MaxBatch = 2
    Legacy = {}
    Disruptions = {"kill_upload", "kill_download", "put_error", "malformed"}
    MaxFaults = 1
SPECIFICATION Spec
SYMMETRY Symmetry
INVARIANTS
    TypeOK
    IntegratedIsKnown
    AnswerMeetsItsRecord
    ExchangeInv
    SentIsAwaited
CHECK_DEADLOCK FALSE
