\* Every view, two applications, two requests at a time.
CONSTANTS
    a1 = a1
    a2 = a2
    a3 = a3
    t1 = t1
    t2 = t2
    t3 = t3
    p1 = p1
    p2 = p2
    NoPass = NoPass
    Applications = {a1, a2}
    Siae = {a1, a2}
    Passes = {p1, p2}
    Requests = {t1, t2}
    Operations = {"process", "postpone", "refuse", "archive", "transfer", "move_to_prior_to_hire", "cancel_prior_to_hire", "accept", "hire", "cancel"}
SPECIFICATION Spec
PROPERTY
    AcceptedOnlyCancelled
CHECK_DEADLOCK FALSE
