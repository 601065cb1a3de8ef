SPECIFICATION Spec
CONSTANTS
    Requests = {r1, r2}
    Conversations = {c1}
    None = None
    UseS3 = TRUE
    MaxFile = 2
    MaxMsg = 3
    MaxFaults = 0
    MaxStoreFaults = 0
CHECK_DEADLOCK FALSE
INVARIANTS RefsResolve
