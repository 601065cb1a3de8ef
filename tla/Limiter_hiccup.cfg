SPECIFICATION Spec
CONSTANTS
    Processes = {p1}
    Limit = 1
    Window = 2
    Shared = {TRUE}
    MaxTime = 4
    MaxAttempts = 1
    MaxHiccups = 1
    MaxRestarts = 0
    None = None
CHECK_DEADLOCK FALSE
INVARIANT RefusalHasCause
