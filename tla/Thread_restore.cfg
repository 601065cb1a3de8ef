SPECIFICATION Spec
CONSTANTS
    Requests = {r1}
    MaxId = 4
    MaxFaults = 0
PROPERTY RestoreIsExact
CHECK_DEADLOCK FALSE
