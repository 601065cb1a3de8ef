SPECIFICATION Spec
CONSTANTS
    Requests = {r1, r2}
    MaxId = 5
    MaxIdOverlapped = 3
    MaxIdFailed = 4
    MaxFaults = 1
SYMMETRY Symmetry
CONSTRAINT Bound
CHECK_DEADLOCK FALSE
INVARIANTS TypeOK ParentIsVariant ThreadShape
PROPERTIES PromptIsThread RegenerationAnswers
