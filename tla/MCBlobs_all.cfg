SPECIFICATION Spec
CONSTANTS
    Requests = {r1, r2}
    Conversations = {c1, c2}
    None = None
    UseS3 = TRUE
    MaxFile = 3
    MaxMsg = 3
    MaxIdDisturbed = 2
    MaxFaults = 1
    MaxStoreFaults = 1
SYMMETRY Symmetry
CONSTRAINT Room
CHECK_DEADLOCK FALSE
INVARIANTS RowHasObject NothingOfDeleted RefsResolveInOneTab NothingStrandedInOneTab
