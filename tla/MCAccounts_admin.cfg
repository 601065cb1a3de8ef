SPECIFICATION Spec
CONSTANTS
    Names = {a}
    AdminEmails = {a}
    Subjects = {s1, s2}
    None = None
    Requests = {r1}
    Patches <- OneField
    MaxUser = 2
    MaxVersion = 1
    MaxSessions = 3
SYMMETRY Symmetry
CHECK_DEADLOCK FALSE
INVARIANTS EnabledAdminRemains
