SPECIFICATION Spec
CONSTANTS
    s1 = s1
    s2 = s2
    u1 = u1
    p1 = p1
    p2 = p2
    Sockets = {s1, s2}
    Users = {u1}
    Replicas = {p1, p2}
    Owner <- TwoOfOneUser
    Homes <- TwoHomes
    Channel = channel
    Cap = 1
    MaxFaults = 1
CHECK_DEADLOCK FALSE
INVARIANTS CapHolds SlotsExact NoLatePost
