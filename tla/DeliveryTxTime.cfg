SPECIFICATION Spec
CONSTANTS
    NULL = NULL
    OrderId = {o1}
    DroneId = {d1}
    UserId = {u1}
    Location = {l1}
    ValidLocation = {l1}
    Session = {s1, s2}
    MaxClock = 2
SYMMETRY Symmetric
INVARIANTS TimestampsOrdered
PROPERTIES EventTimesFollowCommits
