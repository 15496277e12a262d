SPECIFICATION Spec
CONSTANTS
    NULL = NULL
    OrderId = {o1}
    DroneId = {d1, d2}
    UserId = {u1}
    Location = {l1, bad}
    ValidLocation = {l1}
    Session = {s1, s2}
    MaxClock = 0
SYMMETRY Symmetric
INVARIANTS
    LockedCopiesAreFresh
    DeadlocksAreBreakdownRaces
    NoJobHasACause
PROPERTIES
    Serializable
