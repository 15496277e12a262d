SPECIFICATION FairSpec
CONSTANTS
    NULL = NULL
    OrderId = {o1}
    DroneId = {d1}
    UserId = {u1}
    Location = {l1}
    ValidLocation = {l1}
    Session = {s1, s2}
    MaxClock = 0
PROPERTIES CallsReturn
