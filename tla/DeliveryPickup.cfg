SPECIFICATION Spec
CONSTANTS
    NULL = NULL
    OrderId = {o1}
    DroneId = {d1, d2}
    UserId = {u1}
    Location = {l1}
    ValidLocation = {l1}
    Time <- Instants
INVARIANT
    PickedUpForGood
