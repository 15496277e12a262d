SPECIFICATION ViewSpec
CONSTANTS
    NULL = NULL
    OrderId = {o1}
    DroneId = {d1}
    UserId = {u1}
    Location = {l1, l2}
    ValidLocation = {l1, l2}
    Time <- Instants
    Reader = {r1}
    Speed = {0, 1}
SYMMETRY Symmetric
INVARIANTS
    ViewTypeOK
    ETAStartsAtLocation
    ReferencesResolve

    
