SPECIFICATION Spec
CONSTANTS
    NULL = NULL
    OrderId = {o1, o2}
    DroneId = {d1, d2}
    UserId = {u1}
    Location = {l1, l2}
    ValidLocation = {l1, l2}
    Time <- Instants
SYMMETRY Symmetric
INVARIANTS
    TypeOK
    AssignmentAgrees
    AssignedExactlyWhileUnderway
    BrokenDronesCarryNothing
    OutboxMirrorsTables
    TimestampsMatchStatus
PROPERTIES
    TerminalIsFinal
    ChangesHandsThroughQueue
