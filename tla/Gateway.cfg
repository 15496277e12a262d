SPECIFICATION TransportSpec
CONSTANTS
    NULL = NULL
    OrderId = {o1}
    UserId = {alice, bob}
    DroneId = {alice, bob}
    Location = {l1, bad}
    ValidLocation = {l1}
    Time <- Instants
    Programs <- Program
    OptionalFields <- Optional
    RequestRead <- RequestOutcome
    AnswerRead <- ClientReads
SYMMETRY Symmetric
VIEW Tables
INVARIANTS
    NotFoundIsTrue
    TransportsAgree
    RepeatsActOnce
PROPERTIES
    NobodyActsForAnother
    NothingMisread
