SPECIFICATION FairSpec
CONSTANTS
    w1 = w1
    w2 = w2
    Event = {1, 2}
    Worker <- Both
    BatchSize <- Batches
    MaxFaults = 3
INVARIANTS
    TypeOK
    LossesHaveACause
    DuplicatesHaveACause
PROPERTIES
    NoOvertaking
    EventuallyReceived
CHECK_DEADLOCK FALSE
