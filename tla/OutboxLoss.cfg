SPECIFICATION Spec
CONSTANTS
    w1 = w1
    w2 = w2
    Event = {1, 2}
    Worker <- Server
    BatchSize <- Batches
    MaxFaults = 1
INVARIANTS
    AtLeastOnce
CHECK_DEADLOCK FALSE
