SPECIFICATION FairSpec
CONSTANTS
    Process = {p1, p2, p3}
    WithFiles = {p1, p2}
    Files = 2
INVARIANTS
    TypeOK
    MarksAreTrue
    AppliedInOrder
    UpMeansMigrated
    NotEveryoneDies
PROPERTY
    SomeoneComesUp
