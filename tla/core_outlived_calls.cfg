SPECIFICATION Spec
CONSTANTS
    ResourceCount = 2
    h1 = h1
    h2 = h2
    Handler <- Handlers
    NoCall = NoCall
    MaxRetries <- OneRetry
    Budget <- Outlived
SYMMETRY HandlerSymmetry
INVARIANTS
    TypeOK
    SafetyInv
    StartedSagaIsRecorded
    NothingAhead
    ReadyOnlyAtRegistry
CHECK_DEADLOCK FALSE
