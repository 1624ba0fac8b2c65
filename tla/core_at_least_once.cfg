SPECIFICATION FairSpec
CONSTANTS
    ResourceCount = 2
    h1 = h1
    h2 = h2
    Handler <- Handlers
    NoCall = NoCall
    MaxRetries <- OneRetry
    Budget <- AtLeastOnce
INVARIANTS
    LedgerInv
    CopiesAreCurrent
    RecordTracksSaga
    FailedMeansOver
PROPERTIES
    FailedIsFinal
    LedgerKept
    HandlersFinish
CHECK_DEADLOCK FALSE
