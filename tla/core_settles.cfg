SPECIFICATION FairSpec
CONSTANTS
    ResourceCount = 3
    h1 = h1
    h2 = h2
    Handler <- Handlers
    NoCall = NoCall
    MaxRetries <- OneRetry
    Budget <- WorkerFails
INVARIANT
    ReadyUnlessUndone
PROPERTIES
    Settles
    CliReturns
    Delivers
CHECK_DEADLOCK FALSE
