SPECIFICATION Spec
CONSTANTS
    ResourceCount = 2
    h1 = h1
    h2 = h2
    Handler <- Handlers
    NoCall = NoCall
    MaxRetries <- NoRetry
    Budget <- ConductorRestarts
INVARIANT
    ReadyIsComplete
CHECK_DEADLOCK FALSE
