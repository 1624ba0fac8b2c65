SPECIFICATION RolloutFairSpec
CONSTANTS
    r1 = r1
    r2 = r2
    Request <- Requests
    MaxAttempts = 3
    Wait = 3
    QuickFetch = 2
    SlowFetch = 12
    LockTimeout = 5
    ProbeDeadline = 22
    MaxHangs = 1
    MaxReplaced = 1
INVARIANTS
    RolloutTypeOK
    EarlyProvisionsSettle
    SuccessorFindsSettled
PROPERTIES
    HandoverIsClean
    RetriesAreSpared
    Terminates
    RolloutEnds
CHECK_DEADLOCK FALSE
