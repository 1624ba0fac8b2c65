SPECIFICATION FairSpec
CONSTANTS
    Retries = 1
    MaxErrors = 1
    MaxRestarts = 1
    MaxBreaks = 1
INVARIANTS
    TypeOK
    RollbackInv
    NamedExists
    PasswordOpens
    CompletedIsWhole
    UndisturbedRollback
    RollbackLeavesStrays
PROPERTIES
    SagaEnds
CHECK_DEADLOCK FALSE
