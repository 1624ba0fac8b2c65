SPECIFICATION FairSpec
CONSTANTS
    u1 = u1
    u2 = u2
    User <- Users
    Id <- Ids
    PrintLength = 1
    MaxEnvs = 2
    None = None
INVARIANTS
    TypeOK
    PollFindsOwn
    MissIsAmbiguous
    StatusIsOfOne
PROPERTY
    CreateReturns
CHECK_DEADLOCK FALSE
