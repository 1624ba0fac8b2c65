SPECIFICATION FairSpec
CONSTANTS
    TTL = 6
    RenewAt = 5
    Refresh = 2
    MaxKey = 4
    MaxFaults = 3
INVARIANTS
    TypeOK
    ReadThenWrite
    OutageIsBounded
PROPERTY
    ServedAgain
