SPECIFICATION Spec
CONSTANTS
    Retries = 1
    MaxErrors = 1
    MaxRestarts = 0
    MaxBreaks = 0
INVARIANTS
    NoDuplicates
CHECK_DEADLOCK FALSE
