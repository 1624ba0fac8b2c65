SPECIFICATION Spec
CONSTANTS
    Retries = 1
    MaxErrors = 0
    MaxRestarts = 1
    MaxBreaks = 1
INVARIANTS
    NoSecondCreate
CHECK_DEADLOCK FALSE
