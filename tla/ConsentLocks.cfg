SPECIFICATION FairSpec
CONSTANTS
    Run = {r1, r2}
PROPERTY AccountDeletionReturns
CHECK_DEADLOCK FALSE
