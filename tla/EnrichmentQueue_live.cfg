SPECIFICATION FairSpec
CONSTANTS
    Worker = {w1, w2}
    Scan = {s1}
    Enriched = {s1}
    NoOne = NoOne
    MaxRuns = 1
    MaxFaults = 2
PROPERTIES JobSettles DeletionReturns
CHECK_DEADLOCK FALSE
