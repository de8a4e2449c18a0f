SPECIFICATION Spec
CONSTANTS
    Worker = {w1}
    Scan = {s1}
    Enriched = {s1}
    NoOne = NoOne
    MaxRuns = 1
    MaxFaults = 2
INVARIANT AttemptsBounded
CHECK_DEADLOCK FALSE
