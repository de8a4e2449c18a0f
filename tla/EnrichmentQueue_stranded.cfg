SPECIFICATION Spec
CONSTANTS
    Worker = {w1}
    Scan = {s1, s2}
    Enriched = {s1, s2}
    NoOne = NoOne
    MaxRuns = 1
    MaxFaults = 0
INVARIANT NoStrandedScan
CHECK_DEADLOCK FALSE
