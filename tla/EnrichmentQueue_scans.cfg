SPECIFICATION Spec
CONSTANTS
    Worker = {w1}
    Scan = {s1, s2, s3}
    Enriched = {s1, s2}
    NoOne = NoOne
    MaxRuns = 2
    MaxFaults = 0
SYMMETRY Symmetry
INVARIANTS RowsConsistent ResultHasDecision
PROPERTY ImplementsConsentGate
CHECK_DEADLOCK FALSE
