SPECIFICATION Spec
CONSTANTS
    Worker = {w1, w2}
    Scan = {s1, s2}
    Enriched = {s1, s2}
    NoOne = NoOne
    MaxRuns = 2
    MaxFaults = 1
SYMMETRY Symmetry
INVARIANTS ConsentLockHeld OneCallPerRun CallHasConsent OneFinalPerRound
           AttemptsPaidFor
PROPERTY DeletionWaits
CHECK_DEADLOCK FALSE
