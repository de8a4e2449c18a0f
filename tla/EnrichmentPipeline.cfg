SPECIFICATION FairSpec
CONSTANTS
    Address = {a1, b1}
    Public = {a1}
    NoPeer = NoPeer
    MaxRedirects = 2
    Budget = 2
    ClientTimeout = 3
    Quota = 1
    LocalStageOf <- MCLocalStageOf
INVARIANTS TypeOK OnlyCheckedPeers AnswerIsWhole
    RiskNeverLowered MatchNeedsLocalSignal CompleteIsWhole
PROPERTIES PageEvidenceKept WorkDecreases CallsEnd
