SPECIFICATION FairSpec
CONSTANTS
    Tx = {t1, t2}
    NoTx = NoTx
    Analyst = {a1, a2}
    Administrator = {a2}
    Nobody = Nobody
    Key = {k1}
    MaxEvents = 3
INVARIANTS TypeOK ChainVerifies ActedOnce AdjudicatedByClaimant FeedbackMatchesCase
    ExportHonoursDeletion ExportedAreReviewed
PROPERTIES AdjudicationFinal ImplementsCaseFile RequestsEnd
CHECK_DEADLOCK FALSE
