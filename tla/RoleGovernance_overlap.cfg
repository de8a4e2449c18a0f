SPECIFICATION Spec
CONSTANTS
    Account = {a1, a2}
    Tx = {t1, t2}
    RequestId = {q1}
    Nobody = Nobody
SYMMETRY Symmetry
INVARIANTS TypeOK NonePendingWhileAsking CanonicalIsActiveAdmin
PROPERTIES CanonicalPersists NoSelfChange AssuredWhenGranted AuthorityChangeEndsSessions ApprovalGrantsRole
