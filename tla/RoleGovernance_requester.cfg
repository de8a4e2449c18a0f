SPECIFICATION Spec
CONSTANTS
    Account = {a1, a2}
    Tx = {t1}
    RequestId = {q1}
    Nobody = Nobody
SYMMETRY Symmetry
PROPERTY RequesterIsRegistered
