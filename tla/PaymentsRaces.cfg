SPECIFICATION Spec
CONSTANTS
    Booking = {b1}
    Writer = {w1, w2}
    Intent = {i1}
    PayRequest = {r1}
    Hook = {h1, h2}
    Call = {c1, c2}
    NoId = NoId
    Price = 2
    MaxRestarts = 1
    MayFail = TRUE
    Reconfirm = TRUE
    Partial = TRUE
SYMMETRY MCSymmetry
INVARIANTS
    TypeOK
    InFlightIsSound
    LedgerBacked
    RefundsAreOwed
PROPERTIES
    WebhooksKeepLifecycle
    ForgottenOnlyBy
CHECK_DEADLOCK FALSE
