SPECIFICATION FairSpec
CONSTANTS
    Booking = {b1}
    Writer = {w1}
    Intent = {i1, i2}
    PayRequest = {r1}
    Hook = {h1}
    Call = {c1}
    NoId = NoId
    Price = 2
    MaxRestarts = 0
    MayFail = FALSE
    Reconfirm = FALSE
    Partial = FALSE
PROPERTIES
    PaidCancellationRefunded
CHECK_DEADLOCK FALSE
