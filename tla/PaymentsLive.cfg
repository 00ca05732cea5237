SPECIFICATION FairSpec
CONSTANTS
    Booking = {b1}
    Writer = {w1}
    Intent = {i1, i2}
    PayRequest = {r1}
    Hook = {h1}
    Call = {c1}
    NoId = NoId
    Price = 1
    MaxRestarts = 2
    MayFail = FALSE
    Reconfirm = FALSE
    Partial = TRUE
INVARIANTS
    ChargedOnce
    CaptureNotForgotten
PROPERTIES
    CaptureIsBooked
    RefundIsBooked
CHECK_DEADLOCK FALSE
