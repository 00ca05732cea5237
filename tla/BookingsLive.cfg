SPECIFICATION FairSpec
CONSTANTS
    Booking = {b1}
    NoBooking = NoBooking
    Request = {r1, r2}
    Service = {walking, sitting}
    SlotMode = {walking}
    Walking = {walking}
    Start = {1, 3}
    Duration = {1}
    Window <- MCWindow
    Grace = 1
    LateWindow = 2
    Price = 10
    MaxNow = 0
    MayAbort = FALSE
PROPERTIES
    CancelledFreesSlot
    OwedRefundIssued
CHECK_DEADLOCK FALSE
