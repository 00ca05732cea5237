SPECIFICATION Spec
CONSTANTS
    Booking = {b1, b2}
    NoBooking = NoBooking
    Request = {r1}
    Service = {walking, sitting}
    SlotMode = {walking}
    Walking = {walking}
    Start = {1, 2, 3}
    Duration = {1, 2}
    Window <- MCWindow
    Grace = 1
    LateWindow = 2
    Price = 10
    MaxNow = 1
    MayAbort = TRUE
SYMMETRY MCSymmetry
INVARIANTS
    TypeOK
    NoDoubleBooking
    LiveHoldsSlot
    WalkFollowsStatus
    CancellationIffCancelled
    CancellationIsPolicy
    ToldWhatHappened
PROPERTIES
    ImplementsLifecycle
CHECK_DEADLOCK FALSE
