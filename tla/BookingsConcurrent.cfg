SPECIFICATION Spec
CONSTANTS
    Booking = {b1, b2}
    NoBooking = NoBooking
    Request = {r1, r2}
    Service = {walking}
    SlotMode = {walking}
    Walking = {walking}
    Start = {1}
    Duration = {1}
    Window <- MCWindow
    Grace = 1
    LateWindow = 2
    Price = 10
    MaxNow = 0
    MayAbort = TRUE
SYMMETRY MCSymmetry
INVARIANTS
    WalkBacksStatus
    SlotHolderMatches
    ToldIsWritten
    HandlersAreSound
PROPERTIES
    ReopenedAfterCancellation
    LegalUnlessStale
CHECK_DEADLOCK FALSE
