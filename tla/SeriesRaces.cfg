SPECIFICATION SeriesSpec
CONSTANTS
    Booking = {b1, b2}
    NoBooking = NoBooking
    Request = {r1, r2}
    Service = {walking}
    SlotMode = {walking}
    Walking = {walking}
    Start = {1}
    Duration = {1}
    Window <- MCWindow
    Grace = 0
    LateWindow = 1
    Price = 10
    MaxNow = 1
    MayAbort = TRUE
    Series = {s1}
    NoSeries = NoSeries
    Rule <- MCRule
    Blackout <- MCBlackout
    DaysPerWeek = 2
    DayLength = 1
    MaxInstances = 4
SYMMETRY MCSymmetry
VIEW MCView
INVARIANTS
    SeriesIsComplete
    CancelledSeriesLeavesNoneBehind
    UnpricedOnlyBySeries
PROPERTIES
    SlotsSurviveSeries
CHECK_DEADLOCK FALSE
