SPECIFICATION FormSpec
CONSTANTS
    DaysPerWeek = 3
    DayLength = 2
    MaxInstances = 4
    Service = {"walking", "boarding", "daycare"}
    OfferedService = {"walking", "boarding"}
    MaxTimes <- MCMaxTimes
    Availability <- MCAvailability
    Blackouts <- MCBlackouts
    PickableDay <- MCPickableDay
    DefaultWeeks = 4
    ScanLimit = 8
    NoDate = NoDate
INVARIANTS
    SubmittableIsValid
    DatesFollowRule
    EstimateAgrees
