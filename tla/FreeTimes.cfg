\* Two syncs at once for a provider whose calendar, access and availability
\* change, with up to two live bookings, as the clock goes on.
SPECIFICATION FreeTimesSpec
CONSTANTS
    Sync = {1, 2}
    GoogleBusy <- Answers
    MaxEvents = 2
    MaxFailures = 1
    DaysPerWeek = 2
    DayLength = 6
    Template <- Templates
    Booking <- Bookings
    Query <- Queries
    MaxBookings = 2
    Lead = 1
    Instant <- Instants
INVARIANTS
    OffersWhatCreateTakes
PROPERTIES
    SyncSettles
