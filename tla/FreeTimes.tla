------------------------------- MODULE FreeTimes -------------------------------
(***************************************************************************)
(* The times a provider is offered at: FreeSlotsService for an offering in *)
(* window mode, against the checks a create makes of the time it is given  *)
(* (availability-check.ts).  Both read the weekly availability, the        *)
(* bookings and the busy blocks, which the provider, the owners and the    *)
(* calendar syncs change all the time.                                     *)
(*                                                                         *)
(* Times are whole numbers, 0 a UTC midnight of day 0 of the week.         *)
(***************************************************************************)
EXTENDS CalendarSync

CONSTANTS
    DaysPerWeek,    \* 7
    DayLength,      \* units of time in a day
    Template,       \* weekly availabilities a provider may send
    Booking,        \* bookings an owner may ask for: start and duration
    Query,          \* queries of a picker: from, to, duration and step
    Lead,           \* how far ahead a booking must be made: five minutes
    Instant,        \* the times at which the clock is read
    MaxBookings     \* bound of the live bookings

ASSUME FreeTimesAssumption ==
    /\ DaysPerWeek \in Nat \ {0} /\ DayLength \in Nat \ {0}
    /\ \A T \in Template : T \subseteq [day : 0..(DaysPerWeek - 1), start : Nat, end : Nat]
    /\ \A T \in Template : \A a \in T : a.start < a.end /\ a.end < DayLength
    /\ Booking \subseteq [start : Nat, duration : Nat \ {0}]
    /\ Query \subseteq [from : Nat, to : Nat, duration : Nat \ {0}, step : Nat \ {0}]
    /\ Lead \in Nat
    /\ Instant \subseteq Nat

VARIABLES
    now,            \* the clock
    availability,   \* provider_availability
    booked          \* the bookings that are not cancelled

timevars == <<now, availability, booked>>

FreeTimesTypeOK ==
    /\ CalendarTypeOK
    /\ now \in Instant
    /\ availability \in Template
    /\ booked \subseteq Booking

-----------------------------------------------------------------------------
(* availability-check.ts                                                   *)

DayOf(t) == t \div DayLength

TimeOfDay(t) == t % DayLength

(* One row covers [start, end), which is within one UTC day.               *)
HasAvailability(start, end) ==
    /\ DayOf(start) = DayOf(end)
    /\ \E a \in availability :
          /\ a.day = DayOf(start) % DaysPerWeek
          /\ a.start <= TimeOfDay(start)
          /\ TimeOfDay(end) <= a.end

HasOverlap(start, end) ==
    \E b \in booked : b.start < end /\ b.start + b.duration > start

HasExternalBusyConflict(start, end) ==
    \E w \in blocks : w.start < end /\ w.end > start

TooSoon(start) == start < now + Lead

(* The checks of create on the time.                                       *)
Takes(start, end) ==
    /\ ~TooSoon(start)
    /\ HasAvailability(start, end)
    /\ ~HasOverlap(start, end)
    /\ ~HasExternalBusyConflict(start, end)

-----------------------------------------------------------------------------
(* free-slots.service.ts                                                   *)

(* The bookings and the blocks that meet [from, to).                       *)
Blockers(q) ==
    LET meets(w) == w.start < q.to /\ w.end > q.from IN
    {w \in {[start |-> b.start, end |-> b.start + b.duration] : b \in booked} : meets(w)}
        \cup {w \in blocks : meets(w)}

(* Mutant of BusyWindows: in the order of their ends.                      *)
BusyWindowsByEnd(q) ==
    LET upTo(w) == {v \in Blockers(q) :
                       v.end < w.end \/ (v.end = w.end /\ v.start <= w.start)}
    IN  [n \in 1..Cardinality(Blockers(q)) |->
            CHOOSE w \in Blockers(q) : Cardinality(upTo(w)) = n]

(* In the order of their starts; in which order those come that start      *)
(* together makes no difference to the scan.                               *)
BusyWindows(q) ==
    LET upTo(w) == {v \in Blockers(q) :
                       v.start < w.start \/ (v.start = w.start /\ v.end <= w.end)}
    IN  [n \in 1..Cardinality(Blockers(q)) |->
            CHOOSE w \in Blockers(q) : Cardinality(upTo(w)) = n]

(* The scan ends at the first window that starts too late.                 *)
IntersectsAny(start, end, busy) ==
    \E i \in DOMAIN busy :
        /\ \A j \in 1..i : busy[j].start < end
        /\ busy[i].end > start

(* An availability row on the days of the query, clamped to the query.     *)
OpenWindows(q) ==
    LET days(a) == {d \in DayOf(q.from)..DayOf(q.to) :
                       a.day = d % DaysPerWeek /\ d * DayLength < q.to}
        opens(d, a) == d * DayLength + a.start
        closes(d, a) == d * DayLength + a.end
    IN  UNION {{[start |-> IF opens(d, a) < q.from THEN q.from ELSE opens(d, a),
                 end |-> IF closes(d, a) > q.to THEN q.to ELSE closes(d, a)] : d \in days(a)} :
                   a \in availability}

(* computeWindowMode, its cap of 200 answers left out: the candidates on   *)
(* the grid of steps, which is that of the epoch.                          *)
ComputeWindowMode(q) ==
    LET busy == BusyWindows(q) IN
    {t \in q.from..q.to :
        /\ t % q.step = 0
        /\ \E w \in OpenWindows(q) : w.start <= t /\ t + q.duration <= w.end
        /\ ~IntersectsAny(t, t + q.duration, busy)}

(* FreeSlotPicker leaves out those that create would find too soon.        *)
(* DateThenTimePicker shows them all.                                      *)
Future(q) == {t \in ComputeWindowMode(q) : t >= now + Lead}

-----------------------------------------------------------------------------
Tick ==
    /\ \E t \in Instant : now < t /\ now' = t
    /\ UNCHANGED <<calvars, availability, booked>>

(* replaceAvailability, in one transaction.                                *)
ReplaceAvailability ==
    /\ availability' \in Template \ {availability}
    /\ UNCHANGED <<calvars, now, booked>>

(* A create gets through (its races are those of Bookings).                *)
Book ==
    /\ Cardinality(booked) < MaxBookings
    /\ \E b \in Booking :
          /\ Takes(b.start, b.start + b.duration)
          /\ booked' = booked \cup {b}
    /\ UNCHANGED <<calvars, now, availability>>

CancelBooking ==
    /\ \E b \in booked : booked' = booked \ {b}
    /\ UNCHANGED <<calvars, now, availability>>

FreeTimesInit ==
    /\ CalendarInit
    /\ now \in Instant
    /\ availability \in Template
    /\ booked = {}

FreeTimesNext ==
    \/ CalendarNext /\ UNCHANGED timevars
    \/ Tick \/ ReplaceAvailability \/ Book \/ CancelBooking

FreeTimesSpec ==
    FreeTimesInit /\ [][FreeTimesNext]_<<calvars, timevars>> /\ CalendarFairness

-----------------------------------------------------------------------------
(* FreeSlotPicker shows those times of its grid that a create would take   *)
(* at that moment, and no other; a picker that shows every answer shows,   *)
(* besides, only times that are refused as too soon.  However bookings,    *)
(* rows of availability and the blocks of syncs that overlapped lie across *)
(* each other, across midnight and across the present.                     *)
OffersWhatCreateTakes ==
    \A q \in Query :
        LET takes(t) == Takes(t, t + q.duration) IN
        /\ Future(q) = {t \in q.from..q.to :
                           t % q.step = 0 /\ t + q.duration <= q.to /\ takes(t)}
        /\ \A t \in ComputeWindowMode(q) : takes(t) \/ TooSoon(t)

=============================================================================
