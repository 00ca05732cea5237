---------------------------- MODULE RecurringSeries ----------------------------
(***************************************************************************)
(* RecurringSeriesService beside BookingsService: a handler of Request is  *)
(* either working on a single booking (Bookings) or on a series.           *)
(*                                                                         *)
(* create generates the dates of the rule, checks them one by one, each    *)
(* with statements of its own, and inserts the series and all its sessions *)
(* in one transaction; it reserves no slot, also where the offering is     *)
(* booked by slot, and does not check its dates against each other.        *)
(* cancelRemaining selects the sessions to cancel and cancels those ids in *)
(* a transaction that does not look at their status again.                 *)
(*                                                                         *)
(* Left out, as in Bookings: the checks of owner, pet, offering, address,  *)
(* times per day and external calendar, which only refuse the call.        *)
(***************************************************************************)
EXTENDS Bookings, RecurrenceDates

CONSTANTS
    Series,      \* ids of series
    NoSeries,    \* stands for SQL NULL where a series id is expected
    Rule,        \* rules a caller may ask for
    Blackout     \* the provider's days off, records [from, to]

ASSUME SeriesAssumption == NoSeries \notin Series

ASSUME RuleAssumption == Rule # {} /\ \A rule \in Rule : Accepted(rule)

VARIABLES
    series,      \* the recurring_series table
    seriesOf,    \* bookings.recurring_series_id
    call,        \* the local state of each handler that works on a series
    heard        \* the last notification about each series

svars == <<series, seriesOf, call, heard>>

allvars == <<vars, svars>>

-----------------------------------------------------------------------------
(* Types.                                                                  *)

NeverCancelled == MaxNow + 1

SeriesRow == [status : {"none", "active", "cancelled"}, service : Service, rule : Rule,
              instanceCount : Nat, cancelledAt : 0..NeverCancelled,
              cancelledBy : Role \cup {"nobody"}]

Call == [pc : {"idle", "check", "insert", "select", "cancel", "tell"},
         series : Series \cup {NoSeries}, caller : Role, service : Service,
         rule : Rule, duration : Nat, dates : Seq(Nat), checked : Nat,
         ids : SUBSET Booking, at : Nat]

SeriesNotice == [to : Role \cup {"nobody"}, what : {"nothing", "created", "cancelled"}]

SeriesTypeOK ==
    /\ TypeOK
    /\ series \in [Series -> SeriesRow]
    /\ seriesOf \in [Booking -> Series \cup {NoSeries}]
    /\ call \in [Request -> Call]
    /\ heard \in [Series -> SeriesNotice]

-----------------------------------------------------------------------------
(* Helpers.                                                                *)

NoCall == [pc |-> "idle", series |-> NoSeries, caller |-> "owner",
           service |-> CHOOSE s \in Service : TRUE,
           rule |-> CHOOSE rule \in Rule : TRUE, duration |-> 0,
           dates |-> <<>>, checked |-> 0, ids |-> {}, at |-> 0]

NoSeriesRow == [status |-> "none", service |-> CHOOSE s \in Service : TRUE,
                rule |-> CHOOSE rule \in Rule : TRUE, instanceCount |-> 0,
                cancelledAt |-> NeverCancelled,
                cancelledBy |-> "nobody"]

(* The dates each rule stands for.                                         *)
DatesOf == [rule \in Rule |-> Dates(rule, Blackout)]

GotoCall(r, label) == call' = [call EXCEPT ![r].pc = label]

AnswerCall(r) == call' = [call EXCEPT ![r] = NoCall]

Sessions(s) == {b \in Booking : Exists(b) /\ seriesOf[b] = s}

(* A handler works on one thing.                                           *)
Free(r) == req[r].pc = "idle" /\ call[r].pc = "idle"

(* Bound: calls that create start only while the model has ids for them.   *)
Promised == Cardinality({q \in Request : req[q].pc \in {"select", "insert"}})
              + Cardinality({p \in Request \X (1..MaxInstances) :
                                /\ call[p[1]].pc \in {"check", "insert"}
                                /\ p[2] <= Len(call[p[1]].dates)})

IdsLeftFor(n) == Promised + n <= Cardinality({b \in Booking : ~Exists(b)})

-----------------------------------------------------------------------------
(* create.                                                                 *)

(* The dates of the rule; none: 422.  The clock is read once, before the   *)
(* loop over the dates.                                                    *)
SeriesStart(r) ==
    /\ Free(r)
    /\ \E s \in Service, rule \in Rule, d \in Duration :
          LET dates == DatesOf[rule] IN
          /\ dates # <<>>
          /\ IdsLeftFor(Len(dates))
          /\ \E id \in Series :
                /\ series[id].status = "none"
                /\ \A q \in Request : call[q].series # id
                /\ call' = [call EXCEPT ![r] =
                      [@ EXCEPT !.pc = "check", !.series = id, !.service = s,
                                !.rule = rule, !.duration = d, !.dates = dates,
                                !.at = now]]
    /\ UNCHANGED <<vars, series, seriesOf, heard>>

(* One turn of the loop: lead time by the clock read above, availability,  *)
(* overlap.  One date that is not available and the call ends in a 422     *)
(* after the loop, with nothing written: the model leaves it here.         *)
SeriesCheckDate(r) ==
    LET c == call[r]
        date == c.dates[c.checked + 1]
    IN
    /\ c.pc = "check"
    /\ IF /\ date >= c.at + Grace
          /\ Available(date, c.duration)
          /\ ~HasOverlap(date, c.duration)
       THEN call' = [call EXCEPT ![r].checked = c.checked + 1,
                                 ![r].pc = IF c.checked + 1 = Len(c.dates)
                                           THEN "insert" ELSE "check"]
       ELSE AnswerCall(r)
    /\ UNCHANGED <<vars, series, seriesOf, heard>>

(* Mutant of Made: the last date is lost.                                  *)
MadeButLast(c, id) ==
    [b \in Booking |->
        IF \E i \in 1..(Len(c.dates) - 1) : id[i] = b
        THEN [status |-> "pending", service |-> c.service,
              start |-> c.dates[CHOOSE i \in DOMAIN id : id[i] = b],
              duration |-> c.duration, cancellation |-> NotCancelled]
        ELSE booking[b]]

(* The bookings table once date i has its pending booking id[i].           *)
Made(c, id) ==
    [b \in Booking |->
        IF \E i \in DOMAIN id : id[i] = b
        THEN [status |-> "pending", service |-> c.service,
              start |-> c.dates[CHOOSE i \in DOMAIN id : id[i] = b],
              duration |-> c.duration, cancellation |-> NotCancelled]
        ELSE booking[b]]

(* One transaction: the series row and a pending booking for every date.   *)
SeriesInsert(r) ==
    LET c == call[r] IN
    /\ c.pc = "insert"
    /\ \E id \in [DOMAIN c.dates -> {b \in Booking : ~Exists(b)}] :
          /\ \A i, j \in DOMAIN id : i # j => id[i] # id[j]
          /\ booking' = Made(c, id)
          /\ seriesOf' = [b \in Booking |->
                IF \E i \in DOMAIN id : id[i] = b THEN c.series ELSE seriesOf[b]]
    /\ series' = [series EXCEPT ![c.series] =
          [status |-> "active", service |-> c.service, rule |-> c.rule,
           instanceCount |-> Len(c.dates), cancelledAt |-> NeverCancelled,
           cancelledBy |-> "nobody"]]
    /\ call' = [call EXCEPT ![r] = [@ EXCEPT !.pc = "tell", !.rule = NoCall.rule,
                                             !.dates = <<>>, !.checked = 0]]
    /\ UNCHANGED <<walk, slot, req, now, refunds, told, heard>>

-----------------------------------------------------------------------------
(* cancelRemaining.                                                        *)

(* The series row is read for its two sides, not for its cancelledAt, and  *)
(* then the clock.                                                         *)
SeriesCancelStart(r) ==
    /\ Free(r)
    /\ \E s \in Series, caller \in Role :
          /\ series[s].status # "none"
          /\ call' = [call EXCEPT ![r] =
                [@ EXCEPT !.pc = "select", !.series = s, !.caller = caller, !.at = now]]
    /\ UNCHANGED <<vars, series, seriesOf, heard>>

(* Mutant of Remaining: only the confirmed sessions.                       *)
RemainingConfirmed(c) ==
    {b \in Sessions(c.series) : booking[b].status = "confirmed" /\ booking[b].start > c.at}

(* The sessions still ahead that are pending or confirmed.                 *)
Remaining(c) ==
    {b \in Sessions(c.series) :
        booking[b].status \in {"pending", "confirmed"} /\ booking[b].start > c.at}

(* Nothing left: the call answers 0 and the series is not marked.          *)
SeriesCancelSelect(r) ==
    LET ids == Remaining(call[r]) IN
    /\ call[r].pc = "select"
    /\ IF ids = {} THEN AnswerCall(r)
       ELSE call' = [call EXCEPT ![r] = [@ EXCEPT !.pc = "cancel", !.ids = ids]]
    /\ UNCHANGED <<vars, series, seriesOf, heard>>

(* Mutant of Reopened: the slots of the whole offering are freed.          *)
ReopenedAll(c) ==
    [k \in SlotKey |-> IF k[1] = series[c.series].service
                       THEN [status |-> "open", booking |-> NoBooking]
                       ELSE slot[k]]

(* The slots table once those held by the sessions are free.               *)
Reopened(c) ==
    [k \in SlotKey |-> IF slot[k].status = "booked" /\ slot[k].booking \in c.ids
                       THEN [status |-> "open", booking |-> NoBooking]
                       ELSE slot[k]]

(* Mutant of Marked: the series row is left to another statement.          *)
MarkedLater(c) == series

Marked(c) ==
    [series EXCEPT ![c.series] =
        [@ EXCEPT !.status = "cancelled", !.cancelledAt = now, !.cancelledBy = c.caller]]

(* One transaction: the bookings selected, whatever they have become, the  *)
(* slots they hold, and the series row.  No money column is written.       *)
SeriesCancelWrite(r) ==
    LET c == call[r] IN
    /\ c.pc = "cancel"
    /\ booking' = [b \in Booking |->
          IF b \in c.ids
          THEN [booking[b] EXCEPT !.status = "cancelled", !.cancellation.by = c.caller]
          ELSE booking[b]]
    /\ slot' = Reopened(c)
    /\ series' = Marked(c)
    /\ GotoCall(r, "tell")
    /\ UNCHANGED <<walk, req, now, refunds, told, seriesOf, heard>>

-----------------------------------------------------------------------------
(* The synchronous tail of both: the other side is told, no refund is      *)
(* asked for, and the call is answered.  A create is told as ids is empty. *)
SeriesTell(r) ==
    LET c == call[r] IN
    /\ c.pc = "tell"
    /\ heard' = [heard EXCEPT ![c.series] =
          IF c.ids = {} THEN [to |-> "provider", what |-> "created"]
          ELSE [to |-> IF c.caller = "provider" THEN "owner" ELSE "provider",
                what |-> "cancelled"]]
    /\ AnswerCall(r)
    /\ UNCHANGED <<vars, series, seriesOf>>

SeriesAbort(r) ==
    /\ MayAbort
    /\ call[r].pc # "idle"
    /\ AnswerCall(r)
    /\ UNCHANGED <<vars, series, seriesOf, heard>>

-----------------------------------------------------------------------------
SeriesInit ==
    /\ Init
    /\ series = [s \in Series |-> NoSeriesRow]
    /\ seriesOf = [b \in Booking |-> NoSeries]
    /\ call = [r \in Request |-> NoCall]
    /\ heard = [s \in Series |-> [to |-> "nobody", what |-> "nothing"]]

SeriesCreate(r) == SeriesStart(r) \/ SeriesCheckDate(r) \/ SeriesInsert(r)

SeriesCancel(r) == SeriesCancelStart(r) \/ SeriesCancelSelect(r) \/ SeriesCancelWrite(r)

(* The handlers of single bookings, on the ids nobody has been promised.   *)
SingleStart(r) == /\ Free(r)
                  /\ (IdsLeftFor(1) /\ CreateCheck(r)) \/ ReadAndJudge(r)

Single(r) == \/ SingleStart(r)
             \/ Step(r)
             \/ Abort(r)

SeriesNext ==
    \/ \E r \in Request : SeriesCreate(r) \/ SeriesCancel(r) \/ SeriesTell(r) \/ SeriesAbort(r)
    \/ (\E r \in Request : Single(r)) /\ UNCHANGED svars
    \/ Tick /\ UNCHANGED svars

SeriesSpec == SeriesInit /\ [][SeriesNext]_allvars

-----------------------------------------------------------------------------
(* Each date has a session of its own, and there is no other session.      *)
OnePerDate(dates, sessions) ==
    \E id \in [DOMAIN dates -> sessions] :
        /\ \A i, j \in DOMAIN dates : i # j => id[i] # id[j]
        /\ \A b \in sessions : \E i \in DOMAIN dates : id[i] = b
        /\ \A i \in DOMAIN dates : booking[id[i]].start = dates[i]

(* A series is made whole or not at all: whatever handlers race or die     *)
(* while it is made and after, its sessions are as many as its row says,   *)
(* all for its offering, and one for each date of the rule its row keeps   *)
(* (two at the same time if the rule names a weekday or a time twice).     *)
SeriesIsComplete ==
    \A s \in Series :
        /\ Cardinality(Sessions(s)) = series[s].instanceCount
        /\ \A b \in Sessions(s) : booking[b].service = series[s].service
        /\ series[s].status # "none" =>
              OnePerDate(DatesOf[series[s].rule], Sessions(s))

(* cancelRemaining leaves no session behind: a walking session of a        *)
(* cancelled series that was still ahead when the series was cancelled     *)
(* has been cancelled itself, or had been started before.  A confirm or    *)
(* start that read the row earlier may bring its status back, but not      *)
(* unmake the cancellation.                                                *)
CancelledSeriesLeavesNoneBehind ==
    \A b \in Booking :
        LET s == seriesOf[b] IN
        /\ s # NoSeries
        /\ booking[b].service \in Walking
        /\ series[s].status = "cancelled"
        /\ booking[b].start > series[s].cancelledAt
        => booking[b].cancellation.by # "nobody" \/ walk[b] # "none"

(* Only the cancellation of its series leaves a cancelled booking without  *)
(* the split of the money the policy prescribes (nobody decides there what *)
(* is refunded): any other cancelled booking has one.                      *)
UnpricedOnlyBySeries ==
    \A b \in Booking :
        booking[b].status = "cancelled" /\ booking[b].cancellation \notin PolicyOutcome
        => seriesOf[b] # NoSeries /\ series[seriesOf[b]].status = "cancelled"

(* No slot is ever lost to or freed by a series: a slot that a single      *)
(* booking reserved is reopened only after that booking was cancelled.     *)
SlotsSurviveSeries ==
    [][\A k \in SlotKey :
          slot[k].status = "booked" /\ slot'[k].status = "open" =>
             /\ seriesOf[slot[k].booking] = NoSeries
                /\ booking[slot[k].booking].cancellation.by # "nobody"]_slot

=============================================================================
