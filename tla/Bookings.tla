------------------------------- MODULE Bookings -------------------------------
(***************************************************************************)
(* BookingsService of the backend, for the bookings of one provider.       *)
(*                                                                         *)
(* A request is one HTTP call in flight.  The Node process interleaves     *)
(* requests at every await, and every statement sent to Postgres (READ     *)
(* COMMITTED) is atomic, so a handler is a sequence of actions: one per    *)
(* statement or transaction, in program order, each working on what the    *)
(* handler read before.  A transaction whose first statement takes a row   *)
(* lock is one action; create's transaction opens with an unlocked SELECT  *)
(* and is two.                                                             *)
(*                                                                         *)
(* Left out: the owner, pet, offering, address and external-calendar       *)
(* checks of create, which only refuse the call: such calls are not made.  *)
(***************************************************************************)
EXTENDS BookingPolicy, FiniteSets

CONSTANTS
    Booking,       \* ids of bookings
    NoBooking,     \* stands for SQL NULL where a booking id is expected
    Request,       \* request handlers that may be in flight at once
    Service,       \* the provider's active offerings
    SlotMode,      \* offerings booked by slot; the others are window mode
    Walking,       \* offerings whose serviceType is walking
    Start,         \* start times a caller may ask for
    Duration,      \* durations a caller may ask for
    Window,        \* availability windows, records [from, to]
    Grace,         \* how far ahead scheduledAt has to be
    LateWindow,    \* LATE_CANCEL_HOURS
    Price,         \* priceCents locked in at creation
    MaxNow,        \* bound of the clock
    MayAbort       \* whether a handler may die between two steps

ASSUME NoBookingAssumption == NoBooking \notin Booking

ASSUME OfferingAssumption ==
    Service # {} /\ SlotMode \subseteq Service /\ Walking \subseteq Service

ASSUME TimeAssumption ==
    /\ Start \subseteq Nat
    /\ Duration \subseteq Nat \ {0}
    /\ Window \subseteq [from : Nat, to : Nat]
    /\ Grace \in Nat
    /\ LateWindow \in Nat
    /\ MaxNow \in Nat

ASSUME PriceAssumption == Price \in Nat

ASSUME MayAbortAssumption == MayAbort \in BOOLEAN

VARIABLES
    booking,   \* the bookings table
    walk,      \* the walks table: "none", "running" or "ended" per booking
    slot,      \* the provider_slots table, keyed by its unique index
    req,       \* the local state of each request handler
    now,       \* wall clock
    refunds,   \* calls handed to PaymentsService.refundForCancelledBooking
    told       \* the last notification handed to notifyAsync about each booking

vars == <<booking, walk, slot, req, now, refunds, told>>

-----------------------------------------------------------------------------
(* Types.                                                                  *)

Cancellation == [by : Role \cup {"nobody"}, refund : Nat, appFee : Nat, providerFee : Nat]

Row == [status : Status \cup {"none"}, service : Service, start : Nat,
        duration : Nat, cancellation : Cancellation]

SlotKey == SlotMode \X Start

Op == BookingAction \cup {"create"}

Handler == [pc : {"idle", "select", "insert", "write", "release", "finish"},
            op : Op, booking : Booking \cup {NoBooking}, caller : Role,
            read : Status \cup {"none"}, service : Service, start : Nat, duration : Nat,
            outcome : Cancellation]

Notice == [to : Role \cup {"nobody"}, status : Status \cup {"none"}]

TypeOK ==
    /\ booking \in [Booking -> Row]
    /\ walk \in [Booking -> {"none", "running", "ended"}]
    /\ slot \in [SlotKey -> [status : {"open", "booked"}, booking : Booking \cup {NoBooking}]]
    /\ req \in [Request -> Handler]
    /\ now \in 0..MaxNow
    /\ refunds \subseteq [booking : Booking, cents : Nat]
    /\ told \in [Booking -> Notice]

-----------------------------------------------------------------------------
(* Helpers.                                                                *)

Exists(b) == booking[b].status # "none"

Live(b) == booking[b].status \notin {"none", "cancelled"}

(* hasAvailability: one window of the day covers the whole range.          *)
Available(start, duration) ==
    \E w \in Window : w.from <= start /\ start + duration <= w.to

(* Two half-open ranges share a moment (tstzrange &&).                     *)
Intersects(s1, d1, s2, d2) == s1 < s2 + d2 /\ s2 < s1 + d1

(* Mutant of HasOverlap: only equal start times collide.                   *)
HasOverlapSameStart(start, duration) ==
    \E b \in Booking : Live(b) /\ booking[b].start = start

(* hasOverlap: some non-cancelled booking shares a moment with the range.  *)
HasOverlap(start, duration) ==
    \E b \in Booking :
        /\ Live(b)
        /\ Intersects(booking[b].start, booking[b].duration, start, duration)

(* The slot row a slot-mode create call is about.                          *)
Wanted(r) == <<req[r].service, req[r].start>>

(* An idle handler, and the row of an id that is not in use.               *)
Idle == [pc |-> "idle", op |-> "create", booking |-> NoBooking, caller |-> "owner",
         read |-> "none", service |-> CHOOSE s \in Service : TRUE, start |-> 0,
         duration |-> 0, outcome |-> NotCancelled]

NoRow == [status |-> "none", service |-> CHOOSE s \in Service : TRUE, start |-> 0,
          duration |-> 0, cancellation |-> NotCancelled]

Goto(r, label) == req' = [req EXCEPT ![r].pc = label]

Answer(r) == req' = [req EXCEPT ![r] = Idle]

(* The statuses a booking that has been in status s may be in.             *)
Since(s) == {s} \cup (CASE s = "pending" -> Status
                        [] s = "confirmed" -> Status \ {"pending"}
                        [] s = "in_progress" -> Terminal
                        [] OTHER -> {})

SetStatus(b, s) == booking' = [booking EXCEPT ![b].status = s]

(* Mutant of Recipient: the provider hears of every cancellation.          *)
RecipientOfCancelProvider(op, caller) ==
    IF op \in {"create", "cancel"} THEN "provider" ELSE "owner"

(* The side that did not act is told; a new request goes to the provider,  *)
(* and only the provider confirms, starts or ends.                         *)
Recipient(op, caller) ==
    IF op = "create" \/ (op = "cancel" /\ caller = "owner") THEN "provider" ELSE "owner"

StatusAfter(op) == IF op = "create" THEN "pending" ELSE To[op]

-----------------------------------------------------------------------------
(* create: the checks, each a statement on its own, end with the overlap   *)
(* query; the transaction then looks for the open slot (slot mode only)    *)
(* and inserts the booking together with the reservation.                  *)

(* Bound: a call is issued only while the model has an id left for it.     *)
IdLeft == Cardinality({q \in Request : req[q].pc \in {"select", "insert"}})
            < Cardinality({b \in Booking : ~Exists(b)})

CreateCheck(r) ==
    /\ req[r].pc = "idle"
    /\ IdLeft
    /\ \E s \in Service, t \in Start, d \in Duration :
          /\ t >= now + Grace
          /\ Available(t, d)
          /\ ~HasOverlap(t, d)
          /\ req' = [req EXCEPT ![r] =
                [@ EXCEPT !.pc = IF s \in SlotMode THEN "select" ELSE "insert",
                          !.op = "create", !.service = s, !.start = t, !.duration = d]]
    /\ UNCHANGED <<booking, walk, slot, now, refunds, told>>

(* SELECT ... WHERE status = 'open' takes no lock.  No row: 409.           *)
CreateSelect(r) ==
    /\ req[r].pc = "select"
    /\ IF slot[Wanted(r)].status = "open" THEN Goto(r, "insert") ELSE Answer(r)
    /\ UNCHANGED <<booking, walk, slot, now, refunds, told>>

(* Mutant of CreateInsert: the reservation is forgotten.                   *)
CreateInsertOnly(r) ==
    /\ req[r].pc = "insert"
    /\ \E b \in Booking :
          /\ ~Exists(b)
          /\ booking' = [booking EXCEPT ![b] =
                [status |-> "pending", service |-> req[r].service,
                 start |-> req[r].start, duration |-> req[r].duration,
                 cancellation |-> NotCancelled]]
          /\ req' = [req EXCEPT ![r] = [@ EXCEPT !.pc = "finish", !.booking = b]]
    /\ UNCHANGED <<walk, slot, now, refunds, told>>

(* INSERT the booking and UPDATE the slot by its id alone, then commit.    *)
CreateInsert(r) ==
    /\ req[r].pc = "insert"
    /\ \E b \in Booking :
          /\ ~Exists(b)
          /\ booking' = [booking EXCEPT ![b] =
                [status |-> "pending", service |-> req[r].service,
                 start |-> req[r].start, duration |-> req[r].duration,
                 cancellation |-> NotCancelled]]
          /\ slot' = IF req[r].service \in SlotMode
                     THEN [slot EXCEPT ![Wanted(r)] = [status |-> "booked", booking |-> b]]
                     ELSE slot
          /\ req' = [req EXCEPT ![r] = [@ EXCEPT !.pc = "finish", !.booking = b]]
    /\ UNCHANGED <<walk, now, refunds, told>>

-----------------------------------------------------------------------------
(* confirm, start, end, cancel: the row is read and judged, and what was   *)
(* read decides a later UPDATE whose WHERE clause names only the id.       *)

ReadAndJudge(r) ==
    /\ req[r].pc = "idle"
    /\ \E b \in Booking, action \in BookingAction, caller \in Role :
          /\ Exists(b)
          /\ TryTransition(booking[b].status, action, caller)
          /\ req' = [req EXCEPT ![r] =
                [@ EXCEPT !.pc = "write", !.op = action, !.booking = b, !.caller = caller,
                          !.read = booking[b].status,
                          !.outcome = IF action = "cancel"
                                      THEN CancellationOutcome(Price, booking[b].start,
                                                               now, LateWindow, caller)
                                      ELSE NotCancelled]]
    /\ UNCHANGED <<booking, walk, slot, now, refunds, told>>

WriteConfirm(r) ==
    /\ req[r].pc = "write"
    /\ req[r].op = "confirm"
    /\ SetStatus(req[r].booking, "confirmed")
    /\ Goto(r, "finish")
    /\ UNCHANGED <<walk, slot, now, refunds, told>>

(* Mutant of WriteStart: the walks row is left to another statement.       *)
WriteStartStatusOnly(r) ==
    /\ req[r].pc = "write"
    /\ req[r].op = "start"
    /\ SetStatus(req[r].booking, "in_progress")
    /\ Goto(r, "finish")
    /\ UNCHANGED <<walk, slot, now, refunds, told>>

(* One transaction: the status and, for a walking booking, the walks row   *)
(* unless it is already there (ON CONFLICT DO NOTHING).                    *)
WriteStart(r) ==
    LET b == req[r].booking IN
    /\ req[r].pc = "write"
    /\ req[r].op = "start"
    /\ SetStatus(b, "in_progress")
    /\ walk' = IF booking[b].service \in Walking /\ walk[b] = "none"
               THEN [walk EXCEPT ![b] = "running"]
               ELSE walk
    /\ Goto(r, "finish")
    /\ UNCHANGED <<slot, now, refunds, told>>

(* Mutant of WriteEnd: the walk is not ended.                              *)
WriteEndStatusOnly(r) ==
    /\ req[r].pc = "write"
    /\ req[r].op = "end"
    /\ SetStatus(req[r].booking, "completed")
    /\ Goto(r, "finish")
    /\ UNCHANGED <<walk, slot, now, refunds, told>>

(* One transaction: the status and, where a walks row exists, endedAt.     *)
WriteEnd(r) ==
    LET b == req[r].booking IN
    /\ req[r].pc = "write"
    /\ req[r].op = "end"
    /\ SetStatus(b, "completed")
    /\ walk' = IF booking[b].service \in Walking /\ walk[b] # "none"
               THEN [walk EXCEPT ![b] = "ended"]
               ELSE walk
    /\ Goto(r, "finish")
    /\ UNCHANGED <<slot, now, refunds, told>>

(* Mutant of WriteCancel: the slot is not released.                        *)
WriteCancelKeepsSlot(r) ==
    LET b == req[r].booking IN
    /\ req[r].pc = "write"
    /\ req[r].op = "cancel"
    /\ booking' = [booking EXCEPT ![b] = [@ EXCEPT !.status = "cancelled",
                                                   !.cancellation = req[r].outcome]]
    /\ Goto(r, "finish")
    /\ UNCHANGED <<walk, slot, now, refunds, told>>

WriteCancel(r) ==
    LET b == req[r].booking IN
    /\ req[r].pc = "write"
    /\ req[r].op = "cancel"
    /\ booking' = [booking EXCEPT ![b] = [@ EXCEPT !.status = "cancelled",
                                                   !.cancellation = req[r].outcome]]
    /\ Goto(r, "release")
    /\ UNCHANGED <<walk, slot, now, refunds, told>>

(* Mutants of ReleaseSlot: bookingId is not reset; every booked slot is    *)
(* reopened.                                                               *)
ReleaseSlotKeepsHolder(r) ==
    /\ req[r].pc = "release"
    /\ slot' = [k \in SlotKey |-> IF slot[k].booking = req[r].booking
                                  THEN [slot[k] EXCEPT !.status = "open"]
                                  ELSE slot[k]]
    /\ Goto(r, "finish")
    /\ UNCHANGED <<booking, walk, now, refunds, told>>

ReleaseSlotOfAnyBooking(r) ==
    /\ req[r].pc = "release"
    /\ slot' = [k \in SlotKey |-> [status |-> "open", booking |-> NoBooking]]
    /\ Goto(r, "finish")
    /\ UNCHANGED <<booking, walk, now, refunds, told>>

(* A statement of its own reopens whatever slot the booking still holds.   *)
ReleaseSlot(r) ==
    /\ req[r].pc = "release"
    /\ slot' = [k \in SlotKey |->
                  IF slot[k].status = "booked" /\ slot[k].booking = req[r].booking
                  THEN [status |-> "open", booking |-> NoBooking]
                  ELSE slot[k]]
    /\ Goto(r, "finish")
    /\ UNCHANGED <<booking, walk, now, refunds, told>>

(* Mutant of Finish: no refund call at all.                                 *)
FinishRefundsNothing(r) ==
    /\ req[r].pc = "finish"
    /\ Answer(r)
    /\ UNCHANGED <<booking, walk, slot, now, refunds, told>>

(* The synchronous tail of every handler: hand the refund to the payments  *)
(* service and the notification to the notifications service, then answer. *)
Finish(r) ==
    /\ req[r].pc = "finish"
    /\ refunds' = IF req[r].op = "cancel" /\ req[r].outcome.refund > 0
                  THEN refunds \cup {[booking |-> req[r].booking,
                                      cents |-> req[r].outcome.refund]}
                  ELSE refunds
    /\ told' = [told EXCEPT ![req[r].booking] = [to |-> Recipient(req[r].op, req[r].caller),
                                                 status |-> StatusAfter(req[r].op)]]
    /\ Answer(r)
    /\ UNCHANGED <<booking, walk, slot, now>>

-----------------------------------------------------------------------------
(* The environment: a statement fails or the process dies between two      *)
(* steps of a handler, and what is committed stays; time passes.           *)

Abort(r) ==
    /\ MayAbort
    /\ req[r].pc # "idle"
    /\ Answer(r)
    /\ UNCHANGED <<booking, walk, slot, now, refunds, told>>

Tick ==
    /\ now < MaxNow
    /\ now' = now + 1
    /\ UNCHANGED <<booking, walk, slot, req, refunds, told>>

-----------------------------------------------------------------------------
(* Initially the slots are published and nothing is booked.                *)
Init ==
    /\ booking = [b \in Booking |-> NoRow]
    /\ walk = [b \in Booking |-> "none"]
    /\ slot = [k \in SlotKey |-> [status |-> "open", booking |-> NoBooking]]
    /\ req = [r \in Request |-> Idle]
    /\ now = 0
    /\ refunds = {}
    /\ told = [b \in Booking |-> [to |-> "nobody", status |-> "none"]]

Create(r) == CreateCheck(r) \/ CreateSelect(r) \/ CreateInsert(r)

Transition(r) == \/ ReadAndJudge(r)
                 \/ WriteConfirm(r)
                 \/ WriteStart(r)
                 \/ WriteEnd(r)
                 \/ WriteCancel(r)
                 \/ ReleaseSlot(r)

Next == (\E r \in Request : Create(r) \/ Transition(r) \/ Finish(r) \/ Abort(r)) \/ Tick

Spec == Init /\ [][Next]_vars

(* A statement sent to the database is answered and the event loop runs    *)
(* the continuation, so a handler under way goes on; nobody has to issue a *)
(* request, and nothing has to fail.                                       *)
Step(r) == \/ CreateSelect(r) \/ CreateInsert(r)
           \/ WriteConfirm(r) \/ WriteStart(r) \/ WriteEnd(r) \/ WriteCancel(r)
           \/ ReleaseSlot(r) \/ Finish(r)

FairSpec == Spec /\ \A r \in Request : WF_vars(Step(r))

-----------------------------------------------------------------------------
(* The rows of money columns the cancellation policy knows.                *)
PolicyOutcome ==
    {NotCancelled,
     [by |-> "owner", refund |-> Price, appFee |-> 0, providerFee |-> 0],
     [by |-> "owner", refund |-> 0, appFee |-> FifteenPercent(Price), providerFee |-> 0],
     [by |-> "provider", refund |-> Price, appFee |-> 0,
      providerFee |-> FifteenPercent(Price)]}

(* What holds however requests interleave and wherever a handler dies.     *)

(* A walking booking that is under way or over has its walks row, and the  *)
(* walk of a completed one is ended: start and end write both tables in    *)
(* one transaction, so no race and no crash separates them.                *)
WalkBacksStatus ==
    \A b \in Booking : booking[b].service \in Walking =>
        /\ booking[b].status \in {"in_progress", "completed"} => walk[b] # "none"
        /\ booking[b].status = "completed" => walk[b] = "ended"

(* A slot is booked exactly when it names a booking, and that booking was  *)
(* made for this very offering and start time; so a booking never holds    *)
(* two slots, even when two creates fight over one.                        *)
SlotHolderMatches ==
    \A k \in SlotKey :
        /\ slot[k].status = "booked" <=> slot[k].booking # NoBooking
        /\ slot[k].booking # NoBooking =>
              /\ Exists(slot[k].booking)
              /\ <<booking[slot[k].booking].service, booking[slot[k].booking].start>> = k

(* Whatever happened to a booking since, the money columns it carries are  *)
(* an outcome of the policy, a cancelled booking has one, and an owner was *)
(* denied the refund only when the start was less than LateWindow away.    *)
CancellationIsPolicy ==
    \A b \in Booking : LET c == booking[b].cancellation IN
        /\ c \in PolicyOutcome
        /\ booking[b].status = "cancelled" => c.by # "nobody"
        /\ c.by # "nobody" => Exists(b)
        /\ c.by = "owner" /\ c.refund # Price => booking[b].start - now < LateWindow

(* No refund leaves the service for a booking that nobody cancelled, and   *)
(* none for another amount than its full price.                            *)
RefundsAreBacked ==
    \A x \in refunds : booking[x.booking].cancellation.by # "nobody" /\ x.cents = Price

(* A slot is reopened only after the cancellation of its holder was        *)
(* written, so it is never offered again under a booking nobody cancelled. *)
ReopenedAfterCancellation ==
    [][\A k \in SlotKey :
          slot[k].status = "booked" /\ slot'[k].status = "open"
             => booking[slot[k].booking].cancellation.by # "nobody"]_slot

(* A notification never runs ahead of the tables: whatever handlers race   *)
(* or die, a booking said to have moved on is not pending, one said to be  *)
(* cancelled has its cancellation on record, and the walk of one said to   *)
(* be under way or over has begun or ended.                                *)
ToldIsWritten ==
    \A b \in Booking :
        /\ told[b].status # "none" => Exists(b)
        /\ told[b].status \notin {"none", "pending"} => booking[b].status # "pending"
        /\ told[b].status = "cancelled" => booking[b].cancellation.by # "nobody"
        /\ booking[b].service \in Walking =>
              /\ told[b].status = "in_progress" => walk[b] # "none"
              /\ told[b].status = "completed" => walk[b] = "ended"

(* A change of status the table of transitions does not know is the work   *)
(* of a handler that read the row before it got its present status: no     *)
(* call that reads a booking as it is now moves it out of the lifecycle.   *)
LegalUnlessStale ==
    [][\A b \in Booking :
          LET old == booking[b].status
              new == booking'[b].status
          IN  new # old =>
                \/ old = "none" /\ new = "pending"
                \/ \E op \in BookingAction : old \in From[op] /\ new = To[op]
                \/ \E r \in Request : /\ req[r].pc = "write" /\ req[r].booking = b
                                      /\ req[r].read # old]_booking

(* What a handler carries between its steps is still true of the tables    *)
(* when it acts on it: the ground the invariants above stand on.           *)
Sound(h) ==
    /\ h.pc \in {"select", "insert"} => h.op = "create" /\ h.start \in Start
    /\ h.pc \in {"write", "release"} => h.op \in BookingAction
    /\ h.pc = "write" => h.read \in From[h.op]
    /\ h.pc = "release" => h.op = "cancel"
    /\ h.pc \in {"write", "release", "finish"} =>
          h.booking \in Booking /\ Exists(h.booking)
    /\ h.pc = "write" /\ h.op = "end" /\ booking[h.booking].service \in Walking =>
          walk[h.booking] # "none"
    /\ h.pc \in {"release", "finish"} /\ h.op # "create" =>
          booking[h.booking].status # "pending"
    /\ h.pc = "finish" /\ booking[h.booking].service \in Walking =>
          /\ h.op = "start" => walk[h.booking] # "none"
          /\ h.op = "end" => walk[h.booking] = "ended"
    /\ h.pc # "idle" /\ h.op = "cancel" =>
          /\ h.outcome \in PolicyOutcome \ {NotCancelled}
          /\ h.outcome.by = "owner" /\ h.outcome.refund # Price =>
                booking[h.booking].start - now < LateWindow
          /\ h.pc # "write" => booking[h.booking].cancellation.by # "nobody"

HandlersAreSound == \A r \in Request : Sound(req[r])

IInv ==
    /\ TypeOK
    /\ WalkBacksStatus
    /\ SlotHolderMatches
    /\ CancellationIsPolicy
    /\ RefundsAreBacked
    /\ ToldIsWritten
    /\ HandlersAreSound

-----------------------------------------------------------------------------
(* What holds as long as requests do not overlap (one handler at a time).  *)

(* hasOverlap's promise: two bookings that are not cancelled never share a *)
(* moment of the provider's time.                                          *)
NoDoubleBooking ==
    \A b, c \in Booking : b # c /\ Live(b) /\ Live(c) =>
        ~Intersects(booking[b].start, booking[b].duration,
                    booking[c].start, booking[c].duration)

(* A slot-mode booking that is not cancelled holds the slot it was made    *)
(* for, so nobody else is offered it.                                      *)
LiveHoldsSlot ==
    \A b \in Booking : Live(b) /\ booking[b].service \in SlotMode =>
        \E k \in SlotKey : /\ k = <<booking[b].service, booking[b].start>>
                           /\ slot[k] = [status |-> "booked", booking |-> b]

(* The walk is where the status says: it runs only while the booking is in *)
(* progress (or was cancelled meanwhile) and is over only after end.       *)
WalkFollowsStatus ==
    \A b \in Booking :
        /\ walk[b] = "running" => booking[b].status \in {"in_progress", "cancelled"}
        /\ walk[b] = "ended" => booking[b].status = "completed"

(* The money columns are filled for cancelled bookings and for no other.   *)
CancellationIffCancelled ==
    \A b \in Booking :
        booking[b].cancellation.by # "nobody" <=> booking[b].status = "cancelled"

(* The handlers implement the lifecycle the rest of the system relies on.  *)
Lifecycle == INSTANCE BookingLifecycle
                 WITH status <- [b \in Booking |-> booking[b].status]

ImplementsLifecycle == Lifecycle!Spec

(* A notification never runs ahead of the table: what was last said about  *)
(* a booking is a status it reached, and it was said to the other side.    *)
ToldWhatHappened ==
    \A b \in Booking : told[b].status # "none" =>
        /\ booking[b].status \in Since(told[b].status)
        /\ told[b].to = "provider" <=>
              \/ told[b].status = "pending"
              \/ told[b].status = "cancelled" /\ booking[b].cancellation.by = "owner"

(* The documented claim on slots alone: no two bookings that are not       *)
(* cancelled were made for the same slot.                                  *)
SlotReservedOnce ==
    \A b, c \in Booking :
        /\ b # c /\ Live(b) /\ Live(c)
        /\ booking[b].service = booking[c].service /\ booking[b].service \in SlotMode
        => booking[b].start # booking[c].start

-----------------------------------------------------------------------------
(* What holds as long as no handler dies half-way.                         *)

(* A slot does not stay with a cancelled booking.                          *)
CancelledFreesSlot ==
    \A k \in SlotKey, b \in Booking :
        slot[k].booking = b /\ booking[b].status = "cancelled" ~> slot[k].booking # b

(* A cancellation that owes the owner money leads to a refund call.        *)
OwedRefundIssued ==
    \A b \in Booking :
        booking[b].status = "cancelled" /\ booking[b].cancellation.refund > 0
           ~> [booking |-> b, cents |-> Price] \in refunds

=============================================================================
