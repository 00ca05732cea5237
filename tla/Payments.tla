------------------------------- MODULE Payments -------------------------------
(***************************************************************************)
(* PaymentsService of the backend with Stripe around it.                   *)
(*                                                                         *)
(* The payments table is what the users see, Stripe is where money moves,  *)
(* and webhooks reconcile the two.  Of a booking there is its status and   *)
(* whether its cancellation columns were written; the handlers of owners   *)
(* and providers judge the status they read and write by id later, as in   *)
(* Bookings, so they may write over a status somebody else has changed.    *)
(*                                                                         *)
(* The handlers interleave at every await.  Stripe delivers an event until *)
(* it is answered 200, in any order, and again when the answer is lost.    *)
(* Left out: onboarding (the provider is onboarded), saved cards, reports, *)
(* and the cancellation of a series, which hands over no refund.           *)
(***************************************************************************)
EXTENDS BookingPolicy, FiniteSets

CONSTANTS
    Booking,       \* ids of bookings, all of the same price
    Writer,        \* confirm, start, end and cancel requests that may be in flight
    Intent,        \* ids of payment intents Stripe can mint
    PayRequest,    \* createIntentForBooking calls that may be in flight
    Hook,          \* webhook deliveries that may be in flight
    Call,          \* refundForCancelledBooking calls that may be in flight
    NoId,          \* where a booking, an intent or an event is absent
    Price,         \* priceCents, in units of the smallest partial refund
    MaxRestarts,   \* bound on the restarts of the process
    MayFail,       \* whether a statement of a webhook handler may fail
    Reconfirm,     \* whether a declined intent may be paid after all
    Partial        \* whether support refunds parts by hand

ASSUME IdAssumption == NoId \notin Booking \cup Intent

ASSUME IntentAssumption == IsFiniteSet(Intent)

ASSUME AmountAssumption == Price \in Nat \ {0} /\ MaxRestarts \in Nat

ASSUME ScenarioAssumption == {MayFail, Reconfirm, Partial} \subseteq BOOLEAN

VARIABLES
    status,     \* the status column of the bookings table
    cancelled,  \* bookings whose cancellation columns are written
    writer,     \* handlers of confirm, start, end and cancel
    payment,    \* the payments table, by its unique intent id
    stripe,     \* Stripe: payment intents and what was refunded
    outbox,     \* Stripe: events not yet answered 200
    seen,       \* seenEventIds, in memory
    pay,        \* createIntentForBooking calls
    hook,       \* webhook handlers
    call,       \* refundForCancelledBooking calls
    restarts    \* how often the process died

bookingVars == <<status, cancelled, writer>>

vars == <<bookingVars, payment, stripe, outbox, seen, pay, hook, call, restarts>>

Lifecycle == INSTANCE BookingLifecycle

-----------------------------------------------------------------------------
(* Types.                                                                  *)

Cents == 0..Price

Payment == [status : {"none", "requires_action", "succeeded", "failed", "refunded"},
            booking : Booking \cup {NoId}, charge : BOOLEAN, refunded : Cents,
            created : 0..Cardinality(Intent)]

Account == [status : {"none", "open", "declined", "captured"}, refunded : Cents]

Event == [type : {"succeeded", "failed", "refunded"}, intent : Intent, cents : Cents]

WriterState == [pc : {"idle", "write", "release"}, booking : Booking \cup {NoId},
                action : BookingAction]

PayState == [pc : {"idle", "lookup", "mint", "insert"}, booking : Booking \cup {NoId},
             intent : Intent \cup {NoId}]

HookState == [pc : {"idle"}, event : {NoId}] \cup [pc : {"apply", "confirm"}, event : Event]

CallState == [pc : {"idle", "read", "issue"}, booking : Booking \cup {NoId},
              intent : Intent \cup {NoId}, cents : Cents]

TypeOK ==
    /\ status \in [Booking -> Status \cup {"none"}]
    /\ cancelled \subseteq Booking
    /\ writer \in [Writer -> WriterState]
    /\ payment \in [Intent -> Payment]
    /\ stripe \in [Intent -> Account]
    /\ outbox \subseteq Event
    /\ seen \subseteq Event
    /\ pay \in [PayRequest -> PayState]
    /\ hook \in [Hook -> HookState]
    /\ call \in [Call -> CallState]
    /\ restarts \in 0..MaxRestarts

-----------------------------------------------------------------------------
(* Helpers.                                                                *)

NoPayment == [status |-> "none", booking |-> NoId, charge |-> FALSE, refunded |-> 0,
              created |-> 0]

NoWriter == [pc |-> "idle", booking |-> NoId, action |-> "confirm"]

NoPay == [pc |-> "idle", booking |-> NoId, intent |-> NoId]

NoHook == [pc |-> "idle", event |-> NoId]

NoCall == [pc |-> "idle", booking |-> NoId, intent |-> NoId, cents |-> 0]

Rows(b) == {i \in Intent : payment[i].status # "none" /\ payment[i].booking = b}

(* ORDER BY created_at DESC, first row.                                    *)
Latest(b) == CHOOSE i \in Rows(b) : \A j \in Rows(b) : payment[j].created <= payment[i].created

(* Mutant of Reusable: an intent that was paid is not reused.              *)
ReusableUnpaid(b) == /\ Rows(b) # {}
                     /\ payment[Latest(b)].status = "requires_action"

(* The latest intent of the booking is still usable, or already paid.      *)
Reusable(b) == /\ Rows(b) # {}
               /\ payment[Latest(b)].status \in {"requires_action", "succeeded"}

Emit(type, i, cents) ==
    outbox' = outbox \cup {[type |-> type, intent |-> i, cents |-> cents]}

(* Answer 200: Stripe forgets the event unless the answer gets lost.       *)
Acknowledge(e) == outbox' = outbox \/ outbox' = outbox \ {e}

Done(h) ==
    /\ hook' = [hook EXCEPT ![h] = NoHook]
    /\ Acknowledge(hook[h].event)

-----------------------------------------------------------------------------
(* Bookings, as far as payments can tell.                                  *)

Create ==
    /\ \E b \in Booking : Lifecycle!Book(b)
    /\ UNCHANGED <<cancelled, writer, payment, stripe, outbox, seen, pay, hook, call, restarts>>

(* A handler reads the row and finds its action legal ...                  *)
Judge(w) ==
    /\ writer[w].pc = "idle"
    /\ \E b \in Booking, action \in BookingAction :
          /\ status[b] \in From[action]
          /\ writer' = [writer EXCEPT ![w] = [pc |-> "write", booking |-> b, action |-> action]]
    /\ UNCHANGED <<status, cancelled, payment, stripe, outbox, seen, pay, hook, call, restarts>>

(* ... and writes the next status by id, whatever the status is by then.   *)
WriteStatus(w) ==
    LET b == writer[w].booking
        action == writer[w].action
    IN
    /\ writer[w].pc = "write"
    /\ status' = [status EXCEPT ![b] = To[action]]
    /\ cancelled' = cancelled \cup {x \in {b} : action = "cancel"}
    /\ writer' = [writer EXCEPT ![w] = IF action = "cancel" THEN [@ EXCEPT !.pc = "release"]
                                                            ELSE NoWriter]
    /\ UNCHANGED <<payment, stripe, outbox, seen, pay, hook, call, restarts>>

(* A cancellation that owes the owner money leaves a refund call behind    *)
(* once the slot is released; one that owes nothing, or fails to release   *)
(* the slot, leaves none.                                                  *)
HandOver(w) ==
    /\ writer[w].pc = "release"
    /\ writer' = [writer EXCEPT ![w] = NoWriter]
    /\ \/ UNCHANGED call
       \/ \E c \in Call :
             /\ call[c].pc = "idle"
             /\ call' = [call EXCEPT ![c] = [NoCall EXCEPT !.pc = "read",
                                                          !.booking = writer[w].booking]]
    /\ UNCHANGED <<status, cancelled, payment, stripe, outbox, seen, pay, hook, restarts>>

-----------------------------------------------------------------------------
(* createIntentForBooking: read the booking, look for a payment to reuse,  *)
(* have Stripe mint an intent, insert its row and hand out the secret.     *)
(* Bound: a call begins, and goes on, only while there is an intent left.  *)

PayRead(r) ==
    /\ pay[r].pc = "idle"
    /\ \E i \in Intent : stripe[i].status = "none"
    /\ \E b \in Booking :
          /\ status[b] \notin {"none", "cancelled"}
          /\ pay' = [pay EXCEPT ![r] = [NoPay EXCEPT !.pc = "lookup", !.booking = b]]
    /\ UNCHANGED <<bookingVars, payment, stripe, outbox, seen, hook, call, restarts>>

PayLookup(r) ==
    /\ pay[r].pc = "lookup"
    /\ pay' = [pay EXCEPT ![r] = IF Reusable(@.booking)
                                 THEN NoPay
                                 ELSE [@ EXCEPT !.pc = "mint"]]
    /\ UNCHANGED <<bookingVars, payment, stripe, outbox, seen, hook, call, restarts>>

PayMint(r) ==
    /\ pay[r].pc = "mint"
    /\ \E i \in Intent :
          /\ stripe[i].status = "none"
          /\ stripe' = [stripe EXCEPT ![i].status = "open"]
          /\ pay' = [pay EXCEPT ![r] = [@ EXCEPT !.pc = "insert", !.intent = i]]
    /\ UNCHANGED <<bookingVars, payment, outbox, seen, hook, call, restarts>>

PayInsert(r) ==
    /\ pay[r].pc = "insert"
    /\ payment' = [payment EXCEPT ![pay[r].intent] =
          [NoPayment EXCEPT !.status = "requires_action", !.booking = pay[r].booking,
                            !.created = Cardinality({i \in Intent :
                                                      payment[i].status # "none"})]]
    /\ pay' = [pay EXCEPT ![r] = NoPay]
    /\ UNCHANGED <<bookingVars, stripe, outbox, seen, hook, call, restarts>>

-----------------------------------------------------------------------------
(* The owner, who has the secret once the row is there, and the card.      *)

Capture(i) ==
    /\ payment[i].status # "none"
    /\ stripe[i].status = "open" \/ (Reconfirm /\ stripe[i].status = "declined")
    /\ stripe' = [stripe EXCEPT ![i].status = "captured"]
    /\ Emit("succeeded", i, 0)
    /\ UNCHANGED <<bookingVars, payment, seen, pay, hook, call, restarts>>

Decline(i) ==
    /\ payment[i].status # "none"
    /\ stripe[i].status = "open"
    /\ stripe' = [stripe EXCEPT ![i].status = "declined"]
    /\ Emit("failed", i, 0)
    /\ UNCHANGED <<bookingVars, payment, seen, pay, hook, call, restarts>>

(* Support refunds a part in Stripe's dashboard.                           *)
RefundPart(i) ==
    /\ Partial
    /\ stripe[i].status = "captured"
    /\ stripe[i].refunded < Price
    /\ stripe' = [stripe EXCEPT ![i].refunded = @ + 1]
    /\ Emit("refunded", i, stripe[i].refunded + 1)
    /\ UNCHANGED <<bookingVars, payment, seen, pay, hook, call, restarts>>

-----------------------------------------------------------------------------
(* Webhooks.  The id is remembered before the event is applied.            *)

Deliver(h, e) ==
    /\ hook[h].pc = "idle"
    /\ IF e \in seen
       THEN Acknowledge(e) /\ UNCHANGED <<seen, hook>>
       ELSE /\ seen' = seen \cup {e}
            /\ hook' = [hook EXCEPT ![h] = [pc |-> "apply", event |-> e]]
            /\ UNCHANGED outbox
    /\ UNCHANGED <<bookingVars, payment, stripe, pay, call, restarts>>

Applying(h, type) == hook[h].pc = "apply" /\ hook[h].event.type = type

(* Mutant of ApplyIntentSucceeded: answered before the booking is updated. *)
ApplyIntentSucceededEarlyAnswer(h) ==
    LET i == hook[h].event.intent IN
    /\ Applying(h, "succeeded")
    /\ payment' = [payment EXCEPT ![i] = [@ EXCEPT !.status = "succeeded", !.charge = TRUE]]
    /\ hook' = [hook EXCEPT ![h].pc = "confirm"]
    /\ Acknowledge(hook[h].event)
    /\ UNCHANGED <<bookingVars, stripe, seen, pay, call, restarts>>

(* First statement of payment_intent.succeeded; the row is always there,   *)
(* for the owner got the secret after it was inserted.                     *)
ApplyIntentSucceeded(h) ==
    LET i == hook[h].event.intent IN
    /\ Applying(h, "succeeded")
    /\ payment' = [payment EXCEPT ![i] = [@ EXCEPT !.status = "succeeded", !.charge = TRUE]]
    /\ hook' = [hook EXCEPT ![h].pc = "confirm"]
    /\ UNCHANGED <<bookingVars, stripe, outbox, seen, pay, call, restarts>>

(* Mutants of ConfirmPaid: without the WHERE on the status, and with a      *)
(* status the enum does not know.                                           *)
ConfirmPaidAnyStatus(h) ==
    /\ hook[h].pc = "confirm"
    /\ status' = [status EXCEPT ![payment[hook[h].event.intent].booking] = "confirmed"]
    /\ Done(h)
    /\ UNCHANGED <<cancelled, writer, payment, stripe, seen, pay, call, restarts>>

ConfirmPaidAsPaid(h) ==
    LET b == payment[hook[h].event.intent].booking IN
    /\ hook[h].pc = "confirm"
    /\ status' = IF status[b] = "pending" THEN [status EXCEPT ![b] = "paid"] ELSE status
    /\ Done(h)
    /\ UNCHANGED <<cancelled, writer, payment, stripe, seen, pay, call, restarts>>

(* Its second statement: UPDATE bookings ... WHERE status = 'pending'.     *)
ConfirmPaid(h) ==
    LET b == payment[hook[h].event.intent].booking IN
    /\ hook[h].pc = "confirm"
    /\ status' = IF status[b] = "pending" THEN [status EXCEPT ![b] = "confirmed"] ELSE status
    /\ Done(h)
    /\ UNCHANGED <<cancelled, writer, payment, stripe, seen, pay, call, restarts>>

ApplyIntentFailed(h) ==
    /\ Applying(h, "failed")
    /\ payment' = [payment EXCEPT ![hook[h].event.intent].status = "failed"]
    /\ Done(h)
    /\ UNCHANGED <<bookingVars, stripe, seen, pay, call, restarts>>

(* Mutants of ApplyChargeRefunded: the totals of the events are added up;   *)
(* only the status is written.                                              *)
ApplyChargeRefundedAddsUp(h) ==
    LET e == hook[h].event IN
    /\ Applying(h, "refunded")
    /\ payment' = IF payment[e.intent].charge
                  THEN [payment EXCEPT ![e.intent] =
                          [@ EXCEPT !.status = "refunded", !.refunded = @ + e.cents]]
                  ELSE payment
    /\ Done(h)
    /\ UNCHANGED <<bookingVars, stripe, seen, pay, call, restarts>>

ApplyChargeRefundedStatusOnly(h) ==
    LET e == hook[h].event IN
    /\ Applying(h, "refunded")
    /\ payment' = IF payment[e.intent].charge
                  THEN [payment EXCEPT ![e.intent].status = "refunded"]
                  ELSE payment
    /\ Done(h)
    /\ UNCHANGED <<bookingVars, stripe, seen, pay, call, restarts>>

(* The row is found by its charge, which only the succeeded event brings.  *)
ApplyChargeRefunded(h) ==
    LET e == hook[h].event IN
    /\ Applying(h, "refunded")
    /\ payment' = IF payment[e.intent].charge
                  THEN [payment EXCEPT ![e.intent] =
                          [@ EXCEPT !.status = "refunded", !.refunded = e.cents]]
                  ELSE payment
    /\ Done(h)
    /\ UNCHANGED <<bookingVars, stripe, seen, pay, call, restarts>>

(* A statement throws: Stripe gets a 500 and keeps the event, the id stays *)
(* in the set.                                                             *)
HookFails(h) ==
    /\ MayFail
    /\ hook[h].pc # "idle"
    /\ hook' = [hook EXCEPT ![h] = NoHook]
    /\ UNCHANGED <<bookingVars, payment, stripe, outbox, seen, pay, call, restarts>>

-----------------------------------------------------------------------------
(* refundForCancelledBooking: read a payment of the booking, in whatever   *)
(* order the table yields them, and ask Stripe for what is missing.        *)

(* Mutants of ReadPayment: the payment is not checked; what was already     *)
(* refunded is only subtracted.                                             *)
ReadPaymentUnchecked(c) ==
    /\ call[c].pc = "read"
    /\ \E i \in Rows(call[c].booking) :
          call' = [call EXCEPT ![c] = [@ EXCEPT !.pc = "issue", !.intent = i, !.cents = Price]]
    /\ UNCHANGED <<bookingVars, payment, stripe, outbox, seen, pay, hook, restarts>>

ReadPaymentOfNothingLeft(c) ==
    /\ call[c].pc = "read"
    /\ \E i \in Rows(call[c].booking) :
          call' = [call EXCEPT ![c] =
                IF payment[i].status = "succeeded" /\ payment[i].charge
                THEN [@ EXCEPT !.pc = "issue", !.intent = i,
                               !.cents = Price - payment[i].refunded]
                ELSE NoCall]
    /\ UNCHANGED <<bookingVars, payment, stripe, outbox, seen, pay, hook, restarts>>

ReadPayment(c) ==
    /\ call[c].pc = "read"
    /\ \/ /\ Rows(call[c].booking) = {}
          /\ call' = [call EXCEPT ![c] = NoCall]
       \/ \E i \in Rows(call[c].booking) :
             call' = [call EXCEPT ![c] =
                IF /\ payment[i].status = "succeeded"
                   /\ payment[i].charge
                   /\ payment[i].refunded < Price
                THEN [@ EXCEPT !.pc = "issue", !.intent = i,
                               !.cents = Price - payment[i].refunded]
                ELSE NoCall]
    /\ UNCHANGED <<bookingVars, payment, stripe, outbox, seen, pay, hook, restarts>>

(* Stripe refuses to refund more than is left of the charge; the caller    *)
(* drops the error.                                                        *)
IssueRefund(c) ==
    LET i == call[c].intent
        total == stripe[i].refunded + call[c].cents
    IN
    /\ call[c].pc = "issue"
    /\ IF total <= Price
       THEN stripe' = [stripe EXCEPT ![i].refunded = total] /\ Emit("refunded", i, total)
       ELSE UNCHANGED <<stripe, outbox>>
    /\ call' = [call EXCEPT ![c] = NoCall]
    /\ UNCHANGED <<bookingVars, payment, seen, pay, hook, restarts>>

-----------------------------------------------------------------------------
(* Mutant of Restart: the ids of the events seen outlive the process, while *)
(* the work on them does not.                                               *)
RestartRemembers ==
    /\ restarts < MaxRestarts
    /\ restarts' = restarts + 1
    /\ pay' = [r \in PayRequest |-> NoPay]
    /\ hook' = [h \in Hook |-> NoHook]
    /\ call' = [c \in Call |-> NoCall]
    /\ writer' = [w \in Writer |-> NoWriter]
    /\ UNCHANGED <<status, cancelled, payment, stripe, outbox, seen>>

(* The process dies: what is in memory is gone, the tables and Stripe stay. *)
Restart ==
    /\ restarts < MaxRestarts
    /\ restarts' = restarts + 1
    /\ seen' = {}
    /\ pay' = [r \in PayRequest |-> NoPay]
    /\ hook' = [h \in Hook |-> NoHook]
    /\ call' = [c \in Call |-> NoCall]
    /\ writer' = [w \in Writer |-> NoWriter]
    /\ UNCHANGED <<status, cancelled, payment, stripe, outbox>>

-----------------------------------------------------------------------------
Init ==
    /\ Lifecycle!Init
    /\ cancelled = {}
    /\ writer = [w \in Writer |-> NoWriter]
    /\ payment = [i \in Intent |-> NoPayment]
    /\ stripe = [i \in Intent |-> [status |-> "none", refunded |-> 0]]
    /\ outbox = {}
    /\ seen = {}
    /\ pay = [r \in PayRequest |-> NoPay]
    /\ hook = [h \in Hook |-> NoHook]
    /\ call = [c \in Call |-> NoCall]
    /\ restarts = 0

Paying(r) == PayLookup(r) \/ PayMint(r) \/ PayInsert(r)

Handling(h) == \/ ApplyIntentSucceeded(h)
               \/ ConfirmPaid(h)
               \/ ApplyIntentFailed(h)
               \/ ApplyChargeRefunded(h)

Refunding(c) == ReadPayment(c) \/ IssueRefund(c)

Next ==
    \/ Create
    \/ \E w \in Writer : Judge(w) \/ WriteStatus(w) \/ HandOver(w)
    \/ \E r \in PayRequest : PayRead(r) \/ Paying(r)
    \/ \E i \in Intent : Capture(i) \/ Decline(i) \/ RefundPart(i)
    \/ \E h \in Hook, e \in outbox : Deliver(h, e)
    \/ \E h \in Hook : Handling(h) \/ HookFails(h)
    \/ \E c \in Call : Refunding(c)
    \/ Restart

Spec == Init /\ [][Next]_vars

(* Handlers under way go on, and Stripe keeps delivering each event that   *)
(* was not answered.                                                       *)
FairSpec ==
    /\ Spec
    /\ \A r \in PayRequest : WF_vars(Paying(r))
    /\ \A h \in Hook : WF_vars(Handling(h))
    /\ \A c \in Call : WF_vars(Refunding(c))
    /\ \A e \in Event : WF_vars(e \in outbox /\ \E h \in Hook : Deliver(h, e))

-----------------------------------------------------------------------------
(* What holds in every scenario.                                           *)

(* The payments table never runs ahead of Stripe: a charge it knows was    *)
(* captured, and it shows no refund Stripe did not make, in whatever order *)
(* and however often events arrive.                                        *)
LedgerBacked ==
    \A i \in Intent :
        /\ payment[i].status = "succeeded" => payment[i].charge
        /\ payment[i].status = "refunded" => payment[i].charge /\ payment[i].refunded > 0
        /\ payment[i].charge => stripe[i].status = "captured"
        /\ payment[i].refunded <= stripe[i].refunded

(* The service asks for a refund only of a captured charge, and of the     *)
(* very booking whose cancellation was written; a late write may have      *)
(* moved that booking on since.                                            *)
RefundsAreOwed ==
    \A c \in Call : call[c].pc = "issue" =>
        /\ stripe[call[c].intent].status = "captured"
        /\ payment[call[c].intent].booking = call[c].booking
        /\ call[c].booking \in cancelled

(* A row is one of a booking that exists and of an intent Stripe minted,   *)
(* and nobody pays an intent that has no row.                              *)
RowsAreReal ==
    \A i \in Intent :
        IF payment[i].status = "none"
        THEN payment[i] = NoPayment /\ stripe[i].status \in {"none", "open"}
        ELSE /\ payment[i].booking \in Booking
             /\ status[payment[i].booking] # "none"
             /\ stripe[i].status # "none"

(* What an event tells is so, however late it is applied.                  *)
Truthful(e) ==
    /\ payment[e.intent].status # "none"
    /\ e.type = "succeeded" => stripe[e.intent].status = "captured"
    /\ e.type = "refunded" => e.cents \in 1..stripe[e.intent].refunded

(* What handlers and calls in flight go by is still so when they act on    *)
(* it, however long ago they read it: a minted intent is still open and    *)
(* without a row, an event tells the truth, and a refund call is about a   *)
(* booking whose cancellation was written and asks for something.          *)
PaySound(r) == pay[r].pc # "idle" =>
    /\ pay[r].booking \in Booking
    /\ status[pay[r].booking] # "none"
    /\ pay[r].pc = "insert" =>
          /\ pay[r].intent \in Intent
          /\ stripe[pay[r].intent].status = "open"
          /\ payment[pay[r].intent].status = "none"

HookSound(h) == hook[h].pc # "idle" =>
    /\ Truthful(hook[h].event)
    /\ hook[h].pc = "confirm" => hook[h].event.type = "succeeded"

CallSound(c) == call[c].pc # "idle" =>
    /\ call[c].booking \in cancelled
    /\ call[c].pc = "issue" =>
          /\ call[c].intent \in Intent
          /\ payment[call[c].intent].status # "none"
          /\ call[c].cents > 0

InFlightIsSound ==
    /\ \A r \in PayRequest : PaySound(r)
    /\ \A e \in outbox : Truthful(e)
    /\ \A h \in Hook : HookSound(h)
    /\ \A c \in Call : CallSound(c)

(* A handler that judged a booking is about one that exists, and has       *)
(* written its cancellation before it releases the slot.                   *)
WriterSound(w) == writer[w].pc # "idle" =>
    /\ writer[w].booking \in Booking
    /\ status[writer[w].booking] # "none"
    /\ writer[w].pc = "release" => writer[w].booking \in cancelled

(* Two calls never insert a row for one intent.                            *)
InsertsApart ==
    \A q, r \in PayRequest :
        pay[q].pc = "insert" /\ pay[r].pc = "insert" /\ pay[q].intent = pay[r].intent => q = r

IInv ==
    /\ TypeOK
    /\ RowsAreReal
    /\ InFlightIsSound
    /\ InsertsApart
    /\ \A w \in Writer : WriterSound(w)
    /\ LedgerBacked
    /\ RefundsAreOwed

(* Webhooks and payment calls move bookings along the lifecycle only: the  *)
(* confirmation a webhook writes neither revives a cancelled booking nor   *)
(* moves one back that is under way, however late it comes.  Only a write  *)
(* by id of a booking handler may leave the lifecycle.                     *)
WebhooksKeepLifecycle == [][(\E w \in Writer : WriteStatus(w)) \/ Lifecycle!Next]_status

-----------------------------------------------------------------------------
(* Money that was taken.                                                   *)

SucceededEvent(i) == [type |-> "succeeded", intent |-> i, cents |-> 0]

BeingApplied(e) == \E h \in Hook : hook[h].pc # "idle" /\ hook[h].event = e

(* The table knows the charge and the booking is no longer pending.        *)
Booked(i) == payment[i].charge /\ status[payment[i].booking] # "pending"

(* The event will still be applied, by a handler under way or because      *)
(* Stripe delivers it to a process that has not seen it.                   *)
ToBeApplied(e) == e \in outbox /\ (e \in seen => BeingApplied(e))

Remembered(i) == stripe[i].status = "captured" => Booked(i) \/ ToBeApplied(SucceededEvent(i))

(* Money taken is never forgotten, even when the process died between the  *)
(* two statements of the handler, while no statement fails and events are  *)
(* delivered one at a time.                                                *)
CaptureNotForgotten == \A i \in Intent : Remembered(i)

(* Without those provisos only two things can make the service forget a    *)
(* charge: a statement of the handler of its very event fails, or that     *)
(* event is repeated and answered while the handler is still at work.  The *)
(* death of the process, other events, refunds and whatever owners and     *)
(* providers do to the booking cannot.                                     *)
ForgottenOnlyBy ==
    [][\A i \in Intent : Remembered(i) /\ ~Remembered(i)' =>
          \E h \in Hook : \/ HookFails(h) /\ hook[h].event = SucceededEvent(i)
                          \/ Deliver(h, SucceededEvent(i)) /\ SucceededEvent(i) \in seen]_vars

(* A booking is never charged twice with nothing refunded, when there is a *)
(* single createIntentForBooking call at a time and no declined intent is  *)
(* paid after all.  (A call that read the booking before its cancellation  *)
(* may still charge it again after the refund, and so may one that finds a *)
(* payment of which support refunded a part.)                              *)
Kept(i) == stripe[i].status = "captured" /\ stripe[i].refunded = 0

ChargedOnce ==
    \A i, j \in Intent :
        Kept(i) /\ Kept(j) /\ payment[i].booking = payment[j].booking => i = j

(* Money taken is booked: the payment is shown and the booking confirmed.  *)
CaptureIsBooked ==
    \A i \in Intent : stripe[i].status = "captured" ~> Booked(i)

(* A refund Stripe tells of once the charge is booked is shown at some     *)
(* time, across restarts.  One told of before matches no row, is answered  *)
(* 200 and is lost; and of two totals the smaller may be applied last.     *)
RefundIsBooked ==
    \A i \in Intent, total \in 1..Price :
        LET e == [type |-> "refunded", intent |-> i, cents |-> total] IN
        e \in outbox /\ e \notin seen /\ payment[i].charge ~> payment[i].refunded = total

(* The documented promise: a cancellation that owes the owner a refund     *)
(* gives back a payment that has succeeded.                                *)
PaidCancellationRefunded ==
    \A i \in Intent, c \in Call :
        /\ call[c].pc = "read"
        /\ payment[i].booking = call[c].booking
        /\ payment[i].status = "succeeded"
        ~> stripe[i].refunded = Price

=============================================================================
