---------------------------- MODULE BookingPolicy ----------------------------
(***************************************************************************)
(* The pure rules of a booking: the transition table of                    *)
(* bookings/state-machine.ts and the cancellation policy of                *)
(* bookings/cancellation-policy.ts.  No state; the modules of the booking  *)
(* handlers and of the payments extend this one.                           *)
(***************************************************************************)
EXTENDS Integers

Status == {"pending", "confirmed", "in_progress", "completed", "cancelled"}

(* A status that tryTransition lets no action leave.                       *)
Terminal == {"completed", "cancelled"}

Role == {"owner", "provider"}

BookingAction == {"confirm", "start", "end", "cancel"}

(* Mutants of From: a cancelled booking may be confirmed; a booking may be  *)
(* ended without having been started.                                       *)
FromRevives == [confirm |-> {"pending", "cancelled"}, start |-> {"confirmed"},
                end |-> {"in_progress"}, cancel |-> Status \ Terminal]

FromSkipsStart == [confirm |-> {"pending"}, start |-> {"confirmed"},
                   end |-> {"confirmed", "in_progress"}, cancel |-> Status \ Terminal]

(* The statuses each action accepts and the status it leads to.            *)
From == [confirm |-> {"pending"},
         start   |-> {"confirmed"},
         end     |-> {"in_progress"},
         cancel  |-> Status \ Terminal]

(* Mutant of To: a status the enum does not know.                          *)
ToMisspelt == [confirm |-> "confirmed", start |-> "in_progress", end |-> "complete",
               cancel |-> "cancelled"]

To == [confirm |-> "confirmed",
       start   |-> "in_progress",
       end     |-> "completed",
       cancel  |-> "cancelled"]

(* Only the provider confirms, starts and ends; either side cancels.       *)
Authorized(action, caller) == action = "cancel" \/ caller = "provider"

(* Mutant of TryTransition: only the role is checked.                      *)
TryTransitionByRole(current, action, caller) == Authorized(action, caller)

(* tryTransition answers ok.  A refusal (403 or 409) has no effect, so the *)
(* handlers only need to know whether the call goes on.                    *)
TryTransition(current, action, caller) ==
    /\ Authorized(action, caller)
    /\ current \in From[action]

-----------------------------------------------------------------------------
(* Cancellation policy: amounts in cents, times in the clock's unit.       *)

(* Math.round(cents * 0.15) for a natural number of cents.                 *)
FifteenPercent(cents) == (cents * 15 + 50) \div 100

(* Mutant of CancellationOutcome: the late-cancellation test reversed.      *)
CancellationOutcomeReversed(price, start, now, lateWindow, by) ==
    [by |-> by,
     refund |-> IF by = "provider" \/ start - now < lateWindow THEN price ELSE 0,
     appFee |-> IF by = "owner" /\ start - now >= lateWindow
                THEN FifteenPercent(price) ELSE 0,
     providerFee |-> IF by = "provider" THEN FifteenPercent(price) ELSE 0]

(* What a cancellation by `by` at time `now` moves, for a booking of price *)
(* `price` that begins at `start`; `lateWindow` is LATE_CANCEL_HOURS.      *)
CancellationOutcome(price, start, now, lateWindow, by) ==
    IF by = "provider"
    THEN [by |-> by, refund |-> price, appFee |-> 0,
          providerFee |-> FifteenPercent(price)]
    ELSE IF start - now >= lateWindow
    THEN [by |-> by, refund |-> price, appFee |-> 0, providerFee |-> 0]
    ELSE [by |-> by, refund |-> 0, appFee |-> FifteenPercent(price),
          providerFee |-> 0]

(* The columns of a booking nobody has cancelled.                          *)
NotCancelled == [by |-> "nobody", refund |-> 0, appFee |-> 0, providerFee |-> 0]

=============================================================================
