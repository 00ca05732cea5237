--------------------------- MODULE BookingLifecycle ---------------------------
(***************************************************************************)
(* What the booking component promises to everybody else: each booking     *)
(* goes pending -> confirmed -> in_progress -> completed, may be cancelled *)
(* until it is completed, and never leaves a terminal status.  One         *)
(* variable and one action; the detailed handlers are shown to implement   *)
(* it when requests do not overlap.                                        *)
(***************************************************************************)
EXTENDS BookingPolicy

CONSTANT Booking

VARIABLE status    \* status[b] is "none" until the row of b exists

Init == status = [b \in Booking |-> "none"]

Book(b) ==
    /\ status[b] = "none"
    /\ status' = [status EXCEPT ![b] = "pending"]

Advance(b, action) ==
    /\ status[b] \in From[action]
    /\ status' = [status EXCEPT ![b] = To[action]]

Next == \E b \in Booking : Book(b) \/ \E action \in BookingAction : Advance(b, action)

Spec == Init /\ [][Next]_status

=============================================================================
