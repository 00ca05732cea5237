------------------------------ MODULE MCBookings ------------------------------
(* Small instances of Bookings: one walking offering booked by slot and one *)
(* sitting offering booked by window, whose times collide.                 *)
EXTENDS Bookings, TLC

MCWindow == {[from |-> 1, to |-> 4]}

(* Ids of bookings are interchangeable, and so are request handlers.       *)
MCSymmetry == Permutations(Booking) \cup Permutations(Request)

=============================================================================
