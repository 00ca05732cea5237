----------------------------- MODULE MCRecurringForm -----------------------------
(* Weeks of three days, days of two hours, a provider who works on all of   *)
(* them but in other hours on the last, a cap of four sessions, a service   *)
(* type that is not offered.                                                *)
EXTENDS RecurringForm

MCAvailability == {[day |-> 0, from |-> 0, to |-> 1], [day |-> 1, from |-> 0, to |-> 1],
                   [day |-> 2, from |-> 1, to |-> 2]}

MCMaxTimes == [walking |-> 2, boarding |-> 1, daycare |-> 2]

MCBlackouts == {{}, {[from |-> 3, to |-> 3]}, {[from |-> 2, to |-> 9]},
                {[from |-> 0, to |-> 1], [from |-> 4, to |-> 7]}}

MCPickableDay == {0, 1, 2, 4, 6, 9}

=============================================================================
