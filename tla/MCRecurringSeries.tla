--------------------------- MODULE MCRecurringSeries ---------------------------
(* A walking offering booked by slot, weeks of two days, a day of one unit. *)
(* The series asked for have one session, two, and two at the same time.    *)
EXTENDS RecurringSeries, TLC

MCWindow == {[from |-> 0, to |-> 4]}

MCRule == {[step |-> 1, days |-> <<1, 0>>, times |-> <<0>>, from |-> 1, to |-> 2],
           [step |-> 2, days |-> <<1>>, times |-> <<0>>, from |-> 0, to |-> 3],
           [step |-> 1, days |-> <<0>>, times |-> <<0, 0>>, from |-> 2, to |-> 3]}

MCBlackout == {}

(* No guard and no property of the run looks at what was handed over to    *)
(* payments and notifications, nor at what a handler read of the status    *)
(* once it has judged it, nor at anything but the series of a call that    *)
(* has only the synchronous tail left.                                     *)
MCReq(r) == IF req[r].pc = "finish" THEN [Idle EXCEPT !.pc = "finish"]
            ELSE [req[r] EXCEPT !.read = "none"]

MCCall(r) == IF call[r].pc = "tell"
             THEN [NoCall EXCEPT !.pc = "tell", !.series = call[r].series]
             ELSE call[r]

MCView == <<booking, walk, slot, [r \in Request |-> <<MCReq(r), MCCall(r)>>],
            now, series, seriesOf>>

MCSymmetry == Permutations(Booking) \cup Permutations(Request)

=============================================================================
