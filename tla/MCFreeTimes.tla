------------------------------ MODULE MCFreeTimes ------------------------------
(***************************************************************************)
(* FreeTimes on small instances: a week of two days of six units.          *)
(***************************************************************************)
EXTENDS FreeTimes

Row(d, s, e) == [day |-> d, start |-> s, end |-> e]

(* Rows may overlap: nothing forbids it.                                   *)
Templates == {{Row(0, 0, 3), Row(0, 2, 5), Row(1, 0, 4)}, {Row(1, 1, 5)}}

Win(s, e) == [start |-> s, end |-> e]

(* Nothing, two windows, and one that spans both and midnight.             *)
Answers == {{}, {Win(1, 2), Win(9, 10)}, {Win(0, 5), Win(5, 8)}}

(* Each touches a window of Google's and meets another.                    *)
Bookings == {[start |-> 2, duration |-> 2], [start |-> 8, duration |-> 2]}

(* Before all, and amid the second day.                                    *)
Instants == {0, 7}

(* Within the first day, and from it through all of the second.            *)
Queries == [from : {1, 4}, to : {5, 12}, duration : {1, 2}, step : {1, 2}]

=============================================================================
