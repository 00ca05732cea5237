--------------------------- MODULE Bookings_proofs ---------------------------
(***************************************************************************)
(* What is true of the booking handlers for any number of bookings,        *)
(* offerings and overlapping requests, wherever a handler dies: the        *)
(* inductive invariant IInv of Bookings and what follows from it.          *)
(***************************************************************************)
EXTENDS Bookings, TLAPS

USE DEF Role, Status, Terminal, BookingAction, Op

(* A 15% fee is a natural number of cents.                                 *)
LEMMA FeeType == FifteenPercent(Price) \in Nat
  BY PriceAssumption DEF FifteenPercent

(* The outcomes of the policy fit the money columns.                       *)
LEMMA PolicyType == PolicyOutcome \subseteq Cancellation
  BY FeeType, PriceAssumption DEF PolicyOutcome, Cancellation, NotCancelled

(* computeCancellationOutcome yields an outcome of the policy, and keeps   *)
(* an owner's money only when the booking starts within LateWindow.        *)
LEMMA OutcomeIsPolicy ==
  ASSUME NEW start \in Nat, NEW t \in Nat, NEW by \in Role,
         NEW o, o = CancellationOutcome(Price, start, t, LateWindow, by)
  PROVE  /\ o \in PolicyOutcome \ {NotCancelled}
         /\ o.by = "owner" /\ o.refund # Price => start - t < LateWindow
  <1>1. CASE by = "provider"
    BY <1>1 DEF CancellationOutcome, PolicyOutcome, NotCancelled
  <1>2. CASE by = "owner" /\ start - t >= LateWindow
    BY <1>2 DEF CancellationOutcome, PolicyOutcome, NotCancelled
  <1>3. CASE by = "owner" /\ ~(start - t >= LateWindow)
    BY <1>3, TimeAssumption DEF CancellationOutcome, PolicyOutcome, NotCancelled
  <1>4. QED
    BY <1>1, <1>2, <1>3
-----------------------------------------------------------------------------
(* Typing of the pieces the actions write.                                 *)

LEMMA IdleType == Idle \in Handler /\ Idle.pc = "idle"
  BY OfferingAssumption DEF Idle, Handler, NotCancelled, Cancellation

(* An answer leaves a handler idle and the others alone.                   *)
LEMMA AnswerType ==
  ASSUME TypeOK, NEW r \in Request, Answer(r)
  PROVE  /\ req' \in [Request -> Handler]
         /\ req'[r].pc = "idle"
         /\ \A q \in Request \ {r} : req'[q] = req[q]
  BY IdleType DEF TypeOK, Answer

LEMMA GotoType ==
  ASSUME TypeOK, NEW r \in Request,
         NEW label \in {"idle", "select", "insert", "write", "release", "finish"},
         Goto(r, label)
  PROVE  /\ req' \in [Request -> Handler]
         /\ req'[r] = [req[r] EXCEPT !.pc = label]
         /\ \A q \in Request \ {r} : req'[q] = req[q]
  BY DEF TypeOK, Goto, Handler

-----------------------------------------------------------------------------
(* The part of IInv that holds whatever the money columns say, so also     *)
(* where another service cancels bookings beside these handlers: the exact *)
(* policy is replaced by what the rest needs of it, that a cancelled row   *)
(* says who cancelled and that only existing rows do.                      *)
CancelledIsRecorded ==
    \A b \in Booking :
        /\ booking[b].status = "cancelled" => booking[b].cancellation.by # "nobody"
        /\ booking[b].cancellation.by # "nobody" => Exists(b)

TablesInv ==
    /\ TypeOK
    /\ WalkBacksStatus
    /\ SlotHolderMatches
    /\ CancelledIsRecorded
    /\ RefundsAreBacked
    /\ HandlersAreSound

-----------------------------------------------------------------------------
(* The initial tables satisfy the invariant.                               *)

LEMMA InitTablesInv == Init => TablesInv
  <1> SUFFICES ASSUME Init PROVE TablesInv
    OBVIOUS
  <1>1. NotCancelled \in Cancellation /\ NotCancelled \in PolicyOutcome
    BY PolicyType DEF PolicyOutcome
  <1>2. NoRow \in Row /\ NoRow.status = "none" /\ NoRow.cancellation = NotCancelled
    BY <1>1, OfferingAssumption DEF NoRow, Row
  <1>3. TypeOK
    BY <1>2, IdleType, TimeAssumption DEF Init, TypeOK, Notice
  <1>4. WalkBacksStatus /\ SlotHolderMatches /\ RefundsAreBacked
    BY <1>2, NoBookingAssumption DEF Init, WalkBacksStatus, SlotHolderMatches, RefundsAreBacked
  <1>5. CancelledIsRecorded
    BY <1>1, <1>2 DEF Init, CancelledIsRecorded, NotCancelled
  <1>6. HandlersAreSound
    BY IdleType DEF Init, HandlersAreSound, Sound
  <1>7. QED
    BY <1>3, <1>4, <1>5, <1>6 DEF TablesInv

(* A walk that has begun is not unmade, and one that is over stays over.   *)
WalkGoesOn(c) ==
    /\ walk[c] # "none" => walk'[c] # "none"
    /\ walk[c] = "ended" => walk'[c] = "ended"

(* A step of handler r leaves the others sound if no row they rely on      *)
(* vanishes, moves, becomes pending again or loses its walk or its         *)
(* cancellation.                                                           *)
LEMMA OthersStaySound ==
  ASSUME TypeOK, HandlersAreSound, NEW r \in Request,
         \A q \in Request \ {r} : req'[q] = req[q],
         now' \in Nat, now' >= now,
         \A c \in Booking : Exists(c) =>
            /\ Exists(c)'
            /\ booking'[c].service = booking[c].service
            /\ booking'[c].start = booking[c].start
            /\ booking[c].status # "pending" => booking'[c].status # "pending"
            /\ booking[c].cancellation.by # "nobody" => booking'[c].cancellation.by # "nobody"
            /\ WalkGoesOn(c)
  PROVE  \A q \in Request \ {r} : Sound(req[q])'
  <1> SUFFICES ASSUME NEW q \in Request \ {r} PROVE Sound(req[q])'
    OBVIOUS
  <1>1. req[q] \in Handler /\ now \in Nat
    BY TimeAssumption DEF TypeOK
  <1>2. Sound(req[q]) /\ req'[q] = req[q]
    BY DEF HandlersAreSound
  <1>3. CASE req[q].pc \in {"idle", "select", "insert"}
    BY <1>1, <1>2, <1>3 DEF Sound, Exists, Handler
  <1>4. CASE req[q].pc \in {"write", "release", "finish"}
    <2>1. booking[req[q].booking] \in Row
      BY <1>2, <1>4 DEF Sound, TypeOK
    <2>2. booking[req[q].booking].start \in Nat /\ booking'[req[q].booking].start
             = booking[req[q].booking].start
      BY <1>2, <1>4, <2>1 DEF Sound, Row
    <2>3. QED
      BY <1>1, <1>2, <1>4, <2>2, TimeAssumption DEF Sound, Exists, Handler, WalkGoesOn
  <1>5. QED
    BY <1>1, <1>3, <1>4 DEF Handler

-----------------------------------------------------------------------------
(* create.                                                                 *)

LEMMA CreateCheckStep ==
  ASSUME TablesInv, NEW r \in Request, CreateCheck(r)
  PROVE  TablesInv'
  <1> USE DEF TablesInv
  <1>1. PICK s \in Service, t \in Start, d \in Duration :
          req' = [req EXCEPT ![r] =
            [@ EXCEPT !.pc = IF s \in SlotMode THEN "select" ELSE "insert",
                      !.op = "create", !.service = s, !.start = t, !.duration = d]]
    BY DEF CreateCheck
  <1>2. t \in Nat /\ d \in Nat
    BY TimeAssumption
  <1>3. req' \in [Request -> Handler]
    <2> DEFINE h == [req[r] EXCEPT !.pc = IF s \in SlotMode THEN "select" ELSE "insert",
                                   !.op = "create", !.service = s, !.start = t,
                                   !.duration = d]
    <2>1. req[r] \in Handler
      BY DEF TypeOK
    <2>2. h \in Handler
      BY <1>2, <2>1 DEF Handler
    <2>3. req' = [req EXCEPT ![r] = h]
      BY <1>1
    <2> HIDE DEF h
    <2>4. QED
      BY <2>2, <2>3 DEF TypeOK
  <1>4. TypeOK'
    BY <1>3 DEF CreateCheck, TypeOK
  <1>5. WalkBacksStatus' /\ SlotHolderMatches' /\ CancelledIsRecorded' /\ RefundsAreBacked'
    BY DEF CreateCheck, WalkBacksStatus, SlotHolderMatches, CancelledIsRecorded,
           RefundsAreBacked, Exists
  <1>6. HandlersAreSound'
    <2>1. req'[r].pc \in {"select", "insert"} /\ req'[r].op = "create" /\ req'[r].start = t
      BY <1>1 DEF TypeOK, Handler
    <2>2. \A q \in Request \ {r} : req'[q] = req[q]
      BY <1>1 DEF TypeOK
    <2>3. QED
      BY <2>1, <2>2 DEF CreateCheck, HandlersAreSound, Sound, Exists
  <1>7. QED
    BY <1>4, <1>5, <1>6

LEMMA CreateSelectStep ==
  ASSUME TablesInv, NEW r \in Request, CreateSelect(r)
  PROVE  TablesInv'
  <1> USE DEF TablesInv
  <1>1. /\ req' \in [Request -> Handler]
        /\ \A q \in Request \ {r} : req'[q] = req[q]
        /\ \/ req'[r].pc = "idle"
           \/ req'[r] = [req[r] EXCEPT !.pc = "insert"]
    BY AnswerType, GotoType DEF CreateSelect
  <1>2. TypeOK'
    BY <1>1 DEF CreateSelect, TypeOK
  <1>3. WalkBacksStatus' /\ SlotHolderMatches' /\ CancelledIsRecorded' /\ RefundsAreBacked'
    BY DEF CreateSelect, WalkBacksStatus, SlotHolderMatches, CancelledIsRecorded,
           RefundsAreBacked, Exists
  <1>4. HandlersAreSound'
    <2>1. req[r] \in Handler /\ req[r].pc = "select"
      BY DEF TypeOK, CreateSelect
    <2>2. req'[r].pc = "idle" \/ (req'[r].pc = "insert" /\ req'[r].op = req[r].op
                                  /\ req'[r].start = req[r].start)
      BY <1>1, <2>1 DEF Handler
    <2>3. QED
      BY <1>1, <2>1, <2>2 DEF CreateSelect, HandlersAreSound, Sound, Exists
  <1>5. QED
    BY <1>2, <1>3, <1>4

(* The new row is fresh, so nothing that exists refers to it; where a slot *)
(* is taken, from nobody or from another booking, it matches the new row.  *)
LEMMA CreateInsertStep ==
  ASSUME TablesInv, NEW r \in Request, CreateInsert(r)
  PROVE  TablesInv'
  <1> USE DEF TablesInv
  <1> DEFINE row == [status |-> "pending", service |-> req[r].service,
                     start |-> req[r].start, duration |-> req[r].duration,
                     cancellation |-> NotCancelled]
  <1>1. PICK b \in Booking :
          /\ ~Exists(b)
          /\ booking' = [booking EXCEPT ![b] = row]
          /\ slot' = IF req[r].service \in SlotMode
                     THEN [slot EXCEPT ![Wanted(r)] = [status |-> "booked", booking |-> b]]
                     ELSE slot
          /\ req' = [req EXCEPT ![r] = [@ EXCEPT !.pc = "finish", !.booking = b]]
    BY DEF CreateInsert
  <1>2. req[r] \in Handler /\ req[r].pc = "insert" /\ req[r].op = "create"
          /\ req[r].start \in Start
    BY DEF TypeOK, CreateInsert, HandlersAreSound, Sound
  <1>3. NotCancelled \in PolicyOutcome /\ NotCancelled \in Cancellation
    BY PolicyType DEF PolicyOutcome
  <1>4. row \in Row
    BY <1>2, <1>3 DEF Row, Handler
  <1>5. /\ booking' \in [Booking -> Row]
        /\ booking'[b] = row
        /\ \A c \in Booking \ {b} : booking'[c] = booking[c]
    BY <1>1, <1>4 DEF TypeOK
  <1>6. UNCHANGED <<walk, now, refunds, told>>
    BY DEF CreateInsert
  <1>7. /\ req' \in [Request -> Handler]
        /\ req'[r].pc = "finish" /\ req'[r].op = "create" /\ req'[r].booking = b
        /\ \A q \in Request \ {r} : req'[q] = req[q]
    <2> DEFINE h == [req[r] EXCEPT !.pc = "finish", !.booking = b]
    <2>1. h \in Handler /\ h.pc = "finish" /\ h.op = "create" /\ h.booking = b
      BY <1>2 DEF Handler
    <2>2. req' = [req EXCEPT ![r] = h]
      BY <1>1
    <2> HIDE DEF h
    <2>3. QED
      BY <2>1, <2>2 DEF TypeOK
  <1>8. slot' \in [SlotKey -> [status : {"open", "booked"}, booking : Booking \cup {NoBooking}]]
    BY <1>1, <1>2 DEF TypeOK, SlotKey, Wanted
  <1>9. TypeOK'
    BY <1>5, <1>6, <1>7, <1>8 DEF TypeOK
  <1>10. SlotHolderMatches'
    <2> SUFFICES ASSUME NEW k \in SlotKey
                 PROVE  /\ slot'[k].status = "booked" <=> slot'[k].booking # NoBooking
                        /\ slot'[k].booking # NoBooking =>
                             LET c == slot'[k].booking IN
                             /\ booking'[c].status # "none"
                             /\ <<booking'[c].service, booking'[c].start>> = k
      BY DEF SlotHolderMatches, Exists
    <2>1. CASE req[r].service \in SlotMode /\ k = Wanted(r)
      <3>1. slot'[k] = [status |-> "booked", booking |-> b]
        BY <1>1, <2>1 DEF TypeOK
      <3>2. QED
        BY <1>5, <2>1, <3>1, NoBookingAssumption DEF Wanted
    <2>2. CASE ~(req[r].service \in SlotMode /\ k = Wanted(r))
      <3>1. slot'[k] = slot[k]
        BY <1>1, <2>2 DEF TypeOK
      <3>2. slot[k].booking # NoBooking => slot[k].booking \in Booking \ {b}
        BY <1>1 DEF SlotHolderMatches, TypeOK
      <3>3. QED
        BY <1>5, <3>1, <3>2 DEF SlotHolderMatches, Exists
    <2>3. QED
      BY <2>1, <2>2
  <1>11. WalkBacksStatus'
    BY <1>5, <1>6 DEF WalkBacksStatus
  <1>12. CancelledIsRecorded'
    BY <1>3, <1>5, <1>6 DEF CancelledIsRecorded, NotCancelled, Exists
  <1>13. RefundsAreBacked'
    <2>1. \A x \in refunds : x.booking # b
      BY <1>1 DEF RefundsAreBacked, CancelledIsRecorded, TypeOK
    <2>2. QED
      BY <1>5, <1>6, <2>1 DEF RefundsAreBacked, TypeOK
  <1>14. HandlersAreSound'
    <2>1. \A q \in Request \ {r} : req[q].pc \in {"write", "release", "finish"} =>
            req[q].booking \in Booking \ {b}
      BY <1>1 DEF HandlersAreSound, Sound
    <2>2. ASSUME NEW q \in Request \ {r}
          PROVE  /\ req'[q] = req[q]
                 /\ req[q].pc \in {"write", "release", "finish"} =>
                      booking'[req[q].booking] = booking[req[q].booking]
      BY <1>5, <1>7, <2>1
    <2>3. \A q \in Request : req[q] \in Handler
      BY DEF TypeOK
    <2>4. Exists(b)'
      BY <1>5 DEF Exists
    <2>5. QED
      BY <1>6, <1>7, <2>2, <2>3, <2>4 DEF HandlersAreSound, Sound, Exists, Handler
  <1>15. QED
    BY <1>9, <1>10, <1>11, <1>12, <1>13, <1>14

-----------------------------------------------------------------------------
(* confirm, start, end, cancel.                                            *)

LEMMA ReadAndJudgeStep ==
  ASSUME TablesInv, NEW r \in Request, ReadAndJudge(r)
  PROVE  TablesInv'
  <1> USE DEF TablesInv
  <1>1. PICK b \in Booking, action \in BookingAction, caller \in Role :
          /\ Exists(b)
          /\ TryTransition(booking[b].status, action, caller)
          /\ req' = [req EXCEPT ![r] =
                [@ EXCEPT !.pc = "write", !.op = action, !.booking = b, !.caller = caller,
                          !.read = booking[b].status,
                          !.outcome = IF action = "cancel"
                                      THEN CancellationOutcome(Price, booking[b].start,
                                                               now, LateWindow, caller)
                                      ELSE NotCancelled]]
    BY DEF ReadAndJudge
  <1>2. UNCHANGED <<booking, walk, slot, now, refunds, told>>
    BY DEF ReadAndJudge
  <1> DEFINE o == IF action = "cancel"
                  THEN CancellationOutcome(Price, booking[b].start, now, LateWindow, caller)
                  ELSE NotCancelled
             h == [req[r] EXCEPT !.pc = "write", !.op = action, !.booking = b,
                                 !.caller = caller, !.read = booking[b].status, !.outcome = o]
  <1>3. booking[b] \in Row /\ booking[b].start \in Nat /\ now \in Nat
    BY TimeAssumption DEF TypeOK, Row
  <1>4. action = "cancel" =>
          /\ o \in PolicyOutcome \ {NotCancelled}
          /\ o.by = "owner" /\ o.refund # Price => booking[b].start - now < LateWindow
    BY <1>3, OutcomeIsPolicy
  <1>5. o \in Cancellation
    BY <1>4, PolicyType DEF PolicyOutcome
  <1>6. req' = [req EXCEPT ![r] = h]
    BY <1>1
  <1> HIDE DEF o
  <1>7. /\ h \in Handler
        /\ h.pc = "write" /\ h.op = action /\ h.booking = b /\ h.outcome = o
        /\ h.read = booking[b].status
    BY <1>3, <1>5 DEF TypeOK, Handler, Row
  <1> HIDE DEF h
  <1>8. /\ req' \in [Request -> Handler]
        /\ req'[r] = h
        /\ \A q \in Request \ {r} : req'[q] = req[q]
    BY <1>6, <1>7 DEF TypeOK
  <1>9. TypeOK'
    BY <1>2, <1>8 DEF TypeOK
  <1>10. WalkBacksStatus' /\ SlotHolderMatches' /\ CancelledIsRecorded' /\ RefundsAreBacked'
    BY <1>2 DEF WalkBacksStatus, SlotHolderMatches, CancelledIsRecorded,
                RefundsAreBacked, Exists
  <1>11. HandlersAreSound'
    <2>1. \A q \in Request \ {r} : Sound(req[q])'
      BY <1>2, <1>3, <1>8, OthersStaySound DEF Exists, WalkGoesOn
    <2>2. action = "end" /\ booking[b].service \in Walking => walk[b] # "none"
      BY <1>1, <1>3 DEF TryTransition, From, WalkBacksStatus
    <2>3. Sound(req[r])'
      BY <1>1, <1>2, <1>4, <1>7, <1>8, <2>2 DEF Sound, Exists, TryTransition
    <2>4. QED
      BY <2>1, <2>3 DEF HandlersAreSound
  <1>12. QED
    BY <1>9, <1>10, <1>11

(* What the four UPDATEs have in common: they act on an existing row of    *)
(* the right shape, and touch neither the other rows nor its request.      *)
LEMMA WriteContext ==
  ASSUME TablesInv, NEW r \in Request, req[r].pc = "write", NEW b, b = req[r].booking,
         NEW row \in Row, row.status \notin {"none", "pending"},
         row.service = booking[b].service, row.start = booking[b].start,
         booking[b].cancellation.by # "nobody" => row.cancellation.by # "nobody",
         booking' = [booking EXCEPT ![b] = row],
         slot' = slot, now' = now, refunds' = refunds,
         NEW label \in {"release", "finish"}, Goto(r, label)
  PROVE  /\ b \in Booking /\ Exists(b) /\ booking[b] \in Row
         /\ booking' \in [Booking -> Row]
         /\ booking'[b] = row
         /\ \A c \in Booking \ {b} : booking'[c] = booking[c]
         /\ req' \in [Request -> Handler]
         /\ req[r] \in Handler
         /\ req'[r] = [req[r] EXCEPT !.pc = label]
         /\ SlotHolderMatches'
         /\ RefundsAreBacked'
         /\ (\A c \in Booking : WalkGoesOn(c))
              => \A q \in Request \ {r} : Sound(req[q])'
  <1> USE DEF TablesInv
  <1>1. b \in Booking /\ Exists(b) /\ booking[b] \in Row /\ req[r] \in Handler
    BY DEF HandlersAreSound, Sound, TypeOK
  <1>2. /\ booking' \in [Booking -> Row]
        /\ booking'[b] = row
        /\ \A c \in Booking \ {b} : booking'[c] = booking[c]
    BY <1>1 DEF TypeOK
  <1>3. /\ req' \in [Request -> Handler]
        /\ req'[r] = [req[r] EXCEPT !.pc = label]
        /\ \A q \in Request \ {r} : req'[q] = req[q]
    BY GotoType
  <1>4. SlotHolderMatches'
    <2>1. ASSUME NEW c \in Booking, Exists(c)
          PROVE  Exists(c)' /\ <<booking'[c].service, booking'[c].start>>
                                  = <<booking[c].service, booking[c].start>>
      BY <1>2, <2>1 DEF Exists
    <2>2. \A k \in SlotKey : slot[k].booking # NoBooking => slot[k].booking \in Booking
      BY DEF TypeOK
    <2>3. QED
      BY <2>1, <2>2 DEF SlotHolderMatches, Exists
  <1>5. RefundsAreBacked'
    BY <1>1, <1>2 DEF RefundsAreBacked, TypeOK
  <1>6. ASSUME \A c \in Booking : WalkGoesOn(c)
        PROVE  \A q \in Request \ {r} : Sound(req[q])'
    <2>1. now \in Nat
      BY TimeAssumption DEF TypeOK
    <2>2. \A c \in Booking : Exists(c) =>
            /\ Exists(c)'
            /\ booking'[c].service = booking[c].service
            /\ booking'[c].start = booking[c].start
            /\ booking[c].status # "pending" => booking'[c].status # "pending"
            /\ booking[c].cancellation.by # "nobody" => booking'[c].cancellation.by # "nobody"
            /\ WalkGoesOn(c)
      BY <1>1, <1>2, <1>6 DEF Exists
    <2>3. QED
      BY <1>3, <2>1, <2>2, OthersStaySound
  <1>7. QED
    BY <1>1, <1>2, <1>3, <1>4, <1>5, <1>6

LEMMA WriteConfirmStep ==
  ASSUME TablesInv, NEW r \in Request, WriteConfirm(r)
  PROVE  TablesInv'
  <1> USE DEF TablesInv
  <1> DEFINE b == req[r].booking
             row == [booking[b] EXCEPT !.status = "confirmed"]
  <1>1. b \in Booking /\ Exists(b) /\ booking[b] \in Row
    BY DEF WriteConfirm, HandlersAreSound, Sound, TypeOK
  <1>2. /\ row \in Row /\ row.status = "confirmed"
        /\ row.service = booking[b].service /\ row.start = booking[b].start
        /\ row.cancellation = booking[b].cancellation
    BY <1>1 DEF Row
  <1>3. booking' = [booking EXCEPT ![b] = row]
    BY <1>1 DEF WriteConfirm, SetStatus, TypeOK
  <1> HIDE DEF row
  <1>4. /\ booking' \in [Booking -> Row]
        /\ booking'[b] = row
        /\ \A c \in Booking \ {b} : booking'[c] = booking[c]
        /\ req' \in [Request -> Handler]
        /\ req[r] \in Handler
        /\ req'[r] = [req[r] EXCEPT !.pc = "finish"]
        /\ SlotHolderMatches'
        /\ RefundsAreBacked'
        /\ (\A c \in Booking : WalkGoesOn(c))
              => \A q \in Request \ {r} : Sound(req[q])'
    BY <1>1, <1>2, <1>3, WriteContext DEF WriteConfirm
  <1>5. \A c \in Booking : WalkGoesOn(c)
    BY DEF WriteConfirm, WalkGoesOn
  <1>6. TypeOK'
    BY <1>4 DEF WriteConfirm, TypeOK
  <1>7. WalkBacksStatus'
    BY <1>1, <1>2, <1>4 DEF WriteConfirm, WalkBacksStatus
  <1>8. CancelledIsRecorded'
    BY <1>1, <1>2, <1>4 DEF WriteConfirm, CancelledIsRecorded, Exists
  <1>9. Sound(req[r])'
    <2>1. /\ req'[r].pc = "finish" /\ req'[r].op = "confirm" /\ req'[r].booking = b
      BY <1>4 DEF WriteConfirm, Handler
    <2>2. QED
      BY <1>1, <1>2, <1>4, <2>1 DEF Sound, Exists
  <1>10. QED
    BY <1>4, <1>5, <1>6, <1>7, <1>8, <1>9 DEF HandlersAreSound

LEMMA WriteStartStep ==
  ASSUME TablesInv, NEW r \in Request, WriteStart(r)
  PROVE  TablesInv'
  <1> USE DEF TablesInv
  <1> DEFINE b == req[r].booking
             row == [booking[b] EXCEPT !.status = "in_progress"]
  <1>1. b \in Booking /\ Exists(b) /\ booking[b] \in Row
    BY DEF WriteStart, HandlersAreSound, Sound, TypeOK
  <1>2. /\ row \in Row /\ row.status = "in_progress"
        /\ row.service = booking[b].service /\ row.start = booking[b].start
        /\ row.cancellation = booking[b].cancellation
    BY <1>1 DEF Row
  <1>3. booking' = [booking EXCEPT ![b] = row]
    BY <1>1 DEF WriteStart, SetStatus, TypeOK
  <1> HIDE DEF row
  <1>4. /\ booking' \in [Booking -> Row]
        /\ booking'[b] = row
        /\ \A c \in Booking \ {b} : booking'[c] = booking[c]
        /\ req' \in [Request -> Handler]
        /\ req[r] \in Handler
        /\ req'[r] = [req[r] EXCEPT !.pc = "finish"]
        /\ SlotHolderMatches'
        /\ RefundsAreBacked'
        /\ (\A c \in Booking : WalkGoesOn(c))
              => \A q \in Request \ {r} : Sound(req[q])'
    BY <1>1, <1>2, <1>3, WriteContext DEF WriteStart
  <1>5. /\ walk' \in [Booking -> {"none", "running", "ended"}]
        /\ booking[b].service \in Walking => walk'[b] # "none"
        /\ \A c \in Booking \ {b} : walk'[c] = walk[c]
        /\ \A c \in Booking : WalkGoesOn(c)
    BY <1>1 DEF WalkGoesOn, WriteStart, TypeOK
  <1>6. TypeOK'
    BY <1>4, <1>5 DEF WriteStart, TypeOK
  <1>7. WalkBacksStatus'
    BY <1>1, <1>2, <1>4, <1>5 DEF WriteStart, WalkBacksStatus
  <1>8. CancelledIsRecorded'
    BY <1>1, <1>2, <1>4 DEF WriteStart, CancelledIsRecorded, Exists
  <1>9. Sound(req[r])'
    <2>1. /\ req'[r].pc = "finish" /\ req'[r].op = "start" /\ req'[r].booking = b
      BY <1>4 DEF WriteStart, Handler
    <2>2. QED
      BY <1>1, <1>2, <1>4, <1>5, <2>1 DEF Sound, Exists
  <1>10. QED
    BY <1>4, <1>5, <1>6, <1>7, <1>8, <1>9 DEF HandlersAreSound

LEMMA WriteEndStep ==
  ASSUME TablesInv, NEW r \in Request, WriteEnd(r)
  PROVE  TablesInv'
  <1> USE DEF TablesInv
  <1> DEFINE b == req[r].booking
             row == [booking[b] EXCEPT !.status = "completed"]
  <1>1. b \in Booking /\ Exists(b) /\ booking[b] \in Row
    BY DEF WriteEnd, HandlersAreSound, Sound, TypeOK
  <1>2. /\ row \in Row /\ row.status = "completed"
        /\ row.service = booking[b].service /\ row.start = booking[b].start
        /\ row.cancellation = booking[b].cancellation
    BY <1>1 DEF Row
  <1>3. booking' = [booking EXCEPT ![b] = row]
    BY <1>1 DEF WriteEnd, SetStatus, TypeOK
  <1> HIDE DEF row
  <1>4. /\ booking' \in [Booking -> Row]
        /\ booking'[b] = row
        /\ \A c \in Booking \ {b} : booking'[c] = booking[c]
        /\ req' \in [Request -> Handler]
        /\ req[r] \in Handler
        /\ req'[r] = [req[r] EXCEPT !.pc = "finish"]
        /\ SlotHolderMatches'
        /\ RefundsAreBacked'
        /\ (\A c \in Booking : WalkGoesOn(c))
              => \A q \in Request \ {r} : Sound(req[q])'
    BY <1>1, <1>2, <1>3, WriteContext DEF WriteEnd
  <1>5. /\ walk' \in [Booking -> {"none", "running", "ended"}]
        /\ booking[b].service \in Walking => walk'[b] = "ended"
        /\ \A c \in Booking \ {b} : walk'[c] = walk[c]
        /\ \A c \in Booking : WalkGoesOn(c)
    BY <1>1 DEF WalkGoesOn, WriteEnd, TypeOK, HandlersAreSound, Sound
  <1>6. TypeOK'
    BY <1>4, <1>5 DEF WriteEnd, TypeOK
  <1>7. WalkBacksStatus'
    BY <1>1, <1>2, <1>4, <1>5 DEF WriteEnd, WalkBacksStatus
  <1>8. CancelledIsRecorded'
    BY <1>1, <1>2, <1>4 DEF WriteEnd, CancelledIsRecorded, Exists
  <1>9. Sound(req[r])'
    <2>1. /\ req'[r].pc = "finish" /\ req'[r].op = "end" /\ req'[r].booking = b
      BY <1>4 DEF WriteEnd, Handler
    <2>2. QED
      BY <1>1, <1>2, <1>4, <1>5, <2>1 DEF Sound, Exists
  <1>10. QED
    BY <1>4, <1>5, <1>6, <1>7, <1>8, <1>9 DEF HandlersAreSound

LEMMA WriteCancelStep ==
  ASSUME TablesInv, NEW r \in Request, WriteCancel(r)
  PROVE  TablesInv'
  <1> USE DEF TablesInv
  <1> DEFINE b == req[r].booking
             row == [booking[b] EXCEPT !.status = "cancelled",
                                       !.cancellation = req[r].outcome]
  <1>1. /\ b \in Booking /\ Exists(b) /\ booking[b] \in Row
        /\ req[r].pc = "write" /\ req[r].op = "cancel"
        /\ req[r].outcome \in PolicyOutcome \ {NotCancelled}
        /\ req[r].outcome.by = "owner" /\ req[r].outcome.refund # Price =>
              booking[b].start - now < LateWindow
    BY DEF WriteCancel, HandlersAreSound, Sound, TypeOK
  <1>2. req[r].outcome \in Cancellation /\ req[r].outcome.by # "nobody"
    BY <1>1, PolicyType DEF PolicyOutcome
  <1>3. /\ row \in Row /\ row.status = "cancelled"
        /\ row.service = booking[b].service /\ row.start = booking[b].start
        /\ row.cancellation = req[r].outcome
    BY <1>1, <1>2 DEF Row
  <1>4. booking' = [booking EXCEPT ![b] = row]
    BY <1>1 DEF WriteCancel
  <1> HIDE DEF row
  <1>5. /\ booking' \in [Booking -> Row]
        /\ booking'[b] = row
        /\ \A c \in Booking \ {b} : booking'[c] = booking[c]
        /\ req' \in [Request -> Handler]
        /\ req[r] \in Handler
        /\ req'[r] = [req[r] EXCEPT !.pc = "release"]
        /\ SlotHolderMatches'
        /\ RefundsAreBacked'
        /\ \A q \in Request \ {r} : Sound(req[q])'
    <2>1. row.status \notin {"none", "pending"} /\ row.cancellation.by # "nobody"
      BY <1>2, <1>3
    <2>2. /\ UNCHANGED <<walk, slot, now, refunds>>
          /\ Goto(r, "release")
      BY DEF WriteCancel
    <2>3. \A c \in Booking : WalkGoesOn(c)
      BY <2>2 DEF WalkGoesOn
    <2>4. QED
      BY <1>1, <1>3, <1>4, <2>1, <2>2, <2>3, WriteContext
  <1>6. TypeOK'
    BY <1>5 DEF WriteCancel, TypeOK
  <1>7. WalkBacksStatus'
    BY <1>1, <1>3, <1>5 DEF WriteCancel, WalkBacksStatus
  <1>8. CancelledIsRecorded'
    BY <1>1, <1>2, <1>3, <1>5 DEF WriteCancel, CancelledIsRecorded, Exists
  <1>9. Sound(req[r])'
    <2>1. /\ req'[r].pc = "release" /\ req'[r].op = "cancel" /\ req'[r].booking = b
          /\ req'[r].outcome = req[r].outcome
      BY <1>1, <1>5 DEF Handler
    <2>2. now' = now
      BY DEF WriteCancel
    <2>3. QED
      BY <1>1, <1>2, <1>3, <1>5, <2>1, <2>2 DEF Sound, Exists
  <1>10. QED
    BY <1>5, <1>6, <1>7, <1>8, <1>9 DEF HandlersAreSound

LEMMA ReleaseSlotStep ==
  ASSUME TablesInv, NEW r \in Request, ReleaseSlot(r)
  PROVE  TablesInv'
  <1> USE DEF TablesInv
  <1>1. /\ req' \in [Request -> Handler]
        /\ req[r] \in Handler
        /\ req'[r] = [req[r] EXCEPT !.pc = "finish"]
        /\ \A q \in Request \ {r} : req'[q] = req[q]
    BY GotoType DEF ReleaseSlot, TypeOK
  <1>2. /\ slot' \in [SlotKey -> [status : {"open", "booked"}, booking : Booking \cup {NoBooking}]]
        /\ \A k \in SlotKey : \/ slot'[k] = slot[k]
                              \/ slot'[k] = [status |-> "open", booking |-> NoBooking]
    BY DEF ReleaseSlot, TypeOK
  <1>3. UNCHANGED <<booking, walk, now, refunds, told>>
    BY DEF ReleaseSlot
  <1>4. TypeOK'
    BY <1>1, <1>2, <1>3 DEF TypeOK
  <1>5. SlotHolderMatches'
    BY <1>2, <1>3 DEF SlotHolderMatches, Exists
  <1>6. WalkBacksStatus' /\ CancelledIsRecorded' /\ RefundsAreBacked'
    BY <1>3 DEF WalkBacksStatus, CancelledIsRecorded, RefundsAreBacked, Exists
  <1>7. HandlersAreSound'
    <2>1. \A q \in Request \ {r} : Sound(req[q])'
      BY <1>1, <1>3, TimeAssumption, OthersStaySound DEF Exists, WalkGoesOn, TypeOK
    <2>2. /\ req'[r].pc = "finish" /\ req'[r].op = req[r].op
          /\ req'[r].booking = req[r].booking /\ req'[r].outcome = req[r].outcome
      BY <1>1 DEF Handler
    <2>3. Sound(req[r]) /\ req[r].pc = "release"
      BY DEF HandlersAreSound, ReleaseSlot
    <2>4. QED
      BY <1>3, <2>1, <2>2, <2>3 DEF HandlersAreSound, Sound, Exists
  <1>8. QED
    BY <1>4, <1>5, <1>6, <1>7

(* Steps after which handler r is idle and no table it shares with the     *)
(* other handlers has changed, except for the record of refund calls.      *)
LEMMA IdleStep ==
  ASSUME TablesInv, NEW r \in Request, Answer(r), UNCHANGED <<booking, walk, slot, now>>,
         refunds' \subseteq [booking : Booking, cents : Nat],
         told' \in [Booking -> Notice], RefundsAreBacked'
  PROVE  TablesInv'
  <1> USE DEF TablesInv
  <1>1. /\ req' \in [Request -> Handler]
        /\ req'[r].pc = "idle"
        /\ \A q \in Request \ {r} : req'[q] = req[q]
    BY AnswerType
  <1>2. TypeOK'
    BY <1>1 DEF TypeOK
  <1>3. WalkBacksStatus' /\ SlotHolderMatches' /\ CancelledIsRecorded'
    BY DEF WalkBacksStatus, SlotHolderMatches, CancelledIsRecorded, Exists
  <1>4. HandlersAreSound'
    <2>1. \A q \in Request \ {r} : Sound(req[q])'
      BY <1>1, TimeAssumption, OthersStaySound DEF Exists, WalkGoesOn, TypeOK
    <2>2. Sound(req[r])'
      BY <1>1 DEF Sound
    <2>3. QED
      BY <2>1, <2>2 DEF HandlersAreSound
  <1>5. QED
    BY <1>2, <1>3, <1>4

LEMMA FinishStep ==
  ASSUME TablesInv, NEW r \in Request, Finish(r)
  PROVE  TablesInv'
  <1> USE DEF TablesInv
  <1>1. req[r] \in Handler /\ Sound(req[r]) /\ req[r].pc = "finish"
    BY DEF TypeOK, HandlersAreSound, Finish
  <1>2. told' \in [Booking -> Notice]
    <2>1. Recipient(req[r].op, req[r].caller) \in Role
      BY DEF Recipient
    <2>2. StatusAfter(req[r].op) \in Status
      BY <1>1 DEF StatusAfter, To, Handler
    <2>3. [to |-> Recipient(req[r].op, req[r].caller), status |-> StatusAfter(req[r].op)]
             \in Notice
      BY <2>1, <2>2 DEF Notice
    <2>4. QED
      BY <2>3 DEF Finish, TypeOK
  <1>3. refunds' \subseteq [booking : Booking, cents : Nat] /\ RefundsAreBacked'
    <2>1. CASE req[r].op = "cancel" /\ req[r].outcome.refund > 0
      <3>1. /\ req[r].booking \in Booking
            /\ booking[req[r].booking].cancellation.by # "nobody"
            /\ req[r].outcome.refund = Price
        BY <1>1, <2>1, PriceAssumption DEF Sound, PolicyOutcome, NotCancelled
      <3>2. refunds' = refunds \cup {[booking |-> req[r].booking, cents |-> Price]}
        BY <2>1, <3>1 DEF Finish
      <3>3. QED
        BY <3>1, <3>2, PriceAssumption DEF Finish, RefundsAreBacked, TypeOK
    <2>2. CASE ~(req[r].op = "cancel" /\ req[r].outcome.refund > 0)
      BY <2>2 DEF Finish, RefundsAreBacked, TypeOK
    <2>3. QED
      BY <2>1, <2>2
  <1>4. QED
    BY <1>2, <1>3, IdleStep DEF Finish

LEMMA AbortStep ==
  ASSUME TablesInv, NEW r \in Request, Abort(r)
  PROVE  TablesInv'
  BY IdleStep DEF TablesInv, Abort, RefundsAreBacked, TypeOK

(* Time passes: a cancellation that was late stays late.                   *)
LEMMA TickStep ==
  ASSUME TablesInv, Tick
  PROVE  TablesInv'
  <1> USE DEF TablesInv
  <1>1. now \in Nat /\ now' = now + 1 /\ now' \in 0..MaxNow
    BY TimeAssumption DEF Tick, TypeOK
  <1>2. UNCHANGED <<booking, walk, slot, req, refunds, told>>
    BY DEF Tick
  <1>3. TypeOK'
    BY <1>1, <1>2 DEF TypeOK
  <1>4. WalkBacksStatus' /\ SlotHolderMatches' /\ RefundsAreBacked'
    BY <1>2 DEF WalkBacksStatus, SlotHolderMatches, RefundsAreBacked, Exists
  <1>5. CancelledIsRecorded'
    <2>1. \A b \in Booking : booking[b].start \in Nat
      BY DEF TypeOK, Row
    <2>2. QED
      BY <1>1, <1>2, <2>1, TimeAssumption DEF CancelledIsRecorded, Exists
  <1>6. HandlersAreSound'
    <2> SUFFICES ASSUME NEW r \in Request PROVE Sound(req[r])'
      BY DEF HandlersAreSound
    <2>1. Sound(req[r]) /\ req[r] \in Handler
      BY DEF HandlersAreSound, TypeOK
    <2>2. req[r].booking \in Booking => booking[req[r].booking].start \in Nat
      BY DEF TypeOK, Row
    <2>3. QED
      BY <1>1, <1>2, <2>1, <2>2, TimeAssumption DEF Sound, Exists, Handler
  <1>7. QED
    BY <1>3, <1>4, <1>5, <1>6

-----------------------------------------------------------------------------
(* The tables' part is inductive.                                          *)

LEMMA NextTablesInv == TablesInv /\ [Next]_vars => TablesInv'
  <1> SUFFICES ASSUME TablesInv, [Next]_vars PROVE TablesInv'
    OBVIOUS
  <1>1. CASE Tick
    BY <1>1, TickStep
  <1>2. ASSUME NEW r \in Request, Create(r) PROVE TablesInv'
    BY <1>2, CreateCheckStep, CreateSelectStep, CreateInsertStep DEF Create
  <1>3. ASSUME NEW r \in Request, Transition(r) PROVE TablesInv'
    BY <1>3, ReadAndJudgeStep, WriteConfirmStep, WriteStartStep, WriteEndStep,
       WriteCancelStep, ReleaseSlotStep DEF Transition
  <1>4. ASSUME NEW r \in Request, Finish(r) \/ Abort(r) PROVE TablesInv'
    BY <1>4, FinishStep, AbortStep
  <1>5. CASE UNCHANGED vars
    BY <1>5 DEF vars, TablesInv, TypeOK, WalkBacksStatus, SlotHolderMatches,
                CancelledIsRecorded, RefundsAreBacked, HandlersAreSound, Sound, Exists
  <1>6. QED
    BY <1>1, <1>2, <1>3, <1>4, <1>5 DEF Next

(* What one step of the handlers may do to the row of a booking: nothing,  *)
(* fill an unused one, move its status, or cancel it by the policy.        *)
Filled(old, new) ==
    old.status = "none" /\ new.status = "pending" /\ new.cancellation = NotCancelled

Moved(old, new) ==
    /\ old.status # "none" /\ new.status \in {"confirmed", "in_progress", "completed"}
    /\ new.service = old.service /\ new.start = old.start
    /\ new.cancellation = old.cancellation

CancelledByPolicy(old, new, at) ==
    /\ old.status # "none" /\ new.status = "cancelled"
    /\ new.service = old.service /\ new.start = old.start
    /\ new.cancellation \in PolicyOutcome \ {NotCancelled}
    /\ new.cancellation.by = "owner" /\ new.cancellation.refund # Price =>
          new.start - at < LateWindow

RowStep(old, new, at) ==
    new = old \/ Filled(old, new) \/ Moved(old, new) \/ CancelledByPolicy(old, new, at)

LEMMA ClockStep ==
  ASSUME TypeOK, [Next]_vars
  PROVE  now \in Nat /\ now' \in Nat /\ now' >= now
  <1>1. now \in Nat
    BY TimeAssumption DEF TypeOK
  <1>2. now' = now \/ now' = now + 1
    BY DEF Next, Create, Transition, CreateCheck, CreateSelect,
       CreateInsert, ReadAndJudge, WriteConfirm, WriteStart, WriteEnd, WriteCancel,
       ReleaseSlot, Finish, Abort, Tick, vars
  <1>3. QED
    BY <1>1, <1>2

LEMMA RowsStep ==
  ASSUME TablesInv, [Next]_vars, NEW b \in Booking
  PROVE  /\ RowStep(booking[b], booking'[b], now)
         /\ WalkGoesOn(b)
         /\ now' \in Nat /\ now' >= now
  <1> USE DEF TablesInv
  <1>1. now \in Nat /\ now' \in Nat /\ now' >= now
    BY ClockStep
  <1>2. CASE UNCHANGED <<booking, walk>>
    BY <1>1, <1>2 DEF RowStep, WalkGoesOn
  <1>3. ASSUME NEW r \in Request, CreateInsert(r)
        PROVE  /\ RowStep(booking[b], booking'[b], now)
               /\ WalkGoesOn(b)
    <2>1. PICK c \in Booking :
            /\ ~Exists(c)
            /\ booking' = [booking EXCEPT ![c] =
                 [status |-> "pending", service |-> req[r].service,
                  start |-> req[r].start, duration |-> req[r].duration,
                  cancellation |-> NotCancelled]]
      BY <1>3 DEF CreateInsert
    <2>2. walk' = walk
      BY <1>3 DEF CreateInsert
    <2>3. CASE c = b
      BY <2>1, <2>2, <2>3 DEF RowStep, Filled, Exists, TypeOK, WalkGoesOn
    <2>4. CASE c # b
      BY <2>1, <2>2, <2>4 DEF RowStep, TypeOK, WalkGoesOn
    <2>5. QED
      BY <2>3, <2>4
  <1>4. ASSUME NEW r \in Request,
               WriteConfirm(r) \/ WriteStart(r) \/ WriteEnd(r) \/ WriteCancel(r)
        PROVE  /\ RowStep(booking[b], booking'[b], now)
               /\ WalkGoesOn(b)
    <2> DEFINE c == req[r].booking
    <2>1. c \in Booking /\ Exists(c) /\ booking[c] \in Row
      BY <1>4 DEF WriteConfirm, WriteStart, WriteEnd, WriteCancel, HandlersAreSound, Sound,
                  TypeOK
    <2>2. CASE c # b
      BY <1>4, <2>1, <2>2 DEF WriteConfirm, WriteStart, WriteEnd, WriteCancel, SetStatus,
                              RowStep, TypeOK, WalkGoesOn
    <2>3. CASE c = b /\ WriteCancel(r)
      <3>1. /\ booking'[b].status = "cancelled"
            /\ booking'[b].service = booking[b].service
            /\ booking'[b].start = booking[b].start
            /\ booking'[b].cancellation = req[r].outcome
            /\ walk' = walk
        BY <2>1, <2>3 DEF WriteCancel, TypeOK, Row
      <3>2. /\ req[r].outcome \in PolicyOutcome \ {NotCancelled}
            /\ req[r].outcome.by = "owner" /\ req[r].outcome.refund # Price =>
                  booking[b].start - now < LateWindow
        BY <2>3 DEF WriteCancel, HandlersAreSound, Sound
      <3>3. CancelledByPolicy(booking[b], booking'[b], now)
        BY <2>1, <2>3, <3>1, <3>2 DEF CancelledByPolicy, Exists
      <3>4. QED
        BY <3>1, <3>3 DEF RowStep, WalkGoesOn
    <2>4. CASE c = b /\ (WriteConfirm(r) \/ WriteStart(r) \/ WriteEnd(r))
      <3>1. /\ booking'[b].status \in {"confirmed", "in_progress", "completed"}
            /\ booking'[b].service = booking[b].service
            /\ booking'[b].start = booking[b].start
            /\ booking'[b].cancellation = booking[b].cancellation
        BY <2>1, <2>4 DEF WriteConfirm, WriteStart, WriteEnd, SetStatus, TypeOK, Row
      <3>2. Moved(booking[b], booking'[b])
        BY <2>1, <2>4, <3>1 DEF Moved, Exists
      <3>3. WalkGoesOn(b)
        BY <2>1, <2>4 DEF WriteConfirm, WriteStart, WriteEnd, TypeOK, WalkGoesOn
      <3>4. QED
        BY <3>2, <3>3 DEF RowStep
    <2>5. QED
      BY <1>4, <2>2, <2>3, <2>4
  <1>5. QED
    BY <1>1, <1>2, <1>3, <1>4 DEF Next, vars, Create, Transition, CreateCheck,
       CreateSelect, ReadAndJudge, ReleaseSlot, Finish, Abort, Tick

(* The policy survives every step of the handlers: new rows carry none of  *)
(* its outcomes, cancelled ones carry one, and what is late stays late.    *)
LEMMA PolicyKept ==
  ASSUME TablesInv, CancellationIsPolicy, [Next]_vars
  PROVE  CancellationIsPolicy'
  <1> SUFFICES ASSUME NEW b \in Booking
               PROVE  LET c == booking'[b].cancellation IN
                      /\ c \in PolicyOutcome
                      /\ booking'[b].status = "cancelled" => c.by # "nobody"
                      /\ c.by # "nobody" => booking'[b].status # "none"
                      /\ c.by = "owner" /\ c.refund # Price =>
                            booking'[b].start - now' < LateWindow
    BY DEF CancellationIsPolicy, Exists
  <1>1. /\ booking[b].cancellation \in PolicyOutcome
        /\ booking[b].status = "cancelled" => booking[b].cancellation.by # "nobody"
        /\ booking[b].cancellation.by # "nobody" => booking[b].status # "none"
        /\ booking[b].cancellation.by = "owner" /\ booking[b].cancellation.refund # Price =>
              booking[b].start - now < LateWindow
    BY DEF CancellationIsPolicy, Exists
  <1>2. /\ RowStep(booking[b], booking'[b], now)
        /\ now' \in Nat /\ now' >= now
    BY RowsStep
  <1>3. booking[b].start \in Nat /\ now \in Nat
    BY TimeAssumption DEF TablesInv, TypeOK, Row
  <1>4. CASE booking'[b] = booking[b] \/ Moved(booking[b], booking'[b])
    BY <1>1, <1>2, <1>3, <1>4, TimeAssumption DEF Moved
  <1>5. CASE Filled(booking[b], booking'[b])
    BY <1>5 DEF Filled, NotCancelled, PolicyOutcome
  <1>6. CASE CancelledByPolicy(booking[b], booking'[b], now)
    <2>1. booking'[b].cancellation.by # "nobody"
      BY <1>6 DEF CancelledByPolicy, PolicyOutcome
    <2>2. booking'[b].start \in Nat
      BY <1>3, <1>6 DEF CancelledByPolicy
    <2>3. QED
      BY <1>2, <1>3, <1>6, <2>1, <2>2, TimeAssumption DEF CancelledByPolicy
  <1>7. QED
    BY <1>2, <1>4, <1>5, <1>6 DEF RowStep

(* What was said about a booking stays written: only the tail of a handler *)
(* says more, and its statements are done by then.                         *)
LEMMA ToldKept ==
  ASSUME TablesInv, ToldIsWritten, [Next]_vars
  PROVE  ToldIsWritten'
  <1> SUFFICES ASSUME NEW b \in Booking
               PROVE  /\ told'[b].status # "none" => booking'[b].status # "none"
                      /\ told'[b].status \notin {"none", "pending"} =>
                            booking'[b].status # "pending"
                      /\ told'[b].status = "cancelled" => booking'[b].cancellation.by # "nobody"
                      /\ booking'[b].service \in Walking =>
                            /\ told'[b].status = "in_progress" => walk'[b] # "none"
                            /\ told'[b].status = "completed" => walk'[b] = "ended"
    BY DEF ToldIsWritten, Exists
  <1>1. /\ told[b].status # "none" => booking[b].status # "none"
        /\ told[b].status \notin {"none", "pending"} => booking[b].status # "pending"
        /\ told[b].status = "cancelled" => booking[b].cancellation.by # "nobody"
        /\ booking[b].service \in Walking =>
              /\ told[b].status = "in_progress" => walk[b] # "none"
              /\ told[b].status = "completed" => walk[b] = "ended"
    BY DEF ToldIsWritten, Exists
  <1>2. CASE told'[b] = told[b]
    <2>1. RowStep(booking[b], booking'[b], now) /\ WalkGoesOn(b)
      BY RowsStep
    <2>2. CASE booking'[b] = booking[b]
      BY <1>1, <1>2, <2>1, <2>2 DEF WalkGoesOn
    <2>3. CASE Filled(booking[b], booking'[b])
      BY <1>1, <1>2, <2>3 DEF Filled
    <2>4. CASE Moved(booking[b], booking'[b])
      BY <1>1, <1>2, <2>1, <2>4 DEF Moved, WalkGoesOn
    <2>5. CASE CancelledByPolicy(booking[b], booking'[b], now)
      <3>1. booking'[b].cancellation.by # "nobody"
        BY <2>5 DEF CancelledByPolicy, PolicyOutcome
      <3>2. QED
        BY <1>1, <1>2, <2>1, <2>5, <3>1 DEF CancelledByPolicy, WalkGoesOn
    <2>6. QED
      BY <2>1, <2>2, <2>3, <2>4, <2>5 DEF RowStep
  <1>3. CASE told'[b] # told[b]
    <2>1. PICK r \in Request : Finish(r)
      BY <1>3 DEF Next, vars, Create, Transition, CreateCheck, CreateSelect, CreateInsert,
         ReadAndJudge, WriteConfirm, WriteStart, WriteEnd, WriteCancel, ReleaseSlot, Abort,
         Tick
    <2>2. UNCHANGED <<booking, walk>>
      BY <2>1 DEF Finish
    <2>3. req[r].booking = b /\ told'[b].status = StatusAfter(req[r].op)
      BY <1>3, <2>1 DEF Finish, TablesInv, TypeOK
    <2>4. Sound(req[r]) /\ req[r].pc = "finish" /\ req[r].op \in Op
      BY <2>1 DEF Finish, TablesInv, TypeOK, HandlersAreSound, Handler
    <2>5. QED
      BY <2>2, <2>3, <2>4 DEF StatusAfter, To, Sound, Exists
  <1>4. QED
    BY <1>2, <1>3

-----------------------------------------------------------------------------
(* The invariant of the handlers on their own.                             *)

LEMMA IInvSplits == IInv <=> TablesInv /\ CancellationIsPolicy /\ ToldIsWritten
  BY DEF IInv, TablesInv, CancellationIsPolicy, CancelledIsRecorded

LEMMA InitIInv == Init => IInv
  <1>1. Init => CancellationIsPolicy
    BY DEF Init, CancellationIsPolicy, NoRow, NotCancelled, PolicyOutcome
  <1>2. Init => ToldIsWritten
    BY DEF Init, ToldIsWritten
  <1>3. QED
    BY <1>1, <1>2, InitTablesInv, IInvSplits

LEMMA NextIInv == IInv /\ [Next]_vars => IInv'
  <1> SUFFICES ASSUME IInv, [Next]_vars PROVE IInv'
    OBVIOUS
  <1>1. TablesInv /\ CancellationIsPolicy /\ ToldIsWritten
    BY IInvSplits
  <1>2. TablesInv' /\ CancellationIsPolicy' /\ ToldIsWritten'
    BY <1>1, NextTablesInv, PolicyKept, ToldKept
  <1>3. QED
    BY <1>2 DEF IInv, TablesInv

(* The invariant holds in every reachable state.                           *)
THEOREM InductiveInvariant == Spec => []IInv
  BY InitIInv, NextIInv, PTL DEF Spec

-----------------------------------------------------------------------------
(* What follows for the tables.                                            *)

(* Every table and every handler keeps its shape.                          *)
THEOREM TypeCorrect == Spec => []TypeOK
  <1>1. IInv => TypeOK
    BY DEF IInv
  <1>2. QED
    BY <1>1, InductiveInvariant, PTL

(* A walking booking under way or over has its walk, however requests race *)
(* and wherever they die.                                                  *)
THEOREM WalkNeverMissing == Spec => []WalkBacksStatus
  <1>1. IInv => WalkBacksStatus
    BY DEF IInv
  <1>2. QED
    BY <1>1, InductiveInvariant, PTL

(* A booked slot names a booking made for that very slot.                  *)
THEOREM SlotsMatchHolders == Spec => []SlotHolderMatches
  <1>1. IInv => SlotHolderMatches
    BY DEF IInv
  <1>2. QED
    BY <1>1, InductiveInvariant, PTL

(* Recorded money is an outcome of the policy.                             *)
THEOREM MoneyFollowsPolicy == Spec => []CancellationIsPolicy
  <1>1. IInv => CancellationIsPolicy
    BY DEF IInv
  <1>2. QED
    BY <1>1, InductiveInvariant, PTL

(* Refund calls are for cancelled-at-some-time bookings and full prices.   *)
THEOREM RefundsStayBacked == Spec => []RefundsAreBacked
  <1>1. IInv => RefundsAreBacked
    BY DEF IInv
  <1>2. QED
    BY <1>1, InductiveInvariant, PTL

(* What a handler read before is still true of the tables when it acts,    *)
(* and a handler that cancels carries an outcome of the policy.            *)
THEOREM HandlersStaySound == Spec => []HandlersAreSound
  <1>1. IInv => HandlersAreSound
    BY DEF IInv
  <1>2. QED
    BY <1>1, InductiveInvariant, PTL

(* No notification runs ahead of the tables, however handlers race or die. *)
THEOREM NothingToldTooSoon == Spec => []ToldIsWritten
  <1>1. IInv => ToldIsWritten
    BY DEF IInv
  <1>2. QED
    BY <1>1, InductiveInvariant, PTL

(* A status changes by an insert or by one of the four UPDATEs, and these  *)
(* write what was legal from the status their handler read.                *)
LEMMA StatusStep ==
  ASSUME TablesInv, [Next]_vars, NEW b \in Booking, booking'[b].status # booking[b].status
  PROVE  \/ booking[b].status = "none" /\ booking'[b].status = "pending"
         \/ \E r \in Request : /\ req[r].pc = "write" /\ req[r].booking = b
                               /\ req[r].op \in BookingAction
                               /\ req[r].read \in From[req[r].op]
                               /\ booking'[b].status = To[req[r].op]
  <1> USE DEF TablesInv
  <1>1. PICK r \in Request : \/ CreateInsert(r) \/ WriteConfirm(r) \/ WriteStart(r)
                            \/ WriteEnd(r) \/ WriteCancel(r)
    BY DEF Next, vars, Create, Transition, CreateCheck, CreateSelect, ReadAndJudge,
           ReleaseSlot, Finish, Abort, Tick
  <1>2. CASE CreateInsert(r)
    <2>1. PICK c \in Booking :
            /\ ~Exists(c)
            /\ booking' = [booking EXCEPT ![c] =
                 [status |-> "pending", service |-> req[r].service,
                  start |-> req[r].start, duration |-> req[r].duration,
                  cancellation |-> NotCancelled]]
      BY <1>2 DEF CreateInsert
    <2>2. c = b
      BY <2>1 DEF TypeOK
    <2>3. QED
      BY <2>1, <2>2 DEF Exists, TypeOK
  <1>3. CASE WriteConfirm(r) \/ WriteStart(r) \/ WriteEnd(r) \/ WriteCancel(r)
    <2>1. /\ req[r].pc = "write" /\ req[r].op \in BookingAction
          /\ req[r].read \in From[req[r].op]
          /\ req[r].booking \in Booking
      BY <1>3 DEF WriteConfirm, WriteStart, WriteEnd, WriteCancel, HandlersAreSound, Sound
    <2>2. booking[req[r].booking] \in Row
      BY <2>1 DEF TypeOK
    <2>3. req[r].booking = b /\ booking'[b].status = To[req[r].op]
      <3>1. CASE WriteConfirm(r) \/ WriteStart(r) \/ WriteEnd(r)
        BY <2>1, <2>2, <3>1 DEF WriteConfirm, WriteStart, WriteEnd, SetStatus, TypeOK, Row, To
      <3>2. CASE WriteCancel(r)
        BY <2>1, <2>2, <3>2 DEF WriteCancel, TypeOK, Row, To
      <3>3. QED
        BY <1>3, <3>1, <3>2
    <2>4. QED
      BY <2>1, <2>3
  <1>4. QED
    BY <1>1, <1>2, <1>3

(* Only a handler that read a status the booking no longer has moves it    *)
(* out of the lifecycle.                                                   *)
THEOREM OnlyStaleBreaksLifecycle == Spec => LegalUnlessStale
  <1> DEFINE Legal ==
        \A b \in Booking :
          LET old == booking[b].status
              new == booking'[b].status
          IN  new # old =>
                \/ old = "none" /\ new = "pending"
                \/ \E op \in BookingAction : old \in From[op] /\ new = To[op]
                \/ \E r \in Request : /\ req[r].pc = "write" /\ req[r].booking = b
                                      /\ req[r].read # old
  <1>1. IInv /\ [Next]_vars => [Legal]_booking
    BY IInvSplits, StatusStep
  <1>2. QED
    BY <1>1, InductiveInvariant, PTL DEF Spec, LegalUnlessStale

(* Only ReleaseSlot reopens a slot, and it runs after its cancellation was *)
(* written.                                                                *)
LEMMA ReopeningStep ==
  ASSUME TablesInv, [Next]_vars, NEW k \in SlotKey,
         slot[k].status = "booked", slot'[k].status = "open"
  PROVE  booking[slot[k].booking].cancellation.by # "nobody"
  <1>1. PICK r \in Request : CreateInsert(r) \/ ReleaseSlot(r)
    BY DEF Next, vars, Create, Transition, CreateCheck, CreateSelect, ReadAndJudge,
           WriteConfirm, WriteStart, WriteEnd, WriteCancel, Finish, Abort, Tick
  <1>2. CASE CreateInsert(r)
    BY <1>2 DEF CreateInsert, TablesInv, TypeOK
  <1>3. CASE ReleaseSlot(r)
    <2>1. booking[req[r].booking].cancellation.by # "nobody"
      BY <1>3 DEF ReleaseSlot, TablesInv, HandlersAreSound, Sound
    <2>2. QED
      BY <1>3, <2>1 DEF ReleaseSlot
  <1>4. QED
    BY <1>1, <1>2, <1>3

(* A slot changes hands only to nobody or to a booking being made.         *)
LEMMA HolderStep ==
  ASSUME TablesInv, [Next]_vars, NEW k \in SlotKey
  PROVE  \/ slot'[k].booking \in {slot[k].booking, NoBooking}
         \/ slot'[k].booking \in Booking /\ ~Exists(slot'[k].booking)
  <1>1. CASE slot' = slot
    BY <1>1
  <1>2. ASSUME NEW r \in Request, ReleaseSlot(r)
        PROVE  slot'[k].booking \in {slot[k].booking, NoBooking}
    BY <1>2 DEF ReleaseSlot
  <1>3. ASSUME NEW r \in Request, CreateInsert(r)
        PROVE  \/ slot'[k].booking = slot[k].booking
               \/ slot'[k].booking \in Booking /\ ~Exists(slot'[k].booking)
    <2>1. PICK b \in Booking :
            /\ ~Exists(b)
            /\ slot' = IF req[r].service \in SlotMode
                       THEN [slot EXCEPT ![Wanted(r)] = [status |-> "booked", booking |-> b]]
                       ELSE slot
      BY <1>3 DEF CreateInsert
    <2>2. slot'[k] = slot[k] \/ slot'[k] = [status |-> "booked", booking |-> b]
      BY <2>1 DEF TablesInv, TypeOK
    <2>3. QED
      BY <2>1, <2>2
  <1>4. QED
    BY <1>1, <1>2, <1>3 DEF Next, vars, Create, Transition, CreateCheck, CreateSelect,
       ReadAndJudge, WriteConfirm, WriteStart, WriteEnd, WriteCancel, Finish, Abort, Tick

(* A slot is reopened only after its holder was cancelled.                 *)
THEOREM ReopenedOnlyIfCancelled == Spec => ReopenedAfterCancellation
  <1> DEFINE Reopening ==
        \A k \in SlotKey :
          slot[k].status = "booked" /\ slot'[k].status = "open"
            => booking[slot[k].booking].cancellation.by # "nobody"
  <1>1. IInv /\ [Next]_vars => [Reopening]_slot
    BY IInvSplits, ReopeningStep
  <1>2. QED
    BY <1>1, InductiveInvariant, PTL DEF Spec, ReopenedAfterCancellation

=============================================================================
