------------------------ MODULE RecurringSeries_proofs ------------------------
(***************************************************************************)
(* What is true of the recurring series beside the handlers of single      *)
(* bookings, for any number of series, rules, bookings and overlapping     *)
(* requests that may die anywhere.                                         *)
(*                                                                         *)
(* The series side cancels bookings without the policy, so IInv of         *)
(* Bookings does not hold here; its part on the tables does, and the       *)
(* conjuncts below say what series and single bookings leave each other.   *)
(***************************************************************************)
EXTENDS RecurringSeries, Bookings_proofs, RecurrenceDates_proofs

USE DEF Role, Status, Terminal, BookingAction, Op

-----------------------------------------------------------------------------
(* The inductive invariant.                                                *)

(* A session that a cancellation of its series may pass over.              *)
Spared(b) == booking[b].cancellation.by # "nobody" \/ walk[b] # "none"

(* A call that makes a series works on the dates of its rule, under an id  *)
(* that is not in use yet; a call about to cancel has selected sessions of its series,    *)
(* and the walks still ahead that it has not selected were cancelled or    *)
(* started before.                                                         *)
CallSound(c) ==
    /\ c.pc \in {"check", "insert"} =>
          /\ c.series \in Series
          /\ series[c.series].status = "none"
          /\ c.dates = DatesOf[c.rule]
    /\ c.pc \in {"select", "cancel"} =>
          /\ c.series \in Series
          /\ series[c.series].status # "none"
          /\ c.at <= now
    /\ c.pc = "cancel" =>
          /\ c.ids \subseteq Sessions(c.series)
          /\ \A b \in Sessions(c.series) \ c.ids :
                booking[b].service \in Walking /\ booking[b].start > c.at => Spared(b)

CallsAreSound == \A r \in Request : CallSound(call[r])

Making(c) == c.pc \in {"check", "insert"}

OneMaker ==
    \A q, r \in Request :
        q # r /\ Making(call[q]) /\ Making(call[r]) => call[q].series # call[r].series

(* A session is a booking, and its series was inserted with it.            *)
SessionsHaveSeries ==
    \A b \in Booking : seriesOf[b] # NoSeries =>
        Exists(b) /\ series[seriesOf[b]].status # "none"

(* A series reserves no slot.                                              *)
HoldersAreSingle ==
    \A k \in SlotKey : slot[k].booking # NoBooking => seriesOf[slot[k].booking] = NoSeries

(* Money columns outside the policy belong to a cancelled series.          *)
UnpricedIsSeries ==
    \A b \in Booking :
        booking[b].cancellation \notin PolicyOutcome =>
            seriesOf[b] # NoSeries /\ series[seriesOf[b]].status = "cancelled"

SeriesType ==
    /\ series \in [Series -> SeriesRow]
    /\ seriesOf \in [Booking -> Series \cup {NoSeries}]
    /\ call \in [Request -> Call]
    /\ heard \in [Series -> SeriesNotice]

SeriesInv ==
    /\ TablesInv
    /\ SeriesType
    /\ CallsAreSound
    /\ OneMaker
    /\ SessionsHaveSeries
    /\ HoldersAreSingle
    /\ UnpricedIsSeries
    /\ SeriesIsComplete
    /\ CancelledSeriesLeavesNoneBehind

-----------------------------------------------------------------------------
(* What SeriesIsComplete says of one series.                               *)
Whole(t) ==
    /\ Cardinality(Sessions(t)) = series[t].instanceCount
    /\ \A b \in Sessions(t) : booking[b].service = series[t].service
    /\ series[t].status # "none" => OnePerDate(DatesOf[series[t].rule], Sessions(t))

(* A series stays whole as long as its sessions stay what they are.        *)
LEMMA StaysWhole ==
  ASSUME NEW t \in Series, Whole(t), Sessions(t)' = Sessions(t),
         series'[t].status = "none" <=> series[t].status = "none",
         series'[t].service = series[t].service,
         series'[t].rule = series[t].rule,
         series'[t].instanceCount = series[t].instanceCount,
         \A b \in Sessions(t) : /\ booking'[b].service = booking[b].service
                               /\ booking'[b].start = booking[b].start
  PROVE  Whole(t)'
  <1>1. CASE series[t].status = "none"
    BY <1>1 DEF Whole
  <1>2. CASE series[t].status # "none"
    <2> DEFINE dates == DatesOf[series[t].rule]
    <2>1. OnePerDate(dates, Sessions(t))
      BY <1>2 DEF Whole
    <2>2. OnePerDate(dates, Sessions(t))'
      <3>1. PICK id \in [DOMAIN dates -> Sessions(t)] :
              /\ \A i, j \in DOMAIN dates : i # j => id[i] # id[j]
              /\ \A b \in Sessions(t) : \E i \in DOMAIN dates : id[i] = b
              /\ \A i \in DOMAIN dates : booking[id[i]].start = dates[i]
        BY <2>1 DEF OnePerDate
      <3>2. \A i \in DOMAIN dates : booking'[id[i]].start = dates[i]
        BY <3>1
      <3>3. dates' = dates
        BY DEF DatesOf
      <3> HIDE DEF dates
      <3>4. QED
        BY <3>1, <3>2, <3>3 DEF OnePerDate
    <2>3. QED
      BY <1>2, <2>2 DEF Whole
  <1>3. QED
    BY <1>1, <1>2

-----------------------------------------------------------------------------
(* Steps that leave all tables alone.                                      *)

LEMMA CallOnlyKeeps ==
  ASSUME SeriesInv, NEW r \in Request, UNCHANGED <<vars, series, seriesOf>>,
         heard' \in [Series -> SeriesNotice],
         NEW c \in Call, call' = [call EXCEPT ![r] = c], CallSound(c),
         Making(c) => \A q \in Request \ {r} : Making(call[q]) => call[q].series # c.series
  PROVE  SeriesInv'
  <1> USE DEF SeriesInv
  <1>1. /\ call' \in [Request -> Call]
        /\ call'[r] = c
        /\ \A q \in Request \ {r} : call'[q] = call[q]
    BY DEF SeriesType
  <1>2. UNCHANGED <<booking, walk, slot, req, now, refunds, told>>
    BY DEF vars
  <1>3. TablesInv'
    BY <1>2 DEF TablesInv, TypeOK, WalkBacksStatus, SlotHolderMatches, CancelledIsRecorded,
                RefundsAreBacked, HandlersAreSound, Sound, Exists
  <1>4. SeriesType'
    BY <1>1 DEF SeriesType
  <1>5. CallsAreSound'
    <2>1. \A q \in Request : CallSound(call'[q])
      BY <1>1 DEF CallsAreSound
    <2>2. QED
      BY <1>2, <2>1 DEF CallsAreSound, CallSound, Sessions, Exists, Spared
  <1>6. OneMaker'
    BY <1>1 DEF OneMaker, Making
  <1>7. /\ SessionsHaveSeries' /\ HoldersAreSingle' /\ UnpricedIsSeries'
        /\ CancelledSeriesLeavesNoneBehind'
    BY <1>2 DEF SessionsHaveSeries, HoldersAreSingle, UnpricedIsSeries,
                CancelledSeriesLeavesNoneBehind, Exists
  <1>8. SeriesIsComplete'
    <2>1. ASSUME NEW t \in Series PROVE Whole(t)'
      <3>1. Whole(t) /\ Sessions(t)' = Sessions(t) /\ Sessions(t) \subseteq Booking
        BY <1>2 DEF SeriesIsComplete, Whole, Sessions, Exists
      <3>2. QED
        BY <1>2, <3>1, StaysWhole
    <2>2. QED
      BY <2>1 DEF SeriesIsComplete, Whole
  <1>9. QED
    BY <1>3, <1>4, <1>5, <1>6, <1>7, <1>8

LEMMA NoCallType == NoCall \in Call /\ NoCall.pc = "idle"
  <1>1. (CHOOSE s \in Service : TRUE) \in Service /\ (CHOOSE rule \in Rule : TRUE) \in Rule
    BY OfferingAssumption, RuleAssumption
  <1> DEFINE offering == CHOOSE s \in Service : TRUE
             any == CHOOSE rule \in Rule : TRUE
  <1>2. offering \in Service /\ any \in Rule
    BY <1>1
  <1> HIDE DEF offering, any
  <1>3. [pc |-> "idle", series |-> NoSeries, caller |-> "owner", service |-> offering,
         rule |-> any, duration |-> 0, dates |-> <<>>, checked |-> 0, ids |-> {},
         at |-> 0] \in Call
    BY <1>2 DEF Call
  <1>4. QED
    BY <1>3 DEF NoCall, offering, any

(* An answered or aborted call leaves nothing behind but the tables.       *)
LEMMA AnswerCallKeeps ==
  ASSUME SeriesInv, NEW r \in Request, AnswerCall(r), UNCHANGED <<vars, series, seriesOf>>,
         heard' \in [Series -> SeriesNotice]
  PROVE  SeriesInv'
  <1>1. CallSound(NoCall) /\ ~Making(NoCall)
    BY NoCallType DEF CallSound, Making
  <1>2. QED
    BY <1>1, NoCallType, CallOnlyKeeps DEF AnswerCall

-----------------------------------------------------------------------------
(* create.                                                                 *)

LEMMA SeriesStartStep ==
  ASSUME SeriesInv, NEW r \in Request, SeriesStart(r)
  PROVE  SeriesInv'
  <1>1. PICK s \in Service, rule \in Rule, d \in Duration, id \in Series :
          /\ series[id].status = "none"
          /\ \A q \in Request : call[q].series # id
          /\ call' = [call EXCEPT ![r] =
                [@ EXCEPT !.pc = "check", !.series = id, !.service = s, !.rule = rule,
                          !.duration = d, !.dates = DatesOf[rule], !.at = now]]
    BY DEF SeriesStart
  <1> DEFINE dates == DatesOf[rule]
             c == [call[r] EXCEPT !.pc = "check", !.series = id, !.service = s,
                                  !.rule = rule, !.duration = d, !.dates = dates,
                                  !.at = now]
  <1>2. dates \in Seq(Nat)
    BY RuleAssumption, DatesAreMoments DEF DatesOf
  <1> HIDE DEF dates
  <1>3. call[r] \in Call /\ now \in Nat /\ d \in Nat
    BY TimeAssumption DEF SeriesInv, SeriesType, TablesInv, TypeOK
  <1>4. c \in Call /\ c.pc = "check" /\ c.series = id /\ c.rule = rule /\ c.dates = dates
    BY <1>2, <1>3 DEF Call
  <1>5. call' = [call EXCEPT ![r] = c]
    BY <1>1 DEF dates
  <1> HIDE DEF c
  <1>6. CallSound(c)
    BY <1>1, <1>4 DEF CallSound, dates
  <1>7. \A q \in Request \ {r} : call[q].series # c.series
    BY <1>1, <1>4
  <1>8. heard' \in [Series -> SeriesNotice] /\ UNCHANGED <<vars, series, seriesOf>>
    BY DEF SeriesStart, SeriesInv, SeriesType
  <1>9. QED
    BY <1>4, <1>5, <1>6, <1>7, <1>8, CallOnlyKeeps

LEMMA SeriesCheckDateStep ==
  ASSUME SeriesInv, NEW r \in Request, SeriesCheckDate(r)
  PROVE  SeriesInv'
  <1>1. heard' \in [Series -> SeriesNotice] /\ UNCHANGED <<vars, series, seriesOf>>
    BY DEF SeriesCheckDate, SeriesInv, SeriesType
  <1>2. CASE AnswerCall(r)
    BY <1>1, <1>2, AnswerCallKeeps
  <1>3. CASE ~AnswerCall(r)
    <2> DEFINE label == IF call[r].checked + 1 = Len(call[r].dates) THEN "insert" ELSE "check"
               c == [call[r] EXCEPT !.checked = call[r].checked + 1, !.pc = label]
    <2>1. call[r] \in Call /\ call[r].pc = "check"
      BY DEF SeriesInv, SeriesType, SeriesCheckDate
    <2>2. /\ c \in Call /\ c.pc \in {"check", "insert"} /\ c.series = call[r].series
          /\ c.dates = call[r].dates /\ c.rule = call[r].rule
      <3>1. label \in {"check", "insert"}
        OBVIOUS
      <3>2. call[r].checked + 1 \in Nat
        BY <2>1 DEF Call
      <3> HIDE DEF label
      <3>3. QED
        BY <2>1, <3>1, <3>2 DEF Call
    <2>3. call' = [call EXCEPT ![r] = c]
      BY <1>3, <2>1 DEF SeriesCheckDate, SeriesInv, SeriesType
    <2> HIDE DEF c
    <2>4. CallSound(c)
      BY <2>1, <2>2 DEF CallSound, SeriesInv, CallsAreSound
    <2>5. \A q \in Request \ {r} : Making(call[q]) => call[q].series # c.series
      BY <2>1, <2>2 DEF SeriesInv, OneMaker, Making
    <2>6. QED
      BY <1>1, <2>2, <2>3, <2>4, <2>5, CallOnlyKeeps
  <1>4. QED
    BY <1>2, <1>3

(* What the handlers of single bookings carry stays true as long as no row *)
(* they rely on vanishes, moves or loses its walk or its cancellation.     *)
LEMMA AllStaySound ==
  ASSUME TypeOK, HandlersAreSound, UNCHANGED <<req, now>>,
         \A c \in Booking : Exists(c) =>
            /\ Exists(c)'
            /\ booking'[c].service = booking[c].service
            /\ booking'[c].start = booking[c].start
            /\ booking[c].status # "pending" => booking'[c].status # "pending"
            /\ booking[c].cancellation.by # "nobody" => booking'[c].cancellation.by # "nobody"
            /\ WalkGoesOn(c)
  PROVE  HandlersAreSound'
  <1> SUFFICES ASSUME NEW q \in Request PROVE Sound(req[q])'
    BY DEF HandlersAreSound
  <1>1. req[q] \in Handler /\ Sound(req[q]) /\ req'[q] = req[q]
    BY DEF TypeOK, HandlersAreSound
  <1>2. CASE req[q].pc \in {"idle", "select", "insert"}
    BY <1>1, <1>2 DEF Sound, Exists, Handler
  <1>3. CASE req[q].pc \in {"write", "release", "finish"}
    BY <1>1, <1>3 DEF Sound, Exists, Handler, WalkGoesOn
  <1>4. QED
    BY <1>1, <1>2, <1>3 DEF Handler

(* What SeriesInsert writes: new holds the ids of the sessions.            *)
LEMMA SeriesInsertRows ==
  ASSUME SeriesInv, NEW r \in Request, SeriesInsert(r)
  PROVE  \E new \in SUBSET Booking :
            /\ Cardinality(new) = Len(call[r].dates)
            /\ \A b \in new : /\ ~Exists(b)
                              /\ booking'[b] \in Row
                              /\ booking'[b].status = "pending"
                              /\ booking'[b].service = call[r].service
                              /\ booking'[b].cancellation = NotCancelled
                              /\ seriesOf'[b] = call[r].series
            /\ \E id \in [DOMAIN call[r].dates -> new] :
                  /\ \A i, j \in DOMAIN call[r].dates : i # j => id[i] # id[j]
                  /\ \A b \in new : \E i \in DOMAIN call[r].dates : id[i] = b
                  /\ \A i \in DOMAIN call[r].dates :
                        booking'[id[i]].start = call[r].dates[i]
            /\ \A b \in Booking \ new : /\ booking'[b] = booking[b]
                                        /\ seriesOf'[b] = seriesOf[b]
            /\ booking' \in [Booking -> Row]
            /\ seriesOf' \in [Booking -> Series \cup {NoSeries}]
  <1> DEFINE dates == call[r].dates
             n == Len(dates)
  <1>1. PICK id \in [DOMAIN dates -> {b \in Booking : ~Exists(b)}] :
          /\ \A i, j \in DOMAIN id : i # j => id[i] # id[j]
          /\ booking' = Made(call[r], id)
          /\ seriesOf' = [b \in Booking |->
                IF \E i \in DOMAIN id : id[i] = b THEN call[r].series ELSE seriesOf[b]]
    BY DEF SeriesInsert
  <1>2. call[r] \in Call /\ call[r].pc = "insert" /\ CallSound(call[r])
    BY DEF SeriesInv, SeriesType, CallsAreSound, SeriesInsert
  <1>3. /\ dates \in Seq(Nat) /\ n \in Nat /\ DOMAIN dates = 1..n
        /\ \A i \in 1..n : dates[i] \in Nat
        /\ call[r].series \in Series /\ call[r].service \in Service
        /\ call[r].duration \in Nat
    BY <1>2 DEF Call, CallSound
  <1>4. /\ DOMAIN id = 1..n /\ id \in [1..n -> Booking]
        /\ \A i, j \in 1..n : i # j => id[i] # id[j]
        /\ \A i \in 1..n : ~Exists(id[i])
    BY <1>1, <1>3
  <1> HIDE DEF dates, n
  <1> DEFINE new == {id[i] : i \in 1..n}
  <1>5. Cardinality(new) = n
    <2>1. id \in [1..n -> new] /\ \A x \in new : \E i \in 1..n : id[i] = x
      BY <1>4
    <2> HIDE DEF new
    <2>2. QED
      BY <1>3, <1>4, <2>1, DistinctValues
  <1>6. \A b \in new : b \in Booking /\ ~Exists(b)
    BY <1>4
  <1>7. \A b \in Booking \ new : booking'[b] = booking[b] /\ seriesOf'[b] = seriesOf[b]
    BY <1>1, <1>4 DEF Made
  <1>8. ASSUME NEW i \in 1..n
        PROVE  /\ booking'[id[i]] = [status |-> "pending", service |-> call[r].service,
                                     start |-> dates[i], duration |-> call[r].duration,
                                     cancellation |-> NotCancelled]
               /\ booking'[id[i]].start = dates[i]
               /\ seriesOf'[id[i]] = call[r].series
    <2>1. (CHOOSE j \in DOMAIN id : id[j] = id[i]) = i
      BY <1>1, <1>4
    <2>2. id[i] \in Booking
      BY <1>6
    <2>3. QED
      BY <1>1, <1>4, <2>1, <2>2 DEF Made, dates
  <1>9. NotCancelled \in Cancellation
    BY PolicyType DEF PolicyOutcome
  <1>10. \A b \in new : /\ booking'[b] \in Row
                        /\ booking'[b].status = "pending"
                        /\ booking'[b].service = call[r].service
                        /\ booking'[b].cancellation = NotCancelled
                        /\ seriesOf'[b] = call[r].series
    <2>1. SUFFICES ASSUME NEW i \in 1..n
                   PROVE  /\ booking'[id[i]] \in Row
                          /\ booking'[id[i]].status = "pending"
                          /\ booking'[id[i]].service = call[r].service
                          /\ booking'[id[i]].cancellation = NotCancelled
                          /\ seriesOf'[id[i]] = call[r].series
      OBVIOUS
    <2> DEFINE row == [status |-> "pending", service |-> call[r].service,
                       start |-> dates[i], duration |-> call[r].duration,
                       cancellation |-> NotCancelled]
    <2>2. row \in Row /\ row.status = "pending" /\ row.service = call[r].service
          /\ row.cancellation = NotCancelled
      BY <1>3, <1>9 DEF Row
    <2>3. booking'[id[i]] = row /\ seriesOf'[id[i]] = call[r].series
      BY <1>8
    <2> HIDE DEF row
    <2>4. QED
      BY <2>2, <2>3
  <1>11. /\ id \in [DOMAIN dates -> new]
         /\ \A i, j \in DOMAIN dates : i # j => id[i] # id[j]
         /\ \A b \in new : \E i \in DOMAIN dates : id[i] = b
         /\ \A i \in DOMAIN dates : booking'[id[i]].start = dates[i]
    BY <1>3, <1>4, <1>8
  <1>12. DOMAIN booking' = Booking /\ DOMAIN seriesOf' = Booking
    BY <1>1 DEF Made
  <1>13. booking' \in [Booking -> Row]
    <2>1. booking' = [b \in Booking |-> booking'[b]]
      BY <1>1 DEF Made
    <2>2. \A b \in Booking : booking'[b] \in Row
      BY <1>7, <1>10 DEF SeriesInv, TablesInv, TypeOK
    <2>3. QED
      BY <2>1, <2>2
  <1>14. seriesOf' \in [Booking -> Series \cup {NoSeries}]
    <2>1. \A b \in Booking : seriesOf'[b] \in Series \cup {NoSeries}
      BY <1>3, <1>7, <1>10 DEF SeriesInv, SeriesType
    <2>2. seriesOf' = [b \in Booking |-> seriesOf'[b]]
      BY <1>1
    <2>3. QED
      BY <2>1, <2>2
  <1> HIDE DEF new
  <1>15. new \in SUBSET Booking
    BY <1>6
  <1>16. QED
    BY <1>5, <1>6, <1>7, <1>10, <1>11, <1>13, <1>14, <1>15 DEF dates, n

(* The sessions appear together with their series row, and nothing that    *)
(* exists refers to any of them yet.                                       *)
LEMMA SeriesInsertStep ==
  ASSUME SeriesInv, NEW r \in Request, SeriesInsert(r)
  PROVE  SeriesInv'
  <1> USE DEF SeriesInv
  <1> DEFINE c == call[r]
             s == call[r].series
             made == [status |-> "active", service |-> c.service, rule |-> c.rule,
                      instanceCount |-> Len(c.dates), cancelledAt |-> NeverCancelled,
                      cancelledBy |-> "nobody"]
  <1>1. PICK new \in SUBSET Booking :
            /\ Cardinality(new) = Len(c.dates)
            /\ \A b \in new : /\ ~Exists(b)
                              /\ booking'[b] \in Row
                              /\ booking'[b].status = "pending"
                              /\ booking'[b].service = c.service
                              /\ booking'[b].cancellation = NotCancelled
                              /\ seriesOf'[b] = s
            /\ \E id \in [DOMAIN c.dates -> new] :
                  /\ \A i, j \in DOMAIN c.dates : i # j => id[i] # id[j]
                  /\ \A b \in new : \E i \in DOMAIN c.dates : id[i] = b
                  /\ \A i \in DOMAIN c.dates : booking'[id[i]].start = c.dates[i]
            /\ \A b \in Booking \ new : /\ booking'[b] = booking[b]
                                        /\ seriesOf'[b] = seriesOf[b]
            /\ booking' \in [Booking -> Row]
            /\ seriesOf' \in [Booking -> Series \cup {NoSeries}]
    BY SeriesInsertRows
  <1>2. /\ c \in Call /\ c.pc = "insert" /\ CallSound(c)
        /\ UNCHANGED <<walk, slot, req, now, refunds, told, heard>>
        /\ series' = [series EXCEPT ![s] = made]
        /\ call' = [call EXCEPT ![r] =
              [@ EXCEPT !.pc = "tell", !.rule = NoCall.rule, !.dates = <<>>, !.checked = 0]]
    BY DEF SeriesInsert, SeriesType, CallsAreSound
  <1>3. s \in Series /\ s # NoSeries /\ series[s].status = "none" /\ c.service \in Service
        /\ c.rule \in Rule /\ Len(c.dates) \in Nat
    BY <1>2, SeriesAssumption DEF CallSound, Call
  <1>4. \A b \in new : seriesOf[b] = NoSeries /\ b \in Booking
    BY <1>1 DEF SessionsHaveSeries
  <1>5. made \in SeriesRow /\ made.status = "active" /\ made.service = c.service
          /\ made.instanceCount = Len(c.dates) /\ made.rule = c.rule
    BY <1>3, TimeAssumption DEF SeriesRow, NeverCancelled
  <1> HIDE DEF made
  <1>6. /\ series' \in [Series -> SeriesRow]
        /\ series'[s] = made
        /\ \A t \in Series \ {s} : series'[t] = series[t]
    BY <1>2, <1>3, <1>5 DEF SeriesType
  <1>7. /\ call' \in [Request -> Call]
        /\ call'[r].pc = "tell"
        /\ \A q \in Request \ {r} : call'[q] = call[q]
    <2> DEFINE told1 == [c EXCEPT !.pc = "tell", !.rule = NoCall.rule, !.dates = <<>>,
                                  !.checked = 0]
    <2>1. <<>> \in Seq(Nat) /\ NoCall.rule \in Rule
      BY NoCallType DEF Call
    <2>2. told1 \in Call /\ told1.pc = "tell"
      BY <1>2, <2>1 DEF Call
    <2>3. call' = [call EXCEPT ![r] = told1]
      BY <1>2
    <2> HIDE DEF told1
    <2>4. QED
      BY <2>2, <2>3 DEF SeriesType
  <1>8. TablesInv'
    <2> USE DEF TablesInv
    <2>1. TypeOK'
      BY <1>1, <1>2 DEF TypeOK
    <2>2. \A b \in Booking : Exists(b) => b \notin new /\ Exists(b)'
      BY <1>1 DEF Exists
    <2>3. WalkBacksStatus'
      BY <1>1, <1>2 DEF WalkBacksStatus
    <2>4. SlotHolderMatches'
      <3>1. \A k \in SlotKey : slot[k].booking # NoBooking => slot[k].booking \in Booking
        BY DEF TypeOK
      <3>2. QED
        BY <1>1, <1>2, <2>2, <3>1 DEF SlotHolderMatches, Exists
    <2>5. CancelledIsRecorded'
      <3>1. \A b \in new : booking'[b].cancellation.by = "nobody"
        BY <1>1 DEF NotCancelled
      <3>2. QED
        BY <1>1, <3>1 DEF CancelledIsRecorded, Exists
    <2>6. RefundsAreBacked'
      <3>1. \A x \in refunds : x.booking \in Booking \ new
        BY <2>2 DEF RefundsAreBacked, CancelledIsRecorded, TypeOK
      <3>2. QED
        BY <1>1, <1>2, <3>1 DEF RefundsAreBacked
    <2>7. HandlersAreSound'
      BY <1>1, <1>2, <2>2, AllStaySound DEF WalkGoesOn
    <2>8. QED
      BY <2>1, <2>3, <2>4, <2>5, <2>6, <2>7
  <1>9. SeriesType'
    BY <1>1, <1>2, <1>6, <1>7 DEF SeriesType
  <1>10. \A t \in Series : Sessions(t)' = IF t = s THEN new ELSE Sessions(t)
    <2> SUFFICES ASSUME NEW t \in Series
                 PROVE  Sessions(t)' = IF t = s THEN new ELSE Sessions(t)
      OBVIOUS
    <2>1. \A b \in Booking \ new : seriesOf[b] # s
      BY <1>3 DEF SessionsHaveSeries
    <2>2. \A b \in Booking : b \in Sessions(t)' <=>
             booking'[b].status # "none" /\ seriesOf'[b] = t
      BY DEF Sessions, Exists
    <2>3. \A b \in Booking : b \in Sessions(t) <=>
             booking[b].status # "none" /\ seriesOf[b] = t
      BY DEF Sessions, Exists
    <2>4. Sessions(t)' \subseteq Booking /\ Sessions(t) \subseteq Booking
      BY DEF Sessions
    <2>5. CASE t = s
      <3>1. \A b \in Booking : b \in Sessions(t)' <=> b \in new
        BY <1>1, <2>1, <2>2, <2>5
      <3>2. QED
        BY <2>4, <2>5, <3>1
    <2>6. CASE t # s
      <3>1. \A b \in Booking : b \in Sessions(t)' <=> b \in Sessions(t)
        BY <1>1, <1>4, <2>2, <2>3, <2>6, SeriesAssumption
      <3>2. QED
        BY <2>4, <2>6, <3>1
    <2>7. QED
      BY <2>5, <2>6
  <1>11. CallsAreSound'
    <2> SUFFICES ASSUME NEW q \in Request PROVE CallSound(call[q])'
      BY DEF CallsAreSound
    <2>1. CASE q = r
      BY <1>7, <2>1 DEF CallSound
    <2>2. CASE q # r
      <3>1. call'[q] = call[q] /\ CallSound(call[q])
        BY <1>7, <2>2 DEF CallsAreSound
      <3>2. CASE Making(call[q])
        <4>1. call[q].series # s
          BY <1>2, <2>2, <3>2 DEF OneMaker, Making
        <4>2. QED
          BY <1>6, <3>1, <3>2, <4>1 DEF CallSound, Making
      <3>3. CASE call[q].pc \in {"select", "cancel"}
        <4>1. PICK t \in Series : t = call[q].series /\ t # s
          BY <1>3, <3>1, <3>3 DEF CallSound
        <4>2. \A b \in Booking :
                 booking'[b].status # "none" /\ seriesOf'[b] = t <=>
                 booking[b].status # "none" /\ seriesOf[b] = t
          BY <1>1, <1>4, <4>1, SeriesAssumption DEF Exists
        <4>3. \A b \in Booking : booking[b].status # "none" => booking'[b] = booking[b]
          BY <1>1 DEF Exists
        <4>4. series'[t] = series[t] /\ UNCHANGED <<walk, now>>
          BY <1>2, <1>6, <4>1
        <4>5. QED
          BY <3>1, <3>3, <4>1, <4>2, <4>3, <4>4 DEF CallSound, Sessions, Exists, Spared
      <3>4. CASE ~Making(call[q]) /\ call[q].pc \notin {"select", "cancel"}
        BY <3>1, <3>4 DEF CallSound, Making
      <3>5. QED
        BY <3>2, <3>3, <3>4
    <2>3. QED
      BY <2>1, <2>2
  <1>12. OneMaker'
    BY <1>7 DEF OneMaker, Making
  <1>13. SessionsHaveSeries'
    <2>1. \A b \in Booking \ new : seriesOf[b] # NoSeries => seriesOf[b] \in Series \ {s}
      BY <1>3 DEF SessionsHaveSeries, SeriesType
    <2>2. QED
      BY <1>1, <1>5, <1>6, <2>1 DEF SessionsHaveSeries, Exists
  <1>14. HoldersAreSingle'
    <2>1. \A k \in SlotKey : slot[k].booking # NoBooking => slot[k].booking \in Booking \ new
      BY <1>1 DEF TablesInv, SlotHolderMatches, TypeOK
    <2>2. QED
      BY <1>1, <1>2, <2>1 DEF HoldersAreSingle
  <1>15. UnpricedIsSeries'
    <2>1. NotCancelled \in PolicyOutcome
      BY DEF PolicyOutcome
    <2>2. \A b \in Booking \ new : seriesOf[b] # NoSeries => seriesOf[b] \in Series \ {s}
      BY <1>3 DEF SessionsHaveSeries, SeriesType
    <2>3. PolicyOutcome' = PolicyOutcome
      OBVIOUS
    <2>4. QED
      BY <1>1, <1>6, <2>1, <2>2 DEF UnpricedIsSeries
  <1>16. SeriesIsComplete'
    <2> SUFFICES ASSUME NEW t \in Series PROVE Whole(t)'
      BY DEF SeriesIsComplete, Whole
    <2>0. Whole(t)
      BY DEF SeriesIsComplete, Whole
    <2>1. CASE t = s
      <3>1. Sessions(t)' = new /\ series'[t] = made
        BY <1>6, <1>10, <2>1
      <3>2. PICK dates : dates = c.dates
        OBVIOUS
      <3>3. DatesOf[series'[t].rule] = dates
        BY <1>2, <1>5, <3>1, <3>2 DEF CallSound
      <3>4. OnePerDate(dates, new)'
        BY <1>1, <3>2 DEF OnePerDate
      <3>5. (DatesOf[series[t].rule])' = dates
        BY <3>3 DEF DatesOf
      <3>6. OnePerDate(DatesOf[series[t].rule], Sessions(t))'
        BY <3>1, <3>4, <3>5 DEF OnePerDate
      <3>7. /\ Cardinality(Sessions(t)') = series'[t].instanceCount
            /\ \A b \in Sessions(t)' : booking'[b].service = series'[t].service
        BY <1>1, <1>5, <3>1
      <3>8. QED
        BY <3>6, <3>7 DEF Whole
    <2>2. CASE t # s
      <3>1. Sessions(t)' = Sessions(t) /\ series'[t] = series[t]
        BY <1>6, <1>10, <2>2
      <3>2. \A b \in Sessions(t) : booking'[b] = booking[b]
        BY <1>1 DEF Sessions
      <3>3. QED
        BY <2>0, <3>1, <3>2, StaysWhole
    <2>3. QED
      BY <2>1, <2>2
  <1>17. CancelledSeriesLeavesNoneBehind'
    <2>1. \A b \in Booking \ new : seriesOf[b] # NoSeries => seriesOf[b] \in Series \ {s}
      BY <1>3 DEF SessionsHaveSeries, SeriesType
    <2>2. QED
      BY <1>1, <1>2, <1>5, <1>6, <2>1 DEF CancelledSeriesLeavesNoneBehind
  <1>18. QED
    BY <1>8, <1>9, <1>11, <1>12, <1>13, <1>14, <1>15, <1>16, <1>17

-----------------------------------------------------------------------------
(* cancelRemaining.                                                        *)

LEMMA SeriesCancelStartStep ==
  ASSUME SeriesInv, NEW r \in Request, SeriesCancelStart(r)
  PROVE  SeriesInv'
  <1>1. PICK s \in Series, caller \in Role :
          /\ series[s].status # "none"
          /\ call' = [call EXCEPT ![r] =
                [@ EXCEPT !.pc = "select", !.series = s, !.caller = caller, !.at = now]]
    BY DEF SeriesCancelStart
  <1> DEFINE c == [call[r] EXCEPT !.pc = "select", !.series = s, !.caller = caller, !.at = now]
  <1>2. call[r] \in Call /\ now \in Nat
    BY TimeAssumption DEF SeriesInv, SeriesType, TablesInv, TypeOK
  <1>3. c \in Call /\ c.pc = "select" /\ c.series = s /\ c.at = now
    BY <1>2 DEF Call
  <1>4. call' = [call EXCEPT ![r] = c]
    BY <1>1
  <1> HIDE DEF c
  <1>5. CallSound(c) /\ ~Making(c)
    BY <1>1, <1>2, <1>3 DEF CallSound, Making
  <1>6. heard' \in [Series -> SeriesNotice] /\ UNCHANGED <<vars, series, seriesOf>>
    BY DEF SeriesCancelStart, SeriesInv, SeriesType
  <1>7. QED
    BY <1>3, <1>4, <1>5, <1>6, CallOnlyKeeps

(* A session still ahead that is not selected is under way, over or        *)
(* cancelled already: the tables show which.                               *)
LEMMA SeriesCancelSelectStep ==
  ASSUME SeriesInv, NEW r \in Request, SeriesCancelSelect(r)
  PROVE  SeriesInv'
  <1> DEFINE ids == Remaining(call[r])
             c == [call[r] EXCEPT !.pc = "cancel", !.ids = ids]
  <1>1. heard' \in [Series -> SeriesNotice] /\ UNCHANGED <<vars, series, seriesOf>>
    BY DEF SeriesCancelSelect, SeriesInv, SeriesType
  <1>2. CASE AnswerCall(r)
    BY <1>1, <1>2, AnswerCallKeeps
  <1>3. CASE call' = [call EXCEPT ![r] = c]
    <2>1. /\ call[r] \in Call /\ CallSound(call[r]) /\ call[r].pc = "select"
      BY DEF SeriesInv, SeriesType, CallsAreSound, SeriesCancelSelect
    <2>2. ids \subseteq Sessions(call[r].series) /\ ids \subseteq Booking
      BY DEF Remaining, Sessions
    <2>3. ASSUME NEW b \in Sessions(call[r].series) \ ids,
                 booking[b].service \in Walking, booking[b].start > call[r].at
          PROVE  Spared(b)
      <3>1. b \in Booking /\ booking[b].status \in {"in_progress", "completed", "cancelled"}
        BY <2>3 DEF Remaining, Sessions, Exists, SeriesInv, TablesInv, TypeOK, Row
      <3>2. QED
        BY <2>3, <3>1 DEF Spared, SeriesInv, TablesInv, WalkBacksStatus, CancelledIsRecorded
    <2> HIDE DEF ids
    <2>4. /\ c \in Call /\ c.pc = "cancel" /\ c.series = call[r].series
          /\ c.ids = ids /\ c.at = call[r].at
      BY <2>1, <2>2 DEF Call
    <2> HIDE DEF c
    <2>5. CallSound(c) /\ ~Making(c)
      BY <2>1, <2>2, <2>3, <2>4 DEF CallSound, Making
    <2>6. QED
      BY <1>1, <1>3, <2>4, <2>5, CallOnlyKeeps
  <1>4. QED
    BY <1>2, <1>3 DEF SeriesCancelSelect

(* The sessions selected are cancelled with the row of their series; those *)
(* passed over were spared when they were selected and still are.          *)
LEMMA SeriesCancelWriteStep ==
  ASSUME SeriesInv, NEW r \in Request, SeriesCancelWrite(r)
  PROVE  SeriesInv'
  <1> USE DEF SeriesInv
  <1> DEFINE c == call[r]
             s == call[r].series
             marked == [series[s] EXCEPT !.status = "cancelled", !.cancelledAt = now,
                                         !.cancelledBy = c.caller]
  <1>1. /\ c \in Call /\ c.pc = "cancel" /\ CallSound(c)
        /\ UNCHANGED <<walk, req, now, refunds, told, seriesOf, heard>>
        /\ slot' = Reopened(c)
        /\ series' = [series EXCEPT ![s] = marked]
        /\ call' = [call EXCEPT ![r].pc = "tell"]
    BY DEF SeriesCancelWrite, SeriesType, CallsAreSound, Marked, GotoCall
  <1>2. /\ s \in Series /\ s # NoSeries /\ series[s].status # "none" /\ c.at <= now
        /\ c.caller \in Role /\ c.at \in Nat /\ now \in Nat /\ now \in 0..NeverCancelled
        /\ c.ids \subseteq Booking
        /\ \A b \in c.ids : Exists(b) /\ seriesOf[b] = s
    BY <1>1, SeriesAssumption, TimeAssumption
       DEF CallSound, Call, Sessions, TablesInv, TypeOK, NeverCancelled
  <1>3. /\ marked \in SeriesRow /\ marked.status = "cancelled" /\ marked.cancelledAt = now
        /\ marked.service = series[s].service
        /\ marked.rule = series[s].rule
        /\ marked.instanceCount = series[s].instanceCount
    BY <1>2 DEF SeriesType, SeriesRow
  <1> HIDE DEF marked
  <1>4. /\ series' \in [Series -> SeriesRow]
        /\ series'[s] = marked
        /\ \A t \in Series \ {s} : series'[t] = series[t]
    BY <1>1, <1>2, <1>3 DEF SeriesType
  <1>5. ASSUME NEW b \in c.ids
        PROVE  /\ booking'[b] \in Row
               /\ booking'[b].status = "cancelled"
               /\ booking'[b].service = booking[b].service
               /\ booking'[b].start = booking[b].start
               /\ booking'[b].cancellation.by = c.caller
    <2> DEFINE row == [booking[b] EXCEPT !.status = "cancelled", !.cancellation.by = c.caller]
    <2>1. b \in Booking /\ booking[b] \in Row /\ booking[b].cancellation \in Cancellation
      BY <1>2 DEF TablesInv, TypeOK, Row
    <2>2. [booking[b].cancellation EXCEPT !.by = c.caller] \in Cancellation
          /\ [booking[b].cancellation EXCEPT !.by = c.caller].by = c.caller
      BY <1>2, <2>1 DEF Cancellation
    <2>3. /\ row \in Row /\ row.status = "cancelled"
          /\ row.service = booking[b].service /\ row.start = booking[b].start
          /\ row.cancellation.by = c.caller
      BY <2>1, <2>2 DEF Row
    <2>4. booking'[b] = row
      BY <2>1 DEF SeriesCancelWrite
    <2> HIDE DEF row
    <2>5. QED
      BY <2>3, <2>4
  <1>6. \A b \in Booking \ c.ids : booking'[b] = booking[b]
    BY DEF SeriesCancelWrite
  <1>7. booking' \in [Booking -> Row]
    <2>1. \A b \in Booking : booking'[b] \in Row
      BY <1>5, <1>6 DEF TablesInv, TypeOK
    <2>2. booking' = [b \in Booking |-> booking'[b]]
      BY DEF SeriesCancelWrite
    <2>3. QED
      BY <2>1, <2>2
  <1>8. \A b \in Booking :
           /\ booking'[b].status = "none" <=> booking[b].status = "none"
           /\ booking'[b].service = booking[b].service
           /\ booking'[b].start = booking[b].start
           /\ booking[b].status # "pending" => booking'[b].status # "pending"
           /\ booking[b].cancellation.by # "nobody" => booking'[b].cancellation.by # "nobody"
    BY <1>2, <1>5, <1>6 DEF Exists
  <1>9. /\ call' \in [Request -> Call]
        /\ call'[r].pc = "tell"
        /\ \A q \in Request \ {r} : call'[q] = call[q]
    <2> DEFINE done == [c EXCEPT !.pc = "tell"]
    <2>1. done \in Call /\ done.pc = "tell"
      BY <1>1 DEF Call
    <2>2. call' = [call EXCEPT ![r] = done]
      BY <1>1
    <2> HIDE DEF done
    <2>3. QED
      BY <2>1, <2>2 DEF SeriesType
  <1>10. \A k \in SlotKey : \/ slot'[k] = slot[k]
                           \/ slot'[k] = [status |-> "open", booking |-> NoBooking]
    BY <1>1 DEF Reopened
  <1>11. TablesInv'
    <2> USE DEF TablesInv
    <2>1. slot' \in [SlotKey -> [status : {"open", "booked"}, booking : Booking \cup {NoBooking}]]
      BY <1>1 DEF Reopened, TypeOK
    <2>2. TypeOK'
      BY <1>1, <1>7, <2>1 DEF TypeOK
    <2>3. WalkBacksStatus'
      BY <1>1, <1>5, <1>6 DEF WalkBacksStatus
    <2>4. SlotHolderMatches'
      <3>1. \A k \in SlotKey : slot[k].booking # NoBooking => slot[k].booking \in Booking
        BY DEF TypeOK
      <3>2. QED
        BY <1>8, <1>10, <3>1 DEF SlotHolderMatches, Exists
    <2>5. CancelledIsRecorded'
      BY <1>2, <1>5, <1>6 DEF CancelledIsRecorded, Exists
    <2>6. RefundsAreBacked'
      BY <1>1, <1>8 DEF RefundsAreBacked, TypeOK
    <2>7. HandlersAreSound'
      BY <1>1, <1>8, AllStaySound DEF Exists, WalkGoesOn
    <2>8. QED
      BY <2>2, <2>3, <2>4, <2>5, <2>6, <2>7
  <1>12. SeriesType'
    BY <1>1, <1>4, <1>9 DEF SeriesType
  <1>13. \A b \in Booking : Spared(b) => booking'[b].cancellation.by # "nobody" \/ walk'[b] # "none"
    BY <1>1, <1>8 DEF Spared
  <1>14. \A t \in Series : series'[t].status = "none" <=> series[t].status = "none"
    BY <1>2, <1>3, <1>4
  <1>15. CallsAreSound'
    <2> SUFFICES ASSUME NEW q \in Request PROVE CallSound(call[q])'
      BY DEF CallsAreSound
    <2>1. CASE q = r
      BY <1>9, <2>1 DEF CallSound
    <2>2. CASE q # r
      <3>1. call'[q] = call[q] /\ CallSound(call[q])
        BY <1>9, <2>2 DEF CallsAreSound
      <3>2. QED
        BY <1>1, <1>8, <1>13, <1>14, <3>1 DEF CallSound, Sessions, Exists, Spared
    <2>3. QED
      BY <2>1, <2>2
  <1>16. OneMaker'
    BY <1>9 DEF OneMaker, Making
  <1>17. SessionsHaveSeries'
    BY <1>1, <1>8, <1>14 DEF SessionsHaveSeries, Exists, SeriesType
  <1>18. HoldersAreSingle'
    BY <1>1, <1>10 DEF HoldersAreSingle
  <1>19. UnpricedIsSeries'
    <2>1. \A b \in c.ids : seriesOf'[b] = s /\ series'[seriesOf'[b]].status = "cancelled"
      BY <1>1, <1>2, <1>3, <1>4
    <2>2. \A t \in Series : series[t].status = "cancelled" => series'[t].status = "cancelled"
      BY <1>3, <1>4
    <2>3. QED
      BY <1>1, <1>2, <1>6, <2>1, <2>2 DEF UnpricedIsSeries, SeriesType
  <1>20. SeriesIsComplete'
    <2> SUFFICES ASSUME NEW t \in Series PROVE Whole(t)'
      BY DEF SeriesIsComplete, Whole
    <2>0. Whole(t)
      BY DEF SeriesIsComplete, Whole
    <2>1. Sessions(t)' = Sessions(t) /\ Sessions(t) \subseteq Booking
      BY <1>1, <1>8 DEF Sessions, Exists
    <2>2. /\ series'[t].service = series[t].service
          /\ series'[t].rule = series[t].rule
          /\ series'[t].instanceCount = series[t].instanceCount
      BY <1>3, <1>4
    <2>3. QED
      BY <1>8, <1>14, <2>0, <2>1, <2>2, StaysWhole
  <1>21. CancelledSeriesLeavesNoneBehind'
    <2> SUFFICES ASSUME NEW b \in Booking,
                        seriesOf[b] # NoSeries,
                        booking[b].service \in Walking,
                        series'[seriesOf[b]].status = "cancelled",
                        booking[b].start > series'[seriesOf[b]].cancelledAt
                 PROVE  booking'[b].cancellation.by # "nobody" \/ walk'[b] # "none"
      BY <1>1, <1>8 DEF CancelledSeriesLeavesNoneBehind
    <2>1. seriesOf[b] \in Series
      BY DEF SeriesType
    <2>2. CASE seriesOf[b] # s
      <3>1. Spared(b)
        BY <1>4, <2>1, <2>2 DEF CancelledSeriesLeavesNoneBehind, Spared
      <3>2. QED
        BY <1>13, <3>1
    <2>3. CASE seriesOf[b] = s /\ b \in c.ids
      BY <1>2, <1>5, <2>3
    <2>4. CASE seriesOf[b] = s /\ b \notin c.ids
      <3>1. b \in Sessions(s)
        BY <2>4 DEF Sessions, SessionsHaveSeries
      <3>2. booking[b].start > now /\ booking[b].start \in Nat
        BY <1>3, <1>4, <2>4 DEF TablesInv, TypeOK, Row
      <3>3. booking[b].start > c.at
        BY <1>2, <3>2
      <3>4. Spared(b)
        BY <1>1, <2>4, <3>1, <3>3 DEF CallSound
      <3>5. QED
        BY <1>13, <3>4
    <2>5. QED
      BY <2>2, <2>3, <2>4
  <1>22. QED
    BY <1>11, <1>12, <1>15, <1>16, <1>17, <1>18, <1>19, <1>20, <1>21

LEMMA SeriesTellStep ==
  ASSUME SeriesInv, NEW r \in Request, SeriesTell(r) \/ SeriesAbort(r)
  PROVE  SeriesInv'
  <1>1. heard' \in [Series -> SeriesNotice]
    BY DEF SeriesTell, SeriesAbort, SeriesInv, SeriesType, SeriesNotice
  <1>2. AnswerCall(r) /\ UNCHANGED <<vars, series, seriesOf>>
    BY DEF SeriesTell, SeriesAbort
  <1>3. QED
    BY <1>1, <1>2, AnswerCallKeeps

-----------------------------------------------------------------------------
(* The handlers of single bookings and the clock.                          *)

(* What a series relies on in the rows of its sessions survives them.      *)
LEMMA RowsPersist ==
  ASSUME TablesInv, [Next]_vars, NEW b \in Booking
  PROVE  /\ Exists(b) => /\ booking'[b].status # "none"
                         /\ booking'[b].service = booking[b].service
                         /\ booking'[b].start = booking[b].start
         /\ Spared(b) => booking'[b].cancellation.by # "nobody" \/ walk'[b] # "none"
         /\ booking'[b].cancellation \in PolicyOutcome \cup {booking[b].cancellation}
  <1>1. /\ RowStep(booking[b], booking'[b], now)
        /\ walk[b] # "none" => walk'[b] # "none"
    BY RowsStep DEF WalkGoesOn
  <1>2. \A o \in PolicyOutcome \ {NotCancelled} : o.by # "nobody"
    BY DEF PolicyOutcome
  <1>3. NotCancelled \in PolicyOutcome
    BY DEF PolicyOutcome
  <1>4. CASE booking'[b] = booking[b] \/ Moved(booking[b], booking'[b])
    BY <1>1, <1>4 DEF Moved, Exists, Spared
  <1>5. CASE Filled(booking[b], booking'[b])
    BY <1>1, <1>3, <1>5 DEF Filled, Exists, Spared, TablesInv, CancelledIsRecorded
  <1>6. CASE CancelledByPolicy(booking[b], booking'[b], now)
    BY <1>1, <1>2, <1>6 DEF CancelledByPolicy, Exists, Spared
  <1>7. QED
    BY <1>1, <1>4, <1>5, <1>6 DEF RowStep

LEMMA SingleStep ==
  ASSUME SeriesInv, [Next]_vars, UNCHANGED svars
  PROVE  SeriesInv'
  <1> USE DEF SeriesInv
  <1>1. UNCHANGED <<series, seriesOf, call, heard>>
    BY DEF svars
  <1>2. TablesInv'
    BY NextTablesInv
  <1>3. SeriesType'
    BY <1>1 DEF SeriesType
  <1>4. ASSUME NEW b \in Booking
        PROVE  /\ Exists(b) => /\ booking'[b].status # "none"
                               /\ booking'[b].service = booking[b].service
                               /\ booking'[b].start = booking[b].start
               /\ Spared(b) => booking'[b].cancellation.by # "nobody" \/ walk'[b] # "none"
               /\ booking'[b].cancellation \in PolicyOutcome \cup {booking[b].cancellation}
    BY RowsPersist
  <1>5. now \in Nat /\ now' \in Nat /\ now' >= now
    BY ClockStep DEF TablesInv
  <1>6. \A b \in Booking : seriesOf[b] # NoSeries => Exists(b)
    BY DEF SessionsHaveSeries
  <1>7. ASSUME NEW t \in Series
        PROVE  \A b \in Booking : booking'[b].status # "none" /\ seriesOf[b] = t <=>
                                  booking[b].status # "none" /\ seriesOf[b] = t
    BY <1>4, <1>6, SeriesAssumption DEF Exists
  <1>8. CallsAreSound'
    <2> SUFFICES ASSUME NEW q \in Request PROVE CallSound(call[q])'
      BY DEF CallsAreSound
    <2>1. call'[q] = call[q] /\ CallSound(call[q]) /\ call[q] \in Call
      BY <1>1 DEF CallsAreSound, SeriesType
    <2>2. call[q].at \in Nat
      BY <2>1 DEF Call
    <2>3. CASE Making(call[q])
      BY <1>1, <2>1, <2>3 DEF CallSound, Making
    <2>4. CASE call[q].pc \in {"select", "cancel"}
      <3>1. PICK t \in Series : t = call[q].series
        BY <2>1, <2>4 DEF CallSound
      <3>2. call[q].at <= now'
        BY <1>5, <2>1, <2>2, <2>4 DEF CallSound
      <3>3. \A b \in Booking : booking'[b].status # "none" /\ seriesOf[b] = t <=>
                               booking[b].status # "none" /\ seriesOf[b] = t
        BY <1>7
      <3>4. QED
        BY <1>1, <1>4, <2>1, <2>4, <3>1, <3>2, <3>3 DEF CallSound, Sessions, Exists, Spared
    <2>5. CASE ~Making(call[q]) /\ call[q].pc \notin {"select", "cancel"}
      BY <2>1, <2>5 DEF CallSound, Making
    <2>6. QED
      BY <2>3, <2>4, <2>5
  <1>9. OneMaker'
    BY <1>1 DEF OneMaker, Making
  <1>10. SessionsHaveSeries'
    BY <1>1, <1>4 DEF SessionsHaveSeries, Exists
  <1>11. HoldersAreSingle'
    <2> SUFFICES ASSUME NEW k \in SlotKey, slot'[k].booking # NoBooking
                 PROVE  seriesOf[slot'[k].booking] = NoSeries
      BY <1>1 DEF HoldersAreSingle
    <2>1. \/ slot'[k].booking \in {slot[k].booking, NoBooking}
          \/ slot'[k].booking \in Booking /\ ~Exists(slot'[k].booking)
      BY HolderStep
    <2>2. QED
      BY <1>6, <2>1 DEF HoldersAreSingle
  <1>12. UnpricedIsSeries'
    BY <1>1, <1>4 DEF UnpricedIsSeries
  <1>13. SeriesIsComplete'
    <2> SUFFICES ASSUME NEW t \in Series PROVE Whole(t)'
      BY DEF SeriesIsComplete, Whole
    <2>0. Whole(t)
      BY DEF SeriesIsComplete, Whole
    <2>1. Sessions(t)' = Sessions(t)
      BY <1>1, <1>7 DEF Sessions, Exists
    <2>2. \A b \in Sessions(t) : b \in Booking /\ Exists(b)
      BY DEF Sessions
    <2>3. QED
      BY <1>1, <1>4, <2>0, <2>1, <2>2, StaysWhole
  <1>14. CancelledSeriesLeavesNoneBehind'
    BY <1>1, <1>4, <1>6 DEF CancelledSeriesLeavesNoneBehind, Spared
  <1>15. QED
    BY <1>2, <1>3, <1>8, <1>9, <1>10, <1>11, <1>12, <1>13, <1>14

LEMMA SingleIsNext ==
  ASSUME NEW r \in Request, Single(r)
  PROVE  Next
  BY DEF Single, SingleStart, Step, Next, Create, Transition

-----------------------------------------------------------------------------
(* The invariant is inductive.                                             *)

LEMMA SeriesInitInv == SeriesInit => SeriesInv
  <1> SUFFICES ASSUME SeriesInit PROVE SeriesInv
    OBVIOUS
  <1>1. TablesInv
    BY InitTablesInv DEF SeriesInit
  <1>2. NoSeriesRow \in SeriesRow /\ NoSeriesRow.status = "none" /\ NoSeriesRow.instanceCount = 0
    <2>1. (CHOOSE s \in Service : TRUE) \in Service
          /\ (CHOOSE rule \in Rule : TRUE) \in Rule
      BY OfferingAssumption, RuleAssumption
    <2>2. NeverCancelled \in 0..NeverCancelled
      BY TimeAssumption DEF NeverCancelled
    <2>3. QED
      BY <2>1, <2>2 DEF NoSeriesRow, SeriesRow
  <1>3. SeriesType
    BY <1>2, NoCallType DEF SeriesInit, SeriesType, SeriesNotice
  <1>4. CallsAreSound /\ OneMaker
    BY NoCallType DEF SeriesInit, CallsAreSound, CallSound, OneMaker, Making
  <1>5. SessionsHaveSeries /\ HoldersAreSingle
    BY DEF SeriesInit, Init, SessionsHaveSeries, HoldersAreSingle
  <1>6. UnpricedIsSeries
    BY DEF SeriesInit, Init, UnpricedIsSeries, NoRow, PolicyOutcome
  <1>7. SeriesIsComplete
    <2>1. \A s \in Series : Sessions(s) = {}
      BY SeriesAssumption DEF SeriesInit, Sessions
    <2>2. \A s \in Series : series[s] = NoSeriesRow
      BY DEF SeriesInit
    <2>3. QED
      BY <1>2, <2>1, <2>2, FS_EmptySet DEF SeriesIsComplete
  <1>8. CancelledSeriesLeavesNoneBehind
    BY DEF SeriesInit, CancelledSeriesLeavesNoneBehind
  <1>9. QED
    BY <1>1, <1>3, <1>4, <1>5, <1>6, <1>7, <1>8 DEF SeriesInv

LEMMA SeriesNextInv ==
  ASSUME SeriesInv, [SeriesNext]_allvars
  PROVE  SeriesInv'
  <1>1. ASSUME NEW r \in Request, SeriesCreate(r) PROVE SeriesInv'
    BY <1>1, SeriesStartStep, SeriesCheckDateStep, SeriesInsertStep DEF SeriesCreate
  <1>2. ASSUME NEW r \in Request, SeriesCancel(r) PROVE SeriesInv'
    BY <1>2, SeriesCancelStartStep, SeriesCancelSelectStep, SeriesCancelWriteStep
       DEF SeriesCancel
  <1>3. ASSUME NEW r \in Request, SeriesTell(r) \/ SeriesAbort(r) PROVE SeriesInv'
    BY <1>3, SeriesTellStep
  <1>4. ASSUME NEW r \in Request, Single(r), UNCHANGED svars PROVE SeriesInv'
    BY <1>4, SingleIsNext, SingleStep
  <1>5. CASE Tick /\ UNCHANGED svars
    BY <1>5, SingleStep DEF Next
  <1>6. CASE UNCHANGED allvars
    BY <1>6, SingleStep DEF allvars
  <1>7. QED
    BY <1>1, <1>2, <1>3, <1>4, <1>5, <1>6 DEF SeriesNext

(* The invariant holds in every reachable state.                           *)
THEOREM SeriesInvariant == SeriesSpec => []SeriesInv
  <1>1. SeriesInv /\ [SeriesNext]_allvars => SeriesInv'
    BY SeriesNextInv
  <1>2. QED
    BY <1>1, SeriesInitInv, PTL DEF SeriesSpec

-----------------------------------------------------------------------------
(* What follows for the series.                                            *)

(* A series has as many sessions as its row says, all for its offering and *)
(* one for each date of its rule, whatever races or dies while it is made  *)
(* and after.                                                              *)
THEOREM SeriesStaysComplete == SeriesSpec => []SeriesIsComplete
  <1>1. SeriesInv => SeriesIsComplete
    BY DEF SeriesInv
  <1>2. QED
    BY <1>1, SeriesInvariant, PTL

(* cancelRemaining leaves no walk behind that was still ahead, though it   *)
(* selects the sessions in one statement and cancels them in a later one.  *)
THEOREM NoSessionLeftBehind == SeriesSpec => []CancelledSeriesLeavesNoneBehind
  <1>1. SeriesInv => CancelledSeriesLeavesNoneBehind
    BY DEF SeriesInv
  <1>2. QED
    BY <1>1, SeriesInvariant, PTL

(* A cancelled booking without the policy's split of the money belongs to  *)
(* a cancelled series.                                                     *)
THEOREM OnlySeriesLeavesUnpriced == SeriesSpec => []UnpricedOnlyBySeries
  <1>1. SeriesInv => UnpricedOnlyBySeries
    BY DEF SeriesInv, UnpricedIsSeries, UnpricedOnlyBySeries
  <1>2. QED
    BY <1>1, SeriesInvariant, PTL

(* The cancellation of a series frees no slot: only a single booking that  *)
(* was cancelled gives its slot back.                                      *)
THEOREM SeriesFreesNoSlot == SeriesSpec => SlotsSurviveSeries
  <1> DEFINE Reopening ==
        \A k \in SlotKey :
          slot[k].status = "booked" /\ slot'[k].status = "open" =>
             /\ seriesOf[slot[k].booking] = NoSeries
                /\ booking[slot[k].booking].cancellation.by # "nobody"
  <1>1. SeriesInv /\ [SeriesNext]_allvars => [Reopening]_slot
    <2> SUFFICES ASSUME SeriesInv, [SeriesNext]_allvars, slot' # slot,
                        NEW k \in SlotKey, slot[k].status = "booked", slot'[k].status = "open"
                 PROVE  /\ seriesOf[slot[k].booking] = NoSeries
                        /\ booking[slot[k].booking].cancellation.by # "nobody"
      OBVIOUS
    <2>1. seriesOf[slot[k].booking] = NoSeries
      BY DEF SeriesInv, TablesInv, SlotHolderMatches, HoldersAreSingle
    <2>2. CASE [Next]_vars
      BY <2>1, <2>2, ReopeningStep DEF SeriesInv
    <2>3. ASSUME NEW r \in Request, SeriesCancelWrite(r) PROVE FALSE
      <3>1. slot[k].booking \in call[r].ids
        BY <2>3 DEF SeriesCancelWrite, Reopened
      <3>2. /\ call[r].ids \subseteq Sessions(call[r].series) /\ call[r].series \in Series
        BY <2>3 DEF SeriesCancelWrite, SeriesInv, CallsAreSound, CallSound
      <3>3. QED
        BY <2>1, <3>1, <3>2, SeriesAssumption DEF Sessions
    <2>4. QED
      BY <2>2, <2>3, SingleIsNext DEF SeriesNext, allvars, vars, SeriesCreate, SeriesCancel,
         SeriesStart, SeriesCheckDate, SeriesInsert, SeriesCancelStart, SeriesCancelSelect,
         SeriesTell, SeriesAbort, Next
  <1>2. QED
    BY <1>1, SeriesInvariant, PTL DEF SeriesSpec, SlotsSurviveSeries

===============================================================================
