--------------------------- MODULE Payments_proofs ---------------------------
(***************************************************************************)
(* What is true of the payments service for any number of bookings,        *)
(* intents, handlers and restarts, with every scenario switched on: the    *)
(* inductive invariant IInv of Payments, the safety properties in it, that *)
(* webhooks keep to BookingLifecycle, and what makes a charge forgotten.   *)
(***************************************************************************)
EXTENDS Payments, FiniteSetTheorems, TLAPS

USE DEF Role, Status, Terminal, BookingAction, Lifecycle!Status, Lifecycle!BookingAction,
        Lifecycle!Terminal, bookingVars

-----------------------------------------------------------------------------
(* What every step keeps of the tables and of Stripe: rows stay and keep   *)
(* their booking, charges and refunds stay, bookings do not vanish and     *)
(* neither do the columns of their cancellation.                           *)
Keeps ==
    /\ \A i \in Intent : payment[i].status # "none" =>
          payment'[i].status # "none" /\ payment'[i].booking = payment[i].booking
    /\ \A i \in Intent :
          /\ stripe[i].status = "captured" => stripe'[i].status = "captured"
          /\ stripe[i].status # "none" => stripe'[i].status # "none"
          /\ stripe[i].refunded <= stripe'[i].refunded
    /\ \A b \in Booking : status[b] # "none" => status'[b] # "none"
    /\ cancelled \subseteq cancelled'

(* A step that leaves the bookings or the money alone keeps its part.      *)
LEMMA KeepsWhenUnchanged ==
  ASSUME TypeOK, UNCHANGED <<status, cancelled, payment, stripe>>
  PROVE  Keeps
  BY DEF Keeps, TypeOK, Account, Cents

(* The truth of an event is not lost.                                      *)
LEMMA TruthStays ==
  ASSUME TypeOK, TypeOK', Keeps, NEW e \in Event, Truthful(e)
  PROVE  Truthful(e)'
  <1>1. e.intent \in Intent /\ e.cents \in Nat
    BY AmountAssumption DEF Event, Cents
  <1>2. stripe[e.intent].refunded \in Nat /\ stripe'[e.intent].refunded \in Nat
    BY <1>1, AmountAssumption DEF TypeOK, Account, Cents
  <1>3. QED
    BY <1>1, <1>2 DEF Keeps, Truthful

(* Nor what a refund call stands on.                                       *)
Owed(c) == call[c].pc = "issue" =>
    /\ stripe[call[c].intent].status = "captured"
    /\ payment[call[c].intent].booking = call[c].booking
    /\ call[c].booking \in cancelled

LEMMA CallStays ==
  ASSUME TypeOK, Keeps, NEW c \in Call, call'[c] = call[c], CallSound(c), Owed(c)
  PROVE  CallSound(c)' /\ Owed(c)'
  BY DEF Keeps, CallSound, Owed

LEMMA HookStays ==
  ASSUME TypeOK, TypeOK', Keeps, NEW h \in Hook, hook'[h] = hook[h], HookSound(h)
  PROVE  HookSound(h)'
  <1>1. hook[h].pc # "idle" => hook[h].event \in Event
    BY DEF TypeOK, HookState
  <1>2. QED
    BY <1>1, TruthStays DEF HookSound

LEMMA RowsStay ==
  ASSUME RowsAreReal, Keeps, payment' = payment,
         \A i \in Intent : payment[i].status = "none" /\ stripe[i].status \in {"none", "open"}
                              => stripe'[i].status \in {"none", "open"}
  PROVE  RowsAreReal'
  BY DEF RowsAreReal, Keeps

(* The parts of the invariant a step that touches neither pay nor the      *)
(* intents under way keeps.                                                *)
LEMMA PaysStay ==
  ASSUME Keeps, UNCHANGED pay, InsertsApart, \A r \in PayRequest : PaySound(r),
         \A i \in Intent : /\ stripe[i].status = "open" /\ payment[i].status = "none" =>
                                 stripe'[i].status = "open"
                           /\ payment[i].status = "none" => payment'[i].status = "none"
  PROVE  InsertsApart' /\ \A r \in PayRequest : PaySound(r)'
  BY DEF Keeps, PaySound, InsertsApart

LEMMA WritersStay ==
  ASSUME Keeps, UNCHANGED writer, \A w \in Writer : WriterSound(w)
  PROVE  \A w \in Writer : WriterSound(w)'
  BY DEF Keeps, WriterSound

LEMMA CallsStay ==
  ASSUME TypeOK, Keeps, UNCHANGED call, RefundsAreOwed, \A c \in Call : CallSound(c)
  PROVE  RefundsAreOwed' /\ \A c \in Call : CallSound(c)'
  BY CallStays DEF RefundsAreOwed, Owed

LEMMA HooksStay ==
  ASSUME TypeOK, TypeOK', Keeps, UNCHANGED hook, \A h \in Hook : HookSound(h)
  PROVE  \A h \in Hook : HookSound(h)'
  BY HookStays

LEMMA OutboxStays ==
  ASSUME TypeOK, TypeOK', Keeps, outbox' \subseteq outbox, \A e \in outbox : Truthful(e)
  PROVE  \A e \in outbox' : Truthful(e)'
  BY TruthStays DEF TypeOK

(* The bookings part of Keeps, for the steps that move a booking.          *)
LEMMA AdvanceKeeps ==
  ASSUME TypeOK, NEW b \in Booking,
         \/ Lifecycle!Book(b)
         \/ \E action \in BookingAction : Lifecycle!Advance(b, action)
  PROVE  /\ status' \in [Booking -> Status \cup {"none"}]
         /\ \A x \in Booking : status[x] # "none" => status'[x] # "none"
  BY DEF TypeOK, Lifecycle!Book, Lifecycle!Advance, Lifecycle!From, Lifecycle!To

(* Answering 200 only removes events.                                      *)
LEMMA AcknowledgeRemoves ==
  ASSUME NEW e, Acknowledge(e)
  PROVE  outbox' \subseteq outbox
  BY DEF Acknowledge

-----------------------------------------------------------------------------
LEMMA InitIInv == Init => IInv
  <1> SUFFICES ASSUME Init PROVE IInv
    OBVIOUS
  <1>0. Cardinality(Intent) \in Nat
    BY IntentAssumption, FS_CardinalityType
  <1>1. TypeOK
    BY <1>0, AmountAssumption DEF Init, Lifecycle!Init, TypeOK, Payment, Account, NoPayment,
       NoPay, NoHook, NoCall, NoWriter, PayState, HookState, CallState, WriterState, Cents
  <1>2. RowsAreReal /\ LedgerBacked
    BY AmountAssumption DEF Init, RowsAreReal, LedgerBacked, NoPayment
  <1>3. /\ InFlightIsSound /\ RefundsAreOwed /\ InsertsApart
        /\ \A w \in Writer : WriterSound(w)
    BY DEF Init, InFlightIsSound, RefundsAreOwed, InsertsApart, PaySound, HookSound, CallSound,
       WriterSound, NoPay, NoHook, NoCall, NoWriter
  <1>4. QED
    BY <1>1, <1>2, <1>3 DEF IInv

-----------------------------------------------------------------------------
(* Bookings are made and move on.                                          *)

LEMMA StepCreate == IInv /\ Create => IInv'
  <1> SUFFICES ASSUME IInv, Create PROVE IInv'
    OBVIOUS
  <1> USE DEF IInv, InFlightIsSound
  <1>1. PICK b \in Booking : Lifecycle!Book(b)
    BY DEF Create
  <1>2. TypeOK'
    BY <1>1, AdvanceKeeps DEF Create, TypeOK
  <1>3. Keeps
    BY <1>1, AdvanceKeeps DEF Create, TypeOK, Keeps, Account, Cents
  <1>4. RowsAreReal' /\ LedgerBacked'
    BY <1>3, RowsStay DEF Create, LedgerBacked
  <1>5. QED
    BY <1>2, <1>3, <1>4, PaysStay, WritersStay, CallsStay, HooksStay, OutboxStays DEF Create

(* A step that leaves one writer as x and the others alone.                *)
LEMMA WriterMoves ==
  ASSUME TypeOK, Keeps, NEW w \in Writer, NEW x \in WriterState,
         writer' = [writer EXCEPT ![w] = x],
         \A v \in Writer : WriterSound(v),
         x.pc # "idle" => x.booking \in Booking /\ status'[x.booking] # "none",
         x.pc = "release" => x.booking \in cancelled'
  PROVE  writer' \in [Writer -> WriterState] /\ \A v \in Writer : WriterSound(v)'
  <1>1. /\ writer'[w] = x
        /\ \A v \in Writer \ {w} : writer'[v] = writer[v]
    BY DEF TypeOK
  <1>2. QED
    BY <1>1 DEF TypeOK, Keeps, WriterSound

LEMMA NoWriterType == NoWriter \in WriterState /\ NoWriter.pc = "idle"
  BY DEF NoWriter, WriterState

LEMMA StepJudge == \A w \in Writer : IInv /\ Judge(w) => IInv'
  <1> SUFFICES ASSUME IInv, NEW w \in Writer, Judge(w) PROVE IInv'
    OBVIOUS
  <1> USE DEF IInv, InFlightIsSound
  <1>1. PICK b \in Booking, action \in BookingAction :
          /\ status[b] \in From[action]
          /\ writer' = [writer EXCEPT ![w] = [pc |-> "write", booking |-> b, action |-> action]]
    BY DEF Judge
  <1>2. UNCHANGED <<status, cancelled, payment, stripe, outbox, seen, pay, hook, call, restarts>>
    BY DEF Judge
  <1>3. Keeps
    BY <1>2, KeepsWhenUnchanged
  <1> DEFINE x == [pc |-> "write", booking |-> b, action |-> action]
  <1>4. x \in WriterState /\ x.pc = "write" /\ x.booking = b
    BY DEF WriterState
  <1>5. status'[b] # "none"
    BY <1>1, <1>2 DEF From
  <1>6. writer' = [writer EXCEPT ![w] = x]
    BY <1>1
  <1> HIDE DEF x
  <1>7. writer' \in [Writer -> WriterState] /\ \A v \in Writer : WriterSound(v)'
    BY <1>3, <1>4, <1>5, <1>6, WriterMoves
  <1>8. TypeOK'
    BY <1>2, <1>7 DEF TypeOK
  <1>9. RowsAreReal' /\ LedgerBacked'
    BY <1>2 DEF RowsAreReal, LedgerBacked
  <1>10. QED
    BY <1>2, <1>3, <1>7, <1>8, <1>9, PaysStay, CallsStay, HooksStay, OutboxStays

LEMMA StepWriteStatus == \A w \in Writer : IInv /\ WriteStatus(w) => IInv'
  <1> SUFFICES ASSUME IInv, NEW w \in Writer, WriteStatus(w) PROVE IInv'
    OBVIOUS
  <1> USE DEF IInv, InFlightIsSound
  <1>1. /\ writer[w] \in WriterState /\ writer[w].pc = "write"
        /\ writer[w].booking \in Booking /\ writer[w].action \in BookingAction
    BY DEF WriteStatus, TypeOK, WriterSound, WriterState
  <1>2. PICK b \in Booking, action \in BookingAction :
          b = writer[w].booking /\ action = writer[w].action
    BY <1>1
  <1>3. /\ status' = [status EXCEPT ![b] = To[action]]
        /\ cancelled' = cancelled \cup {x \in {b} : action = "cancel"}
        /\ UNCHANGED <<payment, stripe, outbox, seen, pay, hook, call, restarts>>
    BY <1>2 DEF WriteStatus
  <1>4. To[action] \in Status
    BY DEF To
  <1>5. /\ status' \in [Booking -> Status \cup {"none"}] /\ cancelled' \subseteq Booking
        /\ status'[b] # "none"
    BY <1>3, <1>4 DEF TypeOK
  <1>6. Keeps
    BY <1>3, <1>4 DEF Keeps, TypeOK, Account, Cents
  <1>7. PICK x \in WriterState :
          /\ writer' = [writer EXCEPT ![w] = x]
          /\ x.pc # "idle" => x.booking = b
          /\ x.pc = "release" => b \in cancelled'
    <2>1. CASE action = "cancel"
      <3> DEFINE x == [writer[w] EXCEPT !.pc = "release"]
      <3>1. x \in WriterState /\ x.booking = b
        BY <1>1, <1>2 DEF WriterState
      <3>2. writer' = [writer EXCEPT ![w] = x]
        BY <1>2, <2>1 DEF WriteStatus, TypeOK
      <3>3. b \in cancelled'
        BY <1>3, <2>1
      <3> HIDE DEF x
      <3>4. QED
        BY <3>1, <3>2, <3>3
    <2>2. CASE action # "cancel"
      <3>1. writer' = [writer EXCEPT ![w] = NoWriter]
        BY <1>2, <2>2 DEF WriteStatus, TypeOK
      <3>2. QED
        BY <3>1, NoWriterType
    <2>3. QED
      BY <2>1, <2>2
  <1>8. writer' \in [Writer -> WriterState] /\ \A v \in Writer : WriterSound(v)'
    BY <1>5, <1>6, <1>7, WriterMoves
  <1>9. TypeOK'
    BY <1>3, <1>5, <1>8 DEF TypeOK
  <1>10. RowsAreReal' /\ LedgerBacked'
    BY <1>3, <1>6, RowsStay DEF LedgerBacked
  <1>11. QED
    BY <1>3, <1>6, <1>8, <1>9, <1>10, PaysStay, CallsStay, HooksStay, OutboxStays

LEMMA StepHandOver == \A w \in Writer : IInv /\ HandOver(w) => IInv'
  <1> SUFFICES ASSUME IInv, NEW w \in Writer, HandOver(w) PROVE IInv'
    OBVIOUS
  <1> USE DEF IInv, InFlightIsSound
  <1>1. UNCHANGED <<status, cancelled, payment, stripe, outbox, seen, pay, hook, restarts>>
    BY DEF HandOver
  <1>2. Keeps
    BY <1>1, KeepsWhenUnchanged
  <1>3. writer' \in [Writer -> WriterState] /\ \A v \in Writer : WriterSound(v)'
    BY <1>2, NoWriterType, WriterMoves DEF HandOver
  <1>4. RowsAreReal' /\ LedgerBacked'
    BY <1>1 DEF RowsAreReal, LedgerBacked
  <1>5. CASE UNCHANGED call
    <2>1. TypeOK'
      BY <1>1, <1>3, <1>5 DEF TypeOK
    <2>2. QED
      BY <1>1, <1>2, <1>3, <1>4, <1>5, <2>1, PaysStay, CallsStay, HooksStay, OutboxStays
  <1>6. ASSUME NEW c \in Call,
               call' = [call EXCEPT ![c] = [NoCall EXCEPT !.pc = "read",
                                                        !.booking = writer[w].booking]]
        PROVE  IInv'
    <2> DEFINE begun == [NoCall EXCEPT !.pc = "read", !.booking = writer[w].booking]
    <2>1. writer[w].booking \in cancelled /\ writer[w].booking \in Booking
      BY DEF HandOver, WriterSound
    <2>2. begun \in CallState /\ begun.pc = "read" /\ begun.booking = writer[w].booking
      <3>1. NoCall \in CallState
        BY AmountAssumption DEF NoCall, CallState, Cents
      <3>2. QED
        BY <2>1, <3>1 DEF CallState
    <2>3. call' = [call EXCEPT ![c] = begun]
      BY <1>6
    <2> HIDE DEF begun
    <2>4. TypeOK'
      BY <1>1, <1>3, <2>2, <2>3 DEF TypeOK
    <2>5. ASSUME NEW d \in Call PROVE CallSound(d)' /\ Owed(d)'
      <3>1. CASE d = c
        <4>1. call'[d] = begun
          BY <2>3, <3>1 DEF TypeOK
        <4>2. QED
          BY <1>1, <2>1, <2>2, <4>1 DEF CallSound, Owed
      <3>2. CASE d # c
        <4>1. call'[d] = call[d]
          BY <2>3, <3>2 DEF TypeOK
        <4>2. QED
          BY <1>2, <4>1, CallStays DEF RefundsAreOwed, Owed
      <3>3. QED
        BY <3>1, <3>2
    <2>6. RefundsAreOwed'
      BY <2>5 DEF RefundsAreOwed, Owed
    <2>7. QED
      BY <1>1, <1>2, <1>3, <1>4, <2>4, <2>5, <2>6, PaysStay, HooksStay, OutboxStays
  <1>7. QED
    BY <1>5, <1>6 DEF HandOver

-----------------------------------------------------------------------------
(* createIntentForBooking.                                                 *)

(* A step of call r that changes nothing but pay[r].                       *)
LEMMA PayMoves ==
  ASSUME IInv, NEW r \in PayRequest, NEW p \in PayState,
         pay' = [pay EXCEPT ![r] = p], p.pc # "insert",
         p.pc # "idle" => p.booking \in Booking /\ status[p.booking] # "none",
         UNCHANGED <<bookingVars, payment, stripe, outbox, seen, hook, call, restarts>>
  PROVE  IInv'
  <1> USE DEF IInv, InFlightIsSound
  <1>1. TypeOK'
    BY DEF TypeOK
  <1>2. Keeps
    BY KeepsWhenUnchanged
  <1>3. RowsAreReal' /\ LedgerBacked'
    BY <1>2, RowsStay DEF LedgerBacked
  <1>4. /\ pay'[r] = p
        /\ \A q \in PayRequest \ {r} : pay'[q] = pay[q]
    BY DEF TypeOK
  <1>5. InsertsApart' /\ \A q \in PayRequest : PaySound(q)'
    BY <1>4 DEF PaySound, InsertsApart
  <1>6. QED
    BY <1>1, <1>2, <1>3, <1>5, CallsStay, HooksStay, OutboxStays, WritersStay

LEMMA StepPayRead == \A r \in PayRequest : IInv /\ PayRead(r) => IInv'
  <1> SUFFICES ASSUME IInv, NEW r \in PayRequest, PayRead(r) PROVE IInv'
    OBVIOUS
  <1>1. PICK b \in Booking :
          /\ status[b] \notin {"none", "cancelled"}
          /\ pay' = [pay EXCEPT ![r] = [NoPay EXCEPT !.pc = "lookup", !.booking = b]]
    BY DEF PayRead
  <1> DEFINE p == [NoPay EXCEPT !.pc = "lookup", !.booking = b]
  <1>2. p \in PayState /\ p.pc = "lookup" /\ p.booking = b
    BY DEF NoPay, PayState
  <1>3. pay' = [pay EXCEPT ![r] = p]
    BY <1>1
  <1> HIDE DEF p
  <1>4. QED
    BY <1>1, <1>2, <1>3, PayMoves DEF PayRead

LEMMA StepPayLookup == \A r \in PayRequest : IInv /\ PayLookup(r) => IInv'
  <1> SUFFICES ASSUME IInv, NEW r \in PayRequest, PayLookup(r) PROVE IInv'
    OBVIOUS
  <1>1. pay[r] \in PayState /\ PaySound(r) /\ pay[r].pc = "lookup"
    BY DEF IInv, TypeOK, InFlightIsSound, PayLookup
  <1> DEFINE p == IF Reusable(pay[r].booking) THEN NoPay ELSE [pay[r] EXCEPT !.pc = "mint"]
  <1>2. /\ p \in PayState
        /\ p.pc = "idle" \/ (p.pc = "mint" /\ p.booking = pay[r].booking)
    <2>1. CASE Reusable(pay[r].booking)
      BY <2>1 DEF NoPay, PayState
    <2>2. CASE ~Reusable(pay[r].booking)
      BY <1>1, <2>2 DEF PayState
    <2>3. QED
      BY <2>1, <2>2
  <1>3. pay' = [pay EXCEPT ![r] = p]
    BY DEF PayLookup, IInv, TypeOK
  <1> HIDE DEF p
  <1>4. QED
    BY <1>1, <1>2, <1>3, PayMoves DEF PayLookup, PaySound

LEMMA StepPayMint == \A r \in PayRequest : IInv /\ PayMint(r) => IInv'
  <1> SUFFICES ASSUME IInv, NEW r \in PayRequest, PayMint(r) PROVE IInv'
    OBVIOUS
  <1> USE DEF IInv, InFlightIsSound
  <1>0. pay[r] \in PayState /\ PaySound(r) /\ pay[r].pc = "mint"
    BY DEF TypeOK, PayMint
  <1>1. PICK i \in Intent :
          /\ stripe[i].status = "none"
          /\ stripe' = [stripe EXCEPT ![i].status = "open"]
          /\ pay' = [pay EXCEPT ![r] = [@ EXCEPT !.pc = "insert", !.intent = i]]
    BY DEF PayMint
  <1> DEFINE p == [pay[r] EXCEPT !.pc = "insert", !.intent = i]
  <1>2. /\ p \in PayState /\ p.pc = "insert" /\ p.intent = i
        /\ p.booking = pay[r].booking
    BY <1>0 DEF PayState
  <1>3. pay' = [pay EXCEPT ![r] = p]
    BY <1>1 DEF TypeOK
  <1> HIDE DEF p
  <1>4. TypeOK'
    BY <1>1, <1>2, <1>3 DEF TypeOK, PayMint, Account
  <1>5. /\ stripe'[i].status = "open" /\ stripe'[i].refunded = stripe[i].refunded
        /\ \A j \in Intent \ {i} : stripe'[j] = stripe[j]
    BY <1>1 DEF TypeOK, Account
  <1>6. Keeps
    BY <1>1, <1>5 DEF PayMint, Keeps, TypeOK, Account, Cents
  <1>7. payment[i].status = "none"
    BY <1>1 DEF RowsAreReal
  <1>8. RowsAreReal'
    BY <1>5, <1>6, RowsStay DEF PayMint
  <1>9. LedgerBacked'
    BY <1>1, <1>5 DEF LedgerBacked, PayMint
  <1>10. /\ pay'[r] = p
         /\ \A q \in PayRequest \ {r} : pay'[q] = pay[q]
    BY <1>3 DEF TypeOK
  <1>11. ASSUME NEW q \in PayRequest PROVE PaySound(q)'
    <2>1. CASE q = r
      <3>1. pay'[q].intent = i /\ pay'[q].booking = pay[r].booking
        BY <1>2, <1>10, <2>1
      <3>2. status'[pay'[q].booking] # "none" /\ pay'[q].booking \in Booking
        BY <1>0, <3>1 DEF PaySound, PayMint
      <3>3. stripe'[i].status = "open" /\ payment'[i].status = "none" /\ i \in Intent
        BY <1>5, <1>7 DEF PayMint
      <3>4. QED
        BY <2>1, <3>1, <3>2, <3>3 DEF PaySound
    <2>2. CASE q # r
      <3>1. pay'[q] = pay[q] /\ PaySound(q)
        BY <1>10, <2>2
      <3>2. pay[q].pc = "insert" => pay[q].intent # i
        BY <1>1, <3>1 DEF PaySound
      <3>3. pay[q].pc = "insert" => stripe'[pay[q].intent] = stripe[pay[q].intent]
        BY <1>5, <3>1, <3>2 DEF PaySound
      <3>4. status' = status /\ payment' = payment
        BY DEF PayMint
      <3>5. QED
        BY <3>1, <3>3, <3>4 DEF PaySound
    <2>3. QED
      BY <2>1, <2>2
  <1>12. InsertsApart'
    <2>1. \A q \in PayRequest \ {r} : pay[q].pc = "insert" => pay[q].intent # i
      BY <1>1 DEF PaySound
    <2>2. QED
      BY <1>2, <1>10, <2>1 DEF InsertsApart
  <1>13. QED
    BY <1>4, <1>6, <1>8, <1>9, <1>11, <1>12, CallsStay, HooksStay, OutboxStays, WritersStay
       DEF PayMint

LEMMA StepPayInsert == \A r \in PayRequest : IInv /\ PayInsert(r) => IInv'
  <1> SUFFICES ASSUME IInv, NEW r \in PayRequest, PayInsert(r) PROVE IInv'
    OBVIOUS
  <1> USE DEF IInv, InFlightIsSound
  <1> DEFINE i == pay[r].intent
             n == Cardinality({j \in Intent : payment[j].status # "none"})
             row == [NoPayment EXCEPT !.status = "requires_action", !.booking = pay[r].booking,
                                      !.created = n]
  <1>0. /\ pay[r] \in PayState /\ PaySound(r) /\ pay[r].pc = "insert"
        /\ i \in Intent /\ payment[i].status = "none"
        /\ pay[r].booking \in Booking /\ status[pay[r].booking] # "none"
        /\ stripe[i].status = "open"
    BY DEF TypeOK, PayInsert, PaySound
  <1>1. n \in 0..Cardinality(Intent)
    <2>1. {j \in Intent : payment[j].status # "none"} \subseteq Intent
      OBVIOUS
    <2>2. QED
      BY <2>1, IntentAssumption, FS_Subset, FS_CardinalityType
  <1>2. /\ row \in Payment /\ row.status = "requires_action" /\ row.charge = FALSE
        /\ row.refunded = 0 /\ row.booking = pay[r].booking
    <2>1. NoPayment \in Payment /\ NoPayment.charge = FALSE /\ NoPayment.refunded = 0
      BY AmountAssumption, IntentAssumption, FS_CardinalityType DEF NoPayment, Payment, Cents
    <2>2. QED
      BY <1>0, <1>1, <2>1 DEF Payment
  <1>3. payment' = [payment EXCEPT ![i] = row]
    BY DEF PayInsert
  <1> HIDE DEF row, n
  <1>4. /\ payment'[i] = row
        /\ \A j \in Intent \ {i} : payment'[j] = payment[j]
    BY <1>0, <1>3 DEF TypeOK
  <1>5. /\ pay'[r] = NoPay
        /\ \A q \in PayRequest \ {r} : pay'[q] = pay[q]
    BY DEF PayInsert, TypeOK
  <1>6. TypeOK'
    BY <1>0, <1>2, <1>3 DEF PayInsert, TypeOK, NoPay, PayState
  <1>7. Keeps
    <2>1. \A j \in Intent : payment[j].status # "none" => payment'[j] = payment[j]
      BY <1>0, <1>4
    <2>2. UNCHANGED <<stripe, status, cancelled>>
      BY DEF PayInsert
    <2>3. \A j \in Intent : stripe[j].refunded \in Int
      BY AmountAssumption DEF TypeOK, Account, Cents
    <2>4. QED
      BY <2>1, <2>2, <2>3 DEF Keeps
  <1>8. RowsAreReal'
    BY <1>0, <1>2, <1>4 DEF PayInsert, RowsAreReal, NoPayment
  <1>9. LedgerBacked'
    <2>1. stripe[i].refunded \in Nat
      BY <1>0, AmountAssumption DEF TypeOK, Account, Cents
    <2>2. stripe' = stripe
      BY DEF PayInsert
    <2>3. QED
      BY <1>2, <1>4, <2>1, <2>2 DEF LedgerBacked
  <1>10. ASSUME NEW q \in PayRequest PROVE PaySound(q)'
    <2>1. CASE q = r
      BY <1>5, <2>1 DEF PaySound, NoPay
    <2>2. CASE q # r
      <3>1. pay'[q] = pay[q] /\ PaySound(q)
        BY <1>5, <2>2
      <3>2. pay[q].pc = "insert" => pay[q].intent # i
        BY <1>0, <2>2 DEF InsertsApart
      <3>3. pay[q].pc = "insert" => payment'[pay[q].intent] = payment[pay[q].intent]
        BY <1>4, <3>1, <3>2 DEF PaySound
      <3>4. QED
        BY <1>5, <3>1, <3>3 DEF PaySound, PayInsert, NoPay
    <2>3. QED
      BY <2>1, <2>2
  <1>11. InsertsApart'
    BY <1>5 DEF InsertsApart, NoPay
  <1>12. QED
    BY <1>6, <1>7, <1>8, <1>9, <1>10, <1>11, CallsStay, HooksStay, OutboxStays, WritersStay
       DEF PayInsert

-----------------------------------------------------------------------------
(* Stripe: captures, declines and refunds by hand.                         *)

(* A step of Stripe on an intent whose row is there, after which the       *)
(* account is a and the event e, which is true, is in the outbox.          *)
LEMMA StripeMoves ==
  ASSUME IInv, NEW i \in Intent, NEW a \in Account, NEW e \in Event,
         payment[i].status # "none",
         stripe' = [stripe EXCEPT ![i] = a],
         outbox' = outbox \cup {e},
         a.status # "none",
         stripe[i].status = "captured" => a.status = "captured",
         stripe[i].refunded <= a.refunded,
         e.intent = i,
         e.type = "succeeded" => a.status = "captured",
         e.type = "refunded" => e.cents \in 1..a.refunded,
         UNCHANGED <<bookingVars, payment, seen, pay, hook, restarts>>,
         \A c \in Call : call'[c] = call[c] \/ call'[c] = NoCall,
         call' \in [Call -> CallState]
  PROVE  IInv'
  <1> USE DEF IInv, InFlightIsSound
  <1>1. TypeOK'
    BY DEF TypeOK
  <1>2. /\ stripe'[i] = a
        /\ \A j \in Intent \ {i} : stripe'[j] = stripe[j]
    BY DEF TypeOK
  <1>3. Keeps
    <2>1. \A j \in Intent : stripe[j].refunded \in Int
      BY AmountAssumption DEF TypeOK, Account, Cents
    <2>2. QED
      BY <1>2, <2>1 DEF Keeps
  <1>4. RowsAreReal'
    BY <1>2, <1>3, RowsStay
  <1>5. LedgerBacked'
    <2>1. payment[i].refunded \in Int /\ stripe[i].refunded \in Int /\ a.refunded \in Int
      BY AmountAssumption DEF TypeOK, Account, Payment, Cents
    <2>2. QED
      BY <1>2, <2>1 DEF LedgerBacked
  <1>6. InsertsApart' /\ \A r \in PayRequest : PaySound(r)'
    BY <1>2, <1>3, PaysStay
  <1>7. Truthful(e)'
    BY <1>2 DEF Truthful
  <1>8. \A x \in outbox' : Truthful(x)'
    BY <1>1, <1>3, <1>7, TruthStays DEF TypeOK
  <1>9. \A c \in Call : CallSound(c)' /\ Owed(c)'
    <2> SUFFICES ASSUME NEW c \in Call PROVE CallSound(c)' /\ Owed(c)'
      OBVIOUS
    <2>1. CASE call'[c] = call[c]
      BY <1>3, <2>1, CallStays DEF RefundsAreOwed, Owed
    <2>2. CASE call'[c] = NoCall
      BY <2>2 DEF CallSound, Owed, NoCall
    <2>3. QED
      BY <2>1, <2>2
  <1>10. RefundsAreOwed'
    BY <1>9 DEF RefundsAreOwed, Owed
  <1>11. QED
    BY <1>1, <1>3, <1>4, <1>5, <1>6, <1>8, <1>9, <1>10, HooksStay, WritersStay

(* A refund of a captured charge, which brings what was refunded to total. *)
LEMMA RefundMoves ==
  ASSUME IInv, NEW i \in Intent, NEW total \in Cents, total > 0,
         stripe[i].refunded <= total,
         stripe[i].status = "captured",
         stripe' = [stripe EXCEPT ![i].refunded = total],
         Emit("refunded", i, total),
         UNCHANGED <<bookingVars, payment, seen, pay, hook, restarts>>,
         \A c \in Call : call'[c] = call[c] \/ call'[c] = NoCall,
         call' \in [Call -> CallState]
  PROVE  IInv'
  <1>1. stripe[i] \in Account /\ payment[i].status # "none"
    BY DEF IInv, TypeOK, RowsAreReal
  <1>2. PICK a \in Account : /\ a.status = "captured" /\ a.refunded = total
                             /\ stripe' = [stripe EXCEPT ![i] = a]
    <2> DEFINE x == [stripe[i] EXCEPT !.refunded = total]
    <2>1. x \in Account /\ x.status = "captured" /\ x.refunded = total
      BY <1>1 DEF Account
    <2>2. stripe' = [stripe EXCEPT ![i] = x]
      BY DEF IInv, TypeOK
    <2> HIDE DEF x
    <2>3. QED
      BY <2>1, <2>2
  <1>3. PICK e \in Event : /\ e.type = "refunded" /\ e.intent = i /\ e.cents = total
                           /\ outbox' = outbox \cup {e}
    <2> DEFINE x == [type |-> "refunded", intent |-> i, cents |-> total]
    <2>1. x \in Event /\ x.type = "refunded" /\ x.intent = i /\ x.cents = total
      BY DEF Event
    <2>2. outbox' = outbox \cup {x}
      BY DEF Emit
    <2> HIDE DEF x
    <2>3. QED
      BY <2>1, <2>2
  <1>4. e.cents \in 1..a.refunded
    BY <1>2, <1>3, AmountAssumption DEF Cents
  <1>5. QED
    BY <1>1, <1>2, <1>3, <1>4, StripeMoves

LEMMA StepCapture == \A i \in Intent : IInv /\ Capture(i) => IInv'
  <1> SUFFICES ASSUME IInv, NEW i \in Intent, Capture(i) PROVE IInv'
    OBVIOUS
  <1>1. stripe[i] \in Account /\ stripe[i].refunded \in Nat /\ call \in [Call -> CallState]
    BY AmountAssumption DEF IInv, TypeOK, Account, Cents
  <1>2. PICK a \in Account : /\ a.status = "captured" /\ a.refunded = stripe[i].refunded
                             /\ stripe' = [stripe EXCEPT ![i] = a]
    <2> DEFINE x == [stripe[i] EXCEPT !.status = "captured"]
    <2>1. x \in Account /\ x.status = "captured" /\ x.refunded = stripe[i].refunded
      BY <1>1 DEF Account
    <2>2. stripe' = [stripe EXCEPT ![i] = x]
      BY DEF Capture, IInv, TypeOK
    <2> HIDE DEF x
    <2>3. QED
      BY <2>1, <2>2
  <1>3. PICK e \in Event : e.type = "succeeded" /\ e.intent = i /\ outbox' = outbox \cup {e}
    <2> DEFINE x == [type |-> "succeeded", intent |-> i, cents |-> 0]
    <2>1. x \in Event /\ x.type = "succeeded" /\ x.intent = i
      BY AmountAssumption DEF Event, Cents
    <2>2. outbox' = outbox \cup {x}
      BY DEF Capture, Emit
    <2> HIDE DEF x
    <2>3. QED
      BY <2>1, <2>2
  <1>4. payment[i].status # "none"
    BY <1>2 DEF Capture
  <1>5. UNCHANGED <<bookingVars, payment, seen, pay, hook, call, restarts>>
    BY DEF Capture
  <1>6. QED
    <2>1. /\ a.status # "none" /\ stripe[i].refunded <= a.refunded
          /\ stripe[i].status = "captured" => a.status = "captured"
          /\ e.type = "succeeded" => a.status = "captured"
          /\ e.type # "refunded"
      BY <1>1, <1>2, <1>3, <1>4
    <2>2. \A c \in Call : call'[c] = call[c]
      BY <1>5
    <2>3. call' \in [Call -> CallState]
      BY <1>1, <1>5
    <2>4. QED
      BY <1>2, <1>3, <1>4, <1>5, <2>1, <2>2, <2>3, StripeMoves

LEMMA StepDecline == \A i \in Intent : IInv /\ Decline(i) => IInv'
  <1> SUFFICES ASSUME IInv, NEW i \in Intent, Decline(i) PROVE IInv'
    OBVIOUS
  <1>1. stripe[i] \in Account /\ stripe[i].refunded \in Nat /\ call \in [Call -> CallState]
    BY AmountAssumption DEF IInv, TypeOK, Account, Cents
  <1>2. PICK a \in Account : /\ a.status = "declined" /\ a.refunded = stripe[i].refunded
                             /\ stripe' = [stripe EXCEPT ![i] = a]
    <2> DEFINE x == [stripe[i] EXCEPT !.status = "declined"]
    <2>1. x \in Account /\ x.status = "declined" /\ x.refunded = stripe[i].refunded
      BY <1>1 DEF Account
    <2>2. stripe' = [stripe EXCEPT ![i] = x]
      BY DEF Decline, IInv, TypeOK
    <2> HIDE DEF x
    <2>3. QED
      BY <2>1, <2>2
  <1>3. PICK e \in Event : e.type = "failed" /\ e.intent = i /\ outbox' = outbox \cup {e}
    <2> DEFINE x == [type |-> "failed", intent |-> i, cents |-> 0]
    <2>1. x \in Event /\ x.type = "failed" /\ x.intent = i
      BY AmountAssumption DEF Event, Cents
    <2>2. outbox' = outbox \cup {x}
      BY DEF Decline, Emit
    <2> HIDE DEF x
    <2>3. QED
      BY <2>1, <2>2
  <1>4. payment[i].status # "none" /\ stripe[i].status # "captured"
    BY <1>2 DEF Decline
  <1>5. UNCHANGED <<bookingVars, payment, seen, pay, hook, call, restarts>>
    BY DEF Decline
  <1>6. QED
    <2>1. /\ a.status # "none" /\ stripe[i].refunded <= a.refunded
          /\ stripe[i].status = "captured" => a.status = "captured"
          /\ e.type = "succeeded" => a.status = "captured"
          /\ e.type # "refunded"
      BY <1>1, <1>2, <1>3, <1>4
    <2>2. \A c \in Call : call'[c] = call[c]
      BY <1>5
    <2>3. call' \in [Call -> CallState]
      BY <1>1, <1>5
    <2>4. QED
      BY <1>2, <1>3, <1>4, <1>5, <2>1, <2>2, <2>3, StripeMoves

LEMMA StepRefundPart == \A i \in Intent : IInv /\ RefundPart(i) => IInv'
  <1> SUFFICES ASSUME IInv, NEW i \in Intent, RefundPart(i) PROVE IInv'
    OBVIOUS
  <1>1. /\ stripe[i] \in Account /\ stripe[i].refunded \in Nat /\ stripe[i].refunded < Price
        /\ stripe[i].status = "captured" /\ call \in [Call -> CallState]
    BY AmountAssumption DEF IInv, TypeOK, Account, Cents, RefundPart
  <1>2. PICK total \in Cents : total = stripe[i].refunded + 1
    BY <1>1, AmountAssumption DEF Cents
  <1>3. stripe' = [stripe EXCEPT ![i].refunded = total] /\ Emit("refunded", i, total)
    BY <1>2 DEF RefundPart, IInv, TypeOK
  <1>4. UNCHANGED <<bookingVars, payment, seen, pay, hook, call, restarts>>
    BY DEF RefundPart
  <1>5. total > 0 /\ stripe[i].refunded <= total
    BY <1>1, <1>2
  <1>6. QED
    BY <1>1, <1>3, <1>4, <1>5, RefundMoves

-----------------------------------------------------------------------------
(* Webhooks.                                                               *)

(* A step of hook h that leaves a handler as k, the rows as they are in    *)
(* payment', the bookings as in status', and Stripe alone.                 *)
LEMMA HookMoves ==
  ASSUME IInv, NEW h \in Hook, NEW k \in HookState,
         hook' = [hook EXCEPT ![h] = k],
         k.pc # "idle" => Truthful(k.event),
         k.pc = "confirm" => k.event.type = "succeeded",
         status' \in [Booking -> Status \cup {"none"}],
         payment' \in [Intent -> Payment],
         seen' \subseteq Event,
         outbox' \subseteq outbox,
         UNCHANGED <<cancelled, writer, stripe, pay, call, restarts>>,
         Keeps, LedgerBacked',
         \A i \in Intent : payment[i].status = "none" => payment'[i] = payment[i]
  PROVE  IInv'
  <1> USE DEF IInv, InFlightIsSound
  <1>1. TypeOK'
    BY DEF TypeOK
  <1>2. RowsAreReal'
    BY DEF RowsAreReal, Keeps
  <1>3. InsertsApart' /\ \A r \in PayRequest : PaySound(r)'
    BY PaysStay
  <1>4. k.pc # "idle" => k.event \in Event
    BY DEF HookState
  <1>5. k.pc # "idle" => Truthful(k.event)'
    BY <1>1, <1>4, TruthStays
  <1>6. /\ hook'[h] = k
        /\ \A g \in Hook \ {h} : hook'[g] = hook[g]
    BY DEF TypeOK
  <1>7. \A g \in Hook : HookSound(g)'
    <2> SUFFICES ASSUME NEW g \in Hook PROVE HookSound(g)'
      OBVIOUS
    <2>1. CASE g = h
      BY <1>5, <1>6, <2>1 DEF HookSound, Truthful
    <2>2. CASE g # h
      BY <1>1, <1>6, <2>2, HookStays
    <2>3. QED
      BY <2>1, <2>2
  <1>8. QED
    BY <1>1, <1>2, <1>3, <1>7, CallsStay, OutboxStays, WritersStay

LEMMA StepDeliver == \A h \in Hook : IInv /\ (\E e \in outbox : Deliver(h, e)) => IInv'
  <1> SUFFICES ASSUME IInv, NEW h \in Hook, NEW e \in outbox, Deliver(h, e) PROVE IInv'
    OBVIOUS
  <1> USE DEF IInv
  <1>1. e \in Event /\ Truthful(e)
    BY DEF TypeOK, InFlightIsSound
  <1>2. UNCHANGED <<bookingVars, payment, stripe, pay, call, restarts>>
    BY DEF Deliver
  <1>3. outbox' \subseteq outbox
    BY AcknowledgeRemoves DEF Deliver
  <1>4. Keeps /\ LedgerBacked'
    BY <1>2, KeepsWhenUnchanged DEF LedgerBacked
  <1>5. PICK k \in HookState :
          /\ hook' = [hook EXCEPT ![h] = k]
          /\ k.pc # "idle" => Truthful(k.event)
          /\ k.pc # "confirm"
    <2>1. CASE e \in seen
      <3>1. hook' = [hook EXCEPT ![h] = hook[h]] /\ hook[h] \in HookState
            /\ hook[h].pc = "idle"
        BY <2>1 DEF Deliver, TypeOK
      <3>2. QED
        BY <3>1
    <2>2. CASE e \notin seen
      <3> DEFINE x == [pc |-> "apply", event |-> e]
      <3>1. x \in HookState /\ x.pc = "apply" /\ x.event = e
        BY <1>1 DEF HookState
      <3>2. hook' = [hook EXCEPT ![h] = x]
        BY <2>2 DEF Deliver
      <3> HIDE DEF x
      <3>3. QED
        BY <1>1, <3>1, <3>2
    <2>3. QED
      BY <2>1, <2>2
  <1>6. seen' \subseteq Event
    BY <1>1 DEF Deliver, TypeOK
  <1>7. status' \in [Booking -> Status \cup {"none"}] /\ payment' \in [Intent -> Payment]
    BY <1>2 DEF TypeOK
  <1>8. QED
    BY <1>2, <1>3, <1>4, <1>5, <1>6, <1>7, HookMoves

(* The event a busy handler is about, and its row.                         *)
LEMMA HookEvent ==
  ASSUME IInv, NEW h \in Hook, hook[h].pc # "idle"
  PROVE  /\ hook[h].event \in Event
         /\ hook[h].event.intent \in Intent
         /\ Truthful(hook[h].event)
         /\ payment[hook[h].event.intent] \in Payment
         /\ payment[hook[h].event.intent].status # "none"
         /\ payment[hook[h].event.intent].booking \in Booking
         /\ hook[h] \in HookState
         /\ hook[h].pc \in {"apply", "confirm"}
  <1>1. hook[h] \in HookState /\ HookSound(h)
    BY DEF IInv, TypeOK, InFlightIsSound
  <1>2. hook[h].event \in Event /\ Truthful(hook[h].event) /\ hook[h].pc \in {"apply", "confirm"}
    BY <1>1 DEF HookState, HookSound
  <1>3. hook[h].event.intent \in Intent
    BY <1>2 DEF Event
  <1>4. QED
    BY <1>1, <1>2, <1>3 DEF IInv, TypeOK, RowsAreReal, Truthful

(* A handler writes row p for the intent of its event: the row keeps its   *)
(* booking, its charge was captured and its refund was made.               *)
LEMMA RowMoves ==
  ASSUME IInv, NEW i \in Intent, NEW p \in Payment,
         payment' = [payment EXCEPT ![i] = p], UNCHANGED <<stripe, status, cancelled>>,
         payment[i].status # "none",
         p.status # "none", p.booking = payment[i].booking,
         p.status = "succeeded" => p.charge,
         p.status = "refunded" => p.charge /\ p.refunded > 0,
         p.charge => stripe[i].status = "captured",
         p.refunded <= stripe[i].refunded
  PROVE  /\ payment' \in [Intent -> Payment]
         /\ Keeps /\ LedgerBacked'
         /\ \A j \in Intent : payment[j].status = "none" => payment'[j] = payment[j]
  <1> USE DEF IInv
  <1>1. /\ payment'[i] = p
        /\ \A j \in Intent \ {i} : payment'[j] = payment[j]
    BY DEF TypeOK
  <1>2. \A j \in Intent : stripe[j].refunded \in Int
    BY AmountAssumption DEF TypeOK, Account, Cents
  <1>3. QED
    BY <1>1, <1>2 DEF TypeOK, Keeps, LedgerBacked

LEMMA DoneType ==
  ASSUME IInv, NEW h \in Hook, Done(h)
  PROVE  /\ NoHook \in HookState /\ NoHook.pc = "idle"
         /\ hook' = [hook EXCEPT ![h] = NoHook]
         /\ outbox' \subseteq outbox
  BY AcknowledgeRemoves DEF Done, NoHook, HookState

LEMMA StepApplyIntentSucceeded == \A h \in Hook : IInv /\ ApplyIntentSucceeded(h) => IInv'
  <1> SUFFICES ASSUME IInv, NEW h \in Hook, ApplyIntentSucceeded(h) PROVE IInv'
    OBVIOUS
  <1>0. hook[h].pc # "idle" /\ hook[h].event.type = "succeeded"
    BY DEF ApplyIntentSucceeded, Applying
  <1>1. PICK i \in Intent : i = hook[h].event.intent
    BY <1>0, HookEvent
  <1>2. /\ payment[i] \in Payment /\ payment[i].status # "none"
        /\ stripe[i].status = "captured" /\ payment[i].refunded <= stripe[i].refunded
    BY <1>0, <1>1, HookEvent DEF Truthful, IInv, LedgerBacked
  <1>3. PICK p \in Payment : /\ p.status = "succeeded" /\ p.charge /\ p.booking = payment[i].booking
                             /\ p.refunded = payment[i].refunded
                             /\ payment' = [payment EXCEPT ![i] = p]
    <2> DEFINE x == [payment[i] EXCEPT !.status = "succeeded", !.charge = TRUE]
    <2>1. /\ x \in Payment /\ x.status = "succeeded" /\ x.charge = TRUE
          /\ x.booking = payment[i].booking /\ x.refunded = payment[i].refunded
      BY <1>2 DEF Payment
    <2>2. payment' = [payment EXCEPT ![i] = x]
      BY <1>1 DEF ApplyIntentSucceeded, IInv, TypeOK
    <2> HIDE DEF x
    <2>3. QED
      BY <2>1, <2>2
  <1>4. PICK k \in HookState : /\ k.pc = "confirm" /\ k.event = hook[h].event
                               /\ hook' = [hook EXCEPT ![h] = k]
    <2> DEFINE x == [hook[h] EXCEPT !.pc = "confirm"]
    <2>1. x \in HookState /\ x.pc = "confirm" /\ x.event = hook[h].event
      BY <1>0, HookEvent DEF HookState
    <2>2. hook' = [hook EXCEPT ![h] = x]
      BY DEF ApplyIntentSucceeded, IInv, TypeOK
    <2> HIDE DEF x
    <2>3. QED
      BY <2>1, <2>2
  <1>5. UNCHANGED <<bookingVars, stripe, outbox, seen, pay, call, restarts>>
    BY DEF ApplyIntentSucceeded
  <1>6. /\ payment' \in [Intent -> Payment]
        /\ Keeps /\ LedgerBacked'
        /\ \A j \in Intent : payment[j].status = "none" => payment'[j] = payment[j]
    BY <1>2, <1>3, <1>5, RowMoves
  <1>7. Truthful(k.event)
    BY <1>0, <1>4, HookEvent
  <1>8. status' \in [Booking -> Status \cup {"none"}] /\ seen' \subseteq Event
    BY <1>5 DEF IInv, TypeOK
  <1>9. QED
    BY <1>0, <1>4, <1>5, <1>6, <1>7, <1>8, HookMoves

(* The confirmation by a webhook is the lifecycle's own action, or none.   *)
LEMMA ConfirmPaidIsLifecycle ==
  ASSUME IInv, NEW h \in Hook, ConfirmPaid(h)
  PROVE  \/ \E b \in Booking : Lifecycle!Advance(b, "confirm")
         \/ UNCHANGED status
  <1>1. hook[h].pc # "idle"
    BY DEF ConfirmPaid
  <1>2. PICK b \in Booking : b = payment[hook[h].event.intent].booking
    BY <1>1, HookEvent
  <1>3. status' = IF status[b] = "pending" THEN [status EXCEPT ![b] = "confirmed"] ELSE status
    BY <1>2 DEF ConfirmPaid
  <1>4. QED
    BY <1>3 DEF Lifecycle!Advance, Lifecycle!From, Lifecycle!To

LEMMA StepConfirmPaid == \A h \in Hook : IInv /\ ConfirmPaid(h) => IInv'
  <1> SUFFICES ASSUME IInv, NEW h \in Hook, ConfirmPaid(h) PROVE IInv'
    OBVIOUS
  <1> USE DEF IInv
  <1>1. /\ status' \in [Booking -> Status \cup {"none"}]
        /\ \A b \in Booking : status[b] # "none" => status'[b] # "none"
    <2>1. CASE UNCHANGED status
      BY <2>1 DEF TypeOK
    <2>2. CASE \E b \in Booking : Lifecycle!Advance(b, "confirm")
      BY <2>2, AdvanceKeeps
    <2>3. QED
      BY <2>1, <2>2, ConfirmPaidIsLifecycle
  <1>2. UNCHANGED <<cancelled, writer, payment, stripe, seen, pay, call, restarts>> /\ Done(h)
    BY DEF ConfirmPaid
  <1>3. Keeps
    <2>1. \A j \in Intent : stripe[j].refunded \in Int
      BY AmountAssumption DEF TypeOK, Account, Cents
    <2>2. QED
      BY <1>1, <1>2, <2>1 DEF Keeps
  <1>4. /\ LedgerBacked' /\ payment' \in [Intent -> Payment] /\ seen' \subseteq Event
        /\ \A i \in Intent : payment[i].status = "none" => payment'[i] = payment[i]
    BY <1>2 DEF LedgerBacked, TypeOK
  <1>5. QED
    BY <1>1, <1>2, <1>3, <1>4, DoneType, HookMoves

LEMMA StepApplyIntentFailed == \A h \in Hook : IInv /\ ApplyIntentFailed(h) => IInv'
  <1> SUFFICES ASSUME IInv, NEW h \in Hook, ApplyIntentFailed(h) PROVE IInv'
    OBVIOUS
  <1>1. PICK i \in Intent : i = hook[h].event.intent
    BY HookEvent DEF ApplyIntentFailed, Applying
  <1>2. /\ payment[i] \in Payment /\ payment[i].status # "none"
        /\ payment[i].charge => stripe[i].status = "captured"
        /\ payment[i].refunded <= stripe[i].refunded
    BY <1>1, HookEvent DEF ApplyIntentFailed, Applying, IInv, LedgerBacked
  <1>3. PICK p \in Payment : /\ p.status = "failed" /\ p.charge = payment[i].charge
                             /\ p.booking = payment[i].booking
                             /\ p.refunded = payment[i].refunded
                             /\ payment' = [payment EXCEPT ![i] = p]
    <2> DEFINE x == [payment[i] EXCEPT !.status = "failed"]
    <2>1. /\ x \in Payment /\ x.status = "failed" /\ x.charge = payment[i].charge
          /\ x.booking = payment[i].booking /\ x.refunded = payment[i].refunded
      BY <1>2 DEF Payment
    <2>2. payment' = [payment EXCEPT ![i] = x]
      BY <1>1 DEF ApplyIntentFailed, IInv, TypeOK
    <2> HIDE DEF x
    <2>3. QED
      BY <2>1, <2>2
  <1>4. UNCHANGED <<bookingVars, stripe, seen, pay, call, restarts>> /\ Done(h)
    BY DEF ApplyIntentFailed
  <1>5. /\ payment' \in [Intent -> Payment]
        /\ Keeps /\ LedgerBacked'
        /\ \A j \in Intent : payment[j].status = "none" => payment'[j] = payment[j]
    BY <1>2, <1>3, <1>4, RowMoves
  <1>6. status' \in [Booking -> Status \cup {"none"}] /\ seen' \subseteq Event
    BY <1>4 DEF IInv, TypeOK
  <1>7. QED
    BY <1>4, <1>5, <1>6, DoneType, HookMoves

LEMMA StepApplyChargeRefunded == \A h \in Hook : IInv /\ ApplyChargeRefunded(h) => IInv'
  <1> SUFFICES ASSUME IInv, NEW h \in Hook, ApplyChargeRefunded(h) PROVE IInv'
    OBVIOUS
  <1>0. hook[h].pc # "idle" /\ hook[h].event.type = "refunded"
    BY DEF ApplyChargeRefunded, Applying
  <1>1. PICK i \in Intent : i = hook[h].event.intent
    BY <1>0, HookEvent
  <1>2. PICK cents \in Cents : cents = hook[h].event.cents
    BY <1>0, HookEvent DEF Event
  <1>3. /\ payment[i] \in Payment /\ payment[i].status # "none"
        /\ payment[i].charge => stripe[i].status = "captured"
        /\ cents \in 1..stripe[i].refunded
    BY <1>0, <1>1, <1>2, HookEvent DEF Truthful, IInv, LedgerBacked
  <1>4. cents > 0 /\ cents <= stripe[i].refunded
    BY <1>3, AmountAssumption DEF IInv, TypeOK, Account, Cents
  <1>5. UNCHANGED <<bookingVars, stripe, seen, pay, call, restarts>> /\ Done(h)
    BY DEF ApplyChargeRefunded
  <1>6. /\ payment' \in [Intent -> Payment]
        /\ Keeps /\ LedgerBacked'
        /\ \A j \in Intent : payment[j].status = "none" => payment'[j] = payment[j]
    <2>1. CASE payment[i].charge
      <3>1. PICK p \in Payment : /\ p.status = "refunded" /\ p.charge
                                 /\ p.booking = payment[i].booking /\ p.refunded = cents
                                 /\ payment' = [payment EXCEPT ![i] = p]
        <4> DEFINE x == [payment[i] EXCEPT !.status = "refunded", !.refunded = cents]
        <4>1. /\ x \in Payment /\ x.status = "refunded" /\ x.charge
              /\ x.booking = payment[i].booking /\ x.refunded = cents
          BY <1>3, <2>1 DEF Payment
        <4>2. payment' = [payment EXCEPT ![i] = x]
          BY <1>1, <1>2, <2>1 DEF ApplyChargeRefunded, IInv, TypeOK
        <4> HIDE DEF x
        <4>3. QED
          BY <4>1, <4>2
      <3>2. QED
        BY <1>3, <1>4, <1>5, <2>1, <3>1, RowMoves
    <2>2. CASE ~payment[i].charge
      <3>1. payment' = payment
        BY <1>1, <2>2 DEF ApplyChargeRefunded
      <3>2. QED
        BY <1>5, <3>1, KeepsWhenUnchanged DEF IInv, TypeOK, LedgerBacked
    <2>3. QED
      BY <2>1, <2>2
  <1>7. status' \in [Booking -> Status \cup {"none"}] /\ seen' \subseteq Event
    BY <1>5 DEF IInv, TypeOK
  <1>8. QED
    BY <1>5, <1>6, <1>7, DoneType, HookMoves

LEMMA StepHookFails == \A h \in Hook : IInv /\ HookFails(h) => IInv'
  <1> SUFFICES ASSUME IInv, NEW h \in Hook, HookFails(h) PROVE IInv'
    OBVIOUS
  <1>1. hook' = [hook EXCEPT ![h] = NoHook] /\ NoHook \in HookState /\ NoHook.pc = "idle"
    BY DEF HookFails, NoHook, HookState
  <1>2. UNCHANGED <<bookingVars, payment, stripe, outbox, seen, pay, call, restarts>>
    BY DEF HookFails
  <1>3. Keeps /\ LedgerBacked'
    BY <1>2, KeepsWhenUnchanged DEF IInv, LedgerBacked
  <1>4. /\ status' \in [Booking -> Status \cup {"none"}] /\ seen' \subseteq Event
        /\ payment' \in [Intent -> Payment] /\ outbox' \subseteq outbox
    BY <1>2 DEF IInv, TypeOK
  <1>5. QED
    BY <1>1, <1>2, <1>3, <1>4, HookMoves

-----------------------------------------------------------------------------
(* refundForCancelledBooking and the death of the process.                 *)

LEMMA NoCallType == NoCall \in CallState /\ NoCall.pc = "idle"
  BY AmountAssumption DEF NoCall, CallState, Cents

LEMMA StepReadPayment == \A c \in Call : IInv /\ ReadPayment(c) => IInv'
  <1> SUFFICES ASSUME IInv, NEW c \in Call, ReadPayment(c) PROVE IInv'
    OBVIOUS
  <1> USE DEF IInv, InFlightIsSound
  <1>1. /\ call[c] \in CallState /\ CallSound(c) /\ call[c].pc = "read"
        /\ call[c].booking \in cancelled
    BY DEF TypeOK, ReadPayment, CallSound
  <1>2. UNCHANGED <<bookingVars, payment, stripe, outbox, seen, pay, hook, restarts>>
    BY DEF ReadPayment
  <1>3. PICK k \in CallState :
          /\ call' = [call EXCEPT ![c] = k]
          /\ k.pc # "idle" =>
                /\ k.booking = call[c].booking
                /\ k.intent \in Intent
                /\ payment[k.intent].status # "none"
                /\ payment[k.intent].booking = k.booking
                /\ stripe[k.intent].status = "captured"
                /\ k.cents > 0
    <2>1. CASE call' = [call EXCEPT ![c] = NoCall]
      BY <2>1, NoCallType
    <2>2. ASSUME NEW i \in Rows(call[c].booking),
                 payment[i].status = "succeeded", payment[i].charge, payment[i].refunded < Price,
                 call' = [call EXCEPT ![c] = [@ EXCEPT !.pc = "issue", !.intent = i,
                                                        !.cents = Price - payment[i].refunded]]
          PROVE  \E k \in CallState :
                    /\ call' = [call EXCEPT ![c] = k]
                    /\ k.pc # "idle" =>
                          /\ k.booking = call[c].booking
                          /\ k.intent \in Intent
                          /\ payment[k.intent].status # "none"
                          /\ payment[k.intent].booking = k.booking
                          /\ stripe[k.intent].status = "captured"
                          /\ k.cents > 0
      <3>1. /\ i \in Intent /\ payment[i].booking = call[c].booking
            /\ payment[i].status # "none" /\ stripe[i].status = "captured"
        BY <2>2 DEF Rows, LedgerBacked
      <3>2. PICK cents \in Cents : cents = Price - payment[i].refunded /\ cents > 0
        BY <2>2, <3>1, AmountAssumption DEF TypeOK, Payment, Cents
      <3> DEFINE x == [call[c] EXCEPT !.pc = "issue", !.intent = i, !.cents = cents]
      <3>3. /\ x \in CallState /\ x.intent = i /\ x.cents = cents
            /\ x.booking = call[c].booking
        BY <1>1, <3>1 DEF CallState
      <3>4. call' = [call EXCEPT ![c] = x]
        BY <2>2, <3>2 DEF TypeOK
      <3> HIDE DEF x
      <3>5. QED
        BY <3>1, <3>2, <3>3, <3>4
    <2>3. QED
      BY <2>1, <2>2 DEF ReadPayment
  <1>4. TypeOK'
    BY <1>2, <1>3 DEF TypeOK
  <1>5. Keeps
    BY <1>2, KeepsWhenUnchanged
  <1>6. RowsAreReal' /\ LedgerBacked'
    BY <1>2 DEF RowsAreReal, LedgerBacked
  <1>7. \A d \in Call : CallSound(d)' /\ Owed(d)'
    <2> SUFFICES ASSUME NEW d \in Call PROVE CallSound(d)' /\ Owed(d)'
      OBVIOUS
    <2>1. CASE d = c
      <3>1. call'[d] = k
        BY <1>3, <2>1 DEF TypeOK
      <3>2. QED
        BY <1>1, <1>2, <1>3, <3>1 DEF CallSound, Owed
    <2>2. CASE d # c
      <3>1. call'[d] = call[d]
        BY <1>3, <2>2 DEF TypeOK
      <3>2. QED
        BY <1>5, <3>1, CallStays DEF RefundsAreOwed, Owed
    <2>3. QED
      BY <2>1, <2>2
  <1>8. RefundsAreOwed'
    BY <1>7 DEF RefundsAreOwed, Owed
  <1>9. QED
    BY <1>2, <1>4, <1>5, <1>6, <1>7, <1>8, PaysStay, WritersStay, HooksStay, OutboxStays

LEMMA StepIssueRefund == \A c \in Call : IInv /\ IssueRefund(c) => IInv'
  <1> SUFFICES ASSUME IInv, NEW c \in Call, IssueRefund(c) PROVE IInv'
    OBVIOUS
  <1> USE DEF IInv, InFlightIsSound
  <1>1. /\ call[c] \in CallState /\ call[c].pc = "issue" /\ call[c].cents > 0
        /\ call[c].cents \in Nat
    BY AmountAssumption DEF TypeOK, IssueRefund, CallSound, CallState, Cents
  <1>2. PICK i \in Intent : i = call[c].intent
    BY <1>1 DEF CallSound
  <1>3. stripe[i].status = "captured" /\ stripe[i].refunded \in Nat
    BY <1>1, <1>2, AmountAssumption DEF RefundsAreOwed, TypeOK, Account, Cents
  <1>4. /\ call' \in [Call -> CallState]
        /\ \A d \in Call : call'[d] = call[d] \/ call'[d] = NoCall
    BY NoCallType DEF IssueRefund, TypeOK
  <1>5. UNCHANGED <<bookingVars, payment, seen, pay, hook, restarts>>
    BY DEF IssueRefund
  <1>6. CASE stripe[i].refunded + call[c].cents <= Price
    <2>1. PICK total \in Cents : total = stripe[i].refunded + call[c].cents
      BY <1>1, <1>3, <1>6, AmountAssumption DEF Cents
    <2>2. stripe' = [stripe EXCEPT ![i].refunded = total] /\ Emit("refunded", i, total)
      BY <1>2, <1>6, <2>1 DEF IssueRefund
    <2>3. total > 0 /\ stripe[i].refunded <= total
      BY <1>1, <1>3, <2>1
    <2>4. QED
      BY <1>3, <1>4, <1>5, <2>2, <2>3, RefundMoves
  <1>7. CASE ~(stripe[i].refunded + call[c].cents <= Price)
    <2>1. UNCHANGED <<stripe, outbox>>
      BY <1>2, <1>7 DEF IssueRefund
    <2>2. TypeOK'
      BY <1>4, <1>5, <2>1 DEF TypeOK
    <2>3. Keeps
      BY <1>5, <2>1, KeepsWhenUnchanged
    <2>4. RowsAreReal' /\ LedgerBacked'
      BY <1>5, <2>1 DEF RowsAreReal, LedgerBacked
    <2>5. \A d \in Call : CallSound(d)' /\ Owed(d)'
      <3> SUFFICES ASSUME NEW d \in Call PROVE CallSound(d)' /\ Owed(d)'
        OBVIOUS
      <3>1. CASE call'[d] = call[d]
        BY <2>3, <3>1, CallStays DEF RefundsAreOwed, Owed
      <3>2. CASE call'[d] = NoCall
        BY <3>2, NoCallType DEF CallSound, Owed
      <3>3. QED
        BY <1>4, <3>1, <3>2
    <2>6. RefundsAreOwed'
      BY <2>5 DEF RefundsAreOwed, Owed
    <2>7. QED
      BY <1>5, <2>1, <2>2, <2>3, <2>4, <2>5, <2>6, PaysStay, WritersStay, HooksStay, OutboxStays
  <1>8. QED
    BY <1>6, <1>7

LEMMA StepRestart == IInv /\ Restart => IInv'
  <1> SUFFICES ASSUME IInv, Restart PROVE IInv'
    OBVIOUS
  <1> USE DEF IInv, InFlightIsSound
  <1>1. TypeOK'
    <2>1. NoPay \in PayState /\ NoHook \in HookState
      BY DEF NoPay, PayState, NoHook, HookState
    <2>2. restarts' \in 0..MaxRestarts
      BY AmountAssumption DEF Restart, TypeOK
    <2>3. QED
      BY <2>1, <2>2, NoCallType, NoWriterType DEF Restart, TypeOK
  <1>2. Keeps
    BY KeepsWhenUnchanged DEF Restart
  <1>3. RowsAreReal' /\ LedgerBacked'
    BY DEF Restart, RowsAreReal, LedgerBacked
  <1>4. /\ \A r \in PayRequest : PaySound(r)'
        /\ \A h \in Hook : HookSound(h)'
        /\ \A c \in Call : CallSound(c)' /\ Owed(c)'
        /\ \A w \in Writer : WriterSound(w)'
        /\ InsertsApart'
    BY NoCallType, NoWriterType DEF Restart, NoPay, NoHook, PaySound, HookSound, CallSound, Owed,
       WriterSound, InsertsApart
  <1>5. RefundsAreOwed'
    BY <1>4 DEF RefundsAreOwed, Owed
  <1>6. \A e \in outbox' : Truthful(e)'
    BY <1>1, <1>2, OutboxStays DEF Restart
  <1>7. QED
    BY <1>1, <1>3, <1>4, <1>5, <1>6

-----------------------------------------------------------------------------
LEMMA NextIInv == IInv /\ [Next]_vars => IInv'
  <1> SUFFICES ASSUME IInv, [Next]_vars PROVE IInv'
    OBVIOUS
  <1>1. CASE \E r \in PayRequest : PayRead(r) \/ Paying(r)
    BY <1>1, StepPayRead, StepPayLookup, StepPayMint, StepPayInsert DEF Paying
  <1>2. CASE \E i \in Intent : Capture(i) \/ Decline(i) \/ RefundPart(i)
    BY <1>2, StepCapture, StepDecline, StepRefundPart
  <1>3. CASE \E h \in Hook : (\E e \in outbox : Deliver(h, e)) \/ Handling(h) \/ HookFails(h)
    BY <1>3, StepDeliver, StepApplyIntentSucceeded, StepConfirmPaid, StepApplyIntentFailed,
       StepApplyChargeRefunded, StepHookFails DEF Handling
  <1>4. CASE \E c \in Call : Refunding(c)
    BY <1>4, StepReadPayment, StepIssueRefund DEF Refunding
  <1>5. CASE \/ \E w \in Writer : Judge(w) \/ WriteStatus(w) \/ HandOver(w)
             \/ Create \/ Restart
    BY <1>5, StepCreate, StepJudge, StepWriteStatus, StepHandOver, StepRestart
  <1>6. CASE UNCHANGED vars
    BY <1>6 DEF vars, IInv, TypeOK, RowsAreReal, InFlightIsSound, LedgerBacked, RefundsAreOwed,
       InsertsApart, WriterSound, PaySound, HookSound, CallSound, Truthful, Rows
  <1>7. QED
    BY <1>1, <1>2, <1>3, <1>4, <1>5, <1>6 DEF Next

(* The invariant that carries the payment results: the tables, Stripe, the *)
(* events in the outbox and every handler in flight agree on what is true, *)
(* for any number of each and across any number of restarts.               *)
THEOREM InductiveInvariant == Spec => []IInv
  <1>1. Init => IInv
    BY InitIInv
  <1>2. IInv /\ [Next]_vars => IInv'
    BY NextIInv
  <1>3. QED
    BY <1>1, <1>2, PTL DEF Spec

(* Every variable keeps its type; in particular no refund exceeds the      *)
(* price and no event carries an amount Stripe could not have refunded.    *)
THEOREM TypeCorrect == Spec => []TypeOK
  <1>1. IInv => TypeOK
    BY DEF IInv
  <1>2. QED
    BY <1>1, InductiveInvariant, PTL

(* The payments table never claims more than Stripe did, in whatever order *)
(* and however often webhooks arrive, fail and are begun again.            *)
THEOREM LedgerStaysBacked == Spec => []LedgerBacked
  <1>1. IInv => LedgerBacked
    BY DEF IInv
  <1>2. QED
    BY <1>1, InductiveInvariant, PTL

(* refundForCancelledBooking asks Stripe only for charges captured for the *)
(* booking that was cancelled.                                             *)
THEOREM RefundsStayOwed == Spec => []RefundsAreOwed
  <1>1. IInv => RefundsAreOwed
    BY DEF IInv
  <1>2. QED
    BY <1>1, InductiveInvariant, PTL

(* What calls and handlers in flight go by is still so when they act.      *)
THEOREM InFlightStaysSound == Spec => []InFlightIsSound
  <1>1. IInv => InFlightIsSound
    BY DEF IInv
  <1>2. QED
    BY <1>1, InductiveInvariant, PTL

(* What the owners and providers do to bookings.                           *)
BookingStep == Create \/ \E w \in Writer : Judge(w) \/ WriteStatus(w) \/ HandOver(w)

(* Every step but the write by id of a booking handler moves bookings      *)
(* along the lifecycle or leaves them alone, whatever such writes have     *)
(* done to them before.                                                    *)
THEOREM PaymentsKeepLifecycle == Spec => WebhooksKeepLifecycle
  <1>1. IInv /\ [Next]_vars => [(\E w \in Writer : WriteStatus(w)) \/ Lifecycle!Next]_status
    <2> SUFFICES ASSUME IInv, [Next]_vars
                 PROVE  (\E w \in Writer : WriteStatus(w)) \/ [Lifecycle!Next]_status
      OBVIOUS
    <2>1. CASE BookingStep
      BY <2>1 DEF BookingStep, Create, Judge, HandOver, Lifecycle!Next
    <2>2. CASE \E h \in Hook : ConfirmPaid(h)
      BY <2>2, ConfirmPaidIsLifecycle DEF Lifecycle!Next
    <2>3. CASE \/ \E r \in PayRequest : PayRead(r) \/ Paying(r)
               \/ \E i \in Intent : Capture(i) \/ Decline(i) \/ RefundPart(i)
               \/ \E c \in Call : Refunding(c)
               \/ Restart \/ UNCHANGED vars
      BY <2>3 DEF PayRead, Paying, PayLookup, PayMint, PayInsert, Capture, Decline, RefundPart,
         Refunding, ReadPayment, IssueRefund, Restart, vars
    <2>4. CASE \E h \in Hook : \/ \E e \in outbox : Deliver(h, e)
                              \/ ApplyIntentSucceeded(h) \/ ApplyIntentFailed(h)
                              \/ ApplyChargeRefunded(h) \/ HookFails(h)
      BY <2>4 DEF Deliver, ApplyIntentSucceeded, ApplyIntentFailed, ApplyChargeRefunded, HookFails
    <2>5. QED
      BY <2>1, <2>2, <2>3, <2>4 DEF Next, Handling, BookingStep
  <1>2. QED
    BY <1>1, InductiveInvariant, PTL DEF Spec, WebhooksKeepLifecycle

-----------------------------------------------------------------------------
(* Money that was taken, however statements fail, deliveries overlap and   *)
(* processes die.                                                          *)

(* What no step takes back: a row and what it says of its charge, a        *)
(* capture, and that a booking is no longer pending.                       *)
RowsLast ==
    \A i \in Intent : payment[i].status # "none" =>
        /\ payment'[i].status # "none"
        /\ payment'[i].booking = payment[i].booking
        /\ payment[i].charge => payment'[i].charge

MoneyLasts ==
    \A i \in Intent :
        stripe[i].status = "captured" => stripe'[i].status = "captured"

BookingsLast ==
    \A b \in Booking : status[b] \notin {"none", "pending"} =>
                           status'[b] \notin {"none", "pending"}

LEMMA StepRowsLast == IInv /\ [Next]_vars => RowsLast
  <1> SUFFICES ASSUME IInv, [Next]_vars PROVE RowsLast
    OBVIOUS
  <1>0. payment \in [Intent -> Payment]
    BY DEF IInv, TypeOK
  <1>1. CASE UNCHANGED payment
    BY <1>1 DEF RowsLast
  <1>2. CASE \E r \in PayRequest : PayInsert(r)
    <2>1. PICK r \in PayRequest : PayInsert(r)
      BY <1>2
    <2>2. pay[r].intent \in Intent /\ payment[pay[r].intent].status = "none"
      BY <2>1 DEF IInv, InFlightIsSound, PaySound, PayInsert
    <2>3. \A i \in Intent \ {pay[r].intent} : payment'[i] = payment[i]
      BY <1>0, <2>1 DEF PayInsert
    <2>4. QED
      BY <2>2, <2>3 DEF RowsLast
  <1>3. CASE \E h \in Hook : ApplyIntentSucceeded(h)
    BY <1>0, <1>3 DEF ApplyIntentSucceeded, RowsLast, Payment
  <1>4. CASE \E h \in Hook : ApplyIntentFailed(h)
    BY <1>0, <1>4 DEF ApplyIntentFailed, RowsLast, Payment
  <1>5. CASE \E h \in Hook : ApplyChargeRefunded(h)
    BY <1>0, <1>5 DEF ApplyChargeRefunded, RowsLast, Payment
  <1>6. QED
    <2>1. CASE \E r \in PayRequest : PayRead(r) \/ Paying(r)
      BY <1>1, <1>2, <2>1 DEF PayRead, Paying, PayLookup, PayMint
    <2>2. CASE \E i \in Intent : Capture(i) \/ Decline(i) \/ RefundPart(i)
      BY <1>1, <2>2 DEF Capture, Decline, RefundPart
    <2>3. CASE \E h \in Hook : (\E e \in outbox : Deliver(h, e)) \/ Handling(h) \/ HookFails(h)
      BY <1>1, <1>3, <1>4, <1>5, <2>3 DEF Deliver, Handling, ConfirmPaid, HookFails
    <2>4. CASE \E c \in Call : Refunding(c)
      BY <1>1, <2>4 DEF Refunding, ReadPayment, IssueRefund
    <2>5. CASE BookingStep \/ Restart \/ UNCHANGED vars
      BY <1>1, <2>5 DEF BookingStep, Create, Judge, WriteStatus, HandOver, Restart, vars
    <2>6. QED
      BY <2>1, <2>2, <2>3, <2>4, <2>5 DEF Next, BookingStep

LEMMA StepMoneyLasts == IInv /\ [Next]_vars => MoneyLasts
  <1> SUFFICES ASSUME IInv, [Next]_vars PROVE MoneyLasts
    OBVIOUS
  <1>0. stripe \in [Intent -> Account]
    BY DEF IInv, TypeOK
  <1>1. CASE UNCHANGED stripe
    BY <1>1 DEF MoneyLasts
  <1>2. CASE \E i \in Intent : Capture(i) \/ Decline(i) \/ RefundPart(i)
    BY <1>0, <1>2 DEF Capture, Decline, RefundPart, MoneyLasts, Account
  <1>3. CASE \E r \in PayRequest : PayMint(r)
    BY <1>0, <1>3 DEF PayMint, MoneyLasts, Account
  <1>4. CASE \E c \in Call : IssueRefund(c)
    BY <1>0, <1>1, <1>4 DEF IssueRefund, MoneyLasts, Account
  <1>6. QED
    <2>1. CASE \E r \in PayRequest : PayRead(r) \/ Paying(r)
      BY <1>1, <1>3, <2>1 DEF PayRead, Paying, PayLookup, PayInsert
    <2>3. CASE \E h \in Hook : (\E e \in outbox : Deliver(h, e)) \/ Handling(h) \/ HookFails(h)
      BY <1>1, <2>3 DEF Deliver, Handling, ApplyIntentSucceeded, ConfirmPaid, ApplyIntentFailed,
         ApplyChargeRefunded, HookFails
    <2>4. CASE \E c \in Call : Refunding(c)
      BY <1>1, <1>4, <2>4 DEF Refunding, ReadPayment
    <2>5. CASE BookingStep \/ Restart \/ UNCHANGED vars
      BY <1>1, <2>5 DEF BookingStep, Create, Judge, WriteStatus, HandOver, Restart, vars
    <2>6. QED
      BY <1>2, <2>1, <2>3, <2>4, <2>5 DEF Next, BookingStep

LEMMA StepBookingsLast == IInv /\ [Next]_vars => BookingsLast
  <1> SUFFICES ASSUME IInv, [Next]_vars PROVE BookingsLast
    OBVIOUS
  <1>0. status \in [Booking -> Status \cup {"none"}]
    BY DEF IInv, TypeOK
  <1>1. CASE UNCHANGED status
    BY <1>1 DEF BookingsLast
  <1>2. CASE BookingStep
    <2>1. CASE Create
      BY <1>0, <2>1 DEF Create, BookingsLast, Lifecycle!Book
    <2>2. ASSUME NEW w \in Writer, WriteStatus(w) PROVE BookingsLast
      <3>1. writer[w].action \in BookingAction
        BY DEF IInv, TypeOK, WriterState
      <3>2. To[writer[w].action] \notin {"none", "pending"}
        BY <3>1 DEF To
      <3>3. status' = [status EXCEPT ![writer[w].booking] = To[writer[w].action]]
        BY <2>2 DEF WriteStatus
      <3>4. QED
        BY <1>0, <3>2, <3>3 DEF BookingsLast
    <2>3. QED
      BY <1>1, <1>2, <2>1, <2>2 DEF BookingStep, Judge, HandOver
  <1>3. CASE \E h \in Hook : ConfirmPaid(h)
    BY <1>0, <1>3 DEF ConfirmPaid, BookingsLast
  <1>6. QED
    <2>1. CASE \E r \in PayRequest : PayRead(r) \/ Paying(r)
      BY <1>1, <2>1 DEF PayRead, Paying, PayLookup, PayMint, PayInsert
    <2>2. CASE \E i \in Intent : Capture(i) \/ Decline(i) \/ RefundPart(i)
      BY <1>1, <2>2 DEF Capture, Decline, RefundPart
    <2>3. CASE \E h \in Hook : (\E e \in outbox : Deliver(h, e)) \/ Handling(h) \/ HookFails(h)
      BY <1>1, <1>3, <2>3 DEF Deliver, Handling, ApplyIntentSucceeded, ApplyIntentFailed,
         ApplyChargeRefunded, HookFails
    <2>4. CASE \E c \in Call : Refunding(c)
      BY <1>1, <2>4 DEF Refunding, ReadPayment, IssueRefund
    <2>5. CASE Restart \/ UNCHANGED vars
      BY <1>1, <2>5 DEF Restart, vars
    <2>6. QED
      BY <1>2, <2>1, <2>2, <2>3, <2>4, <2>5 DEF Next, BookingStep

-----------------------------------------------------------------------------
(* The invariant behind ForgottenOnlyBy: a handler that has come to the    *)
(* booking has recorded the charge, and an event that was seen was true.   *)
ChargeRecorded(h) == hook[h].pc = "confirm" => payment[hook[h].event.intent].charge

SeenWasTrue ==
    \A e \in seen : e.type = "succeeded" => stripe[e.intent].status = "captured"

CaptureInv ==
    /\ IInv
    /\ \A h \in Hook : ChargeRecorded(h)
    /\ SeenWasTrue

(* A step that gives no handler its second statement and remembers nothing.*)
LEMMA QuietStep ==
  ASSUME CaptureInv, [Next]_vars,
         \A h \in Hook : hook'[h].pc = "confirm" => hook'[h] = hook[h],
         seen' \subseteq seen
  PROVE  CaptureInv'
  <1>1. IInv' /\ RowsLast /\ MoneyLasts
    BY NextIInv, StepRowsLast, StepMoneyLasts DEF CaptureInv
  <1>2. ASSUME NEW h \in Hook PROVE ChargeRecorded(h)'
    <2>1. CASE hook'[h].pc = "confirm"
      <3>1. hook'[h] = hook[h] /\ hook[h].pc # "idle"
        BY <2>1
      <3>2. hook[h].event.intent \in Intent /\ payment[hook[h].event.intent].status # "none"
        BY <3>1, HookEvent DEF CaptureInv
      <3>3. QED
        BY <1>1, <2>1, <3>1, <3>2 DEF CaptureInv, ChargeRecorded, RowsLast
    <2>2. QED
      BY <2>1 DEF ChargeRecorded
  <1>3. SeenWasTrue'
    BY <1>1 DEF CaptureInv, IInv, TypeOK, SeenWasTrue, MoneyLasts, Event
  <1>4. QED
    BY <1>1, <1>2, <1>3 DEF CaptureInv

LEMMA NextCaptureInv == CaptureInv /\ [Next]_vars => CaptureInv'
  <1> SUFFICES ASSUME CaptureInv, [Next]_vars PROVE CaptureInv'
    OBVIOUS
  <1>0. hook \in [Hook -> HookState] /\ payment \in [Intent -> Payment]
    BY DEF CaptureInv, IInv, TypeOK
  <1>1. IInv' /\ RowsLast /\ MoneyLasts
    BY NextIInv, StepRowsLast, StepMoneyLasts DEF CaptureInv
  <1>2. ASSUME NEW h \in Hook, NEW e \in outbox, Deliver(h, e) PROVE CaptureInv'
    <2>1. e \in Event /\ Truthful(e) /\ UNCHANGED <<payment, stripe>>
      BY <1>2 DEF CaptureInv, IInv, InFlightIsSound, TypeOK, Deliver
    <2>2. \A g \in Hook : hook'[g].pc = "confirm" => hook'[g] = hook[g]
      BY <1>0, <1>2 DEF Deliver
    <2>3. \A g \in Hook : ChargeRecorded(g)'
      BY <2>1, <2>2 DEF CaptureInv, ChargeRecorded
    <2>4. SeenWasTrue'
      BY <1>2, <2>1 DEF CaptureInv, SeenWasTrue, Truthful, Deliver
    <2>5. QED
      BY <1>1, <2>3, <2>4 DEF CaptureInv
  <1>3. ASSUME NEW h \in Hook, ApplyIntentSucceeded(h) PROVE CaptureInv'
    <2>1. /\ hook[h].event.intent \in Intent
          /\ hook' = [hook EXCEPT ![h].pc = "confirm"]
          /\ UNCHANGED <<stripe, seen>>
      BY <1>3, HookEvent DEF CaptureInv, ApplyIntentSucceeded, Applying
    <2>2. ASSUME NEW g \in Hook PROVE ChargeRecorded(g)'
      <3>1. CASE g = h
        <4>1. payment'[hook[h].event.intent].charge = TRUE
          BY <1>0, <1>3, <2>1 DEF ApplyIntentSucceeded, Payment
        <4>2. hook'[h].event = hook[h].event
          BY <1>0, <2>1 DEF HookState
        <4>3. QED
          BY <3>1, <4>1, <4>2 DEF ChargeRecorded
      <3>2. CASE g # h /\ hook[g].pc = "confirm"
        <4>1. hook'[g] = hook[g]
          BY <1>0, <2>1, <3>2
        <4>2. hook[g].event.intent \in Intent /\ payment[hook[g].event.intent].status # "none"
          BY <3>2, HookEvent DEF CaptureInv
        <4>3. QED
          BY <1>1, <3>2, <4>1, <4>2 DEF CaptureInv, ChargeRecorded, RowsLast
      <3>3. CASE g # h /\ hook[g].pc # "confirm"
        BY <1>0, <2>1, <3>3 DEF ChargeRecorded
      <3>4. QED
        BY <3>1, <3>2, <3>3
    <2>3. SeenWasTrue'
      BY <2>1 DEF CaptureInv, SeenWasTrue
    <2>4. QED
      BY <1>1, <2>2, <2>3 DEF CaptureInv
  <1>4. ASSUME NEW h \in Hook,
               ConfirmPaid(h) \/ ApplyIntentFailed(h) \/ ApplyChargeRefunded(h) \/ HookFails(h)
        PROVE  CaptureInv'
    <2>1. hook' = [hook EXCEPT ![h] = NoHook] /\ UNCHANGED seen
      BY <1>4 DEF ConfirmPaid, ApplyIntentFailed, ApplyChargeRefunded, HookFails, Done
    <2>2. \A g \in Hook : hook'[g].pc = "confirm" => hook'[g] = hook[g]
      BY <1>0, <2>1 DEF NoHook
    <2>3. QED
      BY <2>1, <2>2, QuietStep
  <1>5. CASE Restart
    BY <1>5, QuietStep DEF Restart, NoHook
  <1>6. CASE \/ BookingStep
             \/ \E r \in PayRequest : PayRead(r) \/ Paying(r)
             \/ \E i \in Intent : Capture(i) \/ Decline(i) \/ RefundPart(i)
             \/ \E c \in Call : Refunding(c)
             \/ UNCHANGED vars
    <2>1. UNCHANGED <<seen, hook>>
      BY <1>6 DEF BookingStep, Create, Judge, WriteStatus, HandOver, PayRead, Paying, PayLookup,
         PayMint, PayInsert, Capture, Decline, RefundPart, Refunding, ReadPayment, IssueRefund, vars
    <2>2. QED
      BY <2>1, QuietStep
  <1>7. QED
    BY <1>2, <1>3, <1>4, <1>5, <1>6 DEF Next, Handling, BookingStep

LEMMA BookedLasts ==
  ASSUME IInv, [Next]_vars, NEW i \in Intent, payment[i].status # "none", Booked(i)
  PROVE  Booked(i)'
  <1>1. payment[i].booking \in Booking /\ status[payment[i].booking] # "none"
    BY DEF IInv, RowsAreReal
  <1>2. QED
    BY <1>1, StepRowsLast, StepBookingsLast DEF RowsLast, BookingsLast, Booked

(* What ForgottenOnlyBy lets a step do to a charge.                        *)
Forgets(i) ==
    \E h \in Hook : \/ HookFails(h) /\ hook[h].event = SucceededEvent(i)
                    \/ Deliver(h, SucceededEvent(i)) /\ SucceededEvent(i) \in seen

(* An event that was to be applied still is, or its charge is booked now.  *)
LEMMA EventKept ==
  ASSUME CaptureInv, [Next]_vars, NEW i \in Intent, ToBeApplied(SucceededEvent(i)), ~Forgets(i)
  PROVE  Booked(i)' \/ ToBeApplied(SucceededEvent(i))'
  <1> DEFINE x == SucceededEvent(i)
  <1>0. /\ x' = x /\ x.type = "succeeded" /\ x.intent = i
        /\ hook \in [Hook -> HookState]
        /\ x \in outbox /\ (x \in seen => BeingApplied(x))
        /\ \A h \in Hook : /\ ~(HookFails(h) /\ hook[h].event = x)
                           /\ ~(Deliver(h, x) /\ x \in seen)
    BY DEF SucceededEvent, CaptureInv, IInv, TypeOK, ToBeApplied, Forgets
  <1> SUFFICES Booked(i)' \/ ToBeApplied(x)'
    OBVIOUS
  <1> HIDE DEF x
  <1>1. ASSUME NEW h \in Hook, NEW e \in outbox, Deliver(h, e) PROVE ToBeApplied(x)'
    <2>1. CASE e \in seen
      <3>1. e # x /\ UNCHANGED <<seen, hook>> /\ outbox \ {e} \subseteq outbox'
        BY <1>0, <1>1, <2>1 DEF Deliver, Acknowledge
      <3>2. QED
        BY <1>0, <3>1 DEF ToBeApplied, BeingApplied
    <2>2. CASE e \notin seen
      <3>1. /\ seen' = seen \cup {e} /\ outbox' = outbox /\ hook[h].pc = "idle"
            /\ hook' = [hook EXCEPT ![h] = [pc |-> "apply", event |-> e]]
        BY <1>1, <2>2 DEF Deliver
      <3>2. hook'[h] = [pc |-> "apply", event |-> e] /\ \A g \in Hook \ {h} : hook'[g] = hook[g]
        BY <1>0, <3>1
      <3>3. CASE x = e
        <4>1. hook'[h].pc # "idle" /\ hook'[h].event = x
          BY <3>2, <3>3
        <4>2. QED
          BY <1>0, <3>1, <4>1 DEF ToBeApplied, BeingApplied
      <3>4. CASE x # e
        <4>1. x \in seen => \E g \in Hook \ {h} : hook[g].pc # "idle" /\ hook[g].event = x
          BY <1>0, <3>1 DEF BeingApplied
        <4>2. x \in seen => \E g \in Hook : hook'[g].pc # "idle" /\ hook'[g].event = x
          BY <3>2, <4>1
        <4>3. QED
          BY <1>0, <3>1, <3>4, <4>2 DEF ToBeApplied, BeingApplied
      <3>5. QED
        BY <3>3, <3>4
    <2>3. QED
      BY <2>1, <2>2
  <1>2. ASSUME NEW h \in Hook, ApplyIntentSucceeded(h) PROVE ToBeApplied(x)'
    <2>1. /\ hook[h].pc # "idle" /\ hook[h] \in HookState
          /\ hook' = [hook EXCEPT ![h].pc = "confirm"] /\ UNCHANGED <<seen, outbox>>
      BY <1>0, <1>2 DEF ApplyIntentSucceeded, Applying
    <2>2. \A g \in Hook : /\ hook'[g].event = hook[g].event
                          /\ hook[g].pc # "idle" => hook'[g].pc # "idle"
      BY <1>0, <2>1 DEF HookState
    <2>3. QED
      BY <1>0, <2>1, <2>2 DEF ToBeApplied, BeingApplied
  <1>3. ASSUME NEW h \in Hook, hook[h].event # x,
               hook' = [hook EXCEPT ![h] = NoHook], UNCHANGED seen,
               outbox \ {hook[h].event} \subseteq outbox'
        PROVE  ToBeApplied(x)'
    <2>1. \A g \in Hook \ {h} : hook'[g] = hook[g]
      BY <1>0, <1>3
    <2>2. QED
      BY <1>0, <1>3, <2>1 DEF ToBeApplied, BeingApplied
  <1>4. ASSUME NEW h \in Hook, HookFails(h) PROVE ToBeApplied(x)'
    <2>1. /\ hook' = [hook EXCEPT ![h] = NoHook] /\ UNCHANGED <<seen, outbox>>
          /\ hook[h].event # x
      BY <1>0, <1>4 DEF HookFails
    <2>2. QED
      BY <1>3, <2>1
  <1>5. ASSUME NEW h \in Hook, ConfirmPaid(h) \/ ApplyIntentFailed(h) \/ ApplyChargeRefunded(h)
        PROVE  Booked(i)' \/ ToBeApplied(x)'
    <2>1. /\ hook' = [hook EXCEPT ![h] = NoHook] /\ UNCHANGED seen
          /\ outbox \ {hook[h].event} \subseteq outbox'
      BY <1>5 DEF ConfirmPaid, ApplyIntentFailed, ApplyChargeRefunded, Done, Acknowledge
    <2>2. CASE hook[h].event # x
      BY <1>3, <2>1, <2>2
    <2>3. CASE hook[h].event = x
      <3>1. ConfirmPaid(h)
        BY <1>0, <1>5, <2>3 DEF ApplyIntentFailed, ApplyChargeRefunded, Applying
      <3>2. hook[h].pc = "confirm" /\ payment[i].charge /\ payment' = payment
        BY <1>0, <2>3, <3>1 DEF ConfirmPaid, CaptureInv, ChargeRecorded
      <3>3. payment[i].booking \in Booking /\ status \in [Booking -> Status \cup {"none"}]
        BY <1>0, <2>3, <3>2, HookEvent DEF CaptureInv, IInv, TypeOK
      <3>4. status' = IF status[payment[i].booking] = "pending"
                      THEN [status EXCEPT ![payment[i].booking] = "confirmed"] ELSE status
        BY <1>0, <2>3, <3>1 DEF ConfirmPaid
      <3>5. status'[payment[i].booking] # "pending"
        BY <3>3, <3>4
      <3>6. QED
        BY <3>2, <3>5 DEF Booked
    <2>4. QED
      BY <2>2, <2>3
  <1>6. CASE Restart
    BY <1>0, <1>6 DEF Restart, ToBeApplied
  <1>7. CASE \/ BookingStep
             \/ \E r \in PayRequest : PayRead(r) \/ Paying(r)
             \/ \E j \in Intent : Capture(j) \/ Decline(j) \/ RefundPart(j)
             \/ \E c \in Call : Refunding(c)
             \/ UNCHANGED vars
    <2>1. UNCHANGED <<seen, hook>> /\ outbox \subseteq outbox'
      BY <1>7 DEF BookingStep, Create, Judge, WriteStatus, HandOver, PayRead, Paying, PayLookup,
         PayMint, PayInsert, Capture, Decline, RefundPart, Refunding, ReadPayment, IssueRefund,
         Emit, vars
    <2>2. QED
      BY <1>0, <2>1 DEF ToBeApplied, BeingApplied
  <1>8. QED
    BY <1>1, <1>2, <1>4, <1>5, <1>6, <1>7 DEF Next, Handling, BookingStep

(* A charge is captured by Capture alone, and its event was never seen.    *)
LEMMA NewlyCaptured ==
  ASSUME CaptureInv, [Next]_vars, NEW i \in Intent,
         stripe[i].status # "captured", stripe'[i].status = "captured"
  PROVE  ToBeApplied(SucceededEvent(i))'
  <1>0. stripe \in [Intent -> Account]
    BY DEF CaptureInv, IInv, TypeOK
  <1>1. Capture(i)
    <2>1. ~UNCHANGED stripe
      OBVIOUS
    <2>2. CASE \E r \in PayRequest : PayMint(r)
      BY <1>0, <2>2 DEF PayMint, Account
    <2>3. CASE \E j \in Intent : Capture(j)
      BY <1>0, <2>3 DEF Capture, Account
    <2>4. CASE \E j \in Intent : Decline(j) \/ RefundPart(j)
      BY <1>0, <2>4 DEF Decline, RefundPart, Account
    <2>5. CASE \E c \in Call : IssueRefund(c)
      BY <1>0, <2>5 DEF IssueRefund, Account
    <2>6. BookingStep => UNCHANGED stripe
      BY DEF BookingStep, Create, Judge, WriteStatus, HandOver
    <2>7. QED
      BY <2>1, <2>2, <2>3, <2>4, <2>5, <2>6 DEF Next, BookingStep, PayRead, Paying, PayLookup,
         PayInsert, Deliver, Handling, ApplyIntentSucceeded, ConfirmPaid, ApplyIntentFailed,
         ApplyChargeRefunded, HookFails, Refunding, ReadPayment, Restart, vars
  <1>2. UNCHANGED seen /\ outbox' = outbox \cup {SucceededEvent(i)}
    BY <1>1 DEF Capture, Emit, SucceededEvent
  <1>3. SucceededEvent(i) \notin seen
    BY DEF CaptureInv, SeenWasTrue, SucceededEvent
  <1>4. QED
    BY <1>2, <1>3 DEF ToBeApplied, SucceededEvent

(* Only a failed statement of the handler of a charge's own event, or a    *)
(* repetition of that event answered while the handler is at work, can     *)
(* leave a captured charge without a record and without an event to come:  *)
(* for any number of intents, overlapping deliveries, failures, restarts   *)
(* and calls.                                                              *)
THEOREM CaptureForgottenOnlyBy == Spec => ForgottenOnlyBy
  <1>1. Init => CaptureInv
    BY InitIInv DEF Init, CaptureInv, ChargeRecorded, SeenWasTrue, NoHook
  <1>2. CaptureInv /\ [Next]_vars => CaptureInv'
    BY NextCaptureInv
  <1>3. ASSUME CaptureInv, [Next]_vars, NEW i \in Intent, Remembered(i), ~Forgets(i)
        PROVE  Remembered(i)'
    <2> SUFFICES ASSUME stripe'[i].status = "captured"
                 PROVE  Booked(i)' \/ ToBeApplied(SucceededEvent(i))'
      BY DEF Remembered
    <2>1. CASE stripe[i].status # "captured"
      BY <1>3, <2>1, NewlyCaptured
    <2>2. CASE stripe[i].status = "captured" /\ Booked(i)
      <3>1. payment[i].status # "none"
        BY <1>3, <2>2 DEF CaptureInv, IInv, RowsAreReal
      <3>2. QED
        BY <1>3, <2>2, <3>1, BookedLasts DEF CaptureInv
    <2>3. CASE ToBeApplied(SucceededEvent(i))
      BY <1>3, <2>3, EventKept
    <2>4. QED
      BY <1>3, <2>1, <2>2, <2>3 DEF Remembered
  <1>4. CaptureInv /\ [Next]_vars =>
          [\A i \in Intent : Remembered(i) /\ ~Remembered(i)' => Forgets(i)]_vars
    BY <1>3
  <1>5. QED
    BY <1>1, <1>2, <1>4, PTL DEF Spec, ForgottenOnlyBy, Forgets

=============================================================================
