------------------------- MODULE RecurringForm_proofs -------------------------
(***************************************************************************)
(* What the form that sets up a recurring series keeps, for any offerings, *)
(* limits, availability and days off, whatever the user clicks.            *)
(***************************************************************************)
EXTENDS RecurringForm, RecurrenceDates_proofs

LOCAL INSTANCE SequencesExt
LOCAL INSTANCE FiniteSetsExt

-----------------------------------------------------------------------------
(* There is always a time, and never more than the service allows.         *)
FormInv ==
    /\ FormTypeOK
    /\ Len(form.times) \in 1..MaxTimes[form.service]

LEMMA AddTimeStep ==
  ASSUME FormInv, AddTime
  PROVE  FormInv'
  <1> DEFINE last == Last(form.times)
             base == IF last = Cleared THEN 0 ELSE last
             unused == {i \in 1..DayLength : ~Contains(form.times, (base + i) % DayLength)}
             next == IF unused = {} THEN base ELSE (base + Min(unused)) % DayLength
  <1>1. DayLength \in Nat \ {0}
    BY CalendarAssumption
  <1>2. form.times \in Seq(Hour \cup {Cleared}) /\ Len(form.times) \in Nat \ {0}
    BY FormAssumption DEF FormInv, FormTypeOK
  <1>3. last \in Hour \cup {Cleared}
    BY <1>2 DEF Last
  <1>4. base \in Hour
    BY <1>1, <1>3 DEF Hour
  <1> HIDE DEF last, base
  <1>5. ASSUME unused # {}
        PROVE  (base + Min(unused)) % DayLength \in Hour
    <2>1. unused \in SUBSET Nat
      BY <1>1
    <2> HIDE DEF unused
    <2>2. \E x \in unused : \A y \in unused : x <= y
      BY <1>5, <2>1, LeastNatural, Zenon
    <2>3. Min(unused) \in unused
      BY <2>2 DEF Min
    <2>4. base + Min(unused) \in Int
      <3>1. base \in Int
        BY <1>1, <1>4 DEF Hour
      <3>2. PICK least \in unused : least = Min(unused)
        BY <2>3
      <3>3. QED
        BY <2>1, <3>1, <3>2
    <2>5. QED
      BY <1>1, <2>4, Division DEF Hour
  <1> HIDE DEF unused
  <1>6. next \in Hour
    BY <1>4, <1>5
  <1>7. /\ Len(form.times) < MaxTimes[form.service]
        /\ form' = [form EXCEPT !.times = Append(@, next)]
        /\ UNCHANGED <<blackouts, asked>>
    BY DEF AddTime, last, base, unused
  <1> HIDE DEF next
  <1>8. /\ Append(form.times, next) \in Seq(Hour \cup {Cleared})
        /\ Len(Append(form.times, next)) = Len(form.times) + 1
    BY <1>2, <1>6
  <1>9. form.service \in Service /\ MaxTimes[form.service] \in Nat
    BY FormAssumption DEF FormInv, FormTypeOK
  <1>10. FormTypeOK'
    BY <1>2, <1>7, <1>8 DEF FormInv, FormTypeOK
  <1>11. form'.service = form.service /\ form'.times = Append(form.times, next)
    BY <1>7 DEF FormInv, FormTypeOK
  <1>12. QED
    BY <1>2, <1>7, <1>8, <1>9, <1>10, <1>11 DEF FormInv

LEMMA FormNextInv ==
  ASSUME FormInv, [FormNext]_formvars
  PROVE  FormInv'
  <1>1. /\ form.service \in Service /\ form.step \in {1, 2}
        /\ form.days \in SUBSET Weekday /\ form.times \in Seq(Hour \cup {Cleared})
        /\ form.from \in PickableDay /\ form.to \in PickableDay \cup {NoDate}
        /\ Len(form.times) \in 1..MaxTimes[form.service]
        /\ \A s \in Service : MaxTimes[s] \in Nat \ {0}
        /\ blackouts \in Blackouts
    BY FormAssumption DEF FormInv, FormTypeOK
  <1>2. CASE UNCHANGED formvars
    BY <1>2 DEF formvars, FormInv, FormTypeOK
  <1>3. ASSUME NEW day \in Weekday, ToggleDay(day)
        PROVE  FormInv'
    BY <1>1, <1>3 DEF ToggleDay, FormInv, FormTypeOK
  <1>4. ASSUME NEW i \in DOMAIN form.times, NEW time \in Hour \cup {Cleared}, SetTime(i, time)
        PROVE  FormInv'
    <2> DEFINE times == [form.times EXCEPT ![i] = time]
    <2>1. times \in Seq(Hour \cup {Cleared}) /\ Len(times) = Len(form.times)
      BY <1>1
    <2>2. form' = [form EXCEPT !.times = times] /\ UNCHANGED <<blackouts, asked>>
      BY <1>4 DEF SetTime, FormInv, FormTypeOK
    <2> HIDE DEF times
    <2>3. QED
      BY <1>1, <2>1, <2>2 DEF FormInv, FormTypeOK
  <1>5. ASSUME NEW i \in DOMAIN form.times, RemoveTime(i)
        PROVE  FormInv'
    <2> DEFINE head == SubSeq(form.times, 1, i - 1)
               tail == SubSeq(form.times, i + 1, Len(form.times))
               times == head \o tail
    <2>1. Len(form.times) > 1 /\ Len(form.times) \in Nat /\ i \in 1..Len(form.times)
      BY <1>1, <1>5 DEF RemoveTime
    <2>2. /\ head \in Seq(Hour \cup {Cleared}) /\ Len(head) = i - 1
          /\ tail \in Seq(Hour \cup {Cleared}) /\ Len(tail) = Len(form.times) - i
      BY <1>1, <2>1
    <2>6. form' = [form EXCEPT !.times = times] /\ UNCHANGED <<blackouts, asked>>
      BY <1>5 DEF RemoveTime, RemoveAt
    <2> HIDE DEF head, tail
    <2>3. times \in Seq(Hour \cup {Cleared}) /\ Len(times) = Len(form.times) - 1
      BY <2>1, <2>2
    <2> HIDE DEF times
    <2>5. QED
      BY <1>1, <2>1, <2>3, <2>6 DEF FormInv, FormTypeOK
  <1>6. ASSUME NEW s \in OfferedService, ChooseService(s)
        PROVE  FormInv'
    <2> DEFINE n == IF Len(form.times) < MaxTimes[s] THEN Len(form.times) ELSE MaxTimes[s]
               times == SubSeq(form.times, 1, n)
    <2>0. s \in Service
      BY FormAssumption
    <2>1. n \in 1..MaxTimes[s] /\ n \in 1..Len(form.times)
      BY <1>1, <2>0
    <2>2. form' = [form EXCEPT !.service = s, !.times = times] /\ UNCHANGED <<blackouts, asked>>
      BY <1>6 DEF ChooseService
    <2> HIDE DEF n
    <2>3. times \in Seq(Hour \cup {Cleared}) /\ Len(times) = n
      BY <1>1, <2>1
    <2> HIDE DEF times
    <2>4. QED
      BY <1>1, <2>0, <2>1, <2>2, <2>3 DEF FormInv, FormTypeOK
  <1>7. ASSUME NEW step \in {1, 2}, ChooseRecurrence(step)
        PROVE  FormInv'
    BY <1>1, <1>7 DEF ChooseRecurrence, FormInv, FormTypeOK
  <1>8. ASSUME NEW day \in PickableDay, ChooseStart(day)
        PROVE  FormInv'
    BY <1>1, <1>8 DEF ChooseStart, FormInv, FormTypeOK
  <1>9. ASSUME NEW day \in PickableDay \cup {NoDate}, ChooseEnd(day)
        PROVE  FormInv'
    BY <1>1, <1>9 DEF ChooseEnd, FormInv, FormTypeOK
  <1>10. CASE Submit \/ Refused
    BY <1>1, <1>10 DEF Submit, Refused, FormInv, FormTypeOK
  <1>11. QED
    BY <1>2, <1>3, <1>4, <1>5, <1>6, <1>7, <1>8, <1>9, <1>10, AddTimeStep DEF FormNext

LEMMA FormInitInv == FormInit => FormInv
  <1> SUFFICES ASSUME FormInit PROVE FormInv
    OBVIOUS
  <1>1. 1 \in Weekday /\ <<0>> \in Seq(Hour \cup {Cleared}) /\ Len(<<0>>) = 1
    BY FormAssumption, CalendarAssumption DEF Weekday, Hour
  <1>2. PICK s \in Service, from \in PickableDay :
          form = [service |-> s, step |-> 1, days |-> {1}, times |-> <<0>>,
                  from |-> from, to |-> NoDate]
    BY DEF FormInit
  <1>3. FormTypeOK
    BY <1>1, <1>2 DEF FormInit, FormTypeOK
  <1>4. Len(form.times) = 1 /\ MaxTimes[form.service] \in Nat \ {0}
    BY <1>1, <1>2, FormAssumption
  <1>5. QED
    BY <1>3, <1>4 DEF FormInv

(* FormInv holds in every reachable state.                                  *)
THEOREM FormInvariant == FormSpec => []FormInv
  <1>1. FormInv /\ [FormNext]_formvars => FormInv'
    BY FormNextInv
  <1>2. QED
    BY <1>1, FormInitInv, PTL DEF FormSpec

-----------------------------------------------------------------------------
(* What the form sends.                                                    *)

(* An emptied time is in no window.                                        *)
LEMMA NoTimeIsEmpty ==
  ASSUME FormInv, CanSubmit, Availability # {}
  PROVE  \A i \in DOMAIN form.times : form.times[i] \in Hour
  <1>1. form.times \in Seq(Hour \cup {Cleared})
    BY DEF FormInv, FormTypeOK
  <1>2. PICK day \in form.days : TRUE
    BY DEF CanSubmit
  <1>3. PICK window \in Availability : window.day = day
    BY DEF CanSubmit, AllowedDays
  <1>4. SelectedDaySlots # {}
    BY <1>2, <1>3 DEF SelectedDaySlots
  <1>5. ASSUME NEW i \in DOMAIN form.times PROVE form.times[i] \in Hour
    <2>1. form.times[i] \in Hour \cup {Cleared}
      BY <1>1, SequenceParts
    <2>2. PICK w \in Availability : w.from <= form.times[i]
      BY <1>4 DEF CanSubmit, TimeInWindow, SelectedDaySlots
    <2>3. w.from \in Nat
      BY FormAssumption
    <2>4. QED
      BY <2>1, <2>2, <2>3 DEF Cleared
  <1>6. QED
    BY <1>5

(* A form that can be sent keeps the limits of the backend, whatever was   *)
(* clicked before.                                                         *)
THEOREM FormStaysValid == FormSpec => []SubmittableIsValid
  <1>1. ASSUME FormInv, CanSubmit
        PROVE  /\ Len(form.times) <= MaxTimes[form.service]
               /\ Availability # {} => ~Contains(form.times, Cleared)
               /\ form.days \subseteq AllowedDays
    <2>1. Len(form.times) <= MaxTimes[form.service]
      BY <1>1, FormAssumption DEF FormInv, FormTypeOK
    <2>2. ASSUME Availability # {}, Contains(form.times, Cleared) PROVE FALSE
      <3>1. PICK i \in 1..Len(form.times) : form.times[i] = Cleared
        BY <2>2 DEF Contains
      <3>2. form.times \in Seq(Hour \cup {Cleared})
        BY <1>1 DEF FormInv, FormTypeOK
      <3>3. i \in DOMAIN form.times
        BY <3>1, <3>2, SequenceParts
      <3>4. Cleared \in Hour
        BY <1>1, <2>2, <3>1, <3>3, NoTimeIsEmpty
      <3>5. QED
        BY <3>4, CalendarAssumption DEF Cleared, Hour
    <2>3. form.days \subseteq AllowedDays
      BY <1>1 DEF CanSubmit
    <2>4. QED
      BY <2>1, <2>2, <2>3
  <1>2. FormInv => SubmittableIsValid
    BY <1>1 DEF SubmittableIsValid
  <1>3. QED
    BY <1>2, FormInvariant, PTL

(* What it sends names no weekday and no time twice.                       *)
LEMMA RuleIsAccepted ==
  ASSUME FormInv, CanSubmit, Availability # {}
  PROVE  Accepted(RuleOf(form)) /\ Distinct(RuleOf(form))
  <1> DEFINE rule == RuleOf(form)
             D == form.days
             n == Cardinality(D)
             key == [d \in D |-> d]
             days == Smallest(n, key)
  <1>1. /\ form.step \in {1, 2} /\ D \in SUBSET Weekday /\ form.times \in Seq(Hour \cup {Cleared})
        /\ form.from \in Nat
        /\ form.to = NoDate \/ form.to \in Nat
    BY FormAssumption DEF FormInv, FormTypeOK
  <1>2. DaysPerWeek \in Nat \ {0} /\ DayLength \in Nat \ {0} /\ DefaultWeeks \in Nat
    BY CalendarAssumption, FormAssumption
  <1>3. /\ rule.step = form.step /\ rule.days = days /\ rule.times = form.times
        /\ rule.from = form.from
        /\ rule.to = IF form.to = NoDate THEN form.from + DefaultWeeks * DaysPerWeek
                     ELSE form.to
    BY DEF RuleOf
  <1>4. rule.to \in Nat
    <2>1. form.from + DefaultWeeks * DaysPerWeek \in Nat
      BY <1>1, <1>2
    <2>2. QED
      BY <1>1, <1>3, <2>1
  <1>5. IsFiniteSet(D) /\ n \in Nat /\ n <= Cardinality(D)
    <2>1. IsFiniteSet(Weekday)
      BY <1>2, FS_Interval DEF Weekday
    <2>2. QED
      BY <1>1, <2>1, FS_Subset, FS_CardinalityType
  <1>6. /\ key \in [D -> Int] /\ \A d \in D : key[d] \in Weekday
        /\ \A d, e \in D : key[d] = key[e] => d = e
    BY <1>1, <1>2 DEF Weekday
  <1> HIDE DEF rule, D, n, key
  <1>7. days \in Seq(Weekday) /\ Len(days) = n
    BY <1>5, <1>6, SmallestIsSequence
  <1>8. \A i, j \in 1..n : i < j => days[i] < days[j]
    BY <1>5, <1>6, SmallestInOrder
  <1> HIDE DEF days
  <1>9. \A i, j \in DOMAIN days : days[i] = days[j] => i = j
    <2> SUFFICES ASSUME NEW i \in 1..n, NEW j \in 1..n, days[i] = days[j]
                 PROVE  i = j
      BY <1>7, SequenceParts
    <2>1. days[i] \in Int
      BY <1>2, <1>7, SequenceParts DEF Weekday
    <2>2. ~(i < j) /\ ~(j < i)
      BY <1>8, <2>1
    <2>3. QED
      BY <1>5, <2>2
  <1>10. /\ form.times \in Seq(Nat)
         /\ \A i \in DOMAIN form.times : form.times[i] < DayLength
    <2>1. \A i \in DOMAIN form.times : form.times[i] \in Nat /\ form.times[i] < DayLength
      BY <1>2, NoTimeIsEmpty DEF Hour
    <2>2. form.times \in [1..Len(form.times) -> Nat] /\ Len(form.times) \in Nat
      BY <1>1, <2>1, SequenceParts
    <2>3. QED
      BY <2>1, <2>2
  <1>11. Accepted(rule)
    BY <1>1, <1>3, <1>4, <1>7, <1>10 DEF Accepted, Weekday
  <1>12. Distinct(rule)
    BY <1>3, <1>9, <1>10 DEF Distinct, CanSubmit
  <1>13. QED
    BY <1>11, <1>12 DEF rule

(* For a provider who published hours, what the backend generates for any  *)
(* form that can be sent is the rule the form shows.                       *)
THEOREM FormDatesFollowRule ==
  ASSUME Availability # {}
  PROVE  FormSpec => []DatesFollowRule
  <1>1. FormInv => DatesFollowRule
    BY RuleIsAccepted, DatesFollowTheRule DEF DatesFollowRule
  <1>2. QED
    BY <1>1, FormInvariant, PTL

-----------------------------------------------------------------------------
(* The estimate.                                                           *)

(* A function given by its first value and a step from day to day exists.  *)
IsRecursion(f, a, b, S, start, step) ==
    /\ f \in [a..b -> S]
    /\ f[a] = start
    /\ \A d \in (a + 1)..b : f[d] = step[<<d - 1, f[d - 1]>>]

LEMMA RecursionExists ==
  ASSUME NEW a \in Int, NEW b \in Int, a <= b, NEW S, NEW start \in S,
         NEW step \in [Int \X S -> S]
  PROVE  \E f : IsRecursion(f, a, b, S, start, step)
  <1> DEFINE Has(m) ==
        \E f \in [a..(a + m) -> S] :
            /\ f[a] = start
            /\ \A d \in (a + 1)..(a + m) : f[d] = step[<<d - 1, f[d - 1]>>]
             failing == {m \in Nat : ~Has(m)}
  <1>1. Has(0)
    <2>1. [d \in a..(a + 0) |-> start] \in [a..(a + 0) -> S]
      OBVIOUS
    <2>2. [d \in a..(a + 0) |-> start][a] = start
      OBVIOUS
    <2>3. (a + 1)..(a + 0) = {}
      OBVIOUS
    <2>4. QED
      BY <2>1, <2>2, <2>3
  <1>2. ASSUME NEW m \in Nat, Has(m) PROVE Has(m + 1)
    <2>1. PICK f \in [a..(a + m) -> S] :
            /\ f[a] = start
            /\ \A d \in (a + 1)..(a + m) : f[d] = step[<<d - 1, f[d - 1]>>]
      BY <1>2
    <2> DEFINE last == step[<<a + m, f[a + m]>>]
               g == [d \in a..(a + (m + 1)) |-> IF d \in a..(a + m) THEN f[d] ELSE last]
    <2>2. a + m \in a..(a + m) /\ f[a + m] \in S
      BY <2>1
    <2>3. last \in S
      BY <2>2
    <2>4. /\ \A d \in a..(a + m) : g[d] = f[d]
          /\ g[a + (m + 1)] = last
      OBVIOUS
    <2>5. g \in [a..(a + (m + 1)) -> S]
      BY <2>1, <2>3
    <2> HIDE DEF g, last
    <2>6. g[a] = start
      BY <2>1, <2>4
    <2>7. ASSUME NEW d \in (a + 1)..(a + (m + 1))
          PROVE  g[d] = step[<<d - 1, g[d - 1]>>]
      <3>1. d - 1 \in a..(a + m) /\ g[d - 1] = f[d - 1]
        BY <2>4
      <3>2. CASE d \in (a + 1)..(a + m)
        BY <2>1, <2>4, <3>1, <3>2
      <3>3. CASE d = a + (m + 1)
        <4>1. d - 1 = a + m
          BY <3>3
        <4>2. QED
          BY <2>4, <3>1, <3>3, <4>1 DEF last
      <3>4. QED
        BY <3>2, <3>3
    <2>8. QED
      BY <2>5, <2>6, <2>7
  <1> HIDE DEF Has
  <1>3. \A m \in Nat : Has(m)
    <2>1. CASE failing # {}
      <3>1. PICK m \in failing : \A k \in failing : m <= k
        <4>1. failing \in SUBSET Nat
          OBVIOUS
        <4> HIDE DEF failing
        <4>2. QED
          BY <2>1, <4>1, LeastNatural, Zenon
      <3>2. m # 0
        BY <1>1
      <3>3. m - 1 \in Nat /\ m - 1 \notin failing
        BY <3>1, <3>2
      <3>4. Has((m - 1) + 1)
        BY <1>2, <3>3
      <3>5. QED
        BY <3>1, <3>4
    <2>2. QED
      BY <2>1
  <1>4. b - a \in Nat /\ a + (b - a) = b
    OBVIOUS
  <1>5. Has(b - a)
    BY <1>3, <1>4
  <1>6. QED
    BY <1>4, <1>5 DEF Has, IsRecursion

ScanState == [total : Nat, skipped : Nat, weekIndex : Nat]

ScanStart == [total |-> 0, skipped |-> 0, weekIndex |-> 0]

Stopped(scan) == \/ scan.total >= MaxInstances
                 \/ scan.total + scan.skipped >= ScanLimit

LEMMA ScanStepType ==
  ASSUME NEW rule, Accepted(rule), NEW day \in Int, NEW scan \in ScanState
  PROVE  ScanStep(rule, day, scan) \in ScanState
  <1>1. Len(rule.times) \in Nat
    BY SequenceParts DEF Accepted
  <1>2. QED
    BY <1>1 DEF ScanStep, ScanState

(* The scan from day to day.                                               *)
LEMMA ScanIsRecursion ==
  ASSUME NEW rule, Accepted(rule), rule.from <= rule.to
  PROVE  \E g : /\ g[rule.from] = ScanStart
                /\ \A d \in rule.from..rule.to :
                      g[d + 1] = IF Stopped(g[d]) THEN g[d] ELSE ScanStep(rule, d, g[d])
                /\ Scan(rule) = g[rule.to + 1]
  <1> DEFINE a == rule.from
             b == rule.to + 1
             step == [p \in Int \X ScanState |->
                        IF Stopped(p[2]) THEN p[2] ELSE ScanStep(rule, p[1], p[2])]
             Eq(f) == f = [day \in a..b |->
                             IF day = a THEN ScanStart
                             ELSE IF Stopped(f[day - 1]) THEN f[day - 1]
                                  ELSE ScanStep(rule, day - 1, f[day - 1])]
             g == CHOOSE f : Eq(f)
  <1>1. rule.from \in Nat /\ rule.to \in Nat
    BY DEF Accepted
  <1>2. ScanStart \in ScanState
    BY DEF ScanStart, ScanState
  <1>3. step \in [Int \X ScanState -> ScanState]
    BY ScanStepType
  <1>4. \A d \in Int, scan \in ScanState :
          step[<<d, scan>>] = IF Stopped(scan) THEN scan ELSE ScanStep(rule, d, scan)
    OBVIOUS
  <1>5. a \in Int /\ b \in Int /\ a <= b
    BY <1>1
  <1> HIDE DEF step
  <1>6. PICK f \in [a..b -> ScanState] :
          /\ f[a] = ScanStart
          /\ \A d \in (a + 1)..b : f[d] = step[<<d - 1, f[d - 1]>>]
    <2> DEFINE lo == a
               hi == b
    <2>1. lo \in Int /\ hi \in Int /\ lo <= hi
      BY <1>5
    <2> HIDE DEF lo, hi
    <2>2. \E f : IsRecursion(f, lo, hi, ScanState, ScanStart, step)
      BY <1>2, <1>3, <2>1, RecursionExists
    <2>3. QED
      BY <2>2 DEF lo, hi, IsRecursion
  <1>7. \A d \in a..b : d # a => /\ d \in (a + 1)..b
                                /\ d - 1 \in Int /\ f[d - 1] \in ScanState
    BY <1>5, <1>6
  <1>8. \A d \in a..b :
          f[d] = IF d = a THEN ScanStart
                 ELSE IF Stopped(f[d - 1]) THEN f[d - 1] ELSE ScanStep(rule, d - 1, f[d - 1])
    <2>1. ASSUME NEW d \in a..b, d # a
          PROVE  f[d] = IF Stopped(f[d - 1]) THEN f[d - 1] ELSE ScanStep(rule, d - 1, f[d - 1])
      <3>1. f[d] = step[<<d - 1, f[d - 1]>>] /\ d - 1 \in Int /\ f[d - 1] \in ScanState
        BY <1>6, <1>7, <2>1
      <3>2. QED
        BY <1>4, <3>1
    <2>2. QED
      BY <1>6, <2>1
  <1>9. Eq(f)
    BY <1>6, <1>8
  <1>10. Eq(g)
    BY <1>9
  <1>11. Scan(rule) = g[rule.to + 1]
    BY <1>1 DEF Scan, Stopped, ScanStart
  <1> HIDE DEF g
  <1>12. g[a] = ScanStart
    BY <1>5, <1>10
  <1>13. ASSUME NEW d \in rule.from..rule.to
         PROVE  g[d + 1] = IF Stopped(g[d]) THEN g[d] ELSE ScanStep(rule, d, g[d])
    <2>1. d + 1 \in a..b /\ d + 1 # a /\ (d + 1) - 1 = d
      BY <1>1
    <2>2. QED
      BY <1>10, <2>1
  <1>14. QED
    BY <1>11, <1>12, <1>13

(* The pushes of the days the scan has passed when it comes to day d.      *)
PushedBefore(rule, out, d) == {push \in Pushes(rule, out) : DayOfPush(rule, push) < d}

PushedOn(rule, out, d) == {push \in Pushes(rule, out) : DayOfPush(rule, push) = d}

(* What the loop asks of a day.                                            *)
Counted(rule, d) ==
    /\ \E i \in DOMAIN rule.days : rule.days[i] = d % DaysPerWeek
    /\ ((d \div DaysPerWeek) - (rule.from \div DaysPerWeek)) % rule.step = 0

LEMMA PushesOfDay ==
  ASSUME NEW rule, Accepted(rule), Distinct(rule), NEW out, NEW d \in rule.from..rule.to
  PROVE  /\ IsFiniteSet(PushedOn(rule, out, d))
         /\ Cardinality(PushedOn(rule, out, d)) =
              IF Counted(rule, d) /\ ~BlackedOut(d, out) THEN Len(rule.times) ELSE 0
  <1> DEFINE P == PushedOn(rule, out, d)
             n == Len(rule.times)
  <1>1. n \in Nat /\ DOMAIN rule.times = 1..n
    BY SequenceParts DEF Accepted
  <1>2. CASE Counted(rule, d) /\ ~BlackedOut(d, out)
    <2>1. PICK i \in DOMAIN rule.days : rule.days[i] = d % DaysPerWeek
      BY <1>2 DEF Counted
    <2>2. PICK k \in Nat : \A j \in 1..n : /\ <<k, i, j>> \in Pushes(rule, out)
                                           /\ DayOfPush(rule, <<k, i, j>>) = d
      <3>1. /\ ((d \div DaysPerWeek) - (rule.from \div DaysPerWeek)) % rule.step = 0
            /\ ~BlackedOut(d, out)
        BY <1>2 DEF Counted
      <3>2. \E k \in Nat : \A j \in DOMAIN rule.times :
               /\ <<k, i, j>> \in Pushes(rule, out)
               /\ DayOfPush(rule, <<k, i, j>>) = d
        BY <2>1, <3>1, DayHasPushes
      <3>3. QED
        BY <1>1, <3>2
    <2> DEFINE f == [j \in 1..n |-> <<k, i, j>>]
    <2>3. f \in [1..n -> P] /\ \A j, m \in 1..n : j # m => f[j] # f[m]
      BY <2>2 DEF PushedOn
    <2>4. ASSUME NEW p \in P PROVE \E j \in 1..n : f[j] = p
      <3>1. p \in Pushes(rule, out) /\ DayOfPush(rule, p) = d
        BY DEF PushedOn
      <3>2. /\ p = <<p[1], p[2], p[3]>> /\ p[1] \in Nat /\ p[2] \in DOMAIN rule.days
            /\ p[3] \in 1..n
        BY <1>1, <3>1, PushParts
      <3>3. rule.days[p[2]] = d % DaysPerWeek
        BY <3>1, PushIsOnMeantDay
      <3>4. p[2] = i
        BY <2>1, <3>2, <3>3 DEF Distinct
      <3> DEFINE e == <<k, i, p[3]>>
      <3>5. e \in Pushes(rule, out) /\ DayOfPush(rule, e) = d /\ e[1] = k
        BY <2>2, <3>2
      <3> HIDE DEF e
      <3>6. /\ d \div DaysPerWeek = (rule.from \div DaysPerWeek) + k * rule.step
            /\ d \div DaysPerWeek = (rule.from \div DaysPerWeek) + p[1] * rule.step
        BY <3>1, <3>5, PushIsOnMeantDay
      <3>7. rule.step \in Nat \ {0} /\ rule.from \div DaysPerWeek \in Nat
        BY WeekStartIsSunday DEF Accepted
      <3>8. p[1] = k
        BY <3>2, <3>6, <3>7, SameMultiple
      <3>9. QED
        BY <3>2, <3>4, <3>8
    <2> HIDE DEF f, P
    <2>5. IsFiniteSet(P) /\ Cardinality(P) = n
      BY <1>1, <2>3, <2>4, DistinctValues
    <2>6. QED
      BY <1>2, <2>5 DEF P
  <1>3. CASE ~(Counted(rule, d) /\ ~BlackedOut(d, out))
    <2>1. P = {}
      <3> SUFFICES ASSUME NEW p \in Pushes(rule, out), DayOfPush(rule, p) = d
                   PROVE  FALSE
        BY DEF PushedOn
      <3>1. p[2] \in DOMAIN rule.days /\ ~BlackedOut(d, out)
        BY PushParts
      <3>2. /\ rule.days[p[2]] = d % DaysPerWeek
            /\ ((d \div DaysPerWeek) - (rule.from \div DaysPerWeek)) % rule.step = 0
        BY PushIsOnMeantDay
      <3>3. QED
        BY <1>3, <3>1, <3>2 DEF Counted
    <2>2. QED
      BY <1>3, <2>1, FS_EmptySet
  <1>4. QED
    BY <1>2, <1>3

LEMMA PushesAddUp ==
  ASSUME NEW rule, Accepted(rule), Distinct(rule), NEW out, NEW d \in rule.from..rule.to
  PROVE  /\ Cardinality(PushedBefore(rule, out, d)) \in Nat
         /\ Cardinality(PushedBefore(rule, out, d + 1)) =
              Cardinality(PushedBefore(rule, out, d)) + Cardinality(PushedOn(rule, out, d))
  <1> DEFINE B == PushedBefore(rule, out, d)
             P == PushedOn(rule, out, d)
  <1>1. /\ IsFiniteSet(Pushes(rule, out))
        /\ d \in Int /\ \A push \in Pushes(rule, out) : DayOfPush(rule, push) \in Int
    BY PushesAreFinite, PushParts DEF Accepted
  <1>2. IsFiniteSet(B) /\ IsFiniteSet(P)
    <2>1. B \in SUBSET Pushes(rule, out) /\ P \in SUBSET Pushes(rule, out)
      BY DEF PushedBefore, PushedOn
    <2>2. QED
      BY <1>1, <2>1, FS_Subset
  <1>3. PushedBefore(rule, out, d + 1) = B \cup P /\ B \cap P = {}
    BY <1>1 DEF PushedBefore, PushedOn
  <1> HIDE DEF B, P
  <1>4. /\ Cardinality(B \cup P) = Cardinality(B) + Cardinality(P) - Cardinality(B \cap P)
        /\ Cardinality(B \cap P) = 0 /\ Cardinality(B) \in Nat /\ Cardinality(P) \in Nat
    <2>1. Cardinality(B \cup P) = Cardinality(B) + Cardinality(P) - Cardinality(B \cap P)
      BY <1>2, FS_Union
    <2>2. Cardinality(B \cap P) = 0
      BY <1>3, FS_EmptySet
    <2>3. Cardinality(B) \in Nat /\ Cardinality(P) \in Nat
      BY <1>2, FS_CardinalityType
    <2>4. QED
      BY <2>1, <2>2, <2>3
  <1>5. /\ Cardinality(B) \in Nat
        /\ Cardinality(PushedBefore(rule, out, d + 1)) = Cardinality(B) + Cardinality(P)
    <2>1. Cardinality(PushedBefore(rule, out, d + 1)) = Cardinality(B \cup P)
      BY <1>3, Zenon
    <2>2. QED
      BY <1>4, <2>1
  <1>6. QED
    BY <1>5 DEF B, P

LEMMA WeekOfNextDay ==
  ASSUME NEW d \in Nat
  PROVE  (d + 1) \div DaysPerWeek =
            (d \div DaysPerWeek) + (IF d % DaysPerWeek = DaysPerWeek - 1 THEN 1 ELSE 0)
  <1> DEFINE c == DaysPerWeek
             q == d \div c
             r == d % c
  <1>1. c \in Nat \ {0}
    BY CalendarAssumption
  <1> HIDE DEF c
  <1>2. q \in Int /\ r \in 0..(c - 1) /\ d = c * q + r
    BY <1>1, Division
  <1> HIDE DEF q, r
  <1>3. CASE r = c - 1
    <2>1. d + 1 = c * (q + 1) + 0
      BY <1>1, <1>2, <1>3
    <2>2. q + 1 \in Int /\ 0 \in 0..(c - 1)
      BY <1>1, <1>2
    <2>3. (c * (q + 1) + 0) \div c = q + 1
      BY <1>1, <2>2, DivMod
    <2>4. QED
      BY <1>3, <2>1, <2>3 DEF q, r, c
  <1>4. CASE r # c - 1
    <2>1. d + 1 = c * q + (r + 1)
      BY <1>1, <1>2
    <2>2. r + 1 \in 0..(c - 1)
      BY <1>1, <1>2, <1>4
    <2>3. (c * q + (r + 1)) \div c = q
      BY <1>1, <1>2, <2>2, DivMod
    <2>4. QED
      BY <1>2, <1>4, <2>1, <2>3 DEF q, r, c
  <1>5. QED
    BY <1>3, <1>4

(* When it comes to day d the loop has counted the sessions of the days    *)
(* before d, unless it has ended early.                                    *)
HasCounted(rule, d, scan) ==
    LET count == Cardinality(PushedBefore(rule, blackouts, d)) IN
    /\ scan \in ScanState
    /\ count \in Nat
    /\ scan.total <= count
    /\ \/ Stopped(scan)
       \/ /\ scan.total = count
          /\ scan.weekIndex = (d \div DaysPerWeek) - (rule.from \div DaysPerWeek)

LEMMA ScanStepCounts ==
  ASSUME NEW rule, Accepted(rule), Distinct(rule), NEW d \in rule.from..rule.to,
         NEW scan, HasCounted(rule, d, scan)
  PROVE  HasCounted(rule, d + 1, IF Stopped(scan) THEN scan ELSE ScanStep(rule, d, scan))
  <1> DEFINE count(e) == Cardinality(PushedBefore(rule, blackouts, e))
             today == Cardinality(PushedOn(rule, blackouts, d))
             out == BlackedOut(d, blackouts)
             n == Len(rule.times)
             next == ScanStep(rule, d, scan)
  <1>1. d \in Nat /\ d + 1 \in Nat
    BY DEF Accepted
  <1>2. n \in Nat
    BY SequenceParts DEF Accepted
  <1>3. count(d) \in Nat /\ count(d + 1) = count(d) + today
    BY PushesAddUp
  <1>4. today = IF Counted(rule, d) /\ ~out THEN n ELSE 0
    BY PushesOfDay
  <1>5. /\ scan \in ScanState /\ scan.total <= count(d)
        /\ \/ Stopped(scan)
           \/ /\ scan.total = count(d)
              /\ scan.weekIndex = (d \div DaysPerWeek) - (rule.from \div DaysPerWeek)
    BY DEF HasCounted
  <1>6. (d \div DaysPerWeek) \in Int /\ (rule.from \div DaysPerWeek) \in Int
    <2>1. d \in Int /\ rule.from \in Int /\ DaysPerWeek \in Nat \ {0}
      BY <1>1, CalendarAssumption DEF Accepted
    <2>2. QED
      BY <2>1, Division
  <1> HIDE DEF count, today, out, n, next
  <1>7. today \in Nat /\ count(d + 1) \in Nat
    BY <1>2, <1>3, <1>4
  <1>8. CASE Stopped(scan)
    <2>1. scan.total <= count(d + 1)
      BY <1>3, <1>5, <1>7 DEF ScanState
    <2>2. QED
      BY <1>5, <1>7, <1>8, <2>1 DEF HasCounted, count
  <1>9. CASE ~Stopped(scan)
    <2>1. /\ scan.total = count(d)
          /\ scan.weekIndex = (d \div DaysPerWeek) - (rule.from \div DaysPerWeek)
      BY <1>5, <1>9
    <2>2. (/\ \E i \in DOMAIN rule.days : rule.days[i] = d % DaysPerWeek
           /\ scan.weekIndex % rule.step = 0) <=> Counted(rule, d)
      BY <2>1 DEF Counted
    <2>3. /\ next \in ScanState
          /\ next.total = scan.total + (IF Counted(rule, d) /\ ~out THEN n ELSE 0)
          /\ next.weekIndex = scan.weekIndex
                                + (IF d % DaysPerWeek = DaysPerWeek - 1 THEN 1 ELSE 0)
      <3>1. next \in ScanState
        BY <1>1, <1>5, ScanStepType DEF next
      <3>2. QED
        BY <2>2, <3>1 DEF next, ScanStep, out, n
    <2>4. next.total = count(d + 1)
      BY <1>3, <1>4, <2>1, <2>3
    <2>5. next.weekIndex = ((d + 1) \div DaysPerWeek) - (rule.from \div DaysPerWeek)
      <3>1. (d + 1) \div DaysPerWeek =
               (d \div DaysPerWeek) + (IF d % DaysPerWeek = DaysPerWeek - 1 THEN 1 ELSE 0)
        BY <1>1, WeekOfNextDay
      <3>2. QED
        BY <1>6, <2>1, <2>3, <3>1
    <2>6. HasCounted(rule, d + 1, next)
      BY <1>7, <2>3, <2>4, <2>5 DEF HasCounted, count
    <2>7. QED
      BY <1>9, <2>6 DEF next
  <1>10. QED
    BY <1>8, <1>9

LEMMA ScanCounts ==
  ASSUME NEW rule, Accepted(rule), Distinct(rule), rule.from <= rule.to
  PROVE  HasCounted(rule, rule.to + 1, Scan(rule))
  <1>1. PICK g : /\ g[rule.from] = ScanStart
                 /\ \A d \in rule.from..rule.to :
                       g[d + 1] = IF Stopped(g[d]) THEN g[d] ELSE ScanStep(rule, d, g[d])
                 /\ Scan(rule) = g[rule.to + 1]
    BY ScanIsRecursion
  <1>2. rule.from \in Nat /\ rule.to \in Nat
    BY DEF Accepted
  <1> DEFINE failing == {d \in rule.from..(rule.to + 1) : ~HasCounted(rule, d, g[d])}
  <1>3. HasCounted(rule, rule.from, g[rule.from])
    <2>1. PushedBefore(rule, blackouts, rule.from) = {}
      <3>1. ASSUME NEW push \in Pushes(rule, blackouts)
            PROVE  ~(DayOfPush(rule, push) < rule.from)
        <4>1. DayOfPush(rule, push) \in rule.from..rule.to
          BY PushParts
        <4>2. QED
          BY <1>2, <4>1
      <3>2. QED
        BY <3>1 DEF PushedBefore
    <2>2. Cardinality(PushedBefore(rule, blackouts, rule.from)) = 0
      BY <2>1, FS_EmptySet
    <2>3. ScanStart \in ScanState /\ ScanStart.total = 0 /\ ScanStart.weekIndex = 0
      BY DEF ScanStart, ScanState
    <2>4. (rule.from \div DaysPerWeek) - (rule.from \div DaysPerWeek) = 0
      <3>1. rule.from \div DaysPerWeek \in Int
        BY WeekStartIsSunday
      <3>2. QED
        BY <3>1
    <2>5. QED
      BY <1>1, <2>2, <2>3, <2>4 DEF HasCounted
  <1>4. failing = {}
    <2>1. SUFFICES ASSUME failing # {} PROVE FALSE
      OBVIOUS
    <2>2. failing \in SUBSET Nat
      BY <1>2
    <2>3. PICK d \in failing : \A e \in failing : d <= e
      <3> HIDE DEF failing
      <3>1. QED
        BY <2>1, <2>2, LeastNatural, Zenon
    <2>4. d \in rule.from..(rule.to + 1) /\ ~HasCounted(rule, d, g[d])
      BY <2>3
    <2>5. d # rule.from
      BY <1>3, <2>4
    <2>6. d - 1 \in rule.from..rule.to /\ (d - 1) + 1 = d
      BY <1>2, <2>4, <2>5
    <2>7. HasCounted(rule, d - 1, g[d - 1])
      <3>1. d - 1 \notin failing
        BY <1>2, <2>3, <2>6
      <3>2. d - 1 \in rule.from..(rule.to + 1)
        BY <1>2, <2>6
      <3>3. QED
        BY <3>1, <3>2
    <2>8. HasCounted(rule, (d - 1) + 1,
                     IF Stopped(g[d - 1]) THEN g[d - 1] ELSE ScanStep(rule, d - 1, g[d - 1]))
      <3> DEFINE e == d - 1
                 scan == g[e]
      <3>1. e \in rule.from..rule.to /\ HasCounted(rule, e, scan)
        BY <2>6, <2>7
      <3> HIDE DEF e, scan
      <3>2. HasCounted(rule, e + 1, IF Stopped(scan) THEN scan ELSE ScanStep(rule, e, scan))
        BY <3>1, ScanStepCounts
      <3>3. QED
        BY <3>2 DEF e, scan
    <2>9. g[(d - 1) + 1] =
             IF Stopped(g[d - 1]) THEN g[d - 1] ELSE ScanStep(rule, d - 1, g[d - 1])
      BY <1>1, <2>6
    <2>10. QED
      BY <2>4, <2>6, <2>8, <2>9
  <1>5. rule.to + 1 \in rule.from..(rule.to + 1)
    BY <1>2
  <1>6. HasCounted(rule, rule.to + 1, g[rule.to + 1])
    BY <1>4, <1>5
  <1>7. QED
    BY <1>1, <1>6

LEMMA EstimateIsRight ==
  ASSUME NEW rule, Accepted(rule), Distinct(rule)
  PROVE  LET made == Len(Dates(rule, blackouts))
             scan == Scan(rule)
         IN  \/ EstimatedSessions(rule) = made
             \/ /\ EstimatedSessions(rule) < made
                /\ scan.total + scan.skipped >= ScanLimit
  <1> DEFINE made == Len(Dates(rule, blackouts))
             scan == Scan(rule)
             count == Cardinality(Pushes(rule, blackouts))
  <1>1. /\ rule.from \in Nat /\ rule.to \in Nat
        /\ MaxInstances \in Nat \ {0} /\ ScanLimit \in Nat \ {0}
    BY CalendarAssumption, FormAssumption DEF Accepted
  <1>2. /\ made \in Nat /\ made <= MaxInstances /\ made <= count
        /\ made = MaxInstances \/ made = count
    <2>1. Dates(rule, blackouts) \in Seq(Nat)
      BY DatesAreMoments
    <2>2. made \in Nat
      BY <2>1, SequenceParts
    <2>3. QED
      BY <2>2, DatesAreMoments
  <1>3. count \in Nat
    BY PushesAreFinite
  <1>4. EstimatedSessions(rule) = IF scan.total < MaxInstances THEN scan.total ELSE MaxInstances
    BY DEF EstimatedSessions
  <1>5. CASE rule.from <= rule.to
    <2>1. HasCounted(rule, rule.to + 1, scan)
      BY <1>5, ScanCounts
    <2>2. PushedBefore(rule, blackouts, rule.to + 1) = Pushes(rule, blackouts)
      <3>1. ASSUME NEW push \in Pushes(rule, blackouts)
            PROVE  DayOfPush(rule, push) < rule.to + 1
        <4>1. DayOfPush(rule, push) \in rule.from..rule.to
          BY PushParts
        <4>2. QED
          BY <1>1, <4>1
      <3>2. QED
        BY <3>1 DEF PushedBefore
    <2> HIDE DEF made, scan, count
    <2>3. scan \in ScanState /\ scan.total <= count /\ (Stopped(scan) \/ scan.total = count)
      BY <2>1, <2>2 DEF HasCounted, count
    <2>4. scan.total \in Nat /\ scan.skipped \in Nat
      BY <2>3 DEF ScanState
    <2>5. CASE scan.total >= MaxInstances
      <3>1. EstimatedSessions(rule) = made
        BY <1>1, <1>2, <1>3, <1>4, <2>3, <2>4, <2>5
      <3>2. QED
        BY <3>1 DEF made
    <2>6. CASE scan.total + scan.skipped >= ScanLimit /\ ~(scan.total >= MaxInstances)
      <3>1. EstimatedSessions(rule) = scan.total /\ scan.total <= made
        BY <1>1, <1>2, <1>3, <1>4, <2>3, <2>4, <2>6
      <3>2. QED
        BY <1>2, <2>4, <2>6, <3>1 DEF made, scan
    <2>7. CASE scan.total = count /\ ~(scan.total >= MaxInstances)
      BY <1>1, <1>2, <1>3, <1>4, <2>4, <2>7 DEF made
    <2>8. QED
      BY <2>3, <2>5, <2>6, <2>7 DEF Stopped, made, scan
  <1>6. CASE ~(rule.from <= rule.to)
    <2>1. Pushes(rule, blackouts) = {}
      <3>1. ASSUME NEW push \in Pushes(rule, blackouts) PROVE FALSE
        <4>1. DayOfPush(rule, push) \in rule.from..rule.to
          BY PushParts
        <4>2. QED
          BY <1>1, <1>6, <4>1
      <3>2. QED
        BY <3>1
    <2>2. count = 0
      BY <2>1, FS_EmptySet
    <2>3. scan = ScanStart
      BY <1>1, <1>6 DEF Scan, ScanStart
    <2>4. scan.total = 0
      BY <2>3 DEF ScanStart
    <2> HIDE DEF made, scan, count
    <2>5. EstimatedSessions(rule) = made
      BY <1>1, <1>2, <1>4, <2>2, <2>4
    <2>6. QED
      BY <2>5 DEF made
  <1>7. QED
    BY <1>5, <1>6

(* The number of sessions the page announces before a series is booked is  *)
(* the number the backend makes of the same request, for any rule the form *)
(* can send and any days off; it announces too few only when days off have *)
(* used up the days the page looks at, and never too many.                 *)
THEOREM FormEstimateAgrees ==
  ASSUME Availability # {}
  PROVE  FormSpec => []EstimateAgrees
  <1>1. FormInv => EstimateAgrees
    BY RuleIsAccepted, EstimateIsRight DEF EstimateAgrees
  <1>2. QED
    BY <1>1, FormInvariant, PTL

===============================================================================
