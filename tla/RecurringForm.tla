----------------------------- MODULE RecurringForm -----------------------------
(***************************************************************************)
(* The page of the web client that sets up a recurring series: the form    *)
(* with its own rules, the number of sessions it announces, and the        *)
(* request it sends.                                                       *)
(*                                                                         *)
(* Times of day are hours.  Left out: pet, address, duration and notes,    *)
(* which the number of sessions does not depend on.                        *)
(***************************************************************************)
EXTENDS RecurrenceDates

LOCAL INSTANCE SequencesExt
LOCAL INSTANCE FiniteSetsExt

CONSTANTS
    Service,           \* the service types there are
    OfferedService,    \* those the provider offers
    MaxTimes,          \* MAX_TIMES_PER_DAY of each, 1 for one it does not list
    Availability,      \* the weekly windows, records [day, from, to]
    Blackouts,         \* sets of days off the provider may have
    PickableDay,       \* days the user may pick
    DefaultWeeks,      \* length of a series without an end date, 12
    ScanLimit,         \* how many sessions the estimate looks at, 200
    NoDate             \* an end date that was not picked

ASSUME FormAssumption ==
    /\ OfferedService \subseteq Service
    /\ MaxTimes \in [Service -> Nat \ {0}]
    /\ PickableDay \subseteq Nat
    /\ DefaultWeeks \in Nat
    /\ ScanLimit \in Nat \ {0}
    /\ NoDate \notin Nat
    /\ DaysPerWeek > 1
    /\ Availability \subseteq [day : 0..(DaysPerWeek - 1), from : Nat, to : Nat]

VARIABLES
    form,        \* the useState of the page
    blackouts,   \* provider.blackouts, as the page and the backend know them
    asked        \* the request under way

formvars == <<form, blackouts, asked>>

-----------------------------------------------------------------------------
(* A time input the user has emptied.                                      *)
Cleared == -1

Hour == 0..(DayLength - 1)

Weekday == 0..(DaysPerWeek - 1)

FormTypeOK ==
    /\ form \in [service : Service, step : {1, 2}, days : SUBSET Weekday,
                 times : Seq(Hour \cup {Cleared}), from : PickableDay,
                 to : PickableDay \cup {NoDate}]
    /\ blackouts \in Blackouts
    /\ asked = "nothing" \/ asked = "pending"

AllowedDays == IF Availability = {} THEN Weekday ELSE {w.day : w \in Availability}

SelectedDaySlots == {w \in Availability : w.day \in form.days}

(* A window of any selected day will do, and its end counts as inside.     *)
TimeInWindow(time) ==
    \/ SelectedDaySlots = {}
    \/ \E w \in SelectedDaySlots : w.from <= time /\ time <= w.to

CanSubmit ==
    /\ form.days \subseteq AllowedDays
    /\ \A i \in DOMAIN form.times : TimeInWindow(form.times[i])
    /\ \A i, j \in DOMAIN form.times : i # j => form.times[i] # form.times[j]
    /\ form.days # {}
    /\ form.times # <<>>

(* What the request says, the default end date included.                   *)
RuleOf(f) ==
    [step |-> f.step, days |-> Smallest(Cardinality(f.days), [d \in f.days |-> d]),
     times |-> f.times, from |-> f.from,
     to |-> IF f.to = NoDate THEN f.from + DefaultWeeks * DaysPerWeek ELSE f.to]

-----------------------------------------------------------------------------
(* estimatedSessions walks through the days one by one; the scan is what   *)
(* its loop knows when it comes to a day.                                  *)

(* Mutant of ScanStep: weeks are counted from the day of the start.        *)
ScanStepFromStart(rule, day, scan) ==
    LET counted == /\ \E i \in DOMAIN rule.days : rule.days[i] = day % DaysPerWeek
                   /\ ((day - rule.from) \div DaysPerWeek) % rule.step = 0
    IN  IF counted /\ ~BlackedOut(day, blackouts)
        THEN [scan EXCEPT !.total = @ + Len(rule.times)]
        ELSE scan

(* The body of the loop.  weekIndex counts the Saturdays passed.           *)
ScanStep(rule, day, scan) ==
    LET counted == /\ \E i \in DOMAIN rule.days : rule.days[i] = day % DaysPerWeek
                   /\ scan.weekIndex % rule.step = 0
        out == BlackedOut(day, blackouts)
    IN  [total |-> scan.total + (IF counted /\ ~out THEN Len(rule.times) ELSE 0),
         skipped |-> scan.skipped + (IF counted /\ out THEN Len(rule.times) ELSE 0),
         weekIndex |-> scan.weekIndex
                         + (IF day % DaysPerWeek = DaysPerWeek - 1 THEN 1 ELSE 0)]

(* The loop ends past the last day, at the cap and at the scan limit.      *)
Scan(rule) ==
    LET start == [total |-> 0, skipped |-> 0, weekIndex |-> 0]
        upTo[day \in rule.from..(rule.to + 1)] ==
            IF day = rule.from
            THEN start
            ELSE LET before == upTo[day - 1] IN
                 IF \/ before.total >= MaxInstances
                    \/ before.total + before.skipped >= ScanLimit
                 THEN before
                 ELSE ScanStep(rule, day - 1, before)
    IN  IF rule.from > rule.to THEN start ELSE upTo[rule.to + 1]

EstimatedSessions(rule) ==
    LET total == Scan(rule).total
    IN  IF total < MaxInstances THEN total ELSE MaxInstances

-----------------------------------------------------------------------------
(* What the user may do; the fields stay open while a request is under way.*)

ToggleDay(day) ==
    /\ day \in AllowedDays
    /\ form' = [form EXCEPT !.days = IF day \in @ THEN @ \ {day} ELSE @ \cup {day}]
    /\ UNCHANGED <<blackouts, asked>>

SetTime(i, time) ==
    /\ i \in DOMAIN form.times
    /\ form' = [form EXCEPT !.times[i] = time]
    /\ UNCHANGED <<blackouts, asked>>

(* The first hour after the last time that is not used yet, round the      *)
(* clock; the button is gone at the limit.                                 *)
AddTime ==
    LET last == Last(form.times)
        base == IF last = Cleared THEN 0 ELSE last
        unused == {i \in 1..DayLength : ~Contains(form.times, (base + i) % DayLength)}
        next == IF unused = {} THEN base ELSE (base + Min(unused)) % DayLength
    IN
    /\ Len(form.times) < MaxTimes[form.service]
    /\ form' = [form EXCEPT !.times = Append(@, next)]
    /\ UNCHANGED <<blackouts, asked>>

RemoveTime(i) ==
    /\ Len(form.times) > 1
    /\ i \in DOMAIN form.times
    /\ form' = [form EXCEPT !.times = RemoveAt(@, i)]
    /\ UNCHANGED <<blackouts, asked>>

(* Mutant of ChooseService: the times stay as they are.                    *)
ChooseServiceKeepsTimes(s) ==
    /\ form' = [form EXCEPT !.service = s]
    /\ UNCHANGED <<blackouts, asked>>

(* Another service may allow fewer times: those beyond its limit go.       *)
ChooseService(s) ==
    /\ form' = [form EXCEPT !.service = s,
                            !.times = SubSeq(@, 1, IF Len(@) < MaxTimes[s] THEN Len(@)
                                                   ELSE MaxTimes[s])]
    /\ UNCHANGED <<blackouts, asked>>

ChooseRecurrence(step) ==
    /\ form' = [form EXCEPT !.step = step]
    /\ UNCHANGED <<blackouts, asked>>

ChooseStart(day) ==
    /\ form' = [form EXCEPT !.from = day]
    /\ UNCHANGED <<blackouts, asked>>

ChooseEnd(day) ==
    /\ form' = [form EXCEPT !.to = day]
    /\ UNCHANGED <<blackouts, asked>>

Submit ==
    /\ asked = "nothing"
    /\ CanSubmit
    /\ asked' = "pending"
    /\ UNCHANGED <<form, blackouts>>

(* A refusal leaves the page as it is; after a success the page is left.   *)
Refused ==
    /\ asked = "pending"
    /\ asked' = "nothing"
    /\ UNCHANGED <<form, blackouts>>

-----------------------------------------------------------------------------
(* The service is that of the link, or walking, offered or not.            *)
FormInit ==
    /\ form \in [service : Service, step : {1}, days : {{1}}, times : {<<0>>},
                 from : PickableDay, to : {NoDate}]
    /\ blackouts \in Blackouts
    /\ asked = "nothing"

FormNext ==
    \/ \E day \in Weekday : ToggleDay(day)
    \/ \E i \in DOMAIN form.times, time \in Hour \cup {Cleared} : SetTime(i, time)
    \/ AddTime
    \/ \E i \in DOMAIN form.times : RemoveTime(i)
    \/ \E s \in OfferedService : ChooseService(s)
    \/ \E step \in {1, 2} : ChooseRecurrence(step)
    \/ \E day \in PickableDay : ChooseStart(day)
    \/ \E day \in PickableDay \cup {NoDate} : ChooseEnd(day)
    \/ Submit
    \/ Refused

FormSpec == FormInit /\ [][FormNext]_formvars

-----------------------------------------------------------------------------
(* Whatever was clicked before, a form that can be sent keeps the limits   *)
(* the backend refuses to go beyond: at most the times per day of the      *)
(* service it now names, none of them empty (for a provider who published  *)
(* hours), and no day the provider does not work.                          *)
SubmittableIsValid ==
    CanSubmit =>
        /\ Len(form.times) <= MaxTimes[form.service]
        /\ Availability # {} => ~Contains(form.times, Cleared)
        /\ form.days \subseteq AllowedDays

(* What the backend generates for a form that can be sent is the rule the  *)
(* form shows: the first sessions it means, in order and each once; the    *)
(* cap cuts off the latest and nothing else is dropped.                    *)
DatesFollowRule == CanSubmit => FollowsRule(RuleOf(form), blackouts)

(* The number on the button is the number of sessions the backend makes;   *)
(* only days off that exhaust the scan make it announce too few, and it    *)
(* never announces too many.                                               *)
EstimateAgrees ==
    CanSubmit =>
        LET made == Len(Dates(RuleOf(form), blackouts))
            scan == Scan(RuleOf(form))
        IN  \/ EstimatedSessions(RuleOf(form)) = made
            \/ /\ EstimatedSessions(RuleOf(form)) < made
               /\ scan.total + scan.skipped >= ScanLimit

=============================================================================
