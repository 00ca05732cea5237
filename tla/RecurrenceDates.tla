---------------------------- MODULE RecurrenceDates ----------------------------
(***************************************************************************)
(* The days of a recurring series, as the backend generates them.          *)
(*                                                                         *)
(* A rule is what the request carries: step is 1 for weekly and 2 for      *)
(* biweekly, days the weekdays and times the times of day in the order     *)
(* given, from and to the first and the last day.  Days are numbered, day  *)
(* 0 is a Sunday, and an instant is a day and a time of day.               *)
(***************************************************************************)
EXTENDS Integers, Sequences, FiniteSets

CONSTANTS
    DaysPerWeek,     \* 7, fewer in small instances
    DayLength,       \* units of time in a day
    MaxInstances     \* MAX_RECURRING_INSTANCES, 52

ASSUME CalendarAssumption ==
    /\ DaysPerWeek \in Nat \ {0}
    /\ DayLength \in Nat \ {0}
    /\ MaxInstances \in Nat \ {0}

Instant(day, time) == day * DayLength + time

BlackedOut(day, blackouts) == \E b \in blackouts : b.from <= day /\ day <= b.to

-----------------------------------------------------------------------------
(* What the schema of the request lets through: it refuses neither a       *)
(* weekday nor a time that is given twice, nor a time beyond the day.      *)
Accepted(rule) ==
    /\ rule.step \in Nat \ {0}
    /\ rule.days \in Seq(0..(DaysPerWeek - 1))
    /\ rule.times \in Seq(Nat)
    /\ rule.from \in Nat /\ rule.to \in Nat

-----------------------------------------------------------------------------
(* The first n of the numbers key assigns, in order; a number assigned     *)
(* twice comes twice.                                                      *)
Smallest(n, key) ==
    LET upTo(v) == Cardinality({e \in DOMAIN key : key[e] <= v})
        below(v) == Cardinality({e \in DOMAIN key : key[e] < v})
    IN  [i \in 1..n |-> CHOOSE v \in {key[e] : e \in DOMAIN key} :
                            below(v) < i /\ i <= upTo(v)]

(* generateRecurrenceDates: every step weeks, counted from the week the    *)
(* first day lies in, each weekday in range, at each time; sorted, and cut *)
(* off at the cap.                                                         *)

(* Mutant of WeekStart: weeks are counted from the first day itself.       *)
WeekStartAtFirstDay(rule) == rule.from

WeekStart(rule) == rule.from - (rule.from % DaysPerWeek)

WeekCur(rule, k) == WeekStart(rule) + k * (rule.step * DaysPerWeek)

(* A push of the loops is known by how often they ran: weeks, weekdays and *)
(* times.                                                                  *)
DayOfPush(rule, push) == WeekCur(rule, push[1]) + rule.days[push[2]]

Pushes(rule, blackouts) ==
    LET weeks == {k \in 0..(rule.to - WeekStart(rule)) : WeekCur(rule, k) <= rule.to}
    IN  {push \in weeks \X (DOMAIN rule.days) \X (DOMAIN rule.times) :
            /\ DayOfPush(rule, push) \in rule.from..rule.to
            /\ ~BlackedOut(DayOfPush(rule, push), blackouts)}

Pushed(rule, blackouts) ==
    [push \in Pushes(rule, blackouts) |->
        Instant(DayOfPush(rule, push), rule.times[push[3]])]

Dates(rule, blackouts) ==
    LET count == Cardinality(Pushes(rule, blackouts))
    IN  Smallest(IF count < MaxInstances THEN count ELSE MaxInstances,
                 Pushed(rule, blackouts))

-----------------------------------------------------------------------------
(* The rule as a reader of the form understands it: a chosen weekday in    *)
(* range, in the week of the start or a multiple of step weeks after it,   *)
(* not blacked out, at a chosen time.                                      *)
Meant(rule, blackouts) ==
    LET week(day) == day \div DaysPerWeek
        day(d) == /\ \E i \in DOMAIN rule.days : rule.days[i] = d % DaysPerWeek
                  /\ (week(d) - week(rule.from)) % rule.step = 0
                  /\ ~BlackedOut(d, blackouts)
    IN  {Instant(d, rule.times[i]) :
            d \in {e \in rule.from..rule.to : day(e)}, i \in DOMAIN rule.times}

(* The generated dates are the first ones the rule means, in order and     *)
(* each once: the cap cuts off the latest and nothing else is dropped.     *)
FollowsRule(rule, blackouts) ==
    LET dates == Dates(rule, blackouts)
        made == {dates[i] : i \in DOMAIN dates}
        meant == Meant(rule, blackouts)
    IN  /\ \A i, j \in DOMAIN dates : i < j => dates[i] < dates[j]
        /\ made \subseteq meant
        /\ \A x \in meant \ made :
              Len(dates) = MaxInstances /\ \A i \in DOMAIN dates : dates[i] < x

=============================================================================
