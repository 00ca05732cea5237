------------------------ MODULE RecurrenceDates_proofs ------------------------
(***************************************************************************)
(* What the generated dates are, for every rule, whatever the length of    *)
(* weeks, days and the cap.                                                *)
(***************************************************************************)
EXTENDS RecurrenceDates, DataLemmas

-----------------------------------------------------------------------------
(* The sort.                                                               *)

UpTo(key, v) == {e \in DOMAIN key : key[e] <= v}

Below(key, v) == {e \in DOMAIN key : key[e] < v}

LEMMA CountsAreFinite ==
  ASSUME NEW E, IsFiniteSet(E), NEW key \in [E -> Int], NEW v \in Int
  PROVE  /\ IsFiniteSet(UpTo(key, v)) /\ Cardinality(UpTo(key, v)) \in 0..Cardinality(E)
         /\ IsFiniteSet(Below(key, v)) /\ Cardinality(Below(key, v)) \in 0..Cardinality(E)
  <1>1. UpTo(key, v) \in SUBSET E /\ Below(key, v) \in SUBSET E
    BY DEF UpTo, Below
  <1>2. QED
    BY <1>1, FS_Subset, FS_CardinalityType

LEMMA CountsGrow ==
  ASSUME NEW E, IsFiniteSet(E), NEW key \in [E -> Int],
         NEW v \in Int, NEW w \in Int, v < w
  PROVE  Cardinality(UpTo(key, v)) <= Cardinality(Below(key, w))
  <1>1. UpTo(key, v) \in SUBSET Below(key, w)
    BY DEF UpTo, Below
  <1>2. QED
    BY <1>1, CountsAreFinite, FS_Subset

LEMMA OneOfEachValue ==
  ASSUME NEW E, IsFiniteSet(E), NEW key \in [E -> Int],
         \A e, f \in E : key[e] = key[f] => e = f, NEW e \in E
  PROVE  Cardinality(UpTo(key, key[e])) = Cardinality(Below(key, key[e])) + 1
  <1>1. UpTo(key, key[e]) = Below(key, key[e]) \cup {e} /\ e \notin Below(key, key[e])
    BY DEF UpTo, Below
  <1>2. QED
    BY <1>1, CountsAreFinite, FS_AddElement

(* Every place has a value, also when values come more than once.          *)
LEMMA PlaceHasValue ==
  ASSUME NEW E, IsFiniteSet(E), NEW key \in [E -> Int], NEW i \in 1..Cardinality(E)
  PROVE  \E e \in E : /\ Cardinality(Below(key, key[e])) < i
                      /\ i <= Cardinality(UpTo(key, key[e]))
  <1> DEFINE N == Cardinality(E)
  <1>1. N \in Nat /\ ExistsBijection(1..N, E)
    BY FS_CardinalityType
  <1>2. PICK b : b \in Bijection(1..N, E)
    BY <1>1 DEF ExistsBijection
  <1>3. /\ b \in [1..N -> E]
        /\ \A e \in E : \E n \in 1..N : b[n] = e
    BY <1>2 DEF Bijection, Surjection
  <1> DEFINE index == [e \in E |-> CHOOSE n \in 1..N : b[n] = e]
             R == {p \in E \X E : \/ key[p[1]] < key[p[2]]
                                  \/ key[p[1]] = key[p[2]] /\ index[p[1]] <= index[p[2]]}
  <1>4. ASSUME NEW e \in E
        PROVE  index[e] \in Int /\ b[index[e]] = e
    <2>1. index[e] \in 1..N /\ b[index[e]] = e
      BY <1>3
    <2>2. QED
      BY <1>1, <2>1
  <1> HIDE DEF index
  <1>5. \A e, f \in E :
          <<e, f>> \in R <=> \/ key[e] < key[f]
                             \/ key[e] = key[f] /\ index[e] <= index[f]
    OBVIOUS
  <1> HIDE DEF R
  <1>6. \A e \in E : key[e] \in Int
    OBVIOUS
  <1>7. \A e, f \in E : index[e] = index[f] => e = f
    BY <1>4
  <1>8. \A e, f, g \in E : <<e, f>> \in R /\ <<f, g>> \in R => <<e, g>> \in R
    BY <1>4, <1>5, <1>6
  <1>9. ASSUME NEW e \in E, NEW f \in E
        PROVE  <<e, f>> \in R \/ <<f, e>> \in R
    <2>1. /\ key[e] \in Int /\ key[f] \in Int
          /\ index[e] \in Int /\ index[f] \in Int
      BY <1>4, <1>6
    <2>2. QED
      BY <1>5, <2>1
  <1>10. \A e, f \in E : <<e, f>> \in R /\ <<f, e>> \in R => e = f
    BY <1>4, <1>5, <1>6, <1>7
  <1>11. PICK e \in E : Cardinality({f \in E : <<f, e>> \in R}) = i
    BY <1>8, <1>9, <1>10, PositionTaken
  <1> DEFINE before == {f \in E : <<f, e>> \in R}
  <1>12. before \in SUBSET UpTo(key, key[e])
    BY <1>5 DEF UpTo
  <1>13. Below(key, key[e]) \in SUBSET before /\ e \in before /\ e \notin Below(key, key[e])
    BY <1>4, <1>5 DEF Below
  <1> HIDE DEF before
  <1>14. IsFiniteSet(before) /\ Cardinality(before) <= Cardinality(UpTo(key, key[e]))
    BY <1>12, CountsAreFinite, FS_Subset
  <1>15. /\ Cardinality(Below(key, key[e])) <= Cardinality(before)
         /\ Cardinality(Below(key, key[e])) # Cardinality(before)
    BY <1>13, <1>14, FS_Subset
  <1>16. Cardinality(before) = i
    BY <1>11 DEF before
  <1>17. Cardinality(Below(key, key[e])) \in Nat
    BY CountsAreFinite
  <1>18. QED
    BY <1>14, <1>15, <1>16, <1>17

LEMMA SmallestAtPlace ==
  ASSUME NEW E, IsFiniteSet(E), NEW key \in [E -> Int],
         NEW n \in Nat, n <= Cardinality(E), NEW i \in 1..n
  PROVE  \E e \in E : /\ Smallest(n, key)[i] = key[e]
                      /\ Cardinality(Below(key, key[e])) < i
                      /\ i <= Cardinality(UpTo(key, key[e]))
  <1> DEFINE values == {key[e] : e \in DOMAIN key}
             fits(v) == Cardinality(Below(key, v)) < i /\ i <= Cardinality(UpTo(key, v))
             chosen == CHOOSE v \in values : fits(v)
  <1>1. Cardinality(E) \in Nat
    BY FS_CardinalityType
  <1>2. PICK e \in E : fits(key[e])
    BY <1>1, PlaceHasValue
  <1>3. chosen \in values /\ fits(chosen)
    BY <1>2
  <1>4. Smallest(n, key)[i] = chosen
    BY DEF Smallest, Below, UpTo
  <1>5. QED
    BY <1>3, <1>4

LEMMA SmallestIsSequence ==
  ASSUME NEW E, IsFiniteSet(E), NEW key \in [E -> Int],
         NEW S, \A e \in E : key[e] \in S,
         NEW n \in Nat, n <= Cardinality(E)
  PROVE  Smallest(n, key) \in Seq(S) /\ Len(Smallest(n, key)) = n
  <1> DEFINE s == Smallest(n, key)
             v(i) == CHOOSE x \in {key[e] : e \in DOMAIN key} :
                        /\ Cardinality({e \in DOMAIN key : key[e] < x}) < i
                        /\ i <= Cardinality({e \in DOMAIN key : key[e] <= x})
  <1>1. ASSUME NEW i \in 1..n PROVE s[i] \in S
    BY SmallestAtPlace
  <1>2. s = [i \in 1..n |-> v(i)]
    BY DEF Smallest
  <1> HIDE DEF s, v
  <1>3. s \in [1..n -> S]
    BY <1>1, <1>2
  <1>4. s \in Seq(S) /\ Len(s) = n
    BY <1>3
  <1>5. QED
    BY <1>4 DEF s

(* With one of each value the places are in strict order, and what is not  *)
(* among the first n lies after them.                                      *)
LEMMA SmallestInOrder ==
  ASSUME NEW E, IsFiniteSet(E), NEW key \in [E -> Int],
         \A e, f \in E : key[e] = key[f] => e = f,
         NEW n \in Nat, n <= Cardinality(E)
  PROVE  /\ \A i, j \in 1..n : i < j => Smallest(n, key)[i] < Smallest(n, key)[j]
         /\ \A e \in E : \/ \E i \in 1..n : Smallest(n, key)[i] = key[e]
                         \/ /\ n < Cardinality(E)
                            /\ \A i \in 1..n : Smallest(n, key)[i] < key[e]
  <1> DEFINE s == Smallest(n, key)
             below(v) == Cardinality(Below(key, v))
             upTo(v) == Cardinality(UpTo(key, v))
  <1>1. \A i \in 1..n : \E e \in E : s[i] = key[e] /\ below(key[e]) < i /\ i <= upTo(key[e])
    BY SmallestAtPlace
  <1>2. \A e \in E : /\ key[e] \in Int /\ below(key[e]) \in Nat /\ upTo(key[e]) \in Nat
                     /\ upTo(key[e]) = below(key[e]) + 1 /\ upTo(key[e]) <= Cardinality(E)
    BY CountsAreFinite, OneOfEachValue, FS_CardinalityType
  <1>3. \A e, f \in E : key[e] < key[f] => upTo(key[e]) <= below(key[f])
    BY CountsGrow
  <1>4. Cardinality(E) \in Nat
    BY FS_CardinalityType
  <1> HIDE DEF s, below, upTo
  <1>5. ASSUME NEW i \in 1..n, NEW j \in 1..n, i < j
        PROVE  s[i] < s[j]
    <2>1. PICK e \in E : s[i] = key[e] /\ below(key[e]) < i /\ i <= upTo(key[e])
      BY <1>1
    <2>2. PICK f \in E : s[j] = key[f] /\ below(key[f]) < j /\ j <= upTo(key[f])
      BY <1>1
    <2>3. /\ key[e] \in Int /\ below(key[e]) \in Nat /\ upTo(key[e]) = below(key[e]) + 1
          /\ key[f] \in Int /\ below(key[f]) \in Nat /\ upTo(key[f]) = below(key[f]) + 1
      BY <1>2
    <2>4. CASE key[f] < key[e]
      <3>1. upTo(key[f]) <= below(key[e])
        BY <1>3, <2>4
      <3>2. QED
        BY <1>5, <2>1, <2>2, <2>3, <3>1
    <2>5. CASE key[f] = key[e]
      BY <1>5, <2>1, <2>2, <2>3, <2>5
    <2>6. QED
      BY <2>1, <2>2, <2>3, <2>4, <2>5
  <1>6. ASSUME NEW e \in E, \A i \in 1..n : s[i] # key[e]
        PROVE  n < Cardinality(E) /\ \A i \in 1..n : s[i] < key[e]
    <2>1. /\ key[e] \in Int /\ below(key[e]) \in Nat /\ upTo(key[e]) = below(key[e]) + 1
          /\ upTo(key[e]) <= Cardinality(E)
      BY <1>2
    <2>2. ASSUME NEW i \in 1..n, i = upTo(key[e])
          PROVE  FALSE
      <3>1. PICK f \in E : s[i] = key[f] /\ below(key[f]) < i /\ i <= upTo(key[f])
        BY <1>1
      <3>2. /\ key[f] \in Int /\ below(key[f]) \in Nat /\ upTo(key[f]) = below(key[f]) + 1
            /\ key[f] # key[e]
        BY <1>2, <1>6, <3>1
      <3>3. CASE key[f] < key[e]
        <4>1. upTo(key[f]) <= below(key[e])
          BY <1>3, <3>3
        <4>2. QED
          BY <2>1, <2>2, <3>1, <3>2, <4>1
      <3>4. CASE key[e] < key[f]
        <4>1. upTo(key[e]) <= below(key[f])
          BY <1>3, <3>4
        <4>2. QED
          BY <2>1, <2>2, <3>1, <3>2, <4>1
      <3>5. QED
        BY <2>1, <3>2, <3>3, <3>4
    <2>3. n < upTo(key[e])
      BY <2>1, <2>2
    <2>4. ASSUME NEW i \in 1..n
          PROVE  s[i] < key[e]
      <3>1. PICK f \in E : s[i] = key[f] /\ below(key[f]) < i /\ i <= upTo(key[f])
        BY <1>1
      <3>2. /\ key[f] \in Int /\ below(key[f]) \in Nat /\ key[f] # key[e]
        BY <1>2, <1>6, <3>1
      <3>3. CASE key[e] < key[f]
        <4>1. upTo(key[e]) <= below(key[f])
          BY <1>3, <3>3
        <4>2. QED
          BY <2>1, <2>3, <3>1, <3>2, <4>1
      <3>4. QED
        BY <2>1, <3>1, <3>2, <3>3
    <2>5. QED
      BY <1>4, <2>1, <2>3, <2>4
  <1>7. QED
    BY <1>5, <1>6 DEF s

-----------------------------------------------------------------------------
(* The pushes of the loops.                                                *)

Distinct(rule) ==
    /\ \A i, j \in DOMAIN rule.days : rule.days[i] = rule.days[j] => i = j
    /\ \A i, j \in DOMAIN rule.times : rule.times[i] = rule.times[j] => i = j
    /\ \A i \in DOMAIN rule.times : rule.times[i] < DayLength

LEMMA WeekStartIsSunday ==
  ASSUME NEW rule, Accepted(rule)
  PROVE  /\ WeekStart(rule) \in Nat /\ WeekStart(rule) <= rule.from
         /\ WeekStart(rule) = DaysPerWeek * (rule.from \div DaysPerWeek)
         /\ rule.from \div DaysPerWeek \in Nat
  <1>1. rule.from \in Nat /\ DaysPerWeek \in Nat \ {0}
    BY CalendarAssumption DEF Accepted
  <1> DEFINE x == rule.from
  <1>7. x \in Nat
    BY <1>1
  <1> HIDE DEF x
  <1>2. /\ x \div DaysPerWeek \in Int /\ x % DaysPerWeek \in 0..(DaysPerWeek - 1)
        /\ x = DaysPerWeek * (x \div DaysPerWeek) + (x % DaysPerWeek)
    BY <1>1, <1>7, Division
  <1>3. x - (x % DaysPerWeek) = DaysPerWeek * (x \div DaysPerWeek)
    BY <1>1, <1>2 DEF x
  <1>4. x \div DaysPerWeek \in Nat
    BY <1>1, <1>7, NatDivision
  <1>5. DaysPerWeek * (x \div DaysPerWeek) \in Nat
    BY <1>1, <1>4
  <1>6. QED
    BY <1>1, <1>2, <1>3, <1>4, <1>5 DEF x, WeekStart

(* A push in parts: its week, its weekday and its time.                    *)
LEMMA PushParts ==
  ASSUME NEW rule, Accepted(rule), NEW blackouts, NEW push \in Pushes(rule, blackouts)
  PROVE  /\ push = <<push[1], push[2], push[3]>>
         /\ push[1] \in Nat
         /\ push[2] \in DOMAIN rule.days /\ rule.days[push[2]] \in 0..(DaysPerWeek - 1)
         /\ push[3] \in DOMAIN rule.times /\ rule.times[push[3]] \in Nat
         /\ DayOfPush(rule, push) \in rule.from..rule.to
         /\ DayOfPush(rule, push) \in Nat
         /\ ~BlackedOut(DayOfPush(rule, push), blackouts)
         /\ DayOfPush(rule, push) =
              DaysPerWeek * ((rule.from \div DaysPerWeek) + push[1] * rule.step)
                + rule.days[push[2]]
  <1>1. /\ push = <<push[1], push[2], push[3]>>
        /\ push[1] \in 0..(rule.to - WeekStart(rule))
        /\ push[2] \in DOMAIN rule.days /\ push[3] \in DOMAIN rule.times
        /\ DayOfPush(rule, push) \in rule.from..rule.to
        /\ ~BlackedOut(DayOfPush(rule, push), blackouts)
    BY DEF Pushes
  <1>2. rule.step \in Nat /\ rule.from \in Nat /\ rule.to \in Nat /\ DaysPerWeek \in Nat \ {0}
    BY CalendarAssumption DEF Accepted
  <1>3. rule.days[push[2]] \in 0..(DaysPerWeek - 1) /\ rule.times[push[3]] \in Nat
    <2>1. rule.days \in Seq(0..(DaysPerWeek - 1)) /\ rule.times \in Seq(Nat)
      BY DEF Accepted
    <2>2. QED
      BY <1>1, <2>1, SequenceParts
  <1>4. push[1] \in Nat
    BY <1>1, <1>2, WeekStartIsSunday
  <1>5. DayOfPush(rule, push) =
          (WeekStart(rule) + push[1] * (rule.step * DaysPerWeek)) + rule.days[push[2]]
    BY DEF DayOfPush, WeekCur
  <1>9. WeekStart(rule) = DaysPerWeek * (rule.from \div DaysPerWeek)
    BY WeekStartIsSunday
  <1> DEFINE w == rule.from \div DaysPerWeek  k == push[1]  st == rule.step  c == DaysPerWeek
  <1>6. w \in Nat
    BY WeekStartIsSunday
  <1> HIDE DEF w, k, st, c
  <1>7. c * w + k * (st * c) = c * (w + k * st)
    BY <1>2, <1>4, <1>6 DEF k, st, c
  <1>8. QED
    BY <1>1, <1>2, <1>3, <1>4, <1>5, <1>7, <1>9 DEF w, k, st, c

LEMMA PushesAreFinite ==
  ASSUME NEW rule, Accepted(rule), NEW blackouts
  PROVE  /\ IsFiniteSet(Pushes(rule, blackouts))
         /\ Cardinality(Pushes(rule, blackouts)) \in Nat
         /\ Pushed(rule, blackouts) \in [Pushes(rule, blackouts) -> Nat]
  <1> DEFINE weeks == 0..(rule.to - WeekStart(rule))
             all == weeks \X (DOMAIN rule.days) \X (DOMAIN rule.times)
  <1>1. IsFiniteSet(weeks)
    <2>1. rule.to - WeekStart(rule) \in Int
      BY WeekStartIsSunday DEF Accepted
    <2>2. QED
      BY <2>1, FS_Interval
  <1>2. IsFiniteSet(DOMAIN rule.days) /\ IsFiniteSet(DOMAIN rule.times)
    BY SequenceParts DEF Accepted
  <1> HIDE DEF weeks
  <1> DEFINE pairs == weeks \X (DOMAIN rule.days)
             nested == pairs \X (DOMAIN rule.times)
             flat == [p \in nested |-> <<p[1][1], p[1][2], p[2]>>]
  <1>3. IsFiniteSet(nested)
    BY <1>1, <1>2, FS_Product
  <1>4. flat \in Surjection(nested, all)
    <2>1. flat \in [nested -> all]
      OBVIOUS
    <2>2. ASSUME NEW x \in all
          PROVE  \E p \in nested : flat[p] = x
      <3>1. <<<<x[1], x[2]>>, x[3]>> \in nested
        OBVIOUS
      <3>2. flat[<<<<x[1], x[2]>>, x[3]>>] = x
        BY <3>1
      <3>3. QED
        BY <3>1, <3>2
    <2>3. QED
      BY <2>1, <2>2 DEF Surjection
  <1>5. IsFiniteSet(all)
    BY <1>3, <1>4, FS_Surjection
  <1>6. Pushes(rule, blackouts) \in SUBSET all
    BY DEF Pushes, weeks
  <1>7. IsFiniteSet(Pushes(rule, blackouts))
    BY <1>5, <1>6, FS_Subset
  <1>8. ASSUME NEW push \in Pushes(rule, blackouts)
        PROVE  Instant(DayOfPush(rule, push), rule.times[push[3]]) \in Nat
    <2>1. DayOfPush(rule, push) \in Nat /\ rule.times[push[3]] \in Nat /\ DayLength \in Nat
      BY PushParts, CalendarAssumption
    <2>2. \A d, t, c \in Nat : d * c + t \in Nat
      OBVIOUS
    <2>3. QED
      BY <2>1, <2>2 DEF Instant
  <1>9. QED
    BY <1>7, <1>8, FS_CardinalityType DEF Pushed

(* The dates are moments, at most MaxInstances of them, whatever the rule. *)
LEMMA DatesAreMoments ==
  ASSUME NEW rule, Accepted(rule), NEW blackouts
  PROVE  /\ Dates(rule, blackouts) \in Seq(Nat)
         /\ Len(Dates(rule, blackouts)) <= MaxInstances
         /\ Len(Dates(rule, blackouts)) <= Cardinality(Pushes(rule, blackouts))
         /\ \/ Len(Dates(rule, blackouts)) = MaxInstances
            \/ Len(Dates(rule, blackouts)) = Cardinality(Pushes(rule, blackouts))
         /\ Dates(rule, blackouts) =
              Smallest(Len(Dates(rule, blackouts)), Pushed(rule, blackouts))
  <1> DEFINE E == Pushes(rule, blackouts)
             key == Pushed(rule, blackouts)
             n == IF Cardinality(E) < MaxInstances THEN Cardinality(E) ELSE MaxInstances
             s == Smallest(n, key)
  <1>1. IsFiniteSet(E) /\ Cardinality(E) \in Nat /\ key \in [E -> Nat]
    BY PushesAreFinite
  <1>2. MaxInstances \in Nat
    BY CalendarAssumption
  <1>3. /\ n \in Nat /\ n <= Cardinality(E) /\ n <= MaxInstances
        /\ n = MaxInstances \/ n = Cardinality(E)
    BY <1>1, <1>2
  <1>4. Dates(rule, blackouts) = s
    BY DEF Dates
  <1> HIDE DEF n, E, key
  <1>5. s \in Seq(Nat) /\ Len(s) = n
    BY <1>1, <1>3, SmallestIsSequence
  <1> HIDE DEF s
  <1>6. QED
    BY <1>3, <1>4, <1>5 DEF E, key, s

LEMMA PushesAreDistinct ==
  ASSUME NEW rule, Accepted(rule), Distinct(rule), NEW blackouts,
         NEW p \in Pushes(rule, blackouts), NEW q \in Pushes(rule, blackouts),
         Pushed(rule, blackouts)[p] = Pushed(rule, blackouts)[q]
  PROVE  p = q
  <1> DEFINE d(e) == DayOfPush(rule, e)
             t(e) == rule.times[e[3]]
             w == rule.from \div DaysPerWeek
             o(e) == rule.days[e[2]]
  <1>1. \A e \in {p, q} :
          /\ e = <<e[1], e[2], e[3]>> /\ e[1] \in Nat
          /\ e[2] \in DOMAIN rule.days /\ o(e) \in 0..(DaysPerWeek - 1)
          /\ e[3] \in DOMAIN rule.times /\ t(e) \in Nat
          /\ d(e) \in Nat
          /\ d(e) = DaysPerWeek * (w + e[1] * rule.step) + o(e)
    BY PushParts
  <1>2. /\ DaysPerWeek \in Nat \ {0} /\ DayLength \in Nat \ {0} /\ rule.step \in Nat \ {0}
        /\ w \in Nat
    BY CalendarAssumption, WeekStartIsSunday DEF Accepted
  <1>3. \A e \in {p, q} : t(e) \in 0..(DayLength - 1)
    BY <1>1, <1>2 DEF Distinct
  <1>4. \A e \in {p, q} : Pushed(rule, blackouts)[e] = d(e) * DayLength + t(e)
    BY DEF Pushed, Instant
  <1>5. d(p) * DayLength + t(p) = d(q) * DayLength + t(q)
    BY <1>4
  <1> HIDE DEF d, t, w, o
  <1>6. DayLength * d(p) + t(p) = DayLength * d(q) + t(q)
    BY <1>1, <1>2, <1>5
  <1>7. d(p) = d(q) /\ t(p) = t(q)
    BY <1>1, <1>2, <1>3, <1>6, SameDigits
  <1>8. \A e \in {p, q} : w + e[1] * rule.step \in Int
    BY <1>1, <1>2
  <1>9. w + p[1] * rule.step = w + q[1] * rule.step /\ o(p) = o(q)
    BY <1>1, <1>2, <1>7, <1>8, SameDigits
  <1>10. p[1] \in Int /\ q[1] \in Int
    BY <1>1
  <1>11. p[1] = q[1]
    BY <1>2, <1>9, <1>10, SameMultiple
  <1>12. p[2] = q[2] /\ p[3] = q[3]
    BY <1>1, <1>7, <1>9 DEF Distinct, t, o
  <1>13. QED
    BY <1>1, <1>11, <1>12

LEMMA PushIsOnMeantDay ==
  ASSUME NEW rule, Accepted(rule), NEW blackouts, NEW push \in Pushes(rule, blackouts)
  PROVE  LET d == DayOfPush(rule, push) IN
         /\ d % DaysPerWeek = rule.days[push[2]]
         /\ d \div DaysPerWeek = (rule.from \div DaysPerWeek) + push[1] * rule.step
         /\ ((d \div DaysPerWeek) - (rule.from \div DaysPerWeek)) % rule.step = 0
  <1> DEFINE d == DayOfPush(rule, push)
             w == rule.from \div DaysPerWeek
             k == push[1]
             i == push[2]
  <1>1. /\ k \in Nat /\ i \in DOMAIN rule.days /\ rule.days[i] \in 0..(DaysPerWeek - 1)
        /\ push[3] \in DOMAIN rule.times
        /\ d \in rule.from..rule.to /\ ~BlackedOut(d, blackouts)
        /\ d = DaysPerWeek * (w + k * rule.step) + rule.days[i]
    BY PushParts
  <1>2. DaysPerWeek \in Nat \ {0} /\ rule.step \in Nat \ {0} /\ w \in Nat
    BY CalendarAssumption, WeekStartIsSunday DEF Accepted
  <1> HIDE DEF d, w, k, i
  <1>4. w + k * rule.step \in Int
    BY <1>1, <1>2
  <1>5. d \div DaysPerWeek = w + k * rule.step /\ d % DaysPerWeek = rule.days[i]
    BY <1>1, <1>2, <1>4, DivMod
  <1>6. (d \div DaysPerWeek) - w = rule.step * k
    BY <1>1, <1>2, <1>5
  <1>7. k \in Int
    BY <1>1
  <1>8. (rule.step * k) % rule.step = 0
    BY <1>2, <1>7, MultipleOf
  <1>9. ((d \div DaysPerWeek) - w) % rule.step = 0
    BY <1>6, <1>8
  <1>10. QED
    BY <1>5, <1>9 DEF d, w, i, k

LEMMA PushedIsMeant ==
  ASSUME NEW rule, Accepted(rule), NEW blackouts, NEW push \in Pushes(rule, blackouts)
  PROVE  Pushed(rule, blackouts)[push] \in Meant(rule, blackouts)
  <1> DEFINE d == DayOfPush(rule, push)
  <1>1. /\ push[2] \in DOMAIN rule.days /\ push[3] \in DOMAIN rule.times
        /\ d \in rule.from..rule.to /\ ~BlackedOut(d, blackouts)
    BY PushParts
  <1>2. /\ d % DaysPerWeek = rule.days[push[2]]
        /\ ((d \div DaysPerWeek) - (rule.from \div DaysPerWeek)) % rule.step = 0
    BY PushIsOnMeantDay
  <1>3. Pushed(rule, blackouts)[push] = Instant(d, rule.times[push[3]])
    BY DEF Pushed
  <1> HIDE DEF d
  <1>4. QED
    BY <1>1, <1>2, <1>3 DEF Meant

(* A day the rule means has a push for every time, in one week.            *)
LEMMA DayHasPushes ==
  ASSUME NEW rule, Accepted(rule), NEW blackouts,
         NEW d \in rule.from..rule.to, NEW i \in DOMAIN rule.days,
         rule.days[i] = d % DaysPerWeek,
         ((d \div DaysPerWeek) - (rule.from \div DaysPerWeek)) % rule.step = 0,
         ~BlackedOut(d, blackouts)
  PROVE  \E k \in Nat : \A j \in DOMAIN rule.times :
            /\ <<k, i, j>> \in Pushes(rule, blackouts)
            /\ DayOfPush(rule, <<k, i, j>>) = d
  <1> DEFINE c == DaysPerWeek
             st == rule.step
             w == rule.from \div c
  <1>1. rule.days[i] = d % c /\ ((d \div c) - w) % st = 0
    OBVIOUS
  <1> DEFINE v == d \div c
             r == d % c
             k == (v - w) \div st
             push(j) == <<k, i, j>>
  <1>2. /\ c \in Nat \ {0} /\ st \in Nat \ {0} /\ w \in Nat
        /\ rule.from \in Nat /\ rule.to \in Nat /\ d \in Nat
    BY CalendarAssumption, WeekStartIsSunday DEF Accepted
  <1>3. /\ v \in Int /\ r \in 0..(c - 1) /\ d = c * v + r
        /\ rule.from = c * w + (rule.from % c) /\ rule.from % c \in 0..(c - 1)
    <2> HIDE DEF c
    <2>1. \A z \in Nat : /\ z \div c \in Int /\ z % c \in 0..(c - 1)
                         /\ z = c * (z \div c) + (z % c)
      BY <1>2, Division
    <2>2. QED
      BY <1>2, <2>1
  <1>4. WeekStart(rule) = c * w /\ WeekStart(rule) \in Nat
    BY WeekStartIsSunday
  <1>5. rule.from <= d /\ d <= rule.to /\ rule.days[i] = r /\ (v - w) % st = 0
    BY <1>1, <1>2
  <1> HIDE DEF v, r, w
  <1>6. k \in Int /\ v - w = st * k + ((v - w) % st)
    <2>1. v - w \in Int
      BY <1>2, <1>3
    <2> HIDE DEF st
    <2>2. \A z \in Int : z \div st \in Int /\ z = st * (z \div st) + (z % st)
      BY <1>2, Division
    <2>3. QED
      BY <2>1, <2>2
  <1>7. v = w + st * k
    BY <1>2, <1>3, <1>5, <1>6
  <1> DEFINE y == rule.from % c
  <1> HIDE DEF c, st, k, y
  <1>8. k \in Nat
    <2>1. c * w <= c * v + r /\ r < c
      BY <1>2, <1>3, <1>5 DEF y
    <2>2. w <= v
      <3>1. CASE v <= w - 1
        <4>1. c * v <= c * (w - 1)
          BY <1>2, <1>3, <3>1
        <4>2. c * (w - 1) = c * w - c
          BY <1>2
        <4>3. QED
          BY <1>2, <1>3, <2>1, <4>1, <4>2
      <3>2. QED
        BY <1>2, <1>3, <3>1
    <2>3. st * k >= 0
      BY <1>2, <1>3, <1>6, <1>7, <2>2
    <2>4. QED
      BY <1>2, <1>6, <2>3
  <1>9. WeekStart(rule) + k * (st * c) = c * v
    BY <1>2, <1>3, <1>4, <1>7, <1>8
  <1>10. WeekCur(rule, k) = c * v /\ c * v \in Int
    BY <1>2, <1>3, <1>9 DEF WeekCur, c, st
  <1>11. \A j : DayOfPush(rule, push(j)) = d
    BY <1>3, <1>5, <1>10 DEF DayOfPush
  <1>12. WeekCur(rule, k) <= rule.to
    BY <1>2, <1>3, <1>5, <1>10
  <1>13. k <= k * (st * c)
    BY <1>2, <1>8
  <1>14. k \in 0..(rule.to - WeekStart(rule))
    BY <1>2, <1>4, <1>8, <1>9, <1>10, <1>12, <1>13
  <1>15. \A j \in DOMAIN rule.times : push(j) \in Pushes(rule, blackouts)
    BY <1>1, <1>11, <1>12, <1>14 DEF Pushes
  <1>16. QED
    BY <1>8, <1>11, <1>15

LEMMA MeantIsPushed ==
  ASSUME NEW rule, Accepted(rule), NEW blackouts, NEW x \in Meant(rule, blackouts)
  PROVE  \E push \in Pushes(rule, blackouts) : Pushed(rule, blackouts)[push] = x
  <1>1. PICK d \in rule.from..rule.to, i \in DOMAIN rule.days, j \in DOMAIN rule.times :
          /\ x = Instant(d, rule.times[j])
          /\ rule.days[i] = d % DaysPerWeek
          /\ ((d \div DaysPerWeek) - (rule.from \div DaysPerWeek)) % rule.step = 0
          /\ ~BlackedOut(d, blackouts)
    BY DEF Meant
  <1>2. PICK k \in Nat : /\ <<k, i, j>> \in Pushes(rule, blackouts)
                         /\ DayOfPush(rule, <<k, i, j>>) = d
    BY <1>1, DayHasPushes
  <1>3. Pushed(rule, blackouts)[<<k, i, j>>] = x
    BY <1>1, <1>2 DEF Pushed
  <1>4. QED
    BY <1>2, <1>3

-----------------------------------------------------------------------------
(* generateRecurrenceDates gives, for every rule whose weekdays and times  *)
(* are distinct, the first MaxInstances dates the rule means, in order and *)
(* each once: whatever the days off, the week the series starts in, the    *)
(* order the weekdays were chosen in.                                      *)
THEOREM DatesFollowTheRule ==
  ASSUME NEW rule, Accepted(rule), Distinct(rule), NEW blackouts
  PROVE  FollowsRule(rule, blackouts)
  <1> DEFINE E == Pushes(rule, blackouts)
             key == Pushed(rule, blackouts)
             dates == Dates(rule, blackouts)
             n == Len(dates)
             made == {dates[i] : i \in DOMAIN dates}
  <1>1. /\ IsFiniteSet(E) /\ Cardinality(E) \in Nat /\ key \in [E -> Int]
        /\ \A e, f \in E : key[e] = key[f] => e = f
    BY PushesAreFinite, PushesAreDistinct
  <1>2. /\ dates \in Seq(Nat) /\ n <= Cardinality(E)
        /\ n = MaxInstances \/ n = Cardinality(E)
        /\ dates = Smallest(n, key)
    BY DatesAreMoments
  <1>3. n \in Nat /\ DOMAIN dates = 1..n
    BY <1>2, SequenceParts
  <1> HIDE DEF E, key, dates, n
  <1>4. \A i, j \in 1..n : i < j => dates[i] < dates[j]
    BY <1>1, <1>2, <1>3, SmallestInOrder
  <1>5. \A e \in E : \/ \E i \in 1..n : dates[i] = key[e]
                     \/ /\ n < Cardinality(E)
                        /\ \A i \in 1..n : dates[i] < key[e]
    BY <1>1, <1>2, <1>3, SmallestInOrder
  <1>6. \A i \in 1..n : \E e \in E : dates[i] = key[e]
    BY <1>1, <1>2, <1>3, SmallestAtPlace
  <1>7. made \subseteq Meant(rule, blackouts)
    <2>1. \A e \in E : key[e] \in Meant(rule, blackouts)
      BY PushedIsMeant DEF E, key
    <2>2. QED
      BY <1>3, <1>6, <2>1
  <1>8. ASSUME NEW x \in Meant(rule, blackouts) \ made
        PROVE  n = MaxInstances /\ \A i \in 1..n : dates[i] < x
    <2>1. PICK e \in E : key[e] = x
      BY MeantIsPushed DEF E, key
    <2>2. n < Cardinality(E) /\ \A i \in 1..n : dates[i] < x
      BY <1>3, <1>5, <1>8, <2>1
    <2>3. QED
      BY <1>1, <1>2, <1>3, <2>2
  <1>9. QED
    BY <1>3, <1>4, <1>7, <1>8 DEF FollowsRule, dates, n

===============================================================================
