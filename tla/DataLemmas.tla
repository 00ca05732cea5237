------------------------------ MODULE DataLemmas ------------------------------
(***************************************************************************)
(* Facts about finite sets and numbers that the proofs of several          *)
(* components cite; no variable of any of them occurs here.                *)
(***************************************************************************)
EXTENDS Integers, Sequences, FiniteSetTheorems, NaturalsInduction, WellFoundedInduction, TLAPS

(* As many values as there are indexes, when no two share one.             *)
LEMMA DistinctValues ==
  ASSUME NEW n \in Nat, NEW N, NEW f \in [1..n -> N],
         \A i, j \in 1..n : i # j => f[i] # f[j],
         \A x \in N : \E i \in 1..n : f[i] = x
  PROVE  IsFiniteSet(N) /\ Cardinality(N) = n
  <1>1. IsFiniteSet(1..n) /\ Cardinality(1..n) = n
    BY FS_Interval
  <1>2. f \in Surjection(1..n, N) /\ f \in Injection(1..n, N)
    BY DEF Surjection, Injection, IsInjective
  <1>3. QED
    BY <1>1, <1>2, FS_Surjection

(* Every position of a finite set in order is taken by a member, whose     *)
(* position is the number of those up to it.                               *)
LEMMA PositionTaken ==
  ASSUME NEW S, IsFiniteSet(S), NEW R,
         \A x \in S : <<x, x>> \in R,
         \A x, y \in S : <<x, y>> \in R \/ <<y, x>> \in R,
         \A x, y \in S : <<x, y>> \in R /\ <<y, x>> \in R => x = y,
         \A x, y, z \in S : <<x, y>> \in R /\ <<y, z>> \in R => <<x, z>> \in R,
         NEW n \in 1..Cardinality(S)
  PROVE  \E x \in S : Cardinality({y \in S : <<y, x>> \in R}) = n
  <1> DEFINE Upto(x) == {y \in S : <<y, x>> \in R}
             N == Cardinality(S)
             position == [x \in S |-> Cardinality(Upto(x))]
  <1>1. N \in Nat
    BY FS_CardinalityType
  <1>2. ASSUME NEW x \in S
        PROVE  IsFiniteSet(Upto(x)) /\ Cardinality(Upto(x)) \in 1..N
    <2>1. Upto(x) \in SUBSET S /\ x \in Upto(x)
      OBVIOUS
    <2>2. IsFiniteSet(Upto(x)) /\ Cardinality(Upto(x)) <= N
      BY <2>1, FS_Subset
    <2>3. Cardinality(Upto(x)) \in Nat /\ Cardinality(Upto(x)) # 0
      BY <2>1, <2>2, FS_CardinalityType, FS_EmptySet
    <2>4. QED
      BY <1>1, <2>2, <2>3
  <1>3. ASSUME NEW x \in S, NEW y \in S, <<x, y>> \in R, x # y
        PROVE  Cardinality(Upto(x)) # Cardinality(Upto(y))
    <2>1. Upto(x) \in SUBSET Upto(y) /\ y \in Upto(y) /\ y \notin Upto(x)
      BY <1>3
    <2>2. QED
      BY <1>2, <2>1, FS_Subset
  <1>4. position \in [S -> 1..N]
    BY <1>2
  <1>5. ASSUME NEW x \in S, NEW y \in S, position[x] = position[y]
        PROVE  x = y
    <2>1. Cardinality(Upto(x)) = Cardinality(Upto(y))
      BY <1>5
    <2>2. <<x, y>> \in R \/ <<y, x>> \in R
      OBVIOUS
    <2>3. QED
      BY <1>3, <2>1, <2>2
  <1> HIDE DEF position, N
  <1>6. position \in Injection(S, 1..N)
    BY <1>4, <1>5 DEF Injection, IsInjective
  <1>7. IsFiniteSet(1..N) /\ Cardinality(1..N) = N
    BY <1>1, FS_Interval
  <1>8. position \in Surjection(S, 1..N)
    BY <1>6, <1>7, FS_Injection DEF N
  <1>9. PICK x \in S : position[x] = n
    BY <1>8 DEF Surjection, N
  <1>10. QED
    BY <1>9 DEF position

(* A set of naturals has a smallest member.                                *)
LEMMA LeastNatural ==
  ASSUME NEW S \in SUBSET Nat, S # {}
  PROVE  \E x \in S : \A y \in S : x <= y
  <1> DEFINE R == {p \in Nat \X Nat : p[1] < p[2]}
  <1>1. IsWellFoundedOn(R, Nat)
    BY NatLessThanWellFounded, Zenon DEF OpToRel
  <1>2. \A x, y \in Nat : <<y, x>> \in R <=> y < x
    OBVIOUS
  <1> HIDE DEF R
  <1>3. PICK x \in S : \A y \in S : ~(<<y, x>> \in R)
    BY <1>1, WFMin
  <1>4. ASSUME NEW y \in S PROVE x <= y
    <2>1. x \in Nat /\ y \in Nat /\ ~(<<y, x>> \in R)
      BY <1>3
    <2>2. ~(y < x)
      BY <1>2, <2>1
    <2>3. QED
      BY <2>1, <2>2
  <1>5. QED
    BY <1>3, <1>4

-----------------------------------------------------------------------------
(* Numbers.                                                                *)

(* A quotient and a remainder are what they are.                           *)
LEMMA DivMod ==
  ASSUME NEW c \in Nat \ {0}, NEW q \in Int, NEW r \in 0..(c - 1)
  PROVE  (c * q + r) \div c = q /\ (c * q + r) % c = r
  OBVIOUS

LEMMA Division ==
  ASSUME NEW c \in Nat \ {0}, NEW x \in Int
  PROVE  /\ x \div c \in Int /\ x % c \in 0..(c - 1)
         /\ x = c * (x \div c) + (x % c)
  OBVIOUS

LEMMA SameMultiple ==
  ASSUME NEW c \in Nat \ {0}, NEW w \in Nat, NEW p \in Int, NEW q \in Int,
         w + p * c = w + q * c
  PROVE  p = q
  <1>1. (c * p + 0) \div c = p /\ (c * q + 0) \div c = q
    BY DivMod
  <1>2. c * p + 0 = c * q + 0
    OBVIOUS
  <1>3. QED
    BY <1>1, <1>2

LEMMA MultipleOf ==
  ASSUME NEW c \in Nat \ {0}, NEW k \in Int
  PROVE  (c * k) % c = 0 /\ (c * k) \div c = k
  <1>1. (c * k + 0) % c = 0 /\ (c * k + 0) \div c = k
    BY DivMod
  <1>2. QED
    BY <1>1

LEMMA NatDivision ==
  ASSUME NEW c \in Nat \ {0}, NEW x \in Nat
  PROVE  x \div c \in Nat
  OBVIOUS

(* Two numbers of base c with the same value have the same digits.         *)
LEMMA SameDigits ==
  ASSUME NEW c \in Nat \ {0}, NEW p \in Int, NEW q \in Int,
         NEW r \in 0..(c - 1), NEW s \in 0..(c - 1), c * p + r = c * q + s
  PROVE  p = q /\ r = s
  BY DivMod

LEMMA SequenceParts ==
  ASSUME NEW S, NEW s \in Seq(S)
  PROVE  /\ DOMAIN s = 1..Len(s) /\ Len(s) \in Nat /\ IsFiniteSet(DOMAIN s)
         /\ \A i \in DOMAIN s : s[i] \in S
  <1>1. DOMAIN s = 1..Len(s) /\ Len(s) \in Nat
    OBVIOUS
  <1>2. \A i \in 1..Len(s) : s[i] \in S
    OBVIOUS
  <1>3. QED
    BY <1>1, <1>2, FS_Interval

===============================================================================
