--------------------------- MODULE FreeTimes_proofs ---------------------------
(***************************************************************************)
(* What the times a provider is offered at agree with, for any weekly      *)
(* availability, bookings, busy blocks and queries, and for any number of  *)
(* calendar syncs under way.                                               *)
(***************************************************************************)
EXTENDS FreeTimes, DataLemmas

-----------------------------------------------------------------------------
(* The tables.  A block is a window, and there are finitely many of them:  *)
(* that the picker's scan ends rests on it.                                *)

TimesInv ==
    /\ FreeTimesTypeOK
    /\ IsFiniteSet(blocks)
    /\ IsFiniteSet(booked)

LEMMA AnswersAreFinite ==
  ASSUME CalendarTypeOK, NEW k \in Sync
  PROVE  IsFiniteSet(sync[k].answer) /\ sync[k].answer \subseteq Window
  <1>1. sync[k].answer \in GoogleBusy \cup {{}}
    BY DEF CalendarTypeOK
  <1>2. QED
    BY <1>1, CalendarAssumption, FS_EmptySet DEF Window

LEMMA CalendarStep ==
  ASSUME CalendarTypeOK, IsFiniteSet(blocks), [CalendarNext]_calvars
  PROVE  CalendarTypeOK' /\ IsFiniteSet(blocks')
  <1> DEFINE SyncState == [pc : {"idle", "token", "revoked", "wipe", "google", "delete",
                                 "insert"},
                           answer : GoogleBusy \cup {{}}, seen : SUBSET Window]
  <1>0. /\ google \in GoogleBusy /\ granted \in BOOLEAN /\ connected \in BOOLEAN
        /\ blocks \subseteq Window /\ sync \in [Sync -> SyncState]
        /\ events \in 0..MaxEvents /\ failures \in 0..MaxFailures
        /\ MaxEvents \in Nat /\ MaxFailures \in Nat
    BY CalendarAssumption DEF CalendarTypeOK
  <1>1. Idle \in SyncState
    BY DEF Idle
  <1>2. CASE UNCHANGED calvars
    BY <1>2 DEF calvars, CalendarTypeOK
  <1>3. CASE GoogleChanges \/ Revoke \/ Callback \/ Disconnect
    <2>1. /\ google' \in GoogleBusy /\ granted' \in BOOLEAN /\ connected' \in BOOLEAN
          /\ UNCHANGED <<blocks, sync>>
      BY <1>0, <1>3 DEF GoogleChanges, Revoke, Callback, Disconnect
    <2>2. events' \in 0..MaxEvents /\ failures' = failures
      BY <1>0, <1>3 DEF GoogleChanges, Revoke, Callback, Disconnect, Happens
    <2>3. QED
      BY <1>0, <2>1, <2>2 DEF CalendarTypeOK
  <1>4. CASE RestartCalendar
    BY <1>0, <1>1, <1>4 DEF RestartCalendar, Fails, CalendarTypeOK
  <1>5. CASE \E k \in Sync : \/ StartSync(k) \/ TokenGiven(k) \/ TokenGone(k) \/ TokenRevoked(k)
                             \/ DropTokens(k) \/ GoogleAnswers(k) \/ GoogleRefuses(k)
                             \/ SyncDelete(k) \/ SyncCollides(k) \/ SyncFails(k)
    <2>1. PICK k \in Sync : \/ StartSync(k) \/ TokenGiven(k) \/ TokenGone(k) \/ TokenRevoked(k)
                            \/ DropTokens(k) \/ GoogleAnswers(k) \/ GoogleRefuses(k)
                            \/ SyncDelete(k) \/ SyncCollides(k) \/ SyncFails(k)
      BY <1>5
    <2>2. sync' \in [Sync -> SyncState]
      <3>1. sync[k] \in SyncState
        BY <1>0
      <3>2. CASE TokenGone(k) \/ GoogleRefuses(k) \/ SyncCollides(k) \/ SyncFails(k)
        BY <1>0, <1>1, <3>2 DEF TokenGone, GoogleRefuses, SyncCollides, SyncFails
      <3>3. CASE StartSync(k) \/ TokenGiven(k) \/ TokenRevoked(k) \/ DropTokens(k)
        BY <1>0, <3>3 DEF StartSync, TokenGiven, TokenRevoked, DropTokens, Goes
      <3>4. CASE GoogleAnswers(k)
        BY <1>0, <3>4 DEF GoogleAnswers
      <3>5. CASE SyncDelete(k)
        BY <1>0, <3>5 DEF SyncDelete
      <3>6. QED
        BY <2>1, <3>2, <3>3, <3>4, <3>5
    <2>3. /\ UNCHANGED <<blocks, google, granted, events>>
          /\ connected' \in BOOLEAN /\ failures' \in 0..MaxFailures
      <3>1. CASE SyncFails(k)
        BY <1>0, <3>1 DEF SyncFails, Fails
      <3>2. CASE DropTokens(k)
        BY <1>0, <3>2 DEF DropTokens
      <3>3. CASE ~SyncFails(k) /\ ~DropTokens(k)
        BY <1>0, <2>1, <3>3 DEF StartSync, TokenGiven, TokenGone, TokenRevoked, GoogleAnswers,
           GoogleRefuses, SyncDelete, SyncCollides
      <3>4. QED
        BY <3>1, <3>2, <3>3
    <2>4. QED
      BY <1>0, <2>2, <2>3 DEF CalendarTypeOK
  <1>6. CASE \E k \in Sync : WipeBlocks(k) \/ SyncInsert(k)
    <2>1. PICK k \in Sync : WipeBlocks(k) \/ SyncInsert(k)
      BY <1>6
    <2>2. PICK R : Deleted(k, R)
      BY <2>1 DEF WipeBlocks, SyncInsert
    <2>3. sync' \in [Sync -> SyncState]
      <3>1. \A j \in Sync : [sync[j] EXCEPT !.seen = @ \ R] \in SyncState
        BY <1>0
      <3>2. QED
        BY <1>1, <2>2, <3>1 DEF Deleted
    <2>4. blocks' \subseteq Window /\ IsFiniteSet(blocks')
      <3>1. CASE WipeBlocks(k)
        BY <3>1, FS_EmptySet DEF WipeBlocks
      <3>2. CASE SyncInsert(k)
        <4>1. blocks' = (blocks \ sync[k].seen) \cup sync[k].answer
          BY <3>2 DEF SyncInsert
        <4>2. IsFiniteSet(sync[k].answer) /\ sync[k].answer \subseteq Window
          BY AnswersAreFinite
        <4>3. IsFiniteSet(blocks \ sync[k].seen)
          BY FS_Difference
        <4>4. QED
          BY <1>0, <4>1, <4>2, <4>3, FS_Union
      <3>3. QED
        BY <2>1, <3>1, <3>2
    <2>5. UNCHANGED <<google, granted, connected, events, failures>>
      BY <2>1 DEF WipeBlocks, SyncInsert
    <2>6. QED
      BY <1>0, <2>3, <2>4, <2>5 DEF CalendarTypeOK
  <1>7. QED
    BY <1>2, <1>3, <1>4, <1>5, <1>6 DEF CalendarNext, SyncStep

LEMMA TimesStep == TimesInv /\ [FreeTimesNext]_<<calvars, timevars>> => TimesInv'
  <1> SUFFICES ASSUME TimesInv, [FreeTimesNext]_<<calvars, timevars>> PROVE TimesInv'
    OBVIOUS
  <1>0. /\ CalendarTypeOK /\ availability \in Template /\ booked \subseteq Booking
        /\ now \in Instant
        /\ IsFiniteSet(blocks) /\ IsFiniteSet(booked)
    BY DEF TimesInv, FreeTimesTypeOK
  <1>1. CalendarTypeOK' /\ IsFiniteSet(blocks')
    BY <1>0, CalendarStep DEF FreeTimesNext, Tick, ReplaceAvailability, Book, CancelBooking
  <1>2. availability' \in Template /\ now' \in Instant
    BY <1>0 DEF FreeTimesNext, Tick, ReplaceAvailability, Book, CancelBooking, timevars
  <1>3. booked' \subseteq Booking /\ IsFiniteSet(booked')
    <2>1. CASE booked' = booked
      BY <1>0, <2>1
    <2>2. CASE \E b \in Booking : booked' = booked \cup {b}
      BY <1>0, <2>2, FS_AddElement
    <2>3. CASE \E b \in booked : booked' = booked \ {b}
      BY <1>0, <2>3, FS_RemoveElement
    <2>4. QED
      BY <2>1, <2>2, <2>3 DEF FreeTimesNext, Tick, ReplaceAvailability, Book, CancelBooking, timevars
  <1>4. QED
    BY <1>1, <1>2, <1>3 DEF TimesInv, FreeTimesTypeOK

(* The tables keep their types however syncs overlap, and no sync leaves   *)
(* infinitely many blocks behind.                                          *)
THEOREM TimesInvariant == FreeTimesSpec => []TimesInv
  <1>1. FreeTimesInit => TimesInv
    <2> SUFFICES ASSUME FreeTimesInit PROVE TimesInv
      OBVIOUS
    <2>1. CalendarTypeOK
      BY CalendarAssumption DEF FreeTimesInit, CalendarInit, CalendarTypeOK, Idle
    <2>2. QED
      BY <2>1, FS_EmptySet DEF FreeTimesInit, CalendarInit, TimesInv, FreeTimesTypeOK
  <1>2. TimesInv /\ [FreeTimesNext]_<<calvars, timevars>> => TimesInv'
    BY TimesStep
  <1>3. QED
    BY <1>1, <1>2, PTL DEF FreeTimesSpec

-----------------------------------------------------------------------------
(* The scan.                                                               *)

WindowOf(S) == {[start |-> b.start, end |-> b.start + b.duration] : b \in S}

LEMMA BlockersAreFinite ==
  ASSUME TimesInv, NEW q
  PROVE  /\ IsFiniteSet(Blockers(q))
         /\ Blockers(q) \subseteq [start : Nat, end : Nat]
  <1>1. /\ booked \subseteq [start : Nat, duration : Nat \ {0}]
        /\ IsFiniteSet(booked) /\ IsFiniteSet(blocks)
    BY FreeTimesAssumption DEF TimesInv, FreeTimesTypeOK
  <1>2. blocks \subseteq [start : Nat, end : Nat]
    BY CalendarAssumption DEF TimesInv, FreeTimesTypeOK, CalendarTypeOK, Window
  <1>3. IsFiniteSet(WindowOf(booked)) /\ WindowOf(booked) \subseteq [start : Nat, end : Nat]
    <2> DEFINE f == [b \in booked |-> [start |-> b.start, end |-> b.start + b.duration]]
               W == {f[b] : b \in booked}
    <2>1. WindowOf(booked) = W
      BY DEF WindowOf
    <2>2. f \in Surjection(booked, W)
      BY DEF Surjection
    <2>3. IsFiniteSet(W)
      BY <1>1, <2>2, FS_Surjection
    <2>4. W \subseteq [start : Nat, end : Nat]
      BY <1>1
    <2>5. QED
      BY <2>1, <2>3, <2>4
  <1>4. IsFiniteSet(WindowOf(booked) \cup blocks)
    BY <1>1, <1>3, FS_Union
  <1>5. Blockers(q) \in SUBSET (WindowOf(booked) \cup blocks)
    BY DEF Blockers, WindowOf
  <1>6. QED
    BY <1>2, <1>3, <1>4, <1>5, FS_Subset

(* The busy windows are the blockers, in the order of their starts.        *)
LEMMA BusyWindowsInOrder ==
  ASSUME TimesInv, NEW q
  PROVE  /\ DOMAIN BusyWindows(q) = 1..Cardinality(Blockers(q))
         /\ Cardinality(Blockers(q)) \in Nat
         /\ \A n \in DOMAIN BusyWindows(q) : BusyWindows(q)[n] \in Blockers(q)
         /\ \A w \in Blockers(q) : \E n \in DOMAIN BusyWindows(q) : BusyWindows(q)[n] = w
         /\ \A m, n \in DOMAIN BusyWindows(q) :
               m <= n => BusyWindows(q)[m].start <= BusyWindows(q)[n].start
  <1> DEFINE B == Blockers(q)
             R == {p \in B \X B : \/ p[1].start < p[2].start
                                  \/ p[1].start = p[2].start /\ p[1].end <= p[2].end}
             upTo(w) == {v \in B : v.start < w.start \/ (v.start = w.start /\ v.end <= w.end)}
             s == BusyWindows(q)
             N == Cardinality(B)
  <1>1. IsFiniteSet(B) /\ N \in Nat /\ B \subseteq [start : Nat, end : Nat]
    BY BlockersAreFinite, FS_CardinalityType
  <1>2. s = [n \in 1..N |-> CHOOSE w \in B : Cardinality(upTo(w)) = n]
    BY DEF BusyWindows
  <1> HIDE DEF B, s
  <1>3. \A v, w \in B : <<v, w>> \in R <=> v \in upTo(w)
    OBVIOUS
  <1>4. \A w \in B : {v \in B : <<v, w>> \in R} = upTo(w)
    BY <1>3
  <1>5. /\ \A x \in B : <<x, x>> \in R
        /\ \A x, y \in B : <<x, y>> \in R \/ <<y, x>> \in R
        /\ \A x, y \in B : <<x, y>> \in R /\ <<y, x>> \in R => x = y
        /\ \A x, y, z \in B : <<x, y>> \in R /\ <<y, z>> \in R => <<x, z>> \in R
    <2>1. \A x \in B : x.start \in Nat /\ x.end \in Nat
                       /\ x = [start |-> x.start, end |-> x.end]
      BY <1>1
    <2>2. \A x, y \in B : x.start = y.start /\ x.end = y.end => x = y
      BY <2>1
    <2>3. QED
      BY <1>3, <2>1, <2>2
  <1> HIDE DEF R
  <1> DEFINE Q(w) == {v \in B : <<v, w>> \in R}
             pos == [w \in B |-> Cardinality(Q(w))]
  <1>6. \A w \in B : pos[w] = Cardinality(upTo(w))
    BY <1>4
  <1>7. ASSUME NEW n \in 1..N
        PROVE  \E w \in B : pos[w] = n
    <2>1. \E w \in B : Cardinality({v \in B : <<v, w>> \in R}) = n
      <3>1. \A x, y \in B : <<x, y>> \in R \/ <<y, x>> \in R
        BY <1>5
      <3>2. \A x, y \in B : <<x, y>> \in R /\ <<y, x>> \in R => x = y
        BY <1>5
      <3>3. \A x, y, z \in B : <<x, y>> \in R /\ <<y, z>> \in R => <<x, z>> \in R
        BY <1>5
      <3>4. \A x \in B : <<x, x>> \in R
        BY <1>5
      <3>5. n \in 1..Cardinality(B) /\ IsFiniteSet(B)
        BY <1>1
      <3>6. QED
        BY <3>1, <3>2, <3>3, <3>4, <3>5, PositionTaken
    <2>2. QED
      BY <2>1
  <1>8. DOMAIN s = 1..N /\ \A n \in 1..N : s[n] \in B /\ pos[s[n]] = n
    <2>1. \A n \in 1..N : \E w \in B : Cardinality(upTo(w)) = n
      BY <1>6, <1>7
    <2>2. DOMAIN s = 1..N /\ \A n \in 1..N : s[n] \in B /\ Cardinality(upTo(s[n])) = n
      BY <1>2, <2>1
    <2>3. QED
      BY <1>6, <2>2
  <1>9. ASSUME NEW w \in B
        PROVE  IsFiniteSet(Q(w)) /\ pos[w] \in 1..N
    <2> DEFINE U == Q(w)
    <2>1. U \in SUBSET B /\ w \in U
      BY <1>5
    <2> HIDE DEF U
    <2>2. IsFiniteSet(U) /\ Cardinality(U) <= N
      BY <1>1, <2>1, FS_Subset
    <2>3. Cardinality(U) \in Nat /\ Cardinality(U) # 0
      BY <2>1, <2>2, FS_CardinalityType, FS_EmptySet
    <2>4. Cardinality(U) \in 1..N
      BY <1>1, <2>2, <2>3
    <2>5. QED
      BY <2>2, <2>4 DEF U
  <1>10. ASSUME NEW v \in B, NEW w \in B, ~(<<v, w>> \in R)
         PROVE  pos[w] < pos[v]
    <2> DEFINE U == Q(w)
               V == Q(v)
    <2>1. \A x \in U : x \in V
      BY <1>5, <1>10
    <2>2. v \in V /\ v \notin U
      BY <1>5, <1>10
    <2>3. IsFiniteSet(V) /\ pos[v] = Cardinality(V) /\ pos[w] = Cardinality(U)
      BY <1>9
    <2>4. Cardinality(U) \in Nat /\ Cardinality(V) \in Nat
      BY <1>1, <1>9
    <2> HIDE DEF U, V, pos, Q
    <2>5. U \in SUBSET V /\ U # V
      BY <2>1, <2>2
    <2>6. Cardinality(U) < Cardinality(V)
      BY <2>3, <2>4, <2>5, FS_Subset
    <2>7. QED
      BY <2>3, <2>6
  <1> HIDE DEF pos, Q
  <1>11. ASSUME NEW w \in B PROVE \E n \in 1..N : s[n] = w
    <2>1. PICK n \in 1..N : n = pos[w]
      BY <1>9
    <2>2. s[n] \in B /\ pos[s[n]] = n
      BY <1>8
    <2>3. <<w, s[n]>> \in R /\ <<s[n], w>> \in R
      BY <1>1, <1>10, <2>1, <2>2
    <2>4. QED
      BY <1>5, <2>2, <2>3
  <1>12. ASSUME NEW m \in 1..N, NEW n \in 1..N, m <= n
         PROVE  s[m].start <= s[n].start
    <2>1. s[m] \in B /\ s[n] \in B /\ pos[s[m]] = m /\ pos[s[n]] = n
      BY <1>8
    <2>2. <<s[m], s[n]>> \in R
      BY <1>1, <1>10, <1>12, <2>1
    <2>3. s[m].start \in Nat /\ s[n].start \in Nat
      BY <1>1, <2>1
    <2>4. QED
      BY <2>2, <2>3 DEF R
  <1>13. QED
    BY <1>1, <1>8, <1>11, <1>12 DEF B, s

(* That the scan stops early loses no overlap.                             *)
LEMMA ScanFindsOverlap ==
  ASSUME TimesInv, NEW q, NEW start \in Int, NEW end \in Int
  PROVE  IntersectsAny(start, end, BusyWindows(q)) <=>
            \E w \in Blockers(q) : w.start < end /\ w.end > start
  <1> DEFINE B == Blockers(q)
             s == BusyWindows(q)
  <1>1. /\ B \subseteq [start : Nat, end : Nat]
        /\ DOMAIN s = 1..Cardinality(B) /\ Cardinality(B) \in Nat
        /\ \A n \in DOMAIN s : s[n] \in B
        /\ \A w \in B : \E n \in DOMAIN s : s[n] = w
        /\ \A m, n \in DOMAIN s : m <= n => s[m].start <= s[n].start
    BY BlockersAreFinite, BusyWindowsInOrder
  <1> HIDE DEF B, s
  <1>2. ASSUME NEW i \in DOMAIN s, \A j \in 1..i : s[j].start < end, s[i].end > start
        PROVE  \E w \in B : w.start < end /\ w.end > start
    <2>1. i \in 1..i /\ s[i] \in B
      BY <1>1
    <2>2. QED
      BY <1>2, <2>1
  <1>3. ASSUME NEW w \in B, w.start < end, w.end > start
        PROVE  \E i \in DOMAIN s : (\A j \in 1..i : s[j].start < end) /\ s[i].end > start
    <2>1. PICK n \in DOMAIN s : s[n] = w
      BY <1>1
    <2>2. ASSUME NEW j \in 1..n PROVE s[j].start < end
      <3>1. j \in DOMAIN s /\ j <= n
        BY <1>1
      <3>2. s[j].start <= w.start /\ s[j].start \in Nat /\ w.start \in Nat
        BY <1>1, <2>1, <3>1
      <3>3. QED
        BY <1>3, <3>2
    <2>3. QED
      BY <1>3, <2>1, <2>2
  <1>4. QED
    BY <1>2, <1>3 DEF IntersectsAny, B, s

(* The blockers of the query are those a create would meet.                *)
LEMMA BlockersAreConflicts ==
  ASSUME TimesInv, NEW q \in Query, NEW t \in q.from..q.to, t + q.duration <= q.to
  PROVE  (\E w \in Blockers(q) : w.start < t + q.duration /\ w.end > t) <=>
            \/ HasOverlap(t, t + q.duration)
            \/ HasExternalBusyConflict(t, t + q.duration)
  <1> DEFINE end == t + q.duration
  <1>1. /\ q.from \in Nat /\ q.to \in Nat /\ q.duration \in Nat \ {0}
        /\ t \in Nat /\ end \in Nat /\ q.from <= t /\ end <= q.to
    BY FreeTimesAssumption
  <1>2. booked \subseteq [start : Nat, duration : Nat \ {0}]
    BY FreeTimesAssumption DEF TimesInv, FreeTimesTypeOK
  <1>3. blocks \subseteq [start : Nat, end : Nat]
    BY CalendarAssumption DEF TimesInv, FreeTimesTypeOK, CalendarTypeOK, Window
  <1> HIDE DEF end
  <1>4. ASSUME NEW w \in [start : Nat, end : Nat], w.start < end, w.end > t
        PROVE  w.start < q.to /\ w.end > q.from
    BY <1>1, <1>4
  <1>5. ASSUME NEW w \in Blockers(q), w.start < end, w.end > t
        PROVE  HasOverlap(t, end) \/ HasExternalBusyConflict(t, end)
    <2>1. \/ w \in blocks
          \/ \E b \in booked : w = [start |-> b.start, end |-> b.start + b.duration]
      BY DEF Blockers
    <2>2. QED
      BY <1>5, <2>1 DEF HasOverlap, HasExternalBusyConflict
  <1>6. ASSUME HasOverlap(t, end)
        PROVE  \E w \in Blockers(q) : w.start < end /\ w.end > t
    <2>1. PICK b \in booked : b.start < end /\ b.start + b.duration > t
      BY <1>6 DEF HasOverlap
    <2> DEFINE w == [start |-> b.start, end |-> b.start + b.duration]
    <2>2. w \in [start : Nat, end : Nat] /\ w.start < end /\ w.end > t
      BY <1>2, <2>1
    <2>3. w \in {[start |-> x.start, end |-> x.start + x.duration] : x \in booked}
      BY <2>1
    <2> HIDE DEF w
    <2>4. w \in Blockers(q)
      BY <1>4, <2>2, <2>3 DEF Blockers
    <2>5. QED
      BY <2>2, <2>4
  <1>7. ASSUME HasExternalBusyConflict(t, end)
        PROVE  \E w \in Blockers(q) : w.start < end /\ w.end > t
    <2>1. PICK w \in blocks : w.start < end /\ w.end > t
      BY <1>7 DEF HasExternalBusyConflict
    <2>2. w \in Blockers(q)
      BY <1>3, <1>4, <2>1 DEF Blockers
    <2>3. QED
      BY <2>1, <2>2
  <1>8. QED
    BY <1>5, <1>6, <1>7 DEF end

-----------------------------------------------------------------------------
(* The availability.                                                       *)

LEMMA TimeOnDay ==
  ASSUME NEW d \in Int, NEW t \in Int, d * DayLength <= t, t < d * DayLength + DayLength
  PROVE  DayOf(t) = d /\ TimeOfDay(t) = t - d * DayLength
  <1>1. DayLength \in Nat \ {0}
    BY FreeTimesAssumption
  <1> DEFINE c == DayLength
             x == d * c
             r == t - x
  <1>2. x \in Int /\ c \in Nat \ {0}
    BY <1>1
  <1>3. r \in 0..(c - 1) /\ t = x + r
    <2> HIDE DEF x
    <2>1. x <= t /\ t < x + c
      BY DEF x
    <2>2. QED
      BY <1>2, <2>1
  <1>4. t = c * d + r
    BY <1>1, <1>3
  <1> HIDE DEF r
  <1>5. (c * d + r) \div c = d /\ (c * d + r) % c = r
    BY <1>2, <1>3, DivMod
  <1>6. QED
    BY <1>4, <1>5 DEF DayOf, TimeOfDay, r

LEMMA DayParts ==
  ASSUME NEW t \in Int
  PROVE  /\ DayOf(t) \in Int /\ TimeOfDay(t) \in 0..(DayLength - 1)
         /\ t = DayOf(t) * DayLength + TimeOfDay(t)
  <1>1. DayLength \in Nat \ {0}
    BY FreeTimesAssumption
  <1>2. /\ t \div DayLength \in Int /\ t % DayLength \in 0..(DayLength - 1)
        /\ t = DayLength * (t \div DayLength) + (t % DayLength)
    BY <1>1, Division
  <1>3. DayLength * (t \div DayLength) = (t \div DayLength) * DayLength
    BY <1>1, <1>2
  <1>4. QED
    BY <1>2, <1>3 DEF DayOf, TimeOfDay

LEMMA DaysInOrder ==
  ASSUME NEW s \in Int, NEW t \in Int, s <= t
  PROVE  DayOf(s) <= DayOf(t)
  <1> DEFINE c == DayLength
             p == DayOf(s)
             q == DayOf(t)
  <1>1. c \in Nat \ {0}
    BY FreeTimesAssumption
  <1>2. /\ p \in Int /\ TimeOfDay(s) \in 0..(c - 1) /\ s = p * c + TimeOfDay(s)
        /\ q \in Int /\ TimeOfDay(t) \in 0..(c - 1) /\ t = q * c + TimeOfDay(t)
    BY DayParts
  <1> HIDE DEF c, p, q
  <1>3. ASSUME q < p PROVE FALSE
    <2>1. (p - q) - 1 \in Nat
      BY <1>2, <1>3
    <2>2. ((p - q) - 1) * c \in Nat
      BY <1>1, <2>1
    <2>3. p * c = q * c + c + ((p - q) - 1) * c
      BY <1>1, <1>2
    <2>4. q * c \in Int /\ p * c \in Int
      BY <1>1, <1>2
    <2>5. QED
      BY <1>1, <1>2, <2>2, <2>3, <2>4
  <1>4. QED
    BY <1>2, <1>3 DEF p, q

(* Clamping a row to the query hides no time that a create would take.     *)
LEMMA OpenWindowsAreAvailability ==
  ASSUME TimesInv, NEW q \in Query, NEW t \in q.from..q.to
  PROVE  (\E w \in OpenWindows(q) : w.start <= t /\ t + q.duration <= w.end) <=>
            /\ t + q.duration <= q.to
            /\ HasAvailability(t, t + q.duration)
  <1> DEFINE end == t + q.duration
             c == DayLength
             days(a) == {d \in DayOf(q.from)..DayOf(q.to) :
                            a.day = d % DaysPerWeek /\ d * c < q.to}
             win(d, a) == [start |-> IF d * c + a.start < q.from THEN q.from ELSE d * c + a.start,
                           end |-> IF d * c + a.end > q.to THEN q.to ELSE d * c + a.end]
  <1>1. /\ q.from \in Nat /\ q.to \in Nat /\ q.duration \in Nat \ {0}
        /\ t \in Nat /\ end \in Nat /\ q.from <= t /\ t <= q.to /\ t < end
    BY FreeTimesAssumption
  <1>2. c \in Nat \ {0}
    BY FreeTimesAssumption
  <1>3. \A a \in availability : /\ a.start \in Nat /\ a.end \in Nat
                                /\ a.start < a.end /\ a.end < c
    BY FreeTimesAssumption DEF TimesInv, FreeTimesTypeOK
  <1>4. \A d \in DayOf(q.from)..DayOf(q.to) : d \in Int /\ d * c \in Int
    BY <1>1, <1>2, DayParts
  <1>5. \A w : w \in OpenWindows(q) <=> \E a \in availability : \E d \in days(a) : w = win(d, a)
    BY DEF OpenWindows
  <1> HIDE DEF end, c
  <1>6. ASSUME NEW a \in availability, NEW d \in days(a),
               win(d, a).start <= t, end <= win(d, a).end
        PROVE  end <= q.to /\ HasAvailability(t, end)
    <2> DEFINE x == d * c
    <2>1. x \in Int /\ d \in Int /\ a.day = d % DaysPerWeek
      BY <1>4
    <2>2. /\ a.start \in Nat /\ a.end \in Nat /\ a.start < a.end /\ a.end < c
      BY <1>3
    <2>3. /\ win(d, a).start = IF x + a.start < q.from THEN q.from ELSE x + a.start
          /\ win(d, a).end = IF x + a.end > q.to THEN q.to ELSE x + a.end
      OBVIOUS
    <2> HIDE DEF x
    <2>4. x + a.start <= t /\ end <= x + a.end /\ end <= q.to
      BY <1>1, <1>6, <2>1, <2>2, <2>3
    <2>5. x <= t /\ t < x + c /\ x <= end /\ end < x + c
      BY <1>1, <1>2, <2>1, <2>2, <2>4
    <2>6. /\ DayOf(t) = d /\ TimeOfDay(t) = t - x
          /\ DayOf(end) = d /\ TimeOfDay(end) = end - x
      BY <1>1, <2>1, <2>5, TimeOnDay DEF x, c
    <2>7. a.start <= t - x /\ end - x <= a.end
      BY <1>1, <2>1, <2>2, <2>4
    <2>8. QED
      BY <2>1, <2>4, <2>6, <2>7 DEF HasAvailability
  <1>7. ASSUME end <= q.to, HasAvailability(t, end)
        PROVE  \E a \in availability : \E d \in days(a) :
                  win(d, a).start <= t /\ end <= win(d, a).end
    <2>1. PICK a \in availability : /\ a.day = DayOf(t) % DaysPerWeek
                                    /\ a.start <= TimeOfDay(t) /\ TimeOfDay(end) <= a.end
      BY <1>7 DEF HasAvailability
    <2> DEFINE d == DayOf(t)
               x == d * c
    <2>2. d \in Int /\ t = x + TimeOfDay(t) /\ TimeOfDay(t) \in 0..(c - 1)
      BY <1>1, DayParts DEF c
    <2>3. end = x + TimeOfDay(end) /\ TimeOfDay(end) \in 0..(c - 1)
      BY <1>1, <1>7, DayParts DEF c, HasAvailability
    <2>4. d \in DayOf(q.from)..DayOf(q.to)
      BY <1>1, <2>2, DaysInOrder, DayParts
    <2>5. x \in Int /\ a.start \in Nat /\ a.end \in Nat
      BY <1>3, <1>4, <2>4
    <2> HIDE DEF x
    <2>6. x < q.to
      BY <1>1, <1>2, <1>7, <2>2, <2>5
    <2>7. d \in days(a)
      BY <2>1, <2>4, <2>6 DEF x
    <2>8. x + a.start <= t /\ end <= x + a.end
      BY <1>1, <1>2, <2>1, <2>2, <2>3, <2>5
    <2>9. /\ win(d, a).start = IF x + a.start < q.from THEN q.from ELSE x + a.start
          /\ win(d, a).end = IF x + a.end > q.to THEN q.to ELSE x + a.end
      BY DEF x
    <2>10. win(d, a).start <= t /\ end <= win(d, a).end
      BY <1>1, <1>7, <2>5, <2>8, <2>9
    <2>11. QED
      BY <2>7, <2>10
  <1>8. QED
    BY <1>5, <1>6, <1>7 DEF end

(* What a picker shows of the answer: FreeSlotPicker the times a create    *)
(* would take and no other, another picker besides only times that are     *)
(* refused as too soon.                                                    *)
THEOREM OffersStayTakeable == FreeTimesSpec => []OffersWhatCreateTakes
  <1>1. TimesInv => OffersWhatCreateTakes
    <2> SUFFICES ASSUME TimesInv, NEW q \in Query
                 PROVE  /\ Future(q) = {t \in q.from..q.to :
                              /\ t % q.step = 0 /\ t + q.duration <= q.to
                              /\ Takes(t, t + q.duration)}
                        /\ \A t \in ComputeWindowMode(q) :
                              Takes(t, t + q.duration) \/ TooSoon(t)
      BY DEF OffersWhatCreateTakes
    <2>1. ASSUME NEW t \in q.from..q.to
          PROVE  (/\ \E w \in OpenWindows(q) : w.start <= t /\ t + q.duration <= w.end
                  /\ ~IntersectsAny(t, t + q.duration, BusyWindows(q))
                  /\ ~TooSoon(t))
                 <=> t + q.duration <= q.to /\ Takes(t, t + q.duration)
      <3>1. t \in Int /\ t + q.duration \in Int
        BY FreeTimesAssumption
      <3>2. IntersectsAny(t, t + q.duration, BusyWindows(q)) <=>
               \E w \in Blockers(q) : w.start < t + q.duration /\ w.end > t
        BY <3>1, ScanFindsOverlap
      <3>3. QED
        BY <3>2, OpenWindowsAreAvailability, BlockersAreConflicts DEF Takes
    <2>2. \A t \in q.from..q.to : t >= now + Lead <=> ~TooSoon(t)
      <3>1. now \in Int /\ Lead \in Int /\ q.from \in Int /\ q.to \in Int
        BY FreeTimesAssumption DEF TimesInv, FreeTimesTypeOK
      <3>2. QED
        BY <3>1 DEF TooSoon
    <2>3. Future(q) = {t \in q.from..q.to :
                         /\ t % q.step = 0 /\ t + q.duration <= q.to
                         /\ Takes(t, t + q.duration)}
      BY <2>1, <2>2 DEF Future, ComputeWindowMode
    <2>4. \A t \in ComputeWindowMode(q) : Takes(t, t + q.duration) \/ TooSoon(t)
      BY <2>1 DEF ComputeWindowMode
    <2>5. QED
      BY <2>3, <2>4
  <1>2. QED
    BY <1>1, TimesInvariant, PTL

===============================================================================
