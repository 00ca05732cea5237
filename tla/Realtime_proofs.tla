----------------------------- MODULE Realtime_proofs -----------------------------
(***************************************************************************)
(* What is true of the two routes for any number of connections, samples,  *)
(* flushes, messages and failures: the inductive invariants of the         *)
(* connection and of the trail, and the safety properties in them.         *)
(***************************************************************************)
EXTENDS Realtime, FiniteSetTheorems, TLAPS

realvars == <<wsvars, trackvars, chatvars>>

USE SocketAssumption, TrackingAssumption DEF SocketAssumption, TrackingAssumption

-----------------------------------------------------------------------------
(* The connection.                                                         *)

(* The client is up exactly when it holds a socket; then it holds every    *)
(* open connection, and an attempt is under way when it holds none.        *)
WsInv ==
    /\ WsTypeOK
    /\ client.pc = "up" <=> client.socket # NoSocket
    /\ OneConnectionPerPage

(* What a step of either route may do to the connection.                   *)
WsStep ==
    \/ UNCHANGED wsvars
    \/ ClientStep
    \/ DropAll
    \/ \E s \in Socket : OpenSocket(s) \/ Join(s) \/ Refuse(s) \/ MissClose(s) \/ Leave(s)

LEMMA TrackingIsWsStep ==
  ASSUME TrackingNext
  PROVE  WsStep
  BY Zenon DEF TrackingNext, WsStep, LosePing, Ping, EndRead, EndWrite, RestartTracking,
         ClientTracking, OpenTracking, JoinTracking, RefuseTracking, LeaveTracking,
         MissCloseTracking, FlushTimer, FlushStep, FlushRead, FlushWrite, FlushFails, wsvars

LEMMA ChatIsWsStep ==
  ASSUME ChatNext
  PROVE  WsStep
  <1>1. CASE ChatClient
    <2>1. CASE ClientStep
      BY <2>1 DEF WsStep
    <2>2. CASE Unused # {} /\ OpenSocket(CHOOSE s \in Unused : TRUE)
      <3>1. (CHOOSE s \in Unused : TRUE) \in Socket
        BY <2>2 DEF Unused
      <3>2. QED
        BY <2>2, <3>1 DEF WsStep
    <2>3. QED
      BY <1>1, <2>1, <2>2 DEF ChatClient
  <1>2. CASE ~ChatClient
    BY <1>2, Zenon DEF ChatNext, WsStep, RestartChat, FetchRead, FetchDone, FetchFails, ChatSocket,
           SendUnheard, PostInsert, PostFails, PostAnnounce, PostAnswer, Send, wsvars
  <1>3. QED
    BY <1>1, <1>2

LEMMA WsInvStep ==
  ASSUME WsInv, WsStep
  PROVE  WsInv'
  <1> USE DEF WsInv, WsTypeOK, Path, OneConnectionPerPage
  <1>1. CASE UNCHANGED wsvars
    BY <1>1 DEF wsvars
  <1>2. CASE ClientStep
    <2>1. CASE NoToken
      BY <2>1 DEF NoToken, ClientGoes
    <2>2. CASE TimerFires
      BY <2>2 DEF TimerFires, ClientGoes
    <2>3. CASE SeeClose
      BY <2>3 DEF SeeClose, ClientGoes
    <2>4. CASE Unmount
      BY <2>4 DEF Unmount
    <2>5. QED
      BY <1>2, <2>1, <2>2, <2>3, <2>4 DEF ClientStep
  <1>3. CASE DropAll
    BY <1>3 DEF DropAll
  <1>4. ASSUME NEW s \in Socket, OpenSocket(s)
        PROVE  WsInv'
    BY <1>4 DEF OpenSocket, ClientGoes, Unused
  <1>5. ASSUME NEW s \in Socket, Join(s) \/ Refuse(s) \/ MissClose(s) \/ Leave(s)
        PROVE  WsInv'
    BY <1>5 DEF Join, Refuse, MissClose, Leave, ServerEnd
  <1>6. QED
    BY <1>1, <1>2, <1>3, <1>4, <1>5 DEF WsStep

(* The connection keeps its type and its invariant.                        *)
THEOREM ConnectionInvariant == RealtimeSpec => []WsInv
  <1>1. RealtimeInit => WsInv
    BY DEF RealtimeInit, WsInit, WsInv, WsTypeOK, Path, OneConnectionPerPage
  <1>2. WsInv /\ [RealtimeNext]_realvars => WsInv'
    <2> SUFFICES ASSUME WsInv, [RealtimeNext]_realvars
                 PROVE  WsInv'
      OBVIOUS
    <2>1. WsStep
      BY TrackingIsWsStep, ChatIsWsStep DEF RealtimeNext, realvars, WsStep
    <2>2. QED
      BY <2>1, WsInvStep
  <1>3. QED
    BY <1>1, <1>2, PTL DEF RealtimeSpec, realvars

(* A page never has two open connections, and tries on while it has none,  *)
(* for any number of sockets and whichever route it is on.                 *)
THEOREM PageKeepsOneConnection == RealtimeSpec => []OneConnectionPerPage
  <1>1. WsInv => OneConnectionPerPage
    BY DEF WsInv
  <1>2. QED
    BY <1>1, ConnectionInvariant, PTL

-----------------------------------------------------------------------------
(* Sequences of time stamps.                                               *)

Once(q) == \A i, j \in DOMAIN q : q[i] = q[j] => i = j

(* A time that is at most once in a sequence occurs at most once.          *)
LEMMA OnceCounts ==
  ASSUME NEW q \in Seq(Sample), Once(q), NEW t
  PROVE  Occurrences(t, q) \in 0..1
  <1> DEFINE I == {i \in DOMAIN q : q[i] = t}
  <1>0. Occurrences(t, q) = Cardinality(I)
    BY DEF Occurrences
  <1>1. CASE I = {}
    <2>1. Cardinality(I) = 0
      BY <1>1, FS_EmptySet
    <2>2. QED
      BY <1>0, <2>1
  <1>2. CASE I # {}
    <2>1. PICK i \in I : TRUE
      BY <1>2
    <2>2. I = {i}
      BY <2>1 DEF Once
    <2>3. Cardinality(I) = 1
      BY <2>2, FS_Singleton
    <2>4. QED
      BY <1>0, <2>3
  <1>3. QED
    BY <1>1, <1>2

LEMMA OnlyIfThere ==
  ASSUME NEW q \in Seq(Sample), NEW t
  PROVE  /\ Occurrences(t, q) > 0 => t \in InSeq(q)
         /\ Once(q) /\ t \in InSeq(q) => Occurrences(t, q) = 1
  <1>1. ASSUME t \notin InSeq(q)
        PROVE  Occurrences(t, q) = 0
    <2>1. {i \in DOMAIN q : q[i] = t} = {}
      BY <1>1 DEF InSeq
    <2>2. QED
      BY <2>1, FS_EmptySet DEF Occurrences
  <1>2. ASSUME Once(q), t \in InSeq(q)
        PROVE  Occurrences(t, q) = 1
    <2>1. PICK i \in DOMAIN q : q[i] = t
      BY <1>2 DEF InSeq
    <2>2. {j \in DOMAIN q : q[j] = t} = {i}
      BY <1>2, <2>1 DEF Once
    <2>3. QED
      BY <2>2, FS_Singleton DEF Occurrences
  <1>3. QED
    BY <1>1, <1>2

LEMMA OnceAppended ==
  ASSUME NEW q \in Seq(Sample), NEW t \in Sample
  PROVE  /\ Append(q, t) \in Seq(Sample)
         /\ InSeq(Append(q, t)) = InSeq(q) \cup {t}
         /\ Once(q) /\ t \notin InSeq(q) => Once(Append(q, t))
  <1>1. /\ Append(q, t) \in Seq(Sample)
        /\ DOMAIN Append(q, t) = 1..(Len(q) + 1)
        /\ DOMAIN q = 1..Len(q) /\ Len(q) \in Nat
        /\ \A i \in 1..Len(q) : Append(q, t)[i] = q[i]
        /\ Append(q, t)[Len(q) + 1] = t
    OBVIOUS
  <1>2. \A i \in 1..(Len(q) + 1) : i \in 1..Len(q) \/ i = Len(q) + 1
    BY <1>1
  <1>3. \A i \in 1..Len(q) : i \in 1..(Len(q) + 1)
    BY <1>1
  <1>4. InSeq(Append(q, t)) = InSeq(q) \cup {t}
    BY <1>1, <1>2, <1>3 DEF InSeq
  <1>5. Once(q) /\ t \notin InSeq(q) => Once(Append(q, t))
    BY <1>1, <1>2, <1>3 DEF InSeq, Once
  <1>6. QED
    BY <1>1, <1>4, <1>5

LEMMA OnceConcatenated ==
  ASSUME NEW p \in Seq(Sample), NEW q \in Seq(Sample)
  PROVE  /\ p \o q \in Seq(Sample)
         /\ InSeq(p \o q) = InSeq(p) \cup InSeq(q)
         /\ Once(p) /\ Once(q) /\ InSeq(p) \cap InSeq(q) = {} => Once(p \o q)
  <1>1. /\ p \o q \in Seq(Sample)
        /\ DOMAIN (p \o q) = 1..(Len(p) + Len(q))
        /\ DOMAIN p = 1..Len(p) /\ Len(p) \in Nat
        /\ DOMAIN q = 1..Len(q) /\ Len(q) \in Nat
    OBVIOUS
  <1>2. /\ \A i \in 1..Len(p) : i \in DOMAIN (p \o q) /\ (p \o q)[i] = p[i]
        /\ \A i \in 1..Len(q) : i + Len(p) \in DOMAIN (p \o q) /\ (p \o q)[i + Len(p)] = q[i]
    BY <1>1
  <1>3. \A i \in DOMAIN (p \o q) :
            \/ i \in 1..Len(p) /\ (p \o q)[i] = p[i]
            \/ i - Len(p) \in 1..Len(q) /\ (p \o q)[i] = q[i - Len(p)]
    BY <1>1
  <1>4. InSeq(p \o q) = InSeq(p) \cup InSeq(q)
    BY <1>1, <1>2, <1>3 DEF InSeq
  <1>5. ASSUME Once(p), Once(q), InSeq(p) \cap InSeq(q) = {}
        PROVE  Once(p \o q)
    <2> SUFFICES ASSUME NEW i \in DOMAIN (p \o q), NEW j \in DOMAIN (p \o q),
                        (p \o q)[i] = (p \o q)[j]
                 PROVE  i = j
      BY DEF Once
    <2>1. CASE i \in 1..Len(p) /\ j \in 1..Len(p)
      BY <1>1, <1>2, <1>5, <2>1 DEF Once
    <2>2. CASE i - Len(p) \in 1..Len(q) /\ j - Len(p) \in 1..Len(q)
      <3>1. (p \o q)[i] = q[i - Len(p)] /\ (p \o q)[j] = q[j - Len(p)]
        BY <1>1, <1>3, <2>2
      <3>2. i - Len(p) = j - Len(p)
        BY <1>1, <1>5, <2>2, <3>1 DEF Once
      <3>3. QED
        BY <1>1, <3>2
    <2>3. CASE i \in 1..Len(p) /\ j - Len(p) \in 1..Len(q)
      <3>1. p[i] = q[j - Len(p)]
        BY <1>1, <1>2, <1>3, <2>3
      <3>2. QED
        BY <1>1, <1>5, <2>3, <3>1 DEF InSeq
    <2>4. CASE j \in 1..Len(p) /\ i - Len(p) \in 1..Len(q)
      <3>1. p[j] = q[i - Len(p)]
        BY <1>1, <1>2, <1>3, <2>4
      <3>2. QED
        BY <1>1, <1>5, <2>4, <3>1 DEF InSeq
    <2>5. QED
      BY <1>3, <2>1, <2>2, <2>3, <2>4
  <1>6. QED
    BY <1>1, <1>4, <1>5

-----------------------------------------------------------------------------
(* The trail.  Buffers, flushes and the last sample are parameters here, so *)
(* that a step can be taken in two: the buffer of a socket changes, a flush *)
(* changes.                                                                *)

Upto(n) == {t \in Sample : t <= n}

(* Samples that were sent, none of them twice.                             *)
Clean(q, n) == q \in Seq(Sample) /\ Once(q) /\ InSeq(q) \subseteq Upto(n)

(* A polyline, by how often each sample is in it.                          *)
Dated(p, n) ==
    /\ p \in [Sample -> 0..1]
    /\ \A t \in Sample : p[t] > 0 => t <= n

Apart(p, q) == InSeq(p) \cap InSeq(q) = {}

FlushRecord == [pc : {"idle", "read", "write"}, socket : Socket \cup {NoSocket},
                batch : Seq(Sample), read : [Sample -> Nat]]

(* A flush under way is of a socket; it read a polyline without repeats,   *)
(* of samples that were sent.  One that is over has no batch.              *)
SoundFlush(r, n) ==
    /\ r \in FlushRecord
    /\ r.pc # "idle" => r.socket \in Socket
    /\ r.pc = "idle" => r.batch = <<>>
    /\ Clean(r.batch, n)
    /\ Dated(r.read, n)

(* The buffer of a socket and the batches taken from it, each of which     *)
(* goes back into the buffer when its flush fails, have no time in common. *)
SoundTrail(b, fl, n) ==
    /\ b \in [Socket -> Seq(Sample)]
    /\ fl \in [Flusher -> FlushRecord]
    /\ \A s \in Socket : Clean(b[s], n)
    /\ \A f \in Flusher : SoundFlush(fl[f], n)
    /\ \A f \in Flusher, s \in Socket : fl[f].socket = s => Apart(fl[f].batch, b[s])
    /\ \A f, g \in Flusher, s \in Socket :
          f # g /\ fl[f].socket = s /\ fl[g].socket = s => Apart(fl[f].batch, fl[g].batch)

LEMMA CleanGrows ==
  ASSUME NEW q, NEW n \in Nat, NEW m \in Nat, n <= m, Clean(q, n)
  PROVE  Clean(q, m)
  <1>1. ASSUME NEW t \in Upto(n)
        PROVE  t \in Upto(m)
    <2>1. t \in Sample /\ t \in Nat /\ t <= n
      BY DEF Upto
    <2>2. t <= m
      BY <2>1
    <2>3. QED
      BY <2>1, <2>2 DEF Upto
  <1>2. QED
    BY <1>1 DEF Clean

LEMMA DatedGrows ==
  ASSUME NEW p, NEW n \in Nat, NEW m \in Nat, n <= m, Dated(p, n)
  PROVE  Dated(p, m)
  <1>1. ASSUME NEW t \in Sample, t <= n
        PROVE  t <= m
    BY <1>1, Sample \subseteq Nat
  <1>2. QED
    BY <1>1 DEF Dated

LEMMA NothingIsClean ==
  ASSUME NEW n
  PROVE  Clean(<<>>, n) /\ \A q : Apart(<<>>, q) /\ Apart(q, <<>>)
  <1>1. InSeq(<<>>) = {} /\ Once(<<>>) /\ <<>> \in Seq(Sample)
    BY DEF InSeq, Once
  <1>2. QED
    BY <1>1 DEF Clean, Apart

(* The buffer of socket s becomes q, and the last sample sent m.           *)
LEMMA BufferChanges ==
  ASSUME NEW b, NEW fl, NEW n \in Nat, NEW m \in Nat, n <= m, SoundTrail(b, fl, n),
         NEW s \in Socket, NEW q, Clean(q, m),
         \A f \in Flusher : fl[f].socket = s => Apart(fl[f].batch, q)
  PROVE  SoundTrail([b EXCEPT ![s] = q], fl, m)
  <1> DEFINE c == [b EXCEPT ![s] = q]
  <1>1. b \in [Socket -> Seq(Sample)] /\ q \in Seq(Sample)
    BY DEF SoundTrail, Clean
  <1>2. /\ c \in [Socket -> Seq(Sample)]
        /\ c[s] = q
        /\ \A r \in Socket : r # s => c[r] = b[r]
    BY <1>1
  <1> HIDE DEF c
  <1>3. \A r \in Socket : Clean(c[r], m)
    BY <1>2, CleanGrows DEF SoundTrail
  <1>4. \A f \in Flusher : SoundFlush(fl[f], m)
    BY CleanGrows, DatedGrows DEF SoundTrail, SoundFlush
  <1>5. \A f \in Flusher, r \in Socket : fl[f].socket = r => Apart(fl[f].batch, c[r])
    BY <1>2 DEF SoundTrail
  <1>6. SoundTrail(c, fl, m)
    BY <1>2, <1>3, <1>4, <1>5 DEF SoundTrail
  <1>7. QED
    BY <1>6 DEF c

(* Flush f becomes r.                                                      *)
LEMMA FlushChanges ==
  ASSUME NEW b, NEW fl, NEW n \in Nat, SoundTrail(b, fl, n),
         NEW f \in Flusher, NEW r, SoundFlush(r, n),
         \A s \in Socket : r.socket = s => Apart(r.batch, b[s]),
         \A s \in Socket, g \in Flusher :
             g # f /\ r.socket = s /\ fl[g].socket = s
             => Apart(r.batch, fl[g].batch) /\ Apart(fl[g].batch, r.batch)
  PROVE  SoundTrail(b, [fl EXCEPT ![f] = r], n)
  <1> DEFINE h == [fl EXCEPT ![f] = r]
  <1>1. fl \in [Flusher -> FlushRecord] /\ r \in FlushRecord
    BY DEF SoundTrail, SoundFlush
  <1>2. /\ h \in [Flusher -> FlushRecord]
        /\ h[f] = r
        /\ \A g \in Flusher : g # f => h[g] = fl[g]
    BY <1>1
  <1> HIDE DEF h
  <1>3. \A g \in Flusher : SoundFlush(h[g], n)
    BY <1>2 DEF SoundTrail
  <1>4. \A g \in Flusher, s \in Socket : h[g].socket = s => Apart(h[g].batch, b[s])
    BY <1>2 DEF SoundTrail
  <1>5. \A g, k \in Flusher, s \in Socket :
           g # k /\ h[g].socket = s /\ h[k].socket = s => Apart(h[g].batch, h[k].batch)
    <2> SUFFICES ASSUME NEW g \in Flusher, NEW k \in Flusher, NEW s \in Socket,
                        g # k, h[g].socket = s, h[k].socket = s
                 PROVE  Apart(h[g].batch, h[k].batch)
      OBVIOUS
    <2>1. CASE g = f
      BY <1>2, <2>1
    <2>2. CASE k = f
      BY <1>2, <2>2
    <2>3. CASE g # f /\ k # f
      BY <1>2, <2>3 DEF SoundTrail
    <2>4. QED
      BY <2>1, <2>2, <2>3
  <1>6. SoundTrail(b, h, n)
    BY <1>2, <1>3, <1>4, <1>5 DEF SoundTrail
  <1>7. QED
    BY <1>6 DEF h

LEMMA NoFlushIsSound ==
  ASSUME NEW n
  PROVE  SoundFlush(NoFlush, n) /\ NoFlush.batch = <<>> /\ NoFlush.socket \notin Socket
  <1>1. /\ NoFlush \in FlushRecord /\ NoFlush.batch = <<>> /\ NoFlush.pc = "idle"
        /\ NoFlush.socket = NoSocket /\ Dated(NoFlush.read, n)
    <2>1. <<>> \in Seq(Sample) /\ [t \in Sample |-> 0] \in [Sample -> Nat]
      OBVIOUS
    <2>2. Dated([t \in Sample |-> 0], n)
      BY DEF Dated
    <2>3. QED
      BY <2>1, <2>2 DEF NoFlush, FlushRecord
  <1>2. Clean(<<>>, n)
    BY NothingIsClean
  <1>3. NoFlush.socket \notin Socket
    BY <1>1
  <1>4. QED
    BY <1>1, <1>2, <1>3 DEF SoundFlush

TrailInv ==
    /\ TrackingTypeOK
    /\ SoundTrail(buffer, flush, sent)
    /\ Dated(polyline, sent)
    /\ TrailIsSound

(* The primed invariant, in terms of the primed variables.                 *)
LEMMA TrailInvPrimed ==
  ASSUME walk' \in {"running", "ending", "ended"}, sent' \in Sample \cup {0},
         timer' \in [Socket -> BOOLEAN], failures' \in 0..MaxFailures,
         Dated(polyline', sent'), counted' \in [Sample -> 0..1],
         SoundTrail(buffer', flush', sent')
  PROVE  TrailInv'
  <1>1. SoundTrail(buffer, flush, sent)'
    BY DEF SoundTrail, SoundFlush, FlushRecord, Clean, Apart, Once, InSeq, Upto
  <1>2. Dated(polyline, sent)' /\ polyline' \in [Sample -> 0..1]
    BY DEF Dated
  <1>3. TrackingTypeOK'
    <2>1. polyline' \in [Sample -> Nat] /\ counted' \in [Sample -> Nat]
      BY <1>2
    <2>2. /\ buffer' \in [Socket -> Seq(Sample)]
          /\ flush' \in [Flusher -> FlushRecord]
      BY DEF SoundTrail
    <2>3. QED
      BY <2>1, <2>2 DEF TrackingTypeOK, FlushRecord
  <1>4. TrailIsSound'
    BY <1>2 DEF TrailIsSound
  <1>5. QED
    BY <1>1, <1>2, <1>3, <1>4 DEF TrailInv

LEMMA TrailFacts ==
  ASSUME TrailInv
  PROVE  /\ walk \in {"running", "ending", "ended"} /\ timer \in [Socket -> BOOLEAN]
         /\ failures \in 0..MaxFailures /\ sent \in Sample \cup {0} /\ sent \in Nat
         /\ polyline \in [Sample -> 0..1] /\ counted \in [Sample -> 0..1]
         /\ Dated(polyline, sent) /\ SoundTrail(buffer, flush, sent)
         /\ buffer \in [Socket -> Seq(Sample)] /\ flush \in [Flusher -> FlushRecord]
  <1>1. /\ walk \in {"running", "ending", "ended"} /\ timer \in [Socket -> BOOLEAN]
        /\ failures \in 0..MaxFailures /\ sent \in Sample \cup {0}
        /\ polyline \in [Sample -> Nat] /\ counted \in [Sample -> Nat]
    BY DEF TrailInv, TrackingTypeOK
  <1>2. \A t \in Sample : polyline[t] <= 1 /\ counted[t] <= 1
    BY DEF TrailInv, TrailIsSound
  <1>3. polyline \in [Sample -> 0..1] /\ counted \in [Sample -> 0..1]
    BY <1>1, <1>2
  <1>4. QED
    BY <1>1, <1>3 DEF TrailInv, SoundTrail

(* What flush does with the samples q of socket s, the new one among them. *)
LEMMA BatchTaken ==
  ASSUME TrailInv, NEW s \in Socket, NEW q, sent' \in Nat, sent <= sent', Clean(q, sent'),
         \A f \in Flusher :
             flush[f].socket = s => Apart(flush[f].batch, q) /\ Apart(q, flush[f].batch),
         TakeBatch(s, q)
  PROVE  SoundTrail(buffer', flush', sent') /\ timer' \in [Socket -> BOOLEAN]
  <1>1. buffer' = [buffer EXCEPT ![s] = <<>>] /\ timer' \in [Socket -> BOOLEAN]
    BY TrailFacts DEF TakeBatch
  <1>2. SoundTrail(buffer', flush, sent')
    BY <1>1, TrailFacts, NothingIsClean, BufferChanges
  <1>3. CASE flush' = flush
    BY <1>1, <1>2, <1>3
  <1>4. ASSUME NEW f \in Flusher,
               flush' = [flush EXCEPT ![f] = [@ EXCEPT !.pc = "read", !.socket = s, !.batch = q]]
        PROVE  SoundTrail(buffer', flush', sent')
    <2> DEFINE r == [flush[f] EXCEPT !.pc = "read", !.socket = s, !.batch = q]
    <2>1. flush[f] \in FlushRecord /\ q \in Seq(Sample) /\ Dated(flush[f].read, sent')
      BY TrailFacts, DatedGrows DEF SoundTrail, SoundFlush, Clean
    <2>2. /\ r \in FlushRecord /\ r.pc = "read" /\ r.socket = s /\ r.batch = q
          /\ r.read = flush[f].read
      BY <2>1 DEF FlushRecord
    <2>3. flush' = [flush EXCEPT ![f] = r]
      BY <1>4, TrailFacts
    <2> HIDE DEF r
    <2>4. SoundFlush(r, sent')
      BY <2>1, <2>2 DEF SoundFlush
    <2>5. buffer'[s] = <<>>
      BY <1>1, TrailFacts
    <2>6. Apart(q, <<>>)
      BY NothingIsClean
    <2>7. \A v \in Socket : r.socket = v => Apart(r.batch, buffer'[v])
      BY <2>2, <2>5, <2>6
    <2>8. QED
      BY <1>2, <2>2, <2>3, <2>4, <2>7, FlushChanges
  <1>5. QED
    BY <1>1, <1>3, <1>4 DEF TakeBatch

LEMMA PingKeepsTrail ==
  ASSUME TrailInv, Ping
  PROVE  TrailInv'
  <1> DEFINE s == client.socket
             q == Append(buffer[s], sent + 1)
  <1>1. /\ s \in Socket /\ sent + 1 \in Sample /\ sent' = sent + 1 /\ sent \in Nat
        /\ UNCHANGED <<walk, polyline, counted, failures>>
    BY TrailFacts DEF Ping, Listening
  <1>2. Clean(buffer[s], sent) /\ sent + 1 \notin Upto(sent)
    BY <1>1, TrailFacts DEF SoundTrail, Upto
  <1>3. sent + 1 \in Upto(sent') /\ Clean(buffer[s], sent')
    BY <1>1, <1>2, CleanGrows DEF Upto
  <1>4. InSeq(q) = InSeq(buffer[s]) \cup {sent + 1} /\ Clean(q, sent')
    BY <1>1, <1>2, <1>3, OnceAppended DEF Clean
  <1>5. \A f \in Flusher :
            flush[f].socket = s => Apart(flush[f].batch, q) /\ Apart(q, flush[f].batch)
    <2> SUFFICES ASSUME NEW f \in Flusher, flush[f].socket = s
                 PROVE  Apart(flush[f].batch, q) /\ Apart(q, flush[f].batch)
      OBVIOUS
    <2>1. Apart(flush[f].batch, buffer[s]) /\ InSeq(flush[f].batch) \subseteq Upto(sent)
      BY <1>1, TrailFacts DEF SoundTrail, SoundFlush, Clean
    <2>2. QED
      BY <1>2, <1>4, <2>1 DEF Apart
  <1>6. SoundTrail(buffer', flush', sent') /\ timer' \in [Socket -> BOOLEAN]
    <2>1. CASE TakeBatch(s, q)
      BY <1>1, <1>4, <1>5, <2>1, BatchTaken
    <2>2. CASE /\ buffer' = [buffer EXCEPT ![s] = q]
               /\ timer' = [timer EXCEPT ![s] = TRUE]
               /\ UNCHANGED flush
      <3>0. \A f \in Flusher : flush[f].socket = s => Apart(flush[f].batch, q)
        BY <1>5
      <3>1. sent \in Nat /\ sent' \in Nat /\ sent <= sent' /\ SoundTrail(buffer, flush, sent)
        BY <1>1, TrailFacts
      <3> HIDE DEF s, q
      <3>2. SoundTrail([buffer EXCEPT ![s] = q], flush, sent')
        BY <1>1, <1>4, <3>0, <3>1, BufferChanges
      <3>3. QED
        BY <1>1, <2>2, <3>2, TrailFacts
    <2>3. QED
      BY <2>1, <2>2 DEF Ping
  <1>7. Dated(polyline', sent')
    BY <1>1, TrailFacts, DatedGrows
  <1>8. QED
    BY <1>1, <1>6, <1>7, TrailFacts, TrailInvPrimed

(* A batch of the buffer of s, its timer having fired or s having closed.  *)
LEMMA WholeBufferTaken ==
  ASSUME TrailInv, NEW s \in Socket, TakeBatch(s, buffer[s]),
         UNCHANGED <<walk, polyline, counted, sent, failures>>
  PROVE  TrailInv'
  <1>1. Clean(buffer[s], sent) /\ sent \in Nat
    BY TrailFacts DEF SoundTrail
  <1>2. \A f \in Flusher : flush[f].socket = s
            => Apart(flush[f].batch, buffer[s]) /\ Apart(buffer[s], flush[f].batch)
    BY TrailFacts DEF SoundTrail, Apart
  <1>3. SoundTrail(buffer', flush', sent') /\ timer' \in [Socket -> BOOLEAN]
    BY <1>1, <1>2, BatchTaken
  <1>4. QED
    BY <1>3, TrailFacts, TrailInvPrimed

(* What a flush writes has no time twice either: it was read, or is once   *)
(* in the batch.                                                           *)
LEMMA MergedIsSound ==
  ASSUME TrailInv, NEW f \in Flusher
  PROVE  Dated(Merged(f), sent)
  <1>1. Clean(flush[f].batch, sent) /\ Dated(flush[f].read, sent)
    BY TrailFacts DEF SoundTrail, SoundFlush
  <1>2. \A t \in Sample : Occurrences(t, flush[f].batch) \in 0..1
    BY <1>1, OnceCounts DEF Clean
  <1>3. \A t \in Sample : flush[f].read[t] \in 0..1
    BY <1>1 DEF Dated
  <1>4. ASSUME NEW t \in Sample, Merged(f)[t] > 0
        PROVE  t <= sent
    <2>1. CASE flush[f].read[t] > 0
      BY <1>1, <2>1 DEF Dated
    <2>2. CASE Occurrences(t, flush[f].batch) > 0
      BY <1>1, <2>2, OnlyIfThere DEF Clean, Upto
    <2>3. QED
      BY <1>4, <2>1, <2>2 DEF Merged
  <1>5. QED
    BY <1>2, <1>3, <1>4 DEF Merged, Dated

LEMMA FlushEnds ==
  ASSUME TrailInv, NEW f \in Flusher
  PROVE  SoundTrail(buffer, [flush EXCEPT ![f] = NoFlush], sent)
  <1>1. sent \in Nat /\ SoundTrail(buffer, flush, sent)
    BY TrailFacts
  <1>2. SoundFlush(NoFlush, sent) /\ \A s \in Socket : NoFlush.socket # s
    BY NoFlushIsSound
  <1>3. QED
    BY <1>1, <1>2, FlushChanges

LEMMA FlushReadKeepsTrail ==
  ASSUME TrailInv, NEW f \in Flusher, FlushRead(f)
  PROVE  TrailInv'
  <1> DEFINE r == [flush[f] EXCEPT !.pc = "write", !.read = polyline]
  <1>1. SoundTrail(buffer, flush', sent)
    <2>1. CASE flush' = [flush EXCEPT ![f] = NoFlush]
      BY <2>1, FlushEnds
    <2>2. CASE flush' = [flush EXCEPT ![f].pc = "write", ![f].read = polyline]
      <3>1. flush[f] \in FlushRecord /\ SoundFlush(flush[f], sent) /\ sent \in Nat
        BY TrailFacts DEF SoundTrail
      <3>2. polyline \in [Sample -> Nat] /\ Dated(polyline, sent)
        BY TrailFacts
      <3>3. /\ r \in FlushRecord /\ r.socket = flush[f].socket /\ r.batch = flush[f].batch
            /\ r.read = polyline /\ r.pc = "write"
        BY <3>1, <3>2 DEF FlushRecord
      <3>4. flush' = [flush EXCEPT ![f] = r]
        BY <2>2, TrailFacts
      <3> HIDE DEF r
      <3>5. SoundFlush(r, sent)
        BY <3>1, <3>2, <3>3 DEF SoundFlush, FlushRead
      <3>6. \A s \in Socket : r.socket = s => Apart(r.batch, buffer[s])
        BY <3>3, TrailFacts DEF SoundTrail
      <3>7. \A s \in Socket, g \in Flusher :
                g # f /\ r.socket = s /\ flush[g].socket = s
                => Apart(r.batch, flush[g].batch) /\ Apart(flush[g].batch, r.batch)
        BY <3>3, TrailFacts DEF SoundTrail
      <3>8. SoundTrail(buffer, [flush EXCEPT ![f] = r], sent)
        BY <3>1, <3>5, <3>6, <3>7, TrailFacts, FlushChanges
      <3>9. QED
        BY <3>4, <3>8
    <2>3. QED
      BY <2>1, <2>2 DEF FlushRead, EndFlush
  <1>2. QED
    BY <1>1, TrailFacts, TrailInvPrimed DEF FlushRead

LEMMA FlushWriteKeepsTrail ==
  ASSUME TrailInv, NEW f \in Flusher, FlushWrite(f)
  PROVE  TrailInv'
  <1>1. SoundTrail(buffer', flush', sent') /\ Dated(polyline', sent')
    BY MergedIsSound, FlushEnds DEF FlushWrite, EndFlush
  <1>2. QED
    BY <1>1, TrailFacts, TrailInvPrimed DEF FlushWrite

LEMMA FlushFailsKeepsTrail ==
  ASSUME TrailInv, NEW f \in Flusher, FlushFails(f)
  PROVE  TrailInv'
  <1> DEFINE s == flush[f].socket
             p == flush[f].batch
             h == [flush EXCEPT ![f] = NoFlush]
  <1>1. /\ s \in Socket /\ Clean(p, sent) /\ Clean(buffer[s], sent) /\ sent \in Nat
        /\ Apart(p, buffer[s])
        /\ \A g \in Flusher : g # f /\ flush[g].socket = s
              => Apart(flush[g].batch, p) /\ Apart(flush[g].batch, buffer[s])
    BY TrailFacts DEF SoundTrail, SoundFlush, FlushFails
  <1>2. InSeq(p \o buffer[s]) = InSeq(p) \cup InSeq(buffer[s]) /\ Clean(p \o buffer[s], sent)
    BY <1>1, OnceConcatenated DEF Clean, Apart
  <1>3. \A g \in Flusher : h[g].socket = s => g # f /\ h[g] = flush[g]
    BY <1>1, TrailFacts, NoFlushIsSound
  <1>4. \A g \in Flusher : h[g].socket = s => Apart(h[g].batch, p \o buffer[s])
    BY <1>1, <1>2, <1>3 DEF Apart
  <1>5. SoundTrail(buffer, h, sent)
    BY FlushEnds
  <1>6. buffer' = [buffer EXCEPT ![s] = p \o buffer[s]] /\ flush' = h
    BY <1>1, TrailFacts DEF FlushFails, EndFlush
  <1>7. Dated(polyline', sent') /\ failures' \in 0..MaxFailures
    BY TrailFacts, MergedIsSound DEF FlushFails
  <1>8. SoundTrail(buffer', flush', sent)
    <2> DEFINE q == p \o buffer[s]
    <2>1. Clean(q, sent) /\ \A g \in Flusher : h[g].socket = s => Apart(h[g].batch, q)
      BY <1>2, <1>4
    <2>2. sent \in Nat /\ sent <= sent /\ s \in Socket
      BY <1>1
    <2> HIDE DEF s, p, h, q
    <2>3. SoundTrail([buffer EXCEPT ![s] = q], h, sent)
      BY <1>5, <2>1, <2>2, BufferChanges
    <2>4. QED
      BY <1>6, <2>3 DEF q
  <1>9. QED
    BY <1>7, <1>8, TrailFacts, TrailInvPrimed DEF FlushFails

(* Init, and what a restart leaves.                                        *)
LEMMA EmptyIsSound ==
  ASSUME NEW n
  PROVE  SoundTrail([s \in Socket |-> <<>>], [f \in Flusher |-> NoFlush], n)
  BY NothingIsClean, NoFlushIsSound DEF SoundTrail, SoundFlush, Clean

LEMMA RestartKeepsTrail ==
  ASSUME TrailInv, RestartTracking
  PROVE  TrailInv'
  <1>1. SoundTrail(buffer', flush', sent')
    BY EmptyIsSound DEF RestartTracking
  <1>2. counted' \in [Sample -> 0..1] /\ failures' \in 0..MaxFailures
    BY TrailFacts DEF RestartTracking
  <1>3. timer' \in [Socket -> BOOLEAN] /\ walk' \in {"running", "ending", "ended"}
    BY TrailFacts DEF RestartTracking
  <1>4. QED
    BY <1>1, <1>2, <1>3, TrailFacts, TrailInvPrimed DEF RestartTracking

(* Nothing is taken: buffers, timers and flushes stay as they are.         *)
LEMMA LosePingKeepsTrail ==
  ASSUME TrailInv, LosePing
  PROVE  TrailInv'
  <1>1. sent \in Nat /\ sent' \in Nat /\ sent <= sent' /\ sent' \in Sample
    BY TrailFacts DEF LosePing
  <1>2. SoundTrail(buffer, flush, sent') /\ Dated(polyline, sent')
    <2>1. \A q : Clean(q, sent) => Clean(q, sent')
      BY <1>1, TrailFacts, CleanGrows
    <2>2. \A q : Dated(q, sent) => Dated(q, sent')
      BY <1>1, TrailFacts, DatedGrows
    <2>3. QED
      BY <2>1, <2>2, TrailFacts DEF SoundTrail, SoundFlush
  <1>3. QED
    BY <1>1, <1>2, TrailFacts, TrailInvPrimed DEF LosePing

LEMMA EndKeepsTrail ==
  ASSUME TrailInv, EndRead \/ EndWrite
  PROVE  TrailInv'
  BY TrailFacts, TrailInvPrimed DEF EndRead, EndWrite

LEMMA OthersKeepTrail ==
  ASSUME TrailInv, UNCHANGED trackvars
  PROVE  TrailInv'
  BY TrailFacts, TrailInvPrimed DEF trackvars

(* The trail keeps its type and its invariant.                             *)
THEOREM TrailInvariant == RealtimeSpec => []TrailInv
  <1>1. RealtimeInit => TrailInv
    <2> SUFFICES ASSUME RealtimeInit
                 PROVE  TrailInv
      OBVIOUS
    <2>1. SoundTrail(buffer, flush, sent) /\ Dated(polyline, sent)
      BY EmptyIsSound DEF RealtimeInit, TrackingInit, Dated
    <2>2. TrackingTypeOK /\ TrailIsSound
      BY <2>1 DEF RealtimeInit, TrackingInit, TrackingTypeOK, TrailIsSound, SoundTrail, FlushRecord
    <2>3. QED
      BY <2>1, <2>2 DEF TrailInv
  <1>2. TrailInv /\ [RealtimeNext]_realvars => TrailInv'
    <2> SUFFICES ASSUME TrailInv, [RealtimeNext]_realvars
                 PROVE  TrailInv'
      OBVIOUS
    <2>1. CASE LosePing \/ Ping \/ EndRead \/ EndWrite \/ RestartTracking
      BY <2>1, LosePingKeepsTrail, PingKeepsTrail, EndKeepsTrail, RestartKeepsTrail
    <2>2. CASE UNCHANGED trackvars
      BY <2>2, OthersKeepTrail
    <2>3. ASSUME NEW s \in Socket, LeaveTracking(s) \/ FlushTimer(s)
          PROVE  TrailInv'
      BY <2>3, WholeBufferTaken DEF LeaveTracking, FlushTimer
    <2>4. ASSUME NEW f \in Flusher, FlushStep(f) \/ FlushFails(f)
          PROVE  TrailInv'
      BY <2>4, FlushReadKeepsTrail, FlushWriteKeepsTrail, FlushFailsKeepsTrail DEF FlushStep
    <2>5. CASE TrackingNext
      BY <2>1, <2>2, <2>3, <2>4, <2>5
         DEF TrackingNext, ClientTracking, OpenTracking, JoinTracking, RefuseTracking,
             MissCloseTracking
    <2>6. QED
      BY <2>2, <2>5 DEF RealtimeNext, realvars
  <1>3. QED
    BY <1>1, <1>2, PTL DEF RealtimeSpec, realvars

(* No sample is twice in the polyline or in the distance, for any number   *)
(* of samples, sockets, flushes at once, failing statements and restarts.  *)
THEOREM NoSampleTwice == RealtimeSpec => []TrailIsSound
  <1>1. TrailInv => TrailIsSound
    BY DEF TrailInv
  <1>2. QED
    BY <1>1, TrailInvariant, PTL

-----------------------------------------------------------------------------
(* The refinement of WalkTrail.                                            *)

(* What is in the buffers and the batches, stored or not.                  *)
Loaded(b, fl) ==
    {t \in Sample : \/ \E s \in Socket : t \in InSeq(b[s])
                    \/ \E f \in Flusher : t \in InSeq(fl[f].batch)}

In(p) == {t \in Sample : p[t] > 0}

Seen(fl) == {In(fl[f].read) : f \in {g \in Flusher : fl[g].pc = "write"}}

LEMMA LoadedIsUnion ==
  ASSUME NEW b, NEW fl, NEW n, SoundTrail(b, fl, n)
  PROVE  (UNION {InSeq(b[s]) : s \in Socket}) \cup (UNION {InSeq(fl[f].batch) : f \in Flusher})
            = Loaded(b, fl)
  <1> DEFINE B == UNION {InSeq(b[s]) : s \in Socket}
             F == UNION {InSeq(fl[f].batch) : f \in Flusher}
  <1>1. /\ \A s \in Socket : InSeq(b[s]) \subseteq Sample
        /\ \A f \in Flusher : InSeq(fl[f].batch) \subseteq Sample
    BY DEF SoundTrail, SoundFlush, Clean, Upto
  <1>2. \A t : t \in B <=> \E s \in Socket : t \in InSeq(b[s])
    OBVIOUS
  <1>3. \A t : t \in F <=> \E f \in Flusher : t \in InSeq(fl[f].batch)
    OBVIOUS
  <1> HIDE DEF B, F
  <1>4. B \cup F = Loaded(b, fl)
    BY <1>1, <1>2, <1>3 DEF Loaded
  <1>5. QED
    BY <1>4 DEF B, F

LEMMA MappedNow ==
  ASSUME TrailInv
  PROVE  Held = Loaded(buffer, flush) \ In(polyline) /\ Stored = In(polyline) /\ Views = Seen(flush)
  <1>1. SoundTrail(buffer, flush, sent)
    BY TrailFacts
  <1>2. Stored = In(polyline) /\ Views = Seen(flush)
    BY DEF Stored, In, Views, Seen
  <1>3. Held = Loaded(buffer, flush) \ In(polyline)
    BY <1>1, <1>2, LoadedIsUnion DEF Held
  <1>4. QED
    BY <1>2, <1>3

LEMMA MappedNext ==
  ASSUME TrailInv'
  PROVE  /\ Held' = Loaded(buffer', flush') \ In(polyline')
         /\ Stored' = In(polyline')
         /\ Views' = Seen(flush')
  <1>1. SoundTrail(buffer', flush', sent')
    BY DEF TrailInv, SoundTrail, SoundFlush, FlushRecord, Clean, Apart, Once, InSeq, Upto, Dated
  <1>2. Stored' = In(polyline') /\ Views' = Seen(flush')
    BY DEF Stored, In, Views, Seen
  <1>3. Held' = ((UNION {InSeq(buffer'[s]) : s \in Socket})
                   \cup (UNION {InSeq(flush'[f].batch) : f \in Flusher})) \ Stored'
    BY DEF Held, InSeq
  <1>4. Held' = Loaded(buffer', flush') \ In(polyline')
    BY <1>1, <1>2, <1>3, LoadedIsUnion
  <1>5. QED
    BY <1>2, <1>4

(* The views of the other flushes.                                         *)
LEMMA SeenExcept ==
  ASSUME NEW fl, NEW h, NEW f \in Flusher, \A g \in Flusher : g # f => h[g] = fl[g]
  PROVE  /\ fl[f].pc # "write" /\ h[f].pc # "write" => Seen(h) = Seen(fl)
         /\ fl[f].pc # "write" /\ h[f].pc = "write" => Seen(h) = Seen(fl) \cup {In(h[f].read)}
         /\ fl[f].pc = "write" /\ h[f].pc # "write" =>
               /\ In(fl[f].read) \in Seen(fl)
               /\ Seen(h) \in {Seen(fl), Seen(fl) \ {In(fl[f].read)}}
  <1> DEFINE Rest == {In(fl[g].read) : g \in {k \in Flusher \ {f} : fl[k].pc = "write"}}
  <1>1. h[f].pc = "write" => Seen(h) = Rest \cup {In(h[f].read)}
    BY DEF Seen
  <1>2. h[f].pc # "write" => Seen(h) = Rest
    BY DEF Seen
  <1>3. fl[f].pc = "write" => Seen(fl) = Rest \cup {In(fl[f].read)}
    BY DEF Seen
  <1>4. fl[f].pc # "write" => Seen(fl) = Rest
    BY DEF Seen
  <1> HIDE DEF Rest
  <1>5. QED
    BY <1>1, <1>2, <1>3, <1>4

(* A batch that contains what was buffered goes from a buffer to a flush.  *)
LEMMA BatchTakenMaps ==
  ASSUME TrailInv, NEW s \in Socket, NEW q \in Seq(Sample), InSeq(buffer[s]) \subseteq InSeq(q),
         TakeBatch(s, q)
  PROVE  Loaded(buffer', flush') = Loaded(buffer, flush) \cup InSeq(q) /\ Seen(flush') = Seen(flush)
  <1>0. InSeq(<<>>) = {} /\ InSeq(q) \subseteq Sample
    BY DEF InSeq
  <1>1. buffer' = [buffer EXCEPT ![s] = <<>>] /\ InSeq(<<>>) = {} /\ InSeq(q) \subseteq Sample
    BY <1>0 DEF TakeBatch
  <1>2. InSeq(buffer'[s]) = {} /\ \A r \in Socket : r # s => buffer'[r] = buffer[r]
    BY <1>1, TrailFacts
  <1>3. CASE q = <<>> /\ flush' = flush
    BY <1>1, <1>2, <1>3 DEF Loaded
  <1>4. ASSUME NEW f \in Flusher, flush[f].pc = "idle",
               flush' = [flush EXCEPT ![f] = [@ EXCEPT !.pc = "read", !.socket = s, !.batch = q]]
        PROVE  /\ Loaded(buffer', flush') = Loaded(buffer, flush) \cup InSeq(q)
               /\ Seen(flush') = Seen(flush)
    <2>1. flush[f] \in FlushRecord /\ InSeq(flush[f].batch) = {}
      BY <1>1, <1>4, TrailFacts DEF SoundTrail, SoundFlush
    <2>2. flush'[f].pc = "read" /\ flush'[f].batch = q
      BY <1>4, <2>1, TrailFacts DEF FlushRecord
    <2>3. \A g \in Flusher : g # f => flush'[g] = flush[g]
      BY <1>4, TrailFacts
    <2>4. Loaded(buffer', flush') = Loaded(buffer, flush) \cup InSeq(q)
      BY <1>1, <1>2, <2>1, <2>2, <2>3 DEF Loaded
    <2>5. Seen(flush') = Seen(flush)
      <3>1. flush[f].pc # "write" /\ flush'[f].pc # "write"
        BY <1>4, <2>2
      <3>2. QED
        BY <2>3, <3>1, SeenExcept
    <2>6. QED
      BY <2>4, <2>5
  <1>5. QED
    BY <1>3, <1>4 DEF TakeBatch

LEMMA PingMaps ==
  ASSUME TrailInv, TrailInv', Ping
  PROVE  Trail!Accept(sent + 1) /\ sent + 1 \in Sample
  <1> DEFINE s == client.socket
             q == Append(buffer[s], sent + 1)
  <1>1. s \in Socket /\ sent + 1 \in Sample /\ polyline' = polyline /\ sent \in Nat
    BY TrailFacts DEF Ping, Listening
  <1>2. sent + 1 \notin Loaded(buffer, flush) /\ sent + 1 \notin In(polyline)
    <2>1. ~(sent + 1 <= sent)
      BY <1>1
    <2>2. QED
      BY <2>1, TrailFacts DEF SoundTrail, SoundFlush, Clean, Upto, Dated, Loaded, In
  <1>3. buffer[s] \in Seq(Sample)
    BY <1>1, TrailFacts
  <1>4. q \in Seq(Sample) /\ InSeq(q) = InSeq(buffer[s]) \cup {sent + 1}
    BY <1>1, <1>3, OnceAppended
  <1>5. InSeq(buffer[s]) \subseteq Loaded(buffer, flush)
    BY <1>1, TrailFacts DEF SoundTrail, Clean, Upto, Loaded
  <1>6. /\ Loaded(buffer', flush') = Loaded(buffer, flush) \cup {sent + 1}
        /\ Seen(flush') = Seen(flush)
    <2>1. CASE TakeBatch(s, q)
      BY <1>1, <1>4, <1>5, <2>1, BatchTakenMaps
    <2>2. CASE buffer' = [buffer EXCEPT ![s] = q] /\ UNCHANGED flush
      <3>1. buffer'[s] = q /\ \A r \in Socket : r # s => buffer'[r] = buffer[r]
        BY <1>1, <2>2, TrailFacts
      <3>2. Loaded(buffer', flush') = Loaded(buffer, flush) \cup {sent + 1}
        BY <1>1, <1>4, <2>2, <3>1 DEF Loaded
      <3>3. QED
        BY <2>2, <3>2
    <2>3. QED
      BY <2>1, <2>2 DEF Ping
  <1>7. QED
    BY <1>1, <1>2, <1>6, MappedNow, MappedNext DEF Trail!Accept

LEMMA WholeBufferMaps ==
  ASSUME TrailInv, TrailInv', NEW s \in Socket, TakeBatch(s, buffer[s]), UNCHANGED polyline
  PROVE  UNCHANGED <<Held, Stored, Views>>
  <1>1. buffer[s] \in Seq(Sample) /\ InSeq(buffer[s]) \subseteq Loaded(buffer, flush)
    BY TrailFacts DEF SoundTrail, Clean, Upto, Loaded
  <1>2. Loaded(buffer', flush') = Loaded(buffer, flush) /\ Seen(flush') = Seen(flush)
    BY <1>1, BatchTakenMaps
  <1>3. QED
    BY <1>2, MappedNow, MappedNext

(* A batch with nothing new in it is forgotten: it was not held any more.  *)
LEMMA FlushReadMaps ==
  ASSUME TrailInv, TrailInv', NEW f \in Flusher, FlushRead(f)
  PROVE  Trail!Look \/ UNCHANGED <<Held, Stored, Views>>
  <1>1. flush[f] \in FlushRecord /\ flush[f].pc # "write"
    BY TrailFacts DEF FlushRead
  <1>2. CASE flush' = [flush EXCEPT ![f].pc = "write", ![f].read = polyline]
    <2>1. /\ flush'[f].pc = "write" /\ flush'[f].read = polyline
          /\ flush'[f].batch = flush[f].batch
          /\ \A g \in Flusher : g # f => flush'[g] = flush[g]
      BY <1>1, <1>2, TrailFacts DEF FlushRecord
    <2>2. Loaded(buffer', flush') = Loaded(buffer, flush)
      <3>1. \A g \in Flusher : flush'[g].batch = flush[g].batch
        BY <2>1
      <3>2. QED
        BY <3>1 DEF Loaded, FlushRead
    <2>3. Seen(flush') = Seen(flush) \cup {In(polyline)}
      BY <1>1, <2>1, SeenExcept
    <2>4. QED
      BY <2>2, <2>3, MappedNow, MappedNext DEF Trail!Look, FlushRead
  <1>3. CASE /\ flush' = [flush EXCEPT ![f] = NoFlush]
             /\ \A t \in InSeq(flush[f].batch) : polyline[t] > 0
    <2>1. /\ flush'[f].pc # "write" /\ InSeq(flush'[f].batch) = {}
          /\ \A g \in Flusher : g # f => flush'[g] = flush[g]
      BY <1>3, TrailFacts DEF NoFlush, InSeq
    <2>2. buffer' = buffer /\ polyline' = polyline
      BY DEF FlushRead
    <2>3. Loaded(buffer', flush') \ In(polyline) = Loaded(buffer, flush) \ In(polyline)
      BY <1>3, <2>1, <2>2 DEF Loaded, In
    <2>4. Seen(flush') = Seen(flush)
      BY <1>1, <2>1, SeenExcept
    <2>5. QED
      BY <2>2, <2>3, <2>4, MappedNow, MappedNext
  <1>4. QED
    BY <1>2, <1>3 DEF FlushRead, EndFlush

LEMMA MergedMaps ==
  ASSUME TrailInv, NEW f \in Flusher
  PROVE  /\ In(Merged(f)) = In(flush[f].read) \cup InSeq(flush[f].batch)
         /\ InSeq(flush[f].batch) \subseteq Loaded(buffer, flush)
  <1>1. Clean(flush[f].batch, sent) /\ Dated(flush[f].read, sent)
    BY TrailFacts DEF SoundTrail, SoundFlush
  <1>2. InSeq(flush[f].batch) \subseteq Sample
    BY <1>1 DEF Clean, Upto
  <1>3. ASSUME NEW t \in Sample
        PROVE  Merged(f)[t] > 0 <=> flush[f].read[t] > 0 \/ t \in InSeq(flush[f].batch)
    <2>1. CASE flush[f].read[t] > 0
      BY <2>1 DEF Merged
    <2>2. CASE ~(flush[f].read[t] > 0)
      <3>1. Merged(f)[t] = Occurrences(t, flush[f].batch)
        BY <2>2 DEF Merged
      <3>2. Merged(f)[t] > 0 <=> t \in InSeq(flush[f].batch)
        BY <1>1, <3>1, OnlyIfThere DEF Clean
      <3>3. QED
        BY <2>2, <3>2
    <2>3. QED
      BY <2>1, <2>2
  <1>4. In(Merged(f)) = In(flush[f].read) \cup InSeq(flush[f].batch)
    BY <1>2, <1>3 DEF In
  <1>5. QED
    BY <1>2, <1>4 DEF Loaded

(* The batch of f is written over what f has read, and is gone or kept.    *)
LEMMA StoreMaps ==
  ASSUME TrailInv, TrailInv', NEW f \in Flusher, flush[f].pc = "write",
         polyline' = Merged(f), flush' = [flush EXCEPT ![f] = NoFlush],
         Loaded(buffer, flush) \ InSeq(flush[f].batch) \subseteq Loaded(buffer', flush'),
         Loaded(buffer', flush') \subseteq Loaded(buffer, flush)
  PROVE  Trail!Next
  <1> DEFINE v == In(flush[f].read)
             S == InSeq(flush[f].batch)
  <1>1. Stored' = v \cup S /\ S \subseteq Loaded(buffer, flush) /\ S \subseteq Sample
    BY MergedMaps, MappedNext DEF Loaded
  <1>2. /\ v \in Seen(flush)
        /\ Seen(flush') \in {Seen(flush), Seen(flush) \ {v}}
    <2>1. flush'[f].pc # "write" /\ \A g \in Flusher : g # f => flush'[g] = flush[g]
      BY TrailFacts DEF NoFlush
    <2>2. QED
      BY <2>1, SeenExcept
  <1>3. /\ Held = Loaded(buffer, flush) \ Stored
        /\ Held' = Loaded(buffer', flush') \ Stored'
        /\ Views = Seen(flush) /\ Views' = Seen(flush')
    BY MappedNow, MappedNext
  <1> HIDE DEF v, S
  <1>4. Held \ Stored' \subseteq Held' /\ Held' \subseteq (Held \cup Stored) \ Stored'
    <2>1. Loaded(buffer, flush) \ S \subseteq Loaded(buffer', flush')
      BY DEF S
    <2>2. QED
      BY <1>1, <1>3, <2>1
  <1>5. S \subseteq Held \cup Stored
    BY <1>1, <1>3
  <1>6. Trail!Store(v, S) /\ v \in Views
    BY <1>1, <1>2, <1>3, <1>4, <1>5 DEF Trail!Store
  <1>7. QED
    BY <1>1, <1>6 DEF Trail!Next

LEMMA FlushWriteMaps ==
  ASSUME TrailInv, TrailInv', NEW f \in Flusher, FlushWrite(f)
  PROVE  Trail!Next
  <1>1. flush' = [flush EXCEPT ![f] = NoFlush] /\ buffer' = buffer
    BY DEF FlushWrite, EndFlush
  <1>2. InSeq(flush'[f].batch) = {} /\ \A g \in Flusher : g # f => flush'[g] = flush[g]
    BY <1>1, TrailFacts DEF NoFlush, InSeq
  <1>3. /\ Loaded(buffer, flush) \ InSeq(flush[f].batch) \subseteq Loaded(buffer', flush')
        /\ Loaded(buffer', flush') \subseteq Loaded(buffer, flush)
    BY <1>1, <1>2 DEF Loaded
  <1>4. QED
    BY <1>1, <1>3, StoreMaps DEF FlushWrite

LEMMA FlushFailsMaps ==
  ASSUME TrailInv, TrailInv', NEW f \in Flusher, FlushFails(f)
  PROVE  Trail!Next \/ UNCHANGED <<Held, Stored, Views>>
  <1> DEFINE s == flush[f].socket
             p == flush[f].batch
  <1>1. /\ s \in Socket /\ p \in Seq(Sample) /\ buffer[s] \in Seq(Sample)
        /\ flush' = [flush EXCEPT ![f] = NoFlush]
        /\ buffer' = [buffer EXCEPT ![s] = p \o buffer[s]]
    BY TrailFacts DEF FlushFails, EndFlush, SoundTrail, SoundFlush, Clean
  <1>2. /\ InSeq(flush'[f].batch) = {} /\ flush'[f].pc # "write"
        /\ \A g \in Flusher : g # f => flush'[g] = flush[g]
    BY <1>1, TrailFacts DEF NoFlush, InSeq
  <1>3. /\ InSeq(buffer'[s]) = InSeq(p) \cup InSeq(buffer[s])
        /\ \A r \in Socket : r # s => buffer'[r] = buffer[r]
    BY <1>1, TrailFacts, OnceConcatenated
  <1>4. Loaded(buffer', flush') = Loaded(buffer, flush)
    <2> HIDE DEF s
    <2>1. QED
      BY <1>1, <1>2, <1>3 DEF Loaded
  <1>5. CASE polyline' = Merged(f) /\ flush[f].pc = "write"
    BY <1>1, <1>4, <1>5, StoreMaps
  <1>6. CASE polyline' = polyline /\ flush[f].pc = "write"
    <2> DEFINE v == In(flush[f].read)
    <2>1. v \in Seen(flush) /\ Seen(flush') \in {Seen(flush), Seen(flush) \ {v}}
      BY <1>2, <1>6, SeenExcept
    <2>2. UNCHANGED <<Held, Stored>>
      BY <1>4, <1>6, MappedNow, MappedNext
    <2>3. v \in Views /\ (Views' = Views \/ Views' = Views \ {v})
      BY <2>1, MappedNow, MappedNext
    <2> HIDE DEF v
    <2>4. QED
      BY <2>2, <2>3 DEF Trail!Next, Trail!GiveUp
  <1>7. CASE polyline' = polyline /\ flush[f].pc # "write"
    <2>1. Seen(flush') = Seen(flush)
      BY <1>2, <1>7, SeenExcept
    <2>2. QED
      BY <1>4, <1>7, <2>1, MappedNow, MappedNext
  <1>8. QED
    BY <1>5, <1>6, <1>7 DEF FlushFails

LEMMA RestartMaps ==
  ASSUME TrailInv, TrailInv', RestartTracking
  PROVE  Trail!Crash
  <1>1. Loaded(buffer', flush') = {} /\ Seen(flush') = {}
    BY DEF RestartTracking, NoFlush, Loaded, Seen, InSeq
  <1>2. QED
    BY <1>1, MappedNow, MappedNext DEF Trail!Crash, RestartTracking

LEMMA OthersMap ==
  ASSUME TrailInv, TrailInv', UNCHANGED <<polyline, buffer, flush>>
  PROVE  UNCHANGED <<Held, Stored, Views>>
  BY MappedNow, MappedNext

(* Live tracking is a walk trail: whatever overlaps, fails or restarts, a  *)
(* sample shown to the room is held until it is stored, and only a flush   *)
(* with an older view of the polyline undoes what was stored.              *)
THEOREM TrackingImplementsTrail == RealtimeSpec => ImplementsTrail
  <1>1. RealtimeInit => Trail!Init
    BY DEF RealtimeInit, TrackingInit, Trail!Init, NoFlush, Held, Stored, Views, InSeq
  <1>2. TrailInv /\ TrailInv' /\ [RealtimeNext]_realvars => [Trail!Next]_<<Held, Stored, Views>>
    <2> SUFFICES ASSUME TrailInv, TrailInv', [RealtimeNext]_realvars
                 PROVE  [Trail!Next]_<<Held, Stored, Views>>
      OBVIOUS
    <2>1. CASE Ping
      BY <2>1, PingMaps DEF Trail!Next
    <2>2. CASE RestartTracking
      BY <2>2, RestartMaps DEF Trail!Next
    <2>3. CASE LosePing \/ EndRead \/ EndWrite \/ UNCHANGED trackvars
      BY <2>3, OthersMap DEF LosePing, EndRead, EndWrite, trackvars
    <2>4. ASSUME NEW s \in Socket, LeaveTracking(s) \/ FlushTimer(s)
          PROVE  UNCHANGED <<Held, Stored, Views>>
      BY <2>4, WholeBufferMaps DEF LeaveTracking, FlushTimer
    <2>5. ASSUME NEW f \in Flusher, FlushStep(f) \/ FlushFails(f)
          PROVE  Trail!Next \/ UNCHANGED <<Held, Stored, Views>>
      BY <2>5, FlushReadMaps, FlushWriteMaps, FlushFailsMaps DEF FlushStep, Trail!Next
    <2>6. CASE TrackingNext
      BY <2>1, <2>2, <2>3, <2>4, <2>5, <2>6
         DEF TrackingNext, ClientTracking, OpenTracking, JoinTracking, RefuseTracking,
             MissCloseTracking
    <2>7. QED
      BY <2>3, <2>6 DEF RealtimeNext, realvars
  <1>3. QED
    BY <1>1, <1>2, TrailInvariant, PTL DEF RealtimeSpec, realvars, ImplementsTrail, Trail!Spec

=============================================================================
