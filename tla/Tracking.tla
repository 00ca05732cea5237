-------------------------------- MODULE Tracking --------------------------------
(***************************************************************************)
(* Live tracking of one walk: the provider's page sends samples, the       *)
(* tracking gateway shows them to the room at once, buffers them per       *)
(* socket and flushes the buffers to walks.polyline; end computes the      *)
(* distance from what is stored.                                           *)
(*                                                                         *)
(* A sample is its time stamp.  A flush is a handler of its own: two       *)
(* statements, read the polyline and write it back, either of which may    *)
(* fail.                                                                   *)
(***************************************************************************)
EXTENDS WsRoute

CONSTANTS
    Sample,         \* time stamps, 1..n
    BatchSize,      \* FLUSH_BATCH_SIZE, 50
    Flusher,        \* flushes that may be under way at once
    MaxFailures     \* bound of the statements that fail

ASSUME TrackingAssumption ==
    /\ Sample \subseteq Nat \ {0}
    /\ BatchSize \in Nat \ {0}
    /\ MaxFailures \in Nat

VARIABLES
    walk,           \* "running", "ending" (inside the transaction of end) or "ended"
    polyline,       \* walks.polyline: how often each sample is in it
    counted,        \* the samples the distance was computed from
    sent,           \* the last sample the phone took
    buffer,         \* ProviderState.buffer of each socket
    timer,          \* ProviderState.timer of each socket is set
    flush,          \* the flushes under way
    failures

trackvars == <<walk, polyline, counted, sent, buffer, timer, flush, failures>>

-----------------------------------------------------------------------------
NoFlush == [pc |-> "idle", socket |-> NoSocket, batch |-> <<>>, read |-> [t \in Sample |-> 0]]

TrackingTypeOK ==
    /\ walk \in {"running", "ending", "ended"}
    /\ polyline \in [Sample -> Nat]
    /\ counted \in [Sample -> Nat]
    /\ sent \in Sample \cup {0}
    /\ buffer \in [Socket -> Seq(Sample)]
    /\ timer \in [Socket -> BOOLEAN]
    /\ flush \in [Flusher -> [pc : {"idle", "read", "write"}, socket : Socket \cup {NoSocket},
                              batch : Seq(Sample), read : [Sample -> Nat]]]
    /\ failures \in 0..MaxFailures

InSeq(q) == {q[i] : i \in DOMAIN q}

Occurrences(t, q) == Cardinality({i \in DOMAIN q : q[i] = t})

(* flush: the timer is cleared, the buffer taken and the statements begin. *)
(* Bound: it waits until one of the flushers is free.                      *)
TakeBatch(s, samples) ==
    /\ timer' = [timer EXCEPT ![s] = FALSE]
    /\ buffer' = [buffer EXCEPT ![s] = <<>>]
    /\ IF samples = <<>>
       THEN UNCHANGED flush
       ELSE \E f \in Flusher :
               /\ flush[f].pc = "idle"
               /\ flush' = [flush EXCEPT ![f] = [@ EXCEPT !.pc = "read", !.socket = s,
                                                          !.batch = samples]]

EndFlush(f) == flush' = [flush EXCEPT ![f] = NoFlush]

-----------------------------------------------------------------------------
(* The provider's phone takes a sample.  It is dropped when the client has *)
(* no open socket, and nobody listens before the socket has joined.        *)
LosePing ==
    /\ sent + 1 \in Sample
    /\ ~Listening
    /\ sent' = sent + 1
    /\ UNCHANGED <<wsvars, walk, polyline, counted, buffer, timer, flush, failures>>

(* onMessage: show the sample to the room, buffer it, flush a full buffer  *)
(* or see to it that a timer runs.                                         *)
Ping ==
    LET s == client.socket
        samples == Append(buffer[s], sent + 1)
    IN
    /\ sent + 1 \in Sample
    /\ Listening
    /\ ~client.stopped
    /\ sent' = sent + 1
    /\ IF Len(samples) >= BatchSize
       THEN TakeBatch(s, samples)
       ELSE /\ buffer' = [buffer EXCEPT ![s] = samples]
            /\ timer' = [timer EXCEPT ![s] = TRUE]
            /\ UNCHANGED flush
    /\ UNCHANGED <<wsvars, walk, polyline, counted, failures>>

(* Mutant of FlushTimer: the buffer stays where it is.                     *)
FlushTimerForgets(s) ==
    /\ timer[s]
    /\ timer' = [timer EXCEPT ![s] = FALSE]
    /\ UNCHANGED <<wsvars, walk, polyline, counted, sent, buffer, flush, failures>>

FlushTimer(s) ==
    /\ timer[s]
    /\ TakeBatch(s, buffer[s])
    /\ UNCHANGED <<wsvars, walk, polyline, counted, sent, failures>>

(* appendSamples reads the polyline, and is done when it has nothing new   *)
(* for it ...                                                              *)
FlushRead(f) ==
    /\ flush[f].pc = "read"
    /\ IF \A t \in InSeq(flush[f].batch) : polyline[t] > 0
       THEN EndFlush(f)
       ELSE flush' = [flush EXCEPT ![f].pc = "write", ![f].read = polyline]
    /\ UNCHANGED <<wsvars, walk, polyline, counted, sent, buffer, timer, failures>>

(* Mutant of Merged: no look at what is there already.                     *)
MergedUnseen(f) ==
    [t \in Sample |-> flush[f].read[t] + Occurrences(t, flush[f].batch)]

(* What was read, and the samples of the batch whose time is not in it.    *)
Merged(f) ==
    [t \in Sample |-> IF flush[f].read[t] > 0 THEN flush[f].read[t]
                      ELSE Occurrences(t, flush[f].batch)]

(* ... and writes the merged one back over whatever is there by now.       *)
FlushWrite(f) ==
    /\ flush[f].pc = "write"
    /\ polyline' = Merged(f)
    /\ EndFlush(f)
    /\ UNCHANGED <<wsvars, walk, counted, sent, buffer, timer, failures>>

(* Mutant of FlushFails: the batch is not put back.                        *)
FlushFailsDrops(f) ==
    /\ flush[f].pc # "idle"
    /\ failures < MaxFailures
    /\ failures' = failures + 1
    /\ EndFlush(f)
    /\ UNCHANGED <<wsvars, walk, polyline, counted, sent, buffer, timer>>

(* A statement throws; an UPDATE may have been carried out all the same.   *)
(* The batch goes back in front of the buffer, and no timer is set.        *)
FlushFails(f) ==
    LET s == flush[f].socket IN
    /\ flush[f].pc # "idle"
    /\ failures < MaxFailures
    /\ failures' = failures + 1
    /\ polyline' \in {polyline} \cup (IF flush[f].pc = "write" THEN {Merged(f)} ELSE {})
    /\ buffer' = [buffer EXCEPT ![s] = flush[f].batch \o @]
    /\ EndFlush(f)
    /\ UNCHANGED <<wsvars, walk, counted, sent, timer>>

-----------------------------------------------------------------------------
(* The socket is let in when the walk has not ended at the check; the      *)
(* state of the socket is new.  Bound: a socket id whose buffer was put    *)
(* back after its close is not used again.                                 *)
JoinTracking(s) ==
    /\ walk # "ended"
    /\ Join(s)
    /\ UNCHANGED trackvars

RefuseTracking(s) ==
    /\ Refuse(s)
    /\ UNCHANGED trackvars

(* Mutant of LeaveTracking: close does not flush.                          *)
LeaveTrackingOnly(s) ==
    /\ Leave(s)
    /\ timer' = [timer EXCEPT ![s] = FALSE]
    /\ UNCHANGED <<walk, polyline, counted, sent, buffer, flush, failures>>

LeaveTracking(s) ==
    /\ Leave(s)
    /\ TakeBatch(s, buffer[s])
    /\ UNCHANGED <<walk, polyline, counted, sent, failures>>

MissCloseTracking(s) ==
    /\ MissClose(s)
    /\ UNCHANGED trackvars

OpenTracking(s) ==
    /\ buffer[s] = <<>>
    /\ \A f \in Flusher : flush[f].socket # s
    /\ OpenSocket(s)
    /\ UNCHANGED trackvars

(* The page modelled is the provider's: the owner's only listens.          *)
ClientTracking ==
    /\ ClientStep
    /\ UNCHANGED trackvars

(* end: inside its transaction the polyline is read, then endedAt and the  *)
(* distance are written; the walks row is not locked in between.           *)
EndRead ==
    /\ walk = "running"
    /\ walk' = "ending"
    /\ counted' = polyline
    /\ UNCHANGED <<wsvars, polyline, sent, buffer, timer, flush, failures>>

EndWrite ==
    /\ walk = "ending"
    /\ walk' = "ended"
    /\ UNCHANGED <<wsvars, polyline, counted, sent, buffer, timer, flush, failures>>

(* The process dies: sockets, buffers, timers and flushes are gone.  A     *)
(* statement already sent is carried out or not before that.  Counted as   *)
(* a failure.                                                              *)
RestartTracking ==
    /\ failures < MaxFailures
    /\ failures' = failures + 1
    /\ DropAll
    /\ buffer' = [s \in Socket |-> <<>>]
    /\ timer' = [s \in Socket |-> FALSE]
    /\ flush' = [f \in Flusher |-> NoFlush]
    /\ walk' = IF walk = "ending" THEN "running" ELSE walk
    /\ counted' = IF walk = "ending" THEN [t \in Sample |-> 0] ELSE counted
    /\ UNCHANGED <<polyline, sent>>

-----------------------------------------------------------------------------
TrackingInit ==
    /\ walk = "running"
    /\ polyline = [t \in Sample |-> 0]
    /\ counted = [t \in Sample |-> 0]
    /\ sent = 0
    /\ buffer = [s \in Socket |-> <<>>]
    /\ timer = [s \in Socket |-> FALSE]
    /\ flush = [f \in Flusher |-> NoFlush]
    /\ failures = 0

FlushStep(f) == FlushRead(f) \/ FlushWrite(f)

TrackingNext ==
    \/ LosePing \/ Ping \/ EndRead \/ EndWrite \/ RestartTracking \/ ClientTracking
    \/ \E s \in Socket : \/ OpenTracking(s) \/ JoinTracking(s) \/ RefuseTracking(s)
                         \/ LeaveTracking(s) \/ MissCloseTracking(s) \/ FlushTimer(s)
    \/ \E f \in Flusher : FlushStep(f) \/ FlushFails(f)

(* A timer fires, a close is noticed, and a statement is answered.         *)
TrackingFairness ==
    /\ \A s \in Socket :
          /\ WF_<<wsvars, trackvars>>(path = "/ws/tracking" /\ LeaveTracking(s))
          /\ WF_<<wsvars, trackvars>>(path = "/ws/tracking" /\ FlushTimer(s))
    /\ \A f \in Flusher : WF_<<wsvars, trackvars>>(path = "/ws/tracking" /\ FlushStep(f))

-----------------------------------------------------------------------------
Stored == {t \in Sample : polyline[t] > 0}

(* The samples the process has accepted and not stored, those included     *)
(* that a failed flush has put back into the buffer of a closed socket,    *)
(* where no flush will look for them.                                      *)
Held ==
    ((UNION {InSeq(buffer[s]) : s \in Socket})
        \cup (UNION {InSeq(flush[f].batch) : f \in Flusher})) \ Stored

(* What the flushes that are about to write have read.                     *)
Views ==
    {{t \in Sample : flush[f].read[t] > 0} : f \in {g \in Flusher : flush[g].pc = "write"}}

Trail == INSTANCE WalkTrail WITH held <- Held, stored <- Stored, views <- Views

(* What the room has been shown stays in the process until it is in the    *)
(* polyline, and stays there, through full buffers, timers, closed and     *)
(* reopened connections and statements that fail: samples are lost only    *)
(* when the process dies or two flushes of a walk overlap.                 *)
ImplementsTrail == Trail!Spec

(* No sample is in the polyline, or in the distance computed from it,      *)
(* twice, though a batch whose UPDATE seemed to fail is written again.     *)
TrailIsSound == \A t \in Sample : polyline[t] <= 1 /\ counted[t] <= 1

(* A sample shown to the room reaches the polyline, unless something       *)
(* failed: the timer, the full buffer or the close of the socket sees to   *)
(* it.                                                                     *)
ShownIsStored == \A t \in Sample : t \in Held ~> (t \in Stored \/ failures > 0)

=============================================================================
