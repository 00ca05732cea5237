------------------------------ MODULE CalendarSync ------------------------------
(***************************************************************************)
(* The Google calendar of one provider: the token row, the synced busy     *)
(* blocks, and the syncs that replace the blocks.                          *)
(*                                                                         *)
(* A sync is started by the sweep, by "sync now" or by the callback after  *)
(* a consent, so that several may be under way.  Its transaction is READ   *)
(* COMMITTED: the DELETE sees the rows committed when it starts, and the   *)
(* INSERT fails on a block that another sync has inserted since, for a     *)
(* block's externalId is the hash of its window and unique.                *)
(***************************************************************************)
EXTENDS Integers, FiniteSets

CONSTANTS
    Sync,           \* syncs that may be under way at once
    GoogleBusy,     \* what Google may answer: sets of windows [start, end)
    MaxEvents,      \* bound of what the provider does, here and at Google
    MaxFailures     \* bound of the requests that fail and the restarts

ASSUME CalendarAssumption ==
    /\ \A B \in GoogleBusy : IsFiniteSet(B) /\ B \subseteq [start : Nat, end : Nat]
    /\ \A B \in GoogleBusy : \A w \in B : w.start < w.end
    /\ MaxEvents \in Nat
    /\ MaxFailures \in Nat

VARIABLES
    google,         \* the provider's calendar, at Google
    granted,        \* Google accepts the refresh token of the row
    connected,      \* there is a token row
    blocks,         \* external_busy_blocks
    sync,           \* the syncs under way
    events,
    failures

calvars == <<google, granted, connected, blocks, sync, events, failures>>

-----------------------------------------------------------------------------
Window == UNION GoogleBusy

(* seen: of the rows the DELETE has seen those nobody else has deleted.    *)
Idle == [pc |-> "idle", answer |-> {}, seen |-> {}]

CalendarTypeOK ==
    /\ google \in GoogleBusy
    /\ granted \in BOOLEAN
    /\ connected \in BOOLEAN
    /\ blocks \subseteq Window
    /\ sync \in [Sync -> [pc : {"idle", "token", "revoked", "wipe", "google", "delete", "insert"},
                          answer : GoogleBusy \cup {{}}, seen : SUBSET Window]]
    /\ events \in 0..MaxEvents
    /\ failures \in 0..MaxFailures

Goes(k, pc) == sync' = [sync EXCEPT ![k].pc = pc]

Happens ==
    /\ events < MaxEvents
    /\ events' = events + 1

Fails ==
    /\ failures < MaxFailures
    /\ failures' = failures + 1

(* The rows R are gone, whoever was about to delete them too; k is done.   *)
Deleted(k, R) ==
    sync' = [j \in Sync |-> IF j = k THEN Idle ELSE [sync[j] EXCEPT !.seen = @ \ R]]

-----------------------------------------------------------------------------
(* At Google: the calendar changes, the access is revoked.                 *)
GoogleChanges ==
    /\ Happens
    /\ google' \in GoogleBusy \ {google}
    /\ UNCHANGED <<granted, connected, blocks, sync, failures>>

Revoke ==
    /\ Happens
    /\ granted
    /\ granted' = FALSE
    /\ UNCHANGED <<google, connected, blocks, sync, failures>>

(* callback: the tokens are stored, over those of an earlier consent; the  *)
(* sync it starts is a StartSync.                                          *)
Callback ==
    /\ Happens
    /\ connected' = TRUE
    /\ granted' = TRUE
    /\ UNCHANGED <<google, blocks, sync, failures>>

(* disconnect: the tokens are deleted.  The sweep that follows is for      *)
(* those still connected.                                                  *)
Disconnect ==
    /\ Happens
    /\ connected
    /\ connected' = FALSE
    /\ UNCHANGED <<google, granted, blocks, sync, failures>>

-----------------------------------------------------------------------------
(* syncOne, or the turn of this provider in syncAllConnected.              *)
StartSync(k) ==
    /\ connected
    /\ sync[k].pc = "idle"
    /\ Goes(k, "token")
    /\ UNCHANGED <<google, granted, connected, blocks, events, failures>>

(* getValidAccessToken: the token is good for a while, or refreshed.       *)
TokenGiven(k) ==
    /\ sync[k].pc = "token"
    /\ connected
    /\ Goes(k, "google")
    /\ UNCHANGED <<google, granted, connected, blocks, events, failures>>

TokenGone(k) ==
    /\ sync[k].pc = "token"
    /\ ~connected
    /\ sync' = [sync EXCEPT ![k] = Idle]
    /\ UNCHANGED <<google, granted, connected, blocks, events, failures>>

(* The refresh is answered with invalid_grant ...                          *)
TokenRevoked(k) ==
    /\ sync[k].pc = "token"
    /\ connected
    /\ ~granted
    /\ Goes(k, "revoked")
    /\ UNCHANGED <<google, granted, connected, blocks, events, failures>>

(* ... and the tokens are deleted, then the blocks.                        *)
DropTokens(k) ==
    /\ sync[k].pc = "revoked"
    /\ connected' = FALSE
    /\ Goes(k, "wipe")
    /\ UNCHANGED <<google, granted, blocks, events, failures>>

WipeBlocks(k) ==
    /\ sync[k].pc = "wipe"
    /\ blocks' = {}
    /\ Deleted(k, blocks)
    /\ UNCHANGED <<google, granted, connected, events, failures>>

(* getBusyWindows: an access token works on for a while after a revoke.    *)
GoogleAnswers(k) ==
    /\ sync[k].pc = "google"
    /\ sync' = [sync EXCEPT ![k].pc = "delete", ![k].answer = google]
    /\ UNCHANGED <<google, granted, connected, blocks, events, failures>>

GoogleRefuses(k) ==
    /\ sync[k].pc = "google"
    /\ ~granted
    /\ sync' = [sync EXCEPT ![k] = Idle]
    /\ UNCHANGED <<google, granted, connected, blocks, events, failures>>

(* Mutant of SyncDelete: nothing is deleted.                               *)
SyncDeleteNothing(k) ==
    /\ sync[k].pc = "delete"
    /\ Goes(k, "insert")
    /\ UNCHANGED <<google, granted, connected, blocks, events, failures>>

(* The transaction: DELETE ...                                             *)
SyncDelete(k) ==
    /\ sync[k].pc = "delete"
    /\ sync' = [sync EXCEPT ![k].pc = "insert", ![k].seen = blocks]
    /\ UNCHANGED <<google, granted, connected, blocks, events, failures>>

(* ... INSERT and commit, or unique violation and rollback.                *)
SyncInsert(k) ==
    LET kept == blocks \ sync[k].seen IN
    /\ sync[k].pc = "insert"
    /\ kept \cap sync[k].answer = {}
    /\ blocks' = kept \cup sync[k].answer
    /\ Deleted(k, sync[k].seen)
    /\ UNCHANGED <<google, granted, connected, events, failures>>

SyncCollides(k) ==
    /\ sync[k].pc = "insert"
    /\ (blocks \ sync[k].seen) \cap sync[k].answer # {}
    /\ sync' = [sync EXCEPT ![k] = Idle]
    /\ UNCHANGED <<google, granted, connected, blocks, events, failures>>

(* A request or a statement fails.                                         *)
SyncFails(k) ==
    /\ Fails
    /\ sync[k].pc # "idle"
    /\ sync' = [sync EXCEPT ![k] = Idle]
    /\ UNCHANGED <<google, granted, connected, blocks, events>>

RestartCalendar ==
    /\ Fails
    /\ sync' = [k \in Sync |-> Idle]
    /\ UNCHANGED <<google, granted, connected, blocks, events>>

-----------------------------------------------------------------------------
(* The provider is connected and the first sweep has not come yet.         *)
CalendarInit ==
    /\ google \in GoogleBusy
    /\ granted = TRUE
    /\ connected = TRUE
    /\ blocks = {}
    /\ sync = [k \in Sync |-> Idle]
    /\ events = 0
    /\ failures = 0

(* What a sync under way does next, if nothing fails.                      *)
SyncStep(k) ==
    \/ TokenGiven(k) \/ TokenGone(k) \/ TokenRevoked(k) \/ DropTokens(k) \/ WipeBlocks(k)
    \/ GoogleAnswers(k) \/ GoogleRefuses(k)
    \/ SyncDelete(k) \/ SyncInsert(k) \/ SyncCollides(k)

CalendarNext ==
    \/ GoogleChanges \/ Revoke \/ Callback \/ Disconnect \/ RestartCalendar
    \/ \E k \in Sync : StartSync(k) \/ SyncStep(k) \/ SyncFails(k)

(* The sweep comes every half hour, and requests are answered.             *)
CalendarFairness ==
    /\ WF_calvars(\E k \in Sync : StartSync(k))
    /\ \A k \in Sync : WF_calvars(SyncStep(k))

-----------------------------------------------------------------------------
(* Once the provider's calendar and access stay as they are, so do the     *)
(* busy blocks of a connected provider, as Google has them, whatever syncs *)
(* overlapped, collided or failed before.                                  *)
SyncSettles == <>[](connected /\ granted => blocks = google)

=============================================================================
