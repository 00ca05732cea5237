-------------------------------- MODULE Realtime --------------------------------
(***************************************************************************)
(* The two routes of a booking's page, /ws/tracking and /ws/chat, over the *)
(* connection they have in common.                                         *)
(***************************************************************************)
EXTENDS Tracking, Chat

RealtimeTypeOK == WsTypeOK /\ TrackingTypeOK /\ ChatTypeOK

RealtimeInit == WsInit /\ TrackingInit /\ ChatInit

RealtimeNext ==
    \/ path = "/ws/tracking" /\ TrackingNext /\ UNCHANGED chatvars
    \/ path = "/ws/chat" /\ ChatNext /\ UNCHANGED trackvars

RealtimeSpec ==
    /\ RealtimeInit
    /\ [][RealtimeNext]_<<wsvars, trackvars, chatvars>>
    /\ TrackingFairness
    /\ ChatFairness

=============================================================================
