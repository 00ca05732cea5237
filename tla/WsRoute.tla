-------------------------------- MODULE WsRoute --------------------------------
(***************************************************************************)
(* One WebSocket route between its two ends: the reconnecting client of a  *)
(* page (web/src/lib/ws.ts, the same code as in the mobile app) and the    *)
(* part every gateway has in common on the server (registerWsRoute and     *)
(* RoomRegistry), for one booking, that is, one room, and one of the pages *)
(* that watch it: another page has a client and sockets of its own.        *)
(*                                                                         *)
(* A page opens its client when it mounts and closes it when it unmounts.  *)
(* The two ends of a connection learn of its end at different moments.     *)
(* The gateways, which say who is let in and what a message does, extend   *)
(* this module; the routes share nothing, so one is modelled at a time.    *)
(***************************************************************************)
EXTENDS Integers, FiniteSets, Sequences

CONSTANTS
    Socket,      \* connections that may exist at once
    NoSocket     \* the variable socket of the client holds null

ASSUME SocketAssumption == NoSocket \notin Socket

VARIABLES
    path,        \* the route
    client,      \* where connect() is, stopped, and the variable socket
    conn,        \* per connection: its client end and its server end
    room         \* the sockets in the room

wsvars == <<path, client, conn, room>>

Path == {"/ws/tracking", "/ws/chat"}

-----------------------------------------------------------------------------
(* The client is waiting for a token, waiting for the reconnect timer, up  *)
(* (it has a socket), or off.  The server end is not there (free), before  *)
(* the handler has joined the room (checking), in the room, or in one of   *)
(* two states of a socket that closed while it was checked and has no      *)
(* listener for the close event: still being checked (missed), in the room *)
(* (leaked).                                                               *)
WsTypeOK ==
    /\ path \in Path
    /\ client \in [pc : {"token", "timer", "up", "off"}, stopped : BOOLEAN,
                   socket : Socket \cup {NoSocket}]
    /\ conn \in [Socket -> [client : {"open", "closed"},
                            server : {"free", "checking", "missed", "joined", "leaked"}]]
    /\ room \subseteq Socket

ClientGoes(pc, s) == client' = [client EXCEPT !.pc = pc, !.socket = s]

ServerEnd(s, state) == conn' = [conn EXCEPT ![s].server = state]

Unused == {s \in Socket : conn[s].client = "closed" /\ conn[s].server = "free"}

IsOpen == client.socket # NoSocket

(* The server listens to what the page sends.                              *)
Listening == client.socket \in {s \in Socket : conn[s].server = "joined"}

-----------------------------------------------------------------------------
(* The client.                                                             *)

(* getIdToken yields nothing: scheduleReconnect, whether stopped or not.   *)
NoToken ==
    /\ client.pc = "token"
    /\ ClientGoes("timer", NoSocket)
    /\ UNCHANGED <<path, conn, room>>

(* connect() goes on after its await and opens a socket; whether the page  *)
(* has been left meanwhile it looked up before the await.                  *)
OpenSocket(s) ==
    /\ client.pc = "token"
    /\ s \in Unused
    /\ ClientGoes("up", s)
    /\ conn' = [conn EXCEPT ![s] = [client |-> "open", server |-> "checking"]]
    /\ UNCHANGED <<path, room>>

(* The timer calls connect(), which returns at once when stopped.          *)
TimerFires ==
    /\ client.pc = "timer"
    /\ ClientGoes(IF client.stopped THEN "off" ELSE "token", NoSocket)
    /\ UNCHANGED <<path, conn, room>>

(* Mutant of SeeClose: the reconnect starts while the socket is still up.  *)
SeeCloseReconnectsEarly ==
    /\ client.pc = "up"
    /\ ClientGoes(IF client.stopped THEN "off" ELSE "timer", NoSocket)
    /\ UNCHANGED <<path, conn, room>>

(* onclose, whoever ended the connection.                                  *)
SeeClose ==
    /\ client.pc = "up"
    /\ conn' = [conn EXCEPT ![client.socket].client = "closed"]
    /\ ClientGoes(IF client.stopped THEN "off" ELSE "timer", NoSocket)
    /\ UNCHANGED <<path, room>>

(* close(), when the page is left.  A connect() that awaits its token goes *)
(* on; the timer is cleared.                                               *)
Unmount ==
    /\ ~client.stopped
    /\ client' = [pc |-> IF client.pc = "token" THEN "token" ELSE "off",
                  stopped |-> TRUE, socket |-> NoSocket]
    /\ conn' = [s \in Socket |-> IF s = client.socket
                                 THEN [conn[s] EXCEPT !.client = "closed"] ELSE conn[s]]
    /\ UNCHANGED <<path, room>>

ClientStep == NoToken \/ TimerFires \/ SeeClose \/ Unmount

-----------------------------------------------------------------------------
(* The server, up to what the gateway adds.                                *)

(* The checks are over and the socket is let in; its listeners are         *)
(* registered only now.                                                    *)
Join(s) ==
    /\ conn[s].server \in {"checking", "missed"}
    /\ ServerEnd(s, IF conn[s].server = "checking" THEN "joined" ELSE "leaked")
    /\ room' = room \cup {s}
    /\ UNCHANGED <<path, client>>

(* A check fails: the server closes the socket, the client will see it.    *)
Refuse(s) ==
    /\ conn[s].server \in {"checking", "missed"}
    /\ ServerEnd(s, "free")
    /\ UNCHANGED <<path, client, room>>

(* The close event comes before there is a listener.                       *)
MissClose(s) ==
    /\ conn[s].client = "closed"
    /\ conn[s].server = "checking"
    /\ ServerEnd(s, "missed")
    /\ UNCHANGED <<path, client, room>>

(* The close event of a joined socket: it leaves the room.                 *)
Leave(s) ==
    /\ conn[s].client = "closed"
    /\ conn[s].server = "joined"
    /\ ServerEnd(s, "free")
    /\ room' = room \ {s}
    /\ UNCHANGED <<path, client>>

(* The process dies: every server end is gone.                             *)
DropAll ==
    /\ conn' = [s \in Socket |-> [conn[s] EXCEPT !.server = "free"]]
    /\ room' = {}
    /\ UNCHANGED <<path, client>>

-----------------------------------------------------------------------------
(* The page is open and connect() has just been called.                    *)
WsInit ==
    /\ path \in Path
    /\ client = [pc |-> "token", stopped |-> FALSE, socket |-> NoSocket]
    /\ conn = [s \in Socket |-> [client |-> "closed", server |-> "free"]]
    /\ room = {}

-----------------------------------------------------------------------------
(* A page never has two open connections, through all drops, reconnects    *)
(* and an unmount at any moment (every message would be shown twice), its  *)
(* variable socket is the open one, and as long as the page is mounted and *)
(* has none, another attempt is under way.                                 *)
OneConnectionPerPage ==
    /\ \A s \in Socket : conn[s].client = "open" => client.socket = s
    /\ client.socket = NoSocket /\ ~client.stopped => client.pc \in {"token", "timer"}

=============================================================================
