---------------------------------- MODULE Chat ----------------------------------
(***************************************************************************)
(* The chat of one booking: the chat gateway and MessagesService on the    *)
(* server, and the ChatPanel of one side (Reader), which shows the history *)
(* it has fetched followed by the live messages that are not in it.  A     *)
(* message that arrives over the socket invalidates the history, so that   *)
(* it is fetched again; one sent over REST is appended by its sender only. *)
(* Of the other side's panel, which is the same, only what it sends        *)
(* matters, over a connection in any state.                                *)
(*                                                                         *)
(* Every message is posted by a handler of its own: inserted, then         *)
(* announced to the room, with awaits in between.                          *)
(***************************************************************************)
EXTENDS WsRoute

CONSTANTS
    User,           \* the two sides of the booking
    Reader,         \* the user whose panel is modelled
    Message,        \* 1..n, in the order they are typed
    MaxTrouble      \* bound of the requests that fail and the restarts

ASSUME ChatAssumption ==
    /\ Reader \in User
    /\ Message \subseteq Nat
    /\ MaxTrouble \in Nat

VARIABLES
    post,           \* the handler of each message
    table,          \* messages, in the order of sentAt
    live,           \* the live messages of the panel, by how they came
    history,        \* the messages of the last fetched history
    fetch,          \* the fetch under way
    trouble         \* how much has failed

chatvars == <<post, table, live, history, fetch, trouble>>

-----------------------------------------------------------------------------
InTable(m) == \E i \in DOMAIN table : table[i] = m

Posted == {table[i] : i \in DOMAIN table}

(* A message is live because the sender appended REST's answer (rest), or  *)
(* it came over the socket, before there was a history (early) or after    *)
(* (socket).                                                               *)
ChatTypeOK ==
    /\ post \in [Message -> [pc : {"unsent", "insert", "announce", "over"},
                             user : User, over : {"ws", "rest"}]]
    /\ Posted \subseteq Message /\ Len(table) = Cardinality(Posted)
    /\ live \in [Message -> {"no", "rest", "early", "socket"}]
    /\ history \subseteq Message
    /\ fetch \in [pc : {"idle", "asked", "answered"}, loaded : BOOLEAN,
                  items : SUBSET Message]
    /\ trouble \in 0..MaxTrouble

(* The memo all of the panel.                                              *)
Shown == history \cup {m \in Message : live[m] # "no"}

(* m was stored before n.                                                  *)
Before(m, n) ==
    \E i, j \in DOMAIN table : i < j /\ table[i] = m /\ table[j] = n

NoPost(pc) == [pc |-> pc, user |-> Reader, over |-> "ws"]

Over(m) == post' = [post EXCEPT ![m] = NoPost("over")]

-----------------------------------------------------------------------------
(* The socket is still connecting, for all the client knows.               *)
Connecting == client.socket \in {s \in Socket : conn[s].server = "checking"}

(* The handlers a message may get: over the socket when it is open,        *)
(* otherwise over REST.  Nobody listens to the socket before it has joined *)
(* the room, and the draft is cleared all the same.                        *)
Handlers(u) ==
    {[pc |-> "insert", user |-> u, over |-> x] :
        x \in IF u # Reader THEN {"ws", "rest"}
              ELSE (IF Listening THEN {"ws"} ELSE {})
                     \cup (IF Connecting \/ ~IsOpen THEN {"rest"} ELSE {})}

Typed(m) == post[m].pc = "unsent" /\ \A k \in Message : k < m => post[k].pc # "unsent"

(* send().                                                                 *)
Send(u, m) ==
    /\ Typed(m)
    /\ (u = Reader => ~client.stopped)
    /\ \E h \in Handlers(u) : post' = [post EXCEPT ![m] = h]
    /\ UNCHANGED <<wsvars, table, live, history, fetch, trouble>>

SendUnheard(m) ==
    /\ Typed(m)
    /\ IsOpen
    /\ ~Listening
    /\ Over(m)
    /\ UNCHANGED <<wsvars, table, live, history, fetch, trouble>>

(* assertMember, which always lets the two sides through, then the INSERT. *)
PostInsert(m) ==
    /\ post[m].pc = "insert"
    /\ post' = [post EXCEPT ![m].pc = "announce"]
    /\ table' = Append(table, m)
    /\ UNCHANGED <<wsvars, live, history, fetch, trouble>>

(* A statement fails: the handler ends with a warning or a 500, also when  *)
(* it has inserted the message already.                                    *)
PostFails(m) ==
    /\ post[m].pc \in {"insert", "announce"}
    /\ trouble < MaxTrouble
    /\ trouble' = trouble + 1
    /\ Over(m)
    /\ UNCHANGED <<wsvars, table, live, history, fetch>>

(* onEvent of the panel, if the broadcast reaches it.                      *)
HearLive(m) ==
    live' = [live EXCEPT ![m] = IF fetch.loaded THEN "socket" ELSE "early"]

(* Mutant of Hear: the history is not invalidated.                         *)
HearOnly(m) == HearLive(m) /\ UNCHANGED fetch

(* The query client starts a fetch anew; only the very first one, which    *)
(* has no data to keep meanwhile, goes on instead.                         *)
Hear(m) ==
    /\ HearLive(m)
    /\ fetch' = IF fetch.loaded THEN [fetch EXCEPT !.pc = "asked", !.items = {}] ELSE fetch

(* Broadcast to the room.  A message that is on its way when a connection  *)
(* ends is lost: the page has seen the end first.                          *)
PostAnnounce(m) ==
    /\ post[m].pc = "announce"
    /\ post[m].over = "ws"
    /\ Over(m)
    /\ IF \E s \in room : conn[s].client = "open"
       THEN Hear(m)
       ELSE UNCHANGED <<live, fetch>>
    /\ UNCHANGED <<wsvars, table, history, trouble>>

(* The answer of REST, which its sender appends; nothing is broadcast.     *)
PostAnswer(m) ==
    /\ post[m].pc = "announce"
    /\ post[m].over = "rest"
    /\ Over(m)
    /\ live' = IF post[m].user = Reader THEN [live EXCEPT ![m] = "rest"] ELSE live
    /\ UNCHANGED <<wsvars, table, history, fetch, trouble>>

-----------------------------------------------------------------------------
(* GET /bookings/:id/messages reads the table ...                          *)
FetchRead ==
    /\ fetch.pc = "asked"
    /\ fetch' = [fetch EXCEPT !.pc = "answered", !.items = Posted]
    /\ UNCHANGED <<wsvars, post, table, live, history, trouble>>

(* ... and its answer arrives: the pages are replaced.                     *)
FetchDone ==
    /\ fetch.pc = "answered"
    /\ history' = fetch.items
    /\ fetch' = [pc |-> "idle", loaded |-> TRUE, items |-> {}]
    /\ UNCHANGED <<wsvars, post, table, live, trouble>>

(* An attempt fails and is repeated; MaxTrouble below 3 never gives up.    *)
FetchFails ==
    /\ fetch.pc # "idle"
    /\ trouble < MaxTrouble
    /\ trouble' = trouble + 1
    /\ fetch' = [fetch EXCEPT !.pc = "asked", !.items = {}]
    /\ UNCHANGED <<wsvars, post, table, live, history>>

(* The process dies: its sockets and handlers are gone, requests in        *)
(* flight fail.                                                            *)
RestartChat ==
    /\ trouble < MaxTrouble
    /\ trouble' = trouble + 1
    /\ DropAll
    /\ post' = [m \in Message |->
          IF post[m].pc = "unsent" THEN post[m] ELSE NoPost("over")]
    /\ fetch' = IF fetch.pc = "idle" THEN fetch
                ELSE [fetch EXCEPT !.pc = "asked", !.items = {}]
    /\ UNCHANGED <<table, live, history>>

-----------------------------------------------------------------------------
(* The connections: assertMember is the only check.                        *)
ChatClient ==
    /\ ClientStep \/ (Unused # {} /\ OpenSocket(CHOOSE s \in Unused : TRUE))
    /\ UNCHANGED chatvars

ChatSocket(s) ==
    /\ Join(s) \/ Refuse(s) \/ MissClose(s) \/ Leave(s)
    /\ UNCHANGED chatvars

ChatInit ==
    /\ post = [m \in Message |-> NoPost("unsent")]
    /\ table = <<>>
    /\ live = [m \in Message |-> "no"]
    /\ history = {}
    /\ fetch = [pc |-> "asked", loaded |-> FALSE, items |-> {}]
    /\ trouble = 0

ChatNext ==
    \/ RestartChat \/ ChatClient \/ FetchRead \/ FetchDone \/ FetchFails
    \/ \E s \in Socket : ChatSocket(s)
    \/ \E m \in Message :
          \/ SendUnheard(m) \/ PostInsert(m) \/ PostFails(m)
          \/ PostAnnounce(m) \/ PostAnswer(m)
          \/ \E u \in User : Send(u, m)

(* A request is answered.                                                  *)
ChatFairness == WF_<<wsvars, chatvars>>(path = "/ws/chat" /\ (FetchRead \/ FetchDone))

-----------------------------------------------------------------------------
(* A panel that has missed messages (its connection was down, their        *)
(* handlers failed after the insert, the other side sent them over REST)   *)
(* shows them all once a later message reaches it over the socket.  One    *)
(* that comes before the first history does not bring the others along.    *)
CatchUp ==
    \A m \in Message :
        (\E n \in Message : live[n] = "socket" /\ Before(m, n)) ~> m \in Shown

=============================================================================
