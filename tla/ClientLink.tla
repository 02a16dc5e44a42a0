----------------------------- MODULE ClientLink -----------------------------
(***************************************************************************)
(* One client and the sockets a connector keeps for its successive         *)
(* connections: handshake, heartbeats of both sides, kick, disconnection,  *)
(* reconnection, requests and their responses.                             *)
(*                                                                         *)
(*   client-js/src/olemop-jsclient.js, envUtil/browser.js                  *)
(*   core/connectors/hybridsocket.js, hybridconnector.js, common/handler.js*)
(*   core/connectors/commands/{handshake,heartbeat,kick}.js, hybrid/*      *)
(*                                                                         *)
(* Each connection is a pair of FIFO channels.  The network may cut it:    *)
(* what was sent is lost and neither side is told.  What the server posts  *)
(* with process.nextTick runs before its next packet or timer and belongs  *)
(* to the step that posts it: a closed session disconnects its socket so.  *)
(* A timer may fire at any time once it is set.  The timeout that the      *)
(* switcher sets on a socket is none of them: the websocket library takes  *)
(* it off when the connection is upgraded.                                 *)
(***************************************************************************)
EXTENDS Naturals, Sequences, FiniteSets

CONSTANTS
  MaxConn,             \* bound: connections the client opens
  Req,                 \* requests, each made once
  NoReq,               \* that of a packet that is not a request or its response
  Reconnect,           \* params.reconnect
  MaxAttempts,         \* params.maxReconnectAttempts
  DisconnectOnTimeout  \* the option of the server's heartbeat

\* What is assumed of the constants.
LinkAssumption ==
  /\ MaxConn \in Nat \ {0}
  /\ MaxAttempts \in Nat
  /\ NoReq \notin Req
  /\ Reconnect \in BOOLEAN
  /\ DisconnectOnTimeout \in BOOLEAN

Conn == 1..MaxConn

VARIABLES
  client,    \* the variables of the client library
  wire,      \* of each connection: the client's socket, packets under way
  server,    \* of each connection: the server's socket and its timers
  requests   \* of each request: the connection it was made on, if any

vars == <<client, wire, server, requests>>

Packet(t) == [type |-> t, req |-> NoReq]
Data(r) == [type |-> "data", req |-> r]
Packets ==
  {Packet(t) : t \in {"handshake", "refused", "ack", "heartbeat", "kick"}}
    \union {Data(r) : r \in Req}

Unsent == [conn |-> 0, acked |-> FALSE, done |-> FALSE]

TypeOK ==
  /\ client \in [socket : 0..MaxConn, count : 0..MaxConn, acked : 0..MaxConn,
                 prevent : BOOLEAN, attempts : 0..MaxAttempts, retry : BOOLEAN,
                 hb : BOOLEAN, hbTimeout : BOOLEAN, fresh : BOOLEAN]
  /\ wire \in [Conn -> [state : {"none", "connecting", "open", "closing", "closed"},
                        cut : BOOLEAN, up : Seq(Packets), down : Seq(Packets)]]
  /\ server \in [Conn -> [state : {"none", "inited", "wait_ack", "working", "closed"},
                          pending : BOOLEAN, asked : SUBSET Req, watched : BOOLEAN, timer : BOOLEAN]]
  /\ requests \in [Req -> [conn : 0..MaxConn, acked : BOOLEAN, done : BOOLEAN]]

\* The socket the server makes of an accepted connection.
NewSocket ==
  [state |-> "inited", pending |-> FALSE, asked |-> {}, watched |-> FALSE, timer |-> FALSE]

Init ==
  /\ client = [socket |-> 0, count |-> 0, acked |-> 0, prevent |-> FALSE, attempts |-> 0,
               retry |-> FALSE, hb |-> FALSE, hbTimeout |-> FALSE, fresh |-> FALSE]
  /\ wire = [c \in Conn |-> [state |-> "none", cut |-> FALSE, up |-> <<>>, down |-> <<>>]]
  /\ server = [c \in Conn |-> [NewSocket EXCEPT !.state = "none"]]
  /\ requests = [r \in Req |-> Unsent]

-----------------------------------------------------------------------------
(* The client *)

\* connect: a new socket replaces the one the library holds.
Connect ==
  /\ client.count < MaxConn
  /\ wire' = [wire EXCEPT ![client.count + 1].state = "connecting"]

\* init, by the user; of a client that reconnects by itself, or whose socket is
\* still open, the user does not call it again.
ClientInit ==
  /\ ~client.retry
  /\ \A c \in Conn : wire[c].state \in {"none", "closed"}
  /\ Connect
  /\ client' = [client EXCEPT !.socket = client.count + 1, !.count = @ + 1]
  /\ UNCHANGED <<server, requests>>

\* The reconnect timer.
RetryFires ==
  /\ client.retry
  /\ Connect
  /\ client' = [client EXCEPT !.socket = client.count + 1, !.count = @ + 1, !.retry = FALSE]
  /\ UNCHANGED <<server, requests>>

Sent(c, p) == [wire EXCEPT ![c].up = IF wire[c].cut \/ server[c].state = "closed" THEN @ ELSE Append(@, p)]

\* send: without a socket, and on one that is closing or closed, nothing is sent.
Send(p) ==
  IF client.socket # 0 /\ wire[client.socket].state = "open" THEN Sent(client.socket, p) ELSE wire

\* On a socket that is connecting, send throws.
SendThrows == client.socket # 0 /\ wire[client.socket].state = "connecting"

\* The connector makes a socket of every websocket it is handed.
Accepts(c) == server' = [server EXCEPT ![c] = NewSocket]

\* The server accepts; onopen resets the reconnection and sends the handshake.
Opens(c) ==
  /\ wire[c].state = "connecting" /\ ~wire[c].cut
  /\ wire' = [wire EXCEPT ![c].state = "open", ![c].up = <<Packet("handshake")>>]
  /\ Accepts(c)
  /\ client' = [client EXCEPT !.prevent = FALSE, !.attempts = 0, !.retry = FALSE]
  /\ UNCHANGED requests

\* onclose: closed by the client, by the server, or never opened.
OnClose(c) ==
  /\ \/ wire[c].state = "closing"
     \/ wire[c].state = "open" /\ ~wire[c].cut /\ server[c].state = "closed" /\ wire[c].down = <<>>
     \/ wire[c].state = "connecting" /\ wire[c].cut
  /\ wire' = [wire EXCEPT ![c].state = "closed", ![c].down = <<>>]
  /\ client' =
       IF ~client.prevent /\ Reconnect /\ client.attempts < MaxAttempts
         THEN [client EXCEPT !.attempts = @ + 1, !.retry = TRUE] ELSE client
  /\ UNCHANGED <<server, requests>>

Closing ==
  IF client.socket # 0 /\ wire[client.socket].state \in {"connecting", "open"}
    THEN [wire EXCEPT ![client.socket].state = "closing"] ELSE wire

\* disconnect: the timers of the heartbeat go, the reconnect timer does not.
Disconnect ==
  /\ wire' = Closing
  /\ client' = [client EXCEPT !.socket = 0, !.hb = FALSE, !.hbTimeout = FALSE]

UserDisconnects ==
  /\ client.socket # 0
  /\ Disconnect
  /\ UNCHANGED <<server, requests>>

PreventReconnect ==
  /\ client' = [client EXCEPT !.prevent = TRUE]
  /\ UNCHANGED <<wire, server, requests>>

\* request: the callback is kept whether anything was sent or not.
Request(r) ==
  /\ requests[r] = Unsent
  /\ client.socket # 0 /\ ~SendThrows
  /\ wire' = Send(Data(r))
  /\ requests' = [requests EXCEPT ![r] = [conn |-> client.socket, done |-> FALSE,
                                          acked |-> client.acked = client.socket]]
  /\ UNCHANGED <<client, server>>

\* The next packet from the server.
Incoming(c, t) ==
  /\ wire[c].state \in {"open", "closing"}
  /\ wire[c].down # <<>>
  /\ Head(wire[c].down).type = t

Taken(c) == [wire EXCEPT ![c].down = Tail(@)]

Acks(c) == [Sent(c, Packet("ack")) EXCEPT ![c].down = Tail(@)]

\* The acknowledgement goes to the socket the library holds.
Acknowledged(c) ==
  IF client.socket = c /\ wire[c].state = "open"
    THEN Acks(c) ELSE Taken(c)

\* handshake, handshakeInit, then initCallback.
ReceiveHandshake(c) ==
  /\ Incoming(c, "handshake")
  /\ wire' = Acknowledged(c)
  /\ client' = [client EXCEPT !.acked = c, !.fresh = TRUE]
  /\ UNCHANGED <<server, requests>>

\* heartbeat: one timer of the next heartbeat, and none of the timeout.
ReceiveHeartbeat(c) ==
  /\ Incoming(c, "heartbeat")
  /\ wire' = Taken(c)
  /\ client' = [client EXCEPT !.hb = TRUE, !.hbTimeout = FALSE, !.fresh = TRUE]
  /\ UNCHANGED <<server, requests>>

\* processMessage: a response calls back.
ReceiveResponse(c) ==
  /\ Incoming(c, "data")
  /\ requests' = [requests EXCEPT ![Head(wire[c].down).req].done = TRUE]
  /\ wire' = Taken(c)
  /\ client' = [client EXCEPT !.fresh = TRUE]
  /\ UNCHANGED server

\* A kick is handed to the user; a handshake that failed is an error event.
ReceiveEvent(c) ==
  /\ \E t \in {"kick", "refused"} : Incoming(c, t)
  /\ wire' = Taken(c)
  /\ client' = [client EXCEPT !.fresh = TRUE]
  /\ UNCHANGED <<server, requests>>

Armed == [client EXCEPT !.hb = FALSE, !.hbTimeout = TRUE, !.fresh = FALSE]

\* The timer of heartbeat; it outlives its connection, and throws on a socket that
\* is connecting before it arms the timeout.
HeartbeatFires ==
  /\ client.hb
  /\ wire' = Send(Packet("heartbeat"))
  /\ client' = IF SendThrows THEN [client EXCEPT !.hb = FALSE] ELSE Armed
  /\ UNCHANGED <<server, requests>>

\* heartbeatTimeoutCb.
TimeoutFires ==
  /\ client.hbTimeout
  /\ IF client.fresh
       THEN /\ client' = [client EXCEPT !.fresh = FALSE]
            /\ UNCHANGED wire
       ELSE Disconnect
  /\ UNCHANGED <<server, requests>>

-----------------------------------------------------------------------------
(* The server: a HybridSocket and the heartbeat's entries for it *)

Reply(c, p) == [wire EXCEPT ![c].down = IF wire[c].cut THEN @ ELSE Append(@, p)]

\* Mutant: the socket emits no close event of its own.
ClosedQuietly(s) == [s EXCEPT !.state = "closed", !.pending = FALSE, !.asked = {}]

\* Socket.disconnect: state, then the close event, which clears the timers.
Closed(s) ==
  [s EXCEPT !.state = "closed", !.pending = FALSE, !.asked = {}, !.watched = FALSE, !.timer = FALSE]

\* Nobody reads what the client has sent, or sends.
ServerCloses(c, w) ==
  /\ server' = [server EXCEPT ![c] = Closed(@)]
  /\ wire' = [w EXCEPT ![c].up = <<>>]

Alive(c) == server[c].state \in {"inited", "wait_ack", "working"}

\* The next packet from the client; handler.js reads it in any state.
Arrives(c, t) ==
  /\ Alive(c)
  /\ wire[c].up # <<>>
  /\ Head(wire[c].up).type = t

Read(c) == [wire EXCEPT ![c].up = Tail(@)]

\* handleHandshake: the user's handshake function answers when it likes.
HandleHandshake(c) ==
  /\ Arrives(c, "handshake")
  /\ wire' = Read(c)
  /\ server' = [server EXCEPT ![c].pending = @ \/ server[c].state = "inited"]
  /\ UNCHANGED <<client, requests>>

\* Handshake.response; handshakeResponse takes the first.
HandshakeAnswered(c) ==
  /\ server[c].pending
  /\ server' = [server EXCEPT ![c].pending = FALSE, ![c].state = IF @ = "inited" THEN "wait_ack" ELSE @]
  /\ wire' = IF server[c].state = "inited" THEN Reply(c, Packet("handshake")) ELSE wire
  /\ UNCHANGED <<client, requests>>

\* Handshake.processError, then disconnect.
HandshakeRefused(c) ==
  /\ server[c].pending
  /\ ServerCloses(c, Reply(c, Packet("refused")))
  /\ UNCHANGED <<client, requests>>

\* The heartbeat command: the packet is answered, the timer starts anew.
Beat(c) ==
  /\ wire' = [Read(c) EXCEPT ![c].down = Append(@, Packet("heartbeat"))]
  /\ server' = [server EXCEPT ![c].state = "working", ![c].watched = TRUE,
                              ![c].timer = DisconnectOnTimeout]

\* handleHandshakeAck, handleHeartbeat.
HandleAckOrHeartbeat(c) ==
  /\ \/ Arrives(c, "ack") /\ server[c].state = "wait_ack"
     \/ Arrives(c, "heartbeat") /\ server[c].state = "working"
  /\ Beat(c)
  /\ UNCHANGED <<client, requests>>

\* handleData.
HandleData(c) ==
  /\ Arrives(c, "data")
  /\ server[c].state = "working"
  /\ wire' = Read(c)
  /\ server' = [server EXCEPT ![c].asked = @ \union {Head(wire[c].up).req}]
  /\ UNCHANGED <<client, requests>>

\* In another state the packet is ignored.
HandleNothing(c) ==
  /\ \/ Arrives(c, "ack") /\ server[c].state # "wait_ack"
     \/ (Arrives(c, "heartbeat") \/ Arrives(c, "data")) /\ server[c].state # "working"
  /\ wire' = Read(c)
  /\ UNCHANGED <<client, server, requests>>

\* The response of the connector component: Socket.send.
Respond(c, r) ==
  /\ r \in server[c].asked /\ Alive(c)
  /\ server' = [server EXCEPT ![c].asked = @ \ {r}]
  /\ wire' = Reply(c, Data(r))
  /\ UNCHANGED <<client, requests>>

\* The session is closed with a reason: the closing event sends the kick.
Kick(c) ==
  /\ Alive(c)
  /\ ServerCloses(c, IF server[c].state = "working" THEN Reply(c, Packet("kick")) ELSE wire)
  /\ UNCHANGED <<client, requests>>

\* The host filter, or an error of the socket.
ServerDisconnects(c) ==
  /\ Alive(c)
  /\ ServerCloses(c, wire)
  /\ UNCHANGED <<client, requests>>

\* The timer of the heartbeat command.
BeatTimeout(c) ==
  /\ server[c].timer
  /\ ServerCloses(c, wire)
  /\ UNCHANGED <<client, requests>>

\* The client's end of the connection was closed.
CloseArrives(c) ==
  /\ Alive(c)
  /\ wire[c].state \in {"closing", "closed"} /\ ~wire[c].cut /\ wire[c].up = <<>>
  /\ ServerCloses(c, wire)
  /\ UNCHANGED <<client, requests>>

-----------------------------------------------------------------------------
\* The network.
Cut(c) ==
  /\ ~wire[c].cut
  /\ wire[c].state \in {"connecting", "open", "closing"}
  /\ wire' = [wire EXCEPT ![c].cut = TRUE, ![c].up = <<>>, ![c].down = <<>>]
  /\ UNCHANGED <<client, server, requests>>

ClientReceives(c) ==
  ReceiveHandshake(c) \/ ReceiveHeartbeat(c) \/ ReceiveResponse(c) \/ ReceiveEvent(c)

ServerReads(c) ==
  HandleHandshake(c) \/ HandleAckOrHeartbeat(c) \/ HandleData(c) \/ HandleNothing(c)

HandshakeEnds(c) == HandshakeAnswered(c) \/ HandshakeRefused(c)

Next ==
  \/ ClientInit \/ RetryFires \/ UserDisconnects \/ PreventReconnect
  \/ HeartbeatFires \/ TimeoutFires
  \/ \E r \in Req : Request(r) \/ \E c \in Conn : Respond(c, r)
  \/ \E c \in Conn :
       \/ Opens(c) \/ OnClose(c) \/ ClientReceives(c)
       \/ ServerReads(c) \/ HandshakeEnds(c) \/ Kick(c) \/ ServerDisconnects(c)
       \/ BeatTimeout(c) \/ CloseArrives(c) \/ Cut(c)

Spec == Init /\ [][Next]_vars

\* What each end of a connection has to do at its own: it is done one at a time,
\* and which is next is not said.  Nothing sets the timer of the heartbeat anew once
\* the connection is cut, and then it fires.
ClientSide(c) == ClientReceives(c) \/ OnClose(c)
ServerSide(c) ==
  ServerReads(c) \/ HandshakeEnds(c) \/ CloseArrives(c) \/ (wire[c].cut /\ BeatTimeout(c))

\* Packets and closings arrive, handlers answer, and timers fire.
Fairness ==
  /\ WF_vars(HeartbeatFires) /\ WF_vars(TimeoutFires)
  /\ \A c \in Conn :
       /\ WF_vars(ClientSide(c)) /\ WF_vars(ServerSide(c))
       /\ \A r \in Req : WF_vars(Respond(c, r))

-----------------------------------------------------------------------------
(* Properties *)

\* The heartbeat keeps a timer and an entry only for a socket that works: whoever
\* closes it, in whatever state, none is left to fire on a dead one (Heartbeat,
\* Socket.disconnect).
NoTimerLeft ==
  \A c \in Conn : server[c].timer \/ server[c].watched => server[c].state = "working"

\* The client has no timer that could find out that the connection is dead: it
\* has none before the first heartbeat of the server (heartbeat, jsclient).
Unwatched(c) == wire[c].cut /\ ~client.hb /\ ~client.hbTimeout

\* At last what the user has asked for after the init callback of a connection is
\* answered, or the connection is closed, or it was cut before anything watched it.
RequestEnds ==
  <>[](\A c \in Conn, r \in Req :
         requests[r].conn = c /\ requests[r].acked
           => requests[r].done \/ wire[c].state = "closed" \/ Unwatched(c))

\* Each end notices that the connection is cut: the client once a heartbeat has set its
\* timers, in this connection or in an earlier one; the server, if it has the option,
\* once the client has acknowledged the handshake. A socket that is cut before that
\* has no timer, and the server keeps it for good.
HoldsCut == \E c \in Conn : client.socket = c /\ wire[c].cut /\ wire[c].state = "open"
CutNoticed ==
  /\ (HoldsCut /\ client.hb) ~> ~HoldsCut
  /\ DisconnectOnTimeout => <>[](\A c \in Conn : wire[c].cut => server[c].state # "working")
=============================================================================
