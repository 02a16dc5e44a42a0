-------------------------------- MODULE Udp --------------------------------
(***************************************************************************)
(* The udp connector of a frontend: one datagram socket, and a socket made *)
(* for each address a datagram has come from, with its session.            *)
(*                                                                         *)
(*   connectors/udpconnector.js, udpsocket.js, common/handler.js,          *)
(*   commands/handshake.js, heartbeat.js, kick.js                          *)
(*                                                                         *)
(* Datagrams are lost, repeated and reordered, and another client may use  *)
(* an address later: any package may come from any address at any time.    *)
(***************************************************************************)
EXTENDS Naturals, FiniteSets

CONSTANTS
  Peer,         \* addresses
  UserHandshake,\* the option handshake: an asynchronous function of the user
  MaxSockets,   \* bound: sockets made
  MaxAnswers,   \* bound: handshakes of a socket under way
  MaxHeard      \* bound: packages that are answered

\* What is assumed of the constants.
UdpAssumption ==
  /\ {MaxSockets, MaxAnswers, MaxHeard} \subseteq Nat
  /\ UserHandshake \in BOOLEAN

Id == 1 .. MaxSockets
None == 0

VARIABLES
  clients,   \* address -> socket
  peer,      \* socket -> address, of those made
  state,     \* socket.state
  answers,   \* socket: handshakes whose answer is on its way
  timeouts,  \* sockets with a timer of the heartbeat
  watched,   \* Heartbeat.clients: sockets whose disconnect clears the timer
  session,   \* sockets with a session that is not closed
  refused,   \* sockets with a disconnect in the next tick
  heard

vars == <<clients, peer, state, answers, timeouts, watched, session, refused, heard>>

TypeOK ==
  /\ clients \in [Peer -> Id \union {None}]
  /\ DOMAIN peer \subseteq Id /\ \A i \in DOMAIN peer : peer[i] \in Peer
  /\ state \in [Id -> {"unused", "inited", "wait", "working", "closed"}]
  /\ answers \in [Id -> 0 .. MaxAnswers]
  /\ {timeouts, watched, session, refused} \subseteq SUBSET Id
  /\ heard \in 0 .. MaxHeard

\* Clients are kept by their address.
NoClients == [p \in Peer |-> None]

Init ==
  /\ clients = NoClients /\ peer = <<>>
  /\ state = [i \in Id |-> "unused"] /\ answers = [i \in Id |-> 0]
  /\ timeouts = {} /\ watched = {} /\ session = {} /\ refused = {} /\ heard = 0

Open == {i \in Id : state[i] \in {"inited", "wait", "working"}}

\* The listeners of 'disconnect': heartbeat, connector and session.
ClearTimers(i) == timeouts' = timeouts \ {i} /\ watched' = watched \ {i}
Forgets(i) == [clients EXCEPT ![peer[i]] = None]
Disconnect(i) ==
  IF i \notin Open THEN UNCHANGED <<clients, state, timeouts, watched, session>>
  ELSE /\ state' = [state EXCEPT ![i] = "closed"]
       /\ ClearTimers(i) /\ clients' = Forgets(i)
       /\ session' = session \ {i}

-----------------------------------------------------------------------------
(* Datagrams *)

Package == {"handshake", "ack", "heartbeat", "data", "other"}

\* Mutant: the first heartbeat starts no timer.
ArmsLater(i) == IF i \in watched THEN timeouts \union {i} ELSE timeouts
\* The heartbeat is answered, and the timer starts anew.
Arms(i) == timeouts \union {i}
Beat(i) == watched' = watched \union {i} /\ timeouts' = Arms(i)

Handle(i, s, type) ==
  CASE s = "inited" /\ type = "handshake" ->
         /\ answers[i] < MaxAnswers /\ answers' = [answers EXCEPT ![i] = @ + 1]
         /\ state' = [state EXCEPT ![i] = s] /\ UNCHANGED <<timeouts, watched>>
    [] s = "wait" /\ type = "ack" ->
         state' = [state EXCEPT ![i] = "working"] /\ Beat(i) /\ UNCHANGED answers
    [] s = "working" /\ type = "heartbeat" -> Beat(i) /\ UNCHANGED <<state, answers>>
    [] OTHER -> state' = [state EXCEPT ![i] = s] /\ UNCHANGED <<timeouts, watched, answers>>

\* Any datagram from an address without a socket makes one and then is read by it;
\* several packages in one datagram are no package.
Datagram(p, type) ==
  /\ heard < MaxHeard /\ heard' = heard + 1
  /\ IF clients[p] # None
     THEN IF type = "other" THEN Disconnect(clients[p]) /\ UNCHANGED <<answers, peer>>
          ELSE Handle(clients[p], state[clients[p]], type) /\ UNCHANGED <<clients, session, peer>>
     ELSE LET i == Cardinality(DOMAIN peer) + 1 IN
          /\ i \in Id /\ peer' = [j \in 1 .. i |-> IF j = i THEN p ELSE peer[j]]
          /\ IF type = "other"
             THEN state' = [state EXCEPT ![i] = "closed"] /\ UNCHANGED <<clients, session, answers, timeouts, watched>>
             ELSE /\ Handle(i, "inited", type)
                  /\ clients' = [clients EXCEPT ![p] = i] /\ session' = session \union {i}
  /\ UNCHANGED refused

\* Handshake.response: only the first one counts.
Responded(s) == IF s = "inited" THEN "wait" ELSE s
Response(i) ==
  /\ answers[i] > 0 /\ answers' = [answers EXCEPT ![i] = @ - 1]
  /\ state' = [state EXCEPT ![i] = Responded(@)]
  /\ UNCHANGED <<clients, peer, timeouts, watched, session, refused, heard>>

\* Handshake.processError: a bad version, or an error of the user's function.
ProcessError(i) ==
  /\ answers[i] > 0 /\ answers' = [answers EXCEPT ![i] = @ - 1]
  /\ refused' = refused \union {i}
  /\ UNCHANGED <<clients, peer, state, timeouts, watched, session, heard>>
DisconnectRefused(i) ==
  /\ i \in refused /\ refused' = refused \ {i} /\ Disconnect(i)
  /\ UNCHANGED <<peer, answers, heard>>

TimeoutFires(i) ==
  /\ i \in timeouts /\ Disconnect(i)
  /\ UNCHANGED <<peer, answers, refused, heard>>

\* The session is closed, the client told, and the socket disconnected in the next tick.
Kick(i) ==
  /\ i \in session /\ Disconnect(i)
  /\ UNCHANGED <<peer, answers, refused, heard>>

\* Without the user's function the answer comes before the next datagram.
Answering == \E i \in Id : (~UserHandshake /\ answers[i] > 0) \/ i \in refused

Next ==
  \/ ~Answering /\ \E p \in Peer, type \in Package : Datagram(p, type)
  \/ \E i \in Id : Response(i) \/ ProcessError(i) \/ DisconnectRefused(i)
  \/ ~Answering /\ \E i \in Id : TimeoutFires(i) \/ Kick(i)

Spec == Init /\ [][Next]_vars
Fairness ==
  \A i \in Id : WF_vars(TimeoutFires(i) \/ DisconnectRefused(i) \/ Response(i) \/ ProcessError(i))

-----------------------------------------------------------------------------
(* Properties *)

\* The connector has exactly the open sockets, each with a session, and no timer
\* is left for one that does not work.
PeersAgree ==
  /\ \A p \in Peer : clients[p] = None \/ (clients[p] \in Open /\ peer[clients[p]] = p)
  /\ \A i \in Open : clients[peer[i]] = i
  /\ session = Open
  /\ timeouts \union watched \subseteq {i \in Id : state[i] = "working"}

\* A peer of which nothing is heard any more is forgotten: its socket does not
\* stay in work. One that did not get so far has no timer, and keeps its address
\* for good.
SilentForgotten == <>[](\A i \in Id : state[i] # "working")
=============================================================================
