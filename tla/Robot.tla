------------------------------- MODULE Robot -------------------------------
(***************************************************************************)
(* The load robot: a master keeps a list of the agents connected to it and *)
(* tells them to run actors, at the bidding of web clients; an agent keeps *)
(* a connection to the master through losses, heartbeats and restarts.     *)
(*                                                                         *)
(*   olemop-robot/lib: Robot.js, agent/Agent.js, agent/Actor.js,           *)
(*   master/Server.js, NodeClient.js, WebClient.js, starter.js             *)
(*                                                                         *)
(* A socket of socket.io closes at its two ends separately and gives its   *)
(* messages in order; one still connecting tries until it is told not to.  *)
(* Every handler of an agent works on this.socket, the last one it made,   *)
(* whichever socket called it.                                             *)
(***************************************************************************)
EXTENDS Naturals, Sequences, FiniteSets

CONSTANTS
  Agent,      \* processes that can be started as agents
  MaxSockets, \* bound: sockets of an agent
  MaxTimers,  \* bound: reconnection timers of an agent
  MaxEvents   \* bound: commands, cuts, restarts and errors of actors

\* What is assumed of the constants.
RobotAssumption == MaxSockets \in Nat /\ MaxTimers \in Nat /\ MaxEvents \in Nat

Slot == 1 .. MaxSockets
Socket == Agent \X Slot
Undefined == <<"undefined", 0>>

VARIABLES
  alive,        \* agents whose process runs
  current,      \* agent: the slot of this.socket
  connected, reconnecting,
  timers,       \* agent: reconnection timers pending
  client,       \* socket: the agent's end
  told,         \* socket: the ids announced, not yet read by the master
  ran,          \* agent: times run() was called in this process; reports and actors are never stopped
  exited,       \* agents that ended because their id was taken
  overlapped,   \* agents restarted while a reconnection was pending
  server,       \* sockets open at the master's end
  heard,        \* socket: the ids announced on it
  nodes,        \* Server.nodes: id -> socket
  inbox,        \* socket: what the master has sent
  status, commanded, events

agentVars == <<alive, current, connected, reconnecting, timers, client, told, ran, exited, overlapped>>
masterVars == <<server, heard, nodes, inbox, status, commanded>>
vars == <<agentVars, masterVars, events>>

Ids == Socket \union {Undefined}

TypeOK ==
  /\ alive \subseteq Agent /\ exited \subseteq Agent /\ overlapped \subseteq Agent
  /\ current \in [Agent -> 0 .. MaxSockets] /\ timers \in [Agent -> 0 .. MaxTimers]
  /\ {connected, reconnecting} \subseteq [Agent -> BOOLEAN]
  /\ client \in [Socket -> {"down", "connecting", "up"}]
  /\ told \in [Socket -> Seq(Ids)] /\ heard \in [Socket -> SUBSET Ids]
  /\ inbox \in [Socket -> Seq({"run", "disconnect", "exit", "exists"})]
  /\ server \subseteq Socket
  /\ DOMAIN nodes \subseteq Ids /\ \A id \in DOMAIN nodes : nodes[id] \in Socket
  /\ status \in {"idle", "ready", "running"}

\* The constructor of an agent.
NewAgent(a) == [current |-> 0, connected |-> FALSE, reconnecting |-> FALSE]

Init ==
  /\ alive = {} /\ exited = {} /\ overlapped = {}
  /\ current = [a \in Agent |-> NewAgent(a).current] /\ timers = [a \in Agent |-> 0] /\ ran = timers
  /\ connected = [a \in Agent |-> NewAgent(a).connected]
  /\ reconnecting = [a \in Agent |-> NewAgent(a).reconnecting]
  /\ client = [s \in Socket |-> "down"]
  /\ told = [s \in Socket |-> <<>>] /\ inbox = told /\ heard = [s \in Socket |-> {}]
  /\ server = {} /\ nodes = <<>> /\ status = "idle" /\ commanded = 0 /\ events = 0

Event == events < MaxEvents /\ events' = events + 1
Live(a) == {s \in Socket : s[1] = a /\ client[s] # "down"}
Open(s) == client[s] = "up" /\ s \in server
Unused(a) == {i \in Slot : /\ client[<<a, i>>] = "down" /\ <<a, i>> \notin server /\ i # current[a]}

\* Some sockets of agents are closed by these: what they had not sent is lost.
Closed(S) ==
  /\ client' = [s \in Socket |-> IF s \in S THEN "down" ELSE client[s]]
  /\ told' = [s \in Socket |-> IF s \in S /\ s \notin server THEN <<>> ELSE told[s]]
This(a) == {<<a, current[a]>>} \ {<<a, 0>>}

-----------------------------------------------------------------------------
(* Agent *)

\* The first socket is made by start, with the timer of the heartbeats.
Connect(a) == \E i \in Unused(a) :
  /\ current' = [current EXCEPT ![a] = i]
  /\ client' = [client EXCEPT ![<<a, i>>] = "connecting"]
  /\ told' = [told EXCEPT ![<<a, i>>] = <<>>]

\* this.socket.id is undefined until that socket has connected, and what is
\* sent before is kept by the socket until it has.
Announcement(a) == IF client[<<a, current[a]>>] = "up" THEN <<a, current[a]>> ELSE Undefined

\* Mutant: the agent still counts as reconnecting.
SettledHalf(a) ==
  /\ connected' = [connected EXCEPT ![a] = TRUE]
  /\ UNCHANGED reconnecting
Settled(a) ==
  /\ connected' = [connected EXCEPT ![a] = TRUE]
  /\ reconnecting' = [reconnecting EXCEPT ![a] = FALSE]

OnConnect(s) == LET a == s[1]  c == <<a, current[a]>> IN
  /\ client[s] = "connecting"
  /\ client' = [client EXCEPT ![s] = "up"] /\ server' = server \union {s}
  /\ told' = IF c = s THEN [told EXCEPT ![s] = <<s>> \o @]
             ELSE IF client[c] = "down" THEN told ELSE [told EXCEPT ![c] = Append(@, Announcement(a))]
  /\ Settled(a)
  /\ heard' = [heard EXCEPT ![s] = {}] /\ inbox' = [inbox EXCEPT ![s] = <<>>]
  /\ UNCHANGED <<alive, current, timers, ran, exited, overlapped, nodes, status, commanded, events>>

\* Mutant: a restart that is forced does not mind the one under way.
ReconnectAlways(a, force) ==
  /\ timers[a] < MaxTimers /\ timers' = [timers EXCEPT ![a] = @ + 1]
  /\ reconnecting' = [reconnecting EXCEPT ![a] = TRUE]
  /\ connected' = [connected EXCEPT ![a] = FALSE] /\ Closed(This(a))
Reconnect(a, force) ==
  IF ~force /\ reconnecting[a] THEN UNCHANGED <<reconnecting, connected, timers, client, told>>
  ELSE /\ timers[a] < MaxTimers /\ timers' = [timers EXCEPT ![a] = @ + 1]
       /\ reconnecting' = [reconnecting EXCEPT ![a] = TRUE]
       /\ connected' = [connected EXCEPT ![a] = FALSE] /\ Closed(This(a))

TimerFires(a) ==
  /\ timers[a] > 0 /\ timers' = [timers EXCEPT ![a] = @ - 1]
  /\ IF connected[a] THEN UNCHANGED <<current, client, told>> ELSE Connect(a)
  /\ UNCHANGED <<alive, connected, reconnecting, ran, exited, overlapped, masterVars, events>>

\* No pong has come for three periods.
HeartbeatFails(a) ==
  /\ a \in alive /\ ~\E s \in Live(a) : Open(s)
  /\ IF reconnecting[a]
     THEN connected' = [connected EXCEPT ![a] = FALSE] /\ UNCHANGED <<reconnecting, timers, client, told>>
     ELSE Reconnect(a, FALSE)
  /\ UNCHANGED <<alive, current, ran, exited, overlapped, masterVars, events>>

\* An error of an actor, sent as 'error', stays in the agent: that event is the socket's own.
ActorError(a) ==
  /\ Event /\ a \in alive /\ ran[a] > 0 /\ Reconnect(a, FALSE)
  /\ UNCHANGED <<alive, current, ran, exited, overlapped, masterVars>>

\* Robot.restart
Restart(a) ==
  /\ Event /\ a \in alive /\ Reconnect(a, TRUE)
  /\ overlapped' = IF reconnecting[a] \/ timers[a] > 0 THEN overlapped \union {a} ELSE overlapped
  /\ UNCHANGED <<alive, current, ran, exited, masterVars>>

\* The connection is lost and the agent sees it first, or sees what the master did.
OnDisconnect(s) ==
  /\ client[s] = "up" /\ IF s \in server THEN Event ELSE UNCHANGED events
  /\ Closed({s} \union This(s[1]))
  /\ UNCHANGED <<alive, current, connected, reconnecting, timers, ran, exited, overlapped, masterVars>>

\* The process ends: its sockets, timers and actors are gone.
Exit(a) ==
  /\ alive' = alive \ {a} /\ Closed({s \in Socket : s[1] = a})
  /\ timers' = [timers EXCEPT ![a] = 0] /\ ran' = [ran EXCEPT ![a] = 0]
  /\ current' = [current EXCEPT ![a] = NewAgent(a).current]
  /\ connected' = [connected EXCEPT ![a] = NewAgent(a).connected]
  /\ reconnecting' = [reconnecting EXCEPT ![a] = NewAgent(a).reconnecting]

\* Actors and a report are started; those of an earlier run are not stopped.
RunsActors(a) == ran' = [ran EXCEPT ![a] = @ + 1]

Receive(s) == LET a == s[1] IN
  /\ Open(s) /\ inbox[s] # <<>> /\ inbox' = [inbox EXCEPT ![s] = Tail(@)]
  /\ \/ /\ Head(inbox[s]) = "run" /\ RunsActors(a)
        /\ UNCHANGED <<alive, current, connected, reconnecting, timers, client, told, exited>>
     \/ /\ Head(inbox[s]) = "disconnect" /\ Closed(This(a))
        /\ UNCHANGED <<alive, current, connected, reconnecting, timers, ran, exited>>
     \/ /\ Head(inbox[s]) \in {"exit", "exists"} /\ Exit(a)
        /\ exited' = IF Head(inbox[s]) = "exists" THEN exited \union {a} ELSE exited
  /\ UNCHANGED <<overlapped, server, heard, nodes, status, commanded, events>>

-----------------------------------------------------------------------------
(* Master *)

\* The node is in the room until its socket ends.
NodeClient(s, id) == heard' = [heard EXCEPT ![s] = @ \union {id}]

AnnounceNode(s) ==
  /\ s \in server /\ told[s] # <<>> /\ told' = [told EXCEPT ![s] = Tail(@)]
  /\ LET id == Head(told[s]) IN
     /\ inbox' = IF id \in DOMAIN nodes THEN [inbox EXCEPT ![s] = Append(@, "exists")] ELSE inbox
     /\ nodes' = [n \in DOMAIN nodes \union {id} |-> IF n = id THEN s ELSE nodes[n]]
     /\ NodeClient(s, id)
  /\ UNCHANGED <<alive, current, connected, reconnecting, timers, client, ran, exited, overlapped>>
  /\ UNCHANGED <<server, status, commanded, events>>

\* The ids a socket announced are removed with it, whoever has them now.
Without(s) == [n \in DOMAIN nodes \ heard[s] |-> nodes[n]]

\* After what the agent had sent when it closed the socket itself; or the master loses it first.
Disconnected(s) ==
  /\ s \in server
  /\ IF client[s] = "up" THEN Event ELSE UNCHANGED events
  /\ server' = server \ {s} /\ nodes' = Without(s)
  /\ heard' = [heard EXCEPT ![s] = {}] /\ inbox' = [inbox EXCEPT ![s] = <<>>] /\ told' = [told EXCEPT ![s] = <<>>]
  /\ status' = IF heard[s] # {} /\ DOMAIN Without(s) = {} THEN "idle" ELSE status
  /\ UNCHANGED <<alive, current, connected, reconnecting, timers, client, ran, exited, overlapped, commanded>>

\* Once for each node: a socket that is listed twice is told twice.
Sent(msg, to) == inbox' = [s \in Socket |->
  IF s \in server THEN inbox[s] \o [k \in 1 .. Cardinality({n \in to : nodes[n] = s}) |-> msg] ELSE inbox[s]]

Run ==
  /\ Event /\ Sent("run", DOMAIN nodes) /\ status' = "running" /\ commanded' = commanded + 1
  /\ UNCHANGED <<agentVars, server, heard, nodes>>

\* The process of an agent: Robot.runAgent.
RunAgent(a) == alive' = alive \union {a} /\ Connect(a)

Started(a) == a \notin alive /\ RunAgent(a)

\* The room has every socket that announced itself; starter.run starts agents anew.
Ready(a) ==
  /\ Event /\ status' = "ready"
  /\ inbox' = [s \in Socket |-> IF s \in server /\ heard[s] # {} THEN Append(inbox[s], "disconnect") ELSE inbox[s]]
  /\ Started(a)
  /\ UNCHANGED <<connected, reconnecting, timers, ran, exited, overlapped, server, heard, nodes, commanded>>

ExitForReady ==
  /\ Event /\ Sent("exit", DOMAIN nodes) /\ nodes' = <<>>
  /\ UNCHANGED <<agentVars, server, heard, status, commanded>>

Next ==
  \/ Run \/ ExitForReady
  \/ \E a \in Agent : TimerFires(a) \/ HeartbeatFails(a) \/ ActorError(a) \/ Restart(a) \/ Ready(a)
  \/ \E s \in Socket : OnConnect(s) \/ OnDisconnect(s) \/ Receive(s) \/ AnnounceNode(s) \/ Disconnected(s)

Spec == Init /\ [][Next]_vars

\* Timers fire, connections are made while the master listens, and what was sent arrives.
Fairness ==
  /\ \A a \in Agent : WF_vars(TimerFires(a)) /\ WF_vars(HeartbeatFails(a))
  /\ \A s \in Socket : /\ WF_vars(OnConnect(s)) /\ WF_vars(Receive(s)) /\ WF_vars(AnnounceNode(s))
                       /\ WF_vars(s \notin server /\ OnDisconnect(s)) /\ WF_vars(client[s] # "up" /\ Disconnected(s))

-----------------------------------------------------------------------------
(* Properties *)

\* An agent has one socket, never finds its id taken and runs a command at
\* most once, unless it was restarted while a reconnection was pending.
OneSocket == \A a \in Agent \ overlapped :
  Cardinality(Live(a)) <= 1 /\ a \notin exited /\ ran[a] <= commanded

\* An agent that lost the master, or was sent away, is listed again if its
\* process lives, with the same exception: pongs of a second socket hide the
\* loss of the first, and its loss closes the first while that one connects,
\* which leaves the agent reconnecting with no timer.
Listed(a) == \E n \in DOMAIN nodes : nodes[n][1] = a
AgentsReturn == <>[](\A a \in Agent : a \notin alive \/ a \in overlapped \/ Listed(a))
=============================================================================
