------------------------------- MODULE Watch -------------------------------
(***************************************************************************)
(* The watch of the cluster: the master process knows which servers run,   *)
(* tells every server of every other one, and announces the start of all.  *)
(*                                                                         *)
(*   admin/monitor/monitorAgent.js, protocol/mqtt/mqttClient.js            *)
(*       the agent of a server process: register, reconnect, requests      *)
(*   admin/master/masterAgent.js, masterSocket.js                          *)
(*       the agent of the master: connections by server id, request        *)
(*       callbacks, and the messages kept to be pushed again (msgMap)      *)
(*   core/master/watchdog.js, util/countDownLatch.js                       *)
(*       servers, listeners, the count of started servers, notifications   *)
(*   core/modules/masterwatcher.js, monitorwatcher.js, application.js      *)
(*       subscribe, record; the table of servers each process keeps        *)
(*                                                                         *)
(* A process and the master talk over a connection: two FIFO queues, which *)
(* either side may find closed before the other does.  What a side has     *)
(* sent and the other not read when it finds the close is lost.  A server  *)
(* is always started with the same host and port, so compareServer         *)
(* (admin/util/utils.js) holds of any two records of one id.               *)
(*                                                                         *)
(* Abstracted: authentication (the default one accepts), consoles that     *)
(* connect as clients, modules other than the watchers, and the moments    *)
(* between a TCP connect and its connack.                                  *)
(***************************************************************************)
EXTENDS Integers, Sequences, FiniteSets

CONSTANTS
  Server,       \* ids of the servers of the cluster
  Master,       \* that of the master process, which has a MonitorAgent of its own
  NoServer,     \* owner of a connection not made yet
  FaultPlan,    \* bound: the kinds the first, the second, ... fault of a behaviour may be of:
                \* "crash" of a server, "restart" of the master, "break" of a connection,
                \* "silence" that its keep-alive takes for one
  LateCloses,   \* may the master hear of a server's new connection before it finds the old one closed
  Respawn       \* are server processes that ended started again

ASSUME ConstantsAssumption ==
  /\ IsFiniteSet(Server)
  /\ Master \in Server
  /\ NoServer \notin Server
  /\ FaultPlan \in Seq(SUBSET {"crash", "restart", "break", "silence"})
  /\ LateCloses \in BOOLEAN /\ Respawn \in BOOLEAN

MaxFault == Len(FaultPlan)

\* A fault makes at most every server connect once more.
MaxConn == Cardinality(Server) * (MaxFault + 1)
Conn == 1 .. MaxConn
Lost == 0             \* the agent waits to reconnect
GivenUp == MaxConn + 1  \* the client was closed by its keep-alive: it never reconnects
NoConn == 0

VARIABLES
  \* of each server process
  phase,      \* idle, registering, subscribing, starting, running, or how it ended: dead, thrown
  agent,      \* state of its MonitorAgent
  link,       \* its connection
  table,      \* the ids in application.servers
  \* of each connection
  owner,      \* the server that made it
  socket,     \* the master's side: unused, open, registered, closed
  toMaster,   \* messages on their way
  toMonitor,
  \* of the MasterAgent
  idMap,      \* the registered connection of an id
  slaves,     \* slaveMap: the others that registered under the id
  msgMap,     \* requests kept for an id until they are answered
  callbacks,  \* requests whose callback is still kept
  latches,    \* what is left of the CountDownLatch of each request number
  threw,      \* CountDownLatch.done threw 'illegal state.'
  \* of the Watchdog
  servers,
  listeners,
  count,
  isStarted,
  faults      \* faults so far

process == <<phase, agent, link, table>>
network == <<owner, socket, toMaster, toMonitor>>
masterAgent == <<idMap, slaves, msgMap, callbacks, latches, threw>>
watchdog == <<servers, listeners, count, isStarted>>
vars == <<process, network, masterAgent, watchdog, faults>>

Up == {"registering", "subscribing", "starting", "running"}
Ended == {"dead", "thrown"}

Init ==
  /\ phase = [s \in Server |-> "idle"]
  /\ agent = [s \in Server |-> "inited"]
  /\ link = [s \in Server |-> Lost]
  /\ table = [s \in Server |-> {}]
  /\ owner = [c \in Conn |-> NoServer]
  /\ socket = [c \in Conn |-> "unused"]
  /\ toMaster = [c \in Conn |-> <<>>]
  /\ toMonitor = [c \in Conn |-> <<>>]
  /\ idMap = [s \in Server |-> NoConn]
  /\ slaves = [s \in Server |-> {}]
  /\ msgMap = [s \in Server |-> <<>>]
  /\ callbacks = [s \in Server |-> {}]
  /\ latches = <<>>
  /\ threw = FALSE
  /\ servers = {}
  /\ listeners = {}
  /\ count = Cardinality(Server) - 1
  /\ isStarted = FALSE
  /\ faults = 0

-----------------------------------------------------------------------------
(* Connections *)

\* The master process has not thrown.
MasterRuns == ~threw /\ phase[Master] # "thrown"

Accepted(c) == socket[c] \in {"open", "registered"}

\* The master's side of c is still there.
Live(c) == MasterRuns /\ Accepted(c)

\* The client side of c is still there.
Heard(c) == owner[c] \in Server /\ link[owner[c]] = c

Fault(kind) ==
  /\ faults < MaxFault
  /\ kind \in FaultPlan[faults + 1]
  /\ faults' = faults + 1

Fresh(c) == socket[c] = "unused" /\ \A d \in Conn : d < c => socket[d] # "unused"

\* MqttClient.connect up to its connack, and the first message of the agent.
Connect(s, c, msg) ==
  /\ MasterRuns
  /\ Fresh(c)
  /\ link' = [link EXCEPT ![s] = c]
  /\ agent' = [agent EXCEPT ![s] = "connected"]
  /\ owner' = [owner EXCEPT ![c] = s]
  /\ socket' = [socket EXCEPT ![c] = "open"]
  /\ toMaster' = [toMaster EXCEPT ![c] = <<[type |-> msg]>>]
  /\ UNCHANGED <<toMonitor, masterAgent, watchdog, faults>>

\* A server process starts; its agent connects and registers.
Boot(s) ==
  /\ phase[s] = "idle" \/ (Respawn /\ s # Master /\ phase[s] \in Ended)
  /\ phase' = [phase EXCEPT ![s] = "registering"]
  /\ table' = [table EXCEPT ![s] = {}]
  /\ \E c \in Conn : Connect(s, c, "register")

\* The reconnect timer: the agent asks to be taken back.
Reconnect(s) ==
  /\ phase[s] \in Up
  /\ link[s] = Lost
  /\ \E c \in Conn : Connect(s, c, "reconnect")
  /\ UNCHANGED <<phase, table>>

\* The process no longer reads its connection.
Unplug(s, to) ==
  /\ link' = [link EXCEPT ![s] = to]
  /\ toMonitor' = [c \in Conn |-> IF c = link[s] THEN <<>> ELSE toMonitor[c]]

\* The client finds its connection closed: a timer will reconnect.  The agent
\* keeps its state.
OnSocketClose(s) ==
  /\ phase[s] \in Up
  /\ link[s] \in Conn
  /\ IF Live(link[s]) THEN Fault("break") ELSE UNCHANGED faults
  /\ Unplug(s, Lost)
  /\ UNCHANGED <<phase, agent, table, owner, socket, toMaster, masterAgent, watchdog>>

\* No ping was answered for two intervals: the client closes itself, and
\* onSocketClose then returns at once.
CheckKeepAlive(s) ==
  /\ phase[s] \in Up
  /\ link[s] \in Conn
  /\ Fault("silence")
  /\ Unplug(s, GivenUp)
  /\ UNCHANGED <<phase, agent, table, owner, socket, toMaster, masterAgent, watchdog>>

\* The process of the server ends, by a crash or a stop.
Exit(s, how) ==
  /\ phase' = [phase EXCEPT ![s] = how]
  /\ agent' = [agent EXCEPT ![s] = "inited"]
  /\ Unplug(s, Lost)

Crash(s) ==
  /\ s # Master
  /\ phase[s] \in Up
  /\ Fault("crash")
  /\ Exit(s, "dead")
  /\ UNCHANGED <<table, owner, socket, toMaster, masterAgent, watchdog>>

-----------------------------------------------------------------------------
(* Messages of the master.  The requests of one notification share a       *)
(* number: a reqId is only ever compared with those of the same id.        *)

NoLatch == -1
Request(n, action, about) == [id |-> n, action |-> action, about |-> about]

\* A request as it is sent: replaceServer carries the servers of that moment.
Packet(r, known) ==
  [type |-> "request", id |-> r.id, action |-> r.action, about |-> r.about,
   servers |-> IF r.action = "replaceServer" THEN known ELSE {}]
Packets(rs, known) == [i \in DOMAIN rs |-> Packet(rs[i], known)]

\* MasterAgent.request for every id: to an unknown id it keeps the request too.
Post(news) ==
  /\ msgMap' = [s \in Server |-> msgMap[s] \o news[s]]
  /\ callbacks' = [s \in Server |-> callbacks[s] \union {news[s][i].id : i \in DOMAIN news[s]}]

\* reqId of the next request.
Number == Len(latches) + 1

Notice(ids, r) == [s \in Server |-> IF s \in ids THEN <<r>> ELSE <<>>]

\* Watchdog.notify: a latch for all listeners, counted down at once by each id
\* that has no connection.
LatchFor(ids, to) == Cardinality({s \in ids : to[s] # NoConn})

Latched(ls, ids, to) == IF ids = {} THEN ls ELSE Append(ls, LatchFor(ids, to))

\* What the handler sends on connection d: to a server by its record, and back
\* on the connection c it serves.
Addressed(d, news, to, known) ==
  IF \E s \in Server : to[s] = d
    THEN Packets(news[CHOOSE s \in Server : to[s] = d], known)
    ELSE <<>>
Arrive(d, msgs) == IF Heard(d) THEN toMonitor[d] \o msgs ELSE <<>>

Receive(c, type) ==
  /\ Live(c)
  /\ toMaster[c] # <<>>
  /\ Head(toMaster[c]).type = type
  /\ toMaster' = [toMaster EXCEPT ![c] = Tail(@)]

\* Nothing of a server's later connection is heard before the earlier is closed.
Predecessors(c) == {d \in Conn : d # c /\ owner[d] = owner[c] /\ Live(d)}
InOrder(c) == LateCloses \/ Predecessors(c) = {}

-----------------------------------------------------------------------------
(* The watchdog's listeners and counts *)

\* Mutant: a server that comes back is not subscribed.
SubscribeNobody(s) == listeners

Subscribe(s) == listeners \union {s}

\* Mutant: a server that leaves stays subscribed.
UnsubscribeNobody(s) == listeners

Unsubscribe(s) == listeners \ {s}

\* Mutant: the master's own monitor is not waited for.
OverEarly(n) == n <= 0

\* More servers have started than are configured: the master's monitor is one.
Over(n) == n < 0

\* Mutant: a callback is kept after it was called.
ForgetNothing(s, n) == callbacks

\* The callback of an answered request is forgotten.
Forget(s, n) == [callbacks EXCEPT ![s] = @ \ {n}]

\* Kept requests but number n.
Without(q, n) ==
  IF \E i \in DOMAIN q : q[i].id = n
    THEN LET i == CHOOSE i \in DOMAIN q : q[i].id = n
         IN SubSeq(q, 1, i - 1) \o SubSeq(q, i + 1, Len(q))
    ELSE q

-----------------------------------------------------------------------------
(* The master *)

\* MasterAgent addConnection: the first connection of an id is the one it is
\* addressed by.
AddConnection(c) == IF idMap[owner[c]] = NoConn THEN [idMap EXCEPT ![owner[c]] = c] ELSE idMap

\* removeConnection compares host and port, which are those of the id, whichever
\* connection they came over.
RemoveConnection(s) == [idMap EXCEPT ![s] = NoConn]

\* The answer on connection c, the requests, and what was kept for the id pushed
\* again on c, the requests just sent included.
Welcome(c, answer, news, to, known) ==
  toMonitor' = [d \in Conn |-> Arrive(d,
    (IF d = c THEN <<answer>> ELSE <<>>)
    \o Addressed(d, news, to, known)
    \o (IF d = c THEN Packets(msgMap[owner[c]] \o news[owner[c]], known) ELSE <<>>))]

Reply(c, answer) ==
  toMonitor' = [d \in Conn |-> Arrive(d, IF d = c THEN <<answer>> ELSE <<>>)]

\* MasterSocket.onRegister: doAuthServer adds the connection, answers, tells
\* the listeners; then what was kept for the id is pushed again.
OnRegister(c) ==
  /\ Receive(c, "register")
  /\ InOrder(c)
  /\ LET s == owner[c]
         to == AddConnection(c)
         known == servers \union {s}
         news == Notice(listeners, Request(Number, "addServer", s))
     IN /\ idMap' = to
        /\ slaves' = IF idMap[s] = NoConn THEN slaves ELSE [slaves EXCEPT ![s] = @ \union {c}]
        /\ servers' = known
        /\ Post(news)
        /\ latches' = Latched(latches, listeners, to)
        /\ Welcome(c, [type |-> "registered"], news, to, known)
  /\ socket' = [socket EXCEPT ![c] = "registered"]
  /\ UNCHANGED <<process, owner, threw, listeners, count, isStarted, faults>>

\* MasterSocket.onReconnect of an id that has a connection.
RefuseReconnect(c) ==
  /\ Receive(c, "reconnect")
  /\ InOrder(c)
  /\ idMap[owner[c]] # NoConn
  /\ Reply(c, [type |-> "reconnected", ok |-> FALSE])
  /\ UNCHANGED <<process, owner, socket, masterAgent, watchdog, faults>>

\* MasterSocket.onReconnect, Watchdog.reconnectServer: the server gets the whole
\* table, the listeners get the server, and it becomes one of them; then what
\* was kept for the id is pushed again.
OnReconnect(c) ==
  /\ Receive(c, "reconnect")
  /\ InOrder(c)
  /\ idMap[owner[c]] = NoConn
  /\ LET s == owner[c]
         to == AddConnection(c)
         known == servers \union {s}
         replace == Request(Number, "replaceServer", s)
         add == Request(Number + 1, "addServer", s)
         news == [t \in Server |-> Notice({s}, replace)[t] \o Notice(listeners, add)[t]]
     IN /\ idMap' = to
        /\ servers' = known
        /\ Post(news)
        /\ latches' = Latched(Append(latches, NoLatch), listeners, to)
        /\ listeners' = Subscribe(s)
        /\ Welcome(c, [type |-> "reconnected", ok |-> TRUE], news, to, known)
  /\ socket' = [socket EXCEPT ![c] = "registered"]
  /\ UNCHANGED <<process, owner, slaves, threw, count, isStarted, faults>>

\* masterwatcher subscribe: a listener more, and the table in return.
OnSubscribe(c) ==
  /\ Receive(c, "subscribe")
  /\ listeners' = Subscribe(owner[c])
  /\ Reply(c, [type |-> "servers", servers |-> servers])
  /\ UNCHANGED <<process, owner, socket, masterAgent, servers, count, isStarted, faults>>

\* Watchdog.record: when all have started, all are told.
OnRecord(c) ==
  /\ Receive(c, "record")
  /\ count' = IF isStarted THEN count ELSE count - 1
  /\ isStarted' = Over(count')
  /\ LET told == IF isStarted' /\ ~isStarted THEN listeners ELSE {}
         news == Notice(told, Request(Number, "startOver", owner[c]))
     IN /\ Post(news)
        /\ latches' = Latched(latches, told, idMap)
        /\ toMonitor' = [d \in Conn |-> Arrive(d, Addressed(d, news, idMap, servers))]
  /\ UNCHANGED <<process, owner, socket, idMap, slaves, threw, servers, listeners, faults>>

\* MasterSocket.onMonitor, a response: the callback is called and forgotten,
\* with the message kept for it.  A second response is ignored.
OnResponse(c) ==
  /\ Receive(c, "response")
  /\ LET s == owner[c]
         n == Head(toMaster[c]).id
     IN IF n \in callbacks[s]
          THEN /\ callbacks' = Forget(s, n)
               /\ msgMap' = [msgMap EXCEPT ![s] = Without(@, n)]
               /\ latches' = IF latches[n] > 0 THEN [latches EXCEPT ![n] = @ - 1] ELSE latches
               /\ threw' = (latches[n] = 0)
          ELSE UNCHANGED <<callbacks, msgMap, latches, threw>>
  /\ UNCHANGED <<process, owner, socket, toMonitor, idMap, slaves, watchdog, faults>>

\* The master finds c closed (MasterSocket.onDisconnect), because the client
\* has left it or by a fault; removeServer forgets the server and tells the
\* other listeners.
OnDisconnect(c) ==
  /\ Live(c)
  /\ IF Heard(c) THEN Fault("break") ELSE UNCHANGED faults
  /\ socket' = [socket EXCEPT ![c] = "closed"]
  /\ toMaster' = [toMaster EXCEPT ![c] = <<>>]
  /\ IF socket[c] = "registered"
       THEN LET s == owner[c]
                to == RemoveConnection(s)
                rest == Unsubscribe(s)
                news == Notice(rest, Request(Number, "removeServer", s))
            IN /\ idMap' = to
               /\ servers' = servers \ {s}
               /\ listeners' = rest
               /\ Post(news)
               /\ latches' = Latched(latches, rest, to)
               /\ toMonitor' = [d \in Conn |-> Arrive(d, Addressed(d, news, to, {}))]
       ELSE UNCHANGED <<idMap, servers, listeners, msgMap, callbacks, latches, toMonitor>>
  /\ UNCHANGED <<process, owner, slaves, threw, count, isStarted>>

\* The master process ends, or has thrown, and another starts in its place, with
\* a new agent of its own.
RestartMaster ==
  /\ Fault("restart")
  /\ Exit(Master, "idle")
  /\ socket' = [c \in Conn |-> IF Accepted(c) THEN "closed" ELSE socket[c]]
  /\ toMaster' = [c \in Conn |-> <<>>]
  /\ idMap' = [s \in Server |-> NoConn]
  /\ slaves' = [s \in Server |-> {}]
  /\ msgMap' = [s \in Server |-> <<>>]
  /\ callbacks' = [s \in Server |-> {}]
  /\ latches' = <<>>
  /\ servers' = {}
  /\ listeners' = {}
  /\ count' = Cardinality(Server) - 1
  /\ isStarted' = FALSE
  /\ threw' = FALSE
  /\ UNCHANGED <<table, owner>>

-----------------------------------------------------------------------------
(* A server process *)

Read(s, type) ==
  /\ phase[s] \in Up
  /\ link[s] \in Conn
  /\ toMonitor[link[s]] # <<>>
  /\ Head(toMonitor[link[s]]).type = type
  /\ toMonitor' = [toMonitor EXCEPT ![link[s]] = Tail(@)]

\* What the agent sends is lost when the master has closed the connection.
Say(s, msg) ==
  toMaster' = IF Live(link[s]) THEN [toMaster EXCEPT ![link[s]] = Append(@, msg)] ELSE toMaster

\* MonitorAgent 'register': the callback of connect starts the modules, and
\* monitorwatcher subscribes.
OnRegistered(s) ==
  /\ Read(s, "registered")
  /\ agent' = [agent EXCEPT ![s] = "registered"]
  /\ phase' = [phase EXCEPT ![s] = "subscribing"]
  /\ Say(s, [type |-> "subscribe"])
  /\ UNCHANGED <<link, table, owner, socket, masterAgent, watchdog, faults>>

\* Mutant: the agent does not notice that it is registered again.
OnReconnectedIgnored(s) ==
  /\ Read(s, "reconnected")
  /\ UNCHANGED <<phase, agent, link, table, owner, socket, toMaster, masterAgent, watchdog, faults>>

\* MonitorAgent 'reconnect_ok': a refusal changes nothing.
OnReconnected(s) ==
  /\ Read(s, "reconnected")
  /\ agent' = IF Head(toMonitor[link[s]]).ok THEN [agent EXCEPT ![s] = "registered"] ELSE agent
  /\ UNCHANGED <<phase, link, table, owner, socket, toMaster, masterAgent, watchdog, faults>>

\* The answer to subscribe: the servers are added, the modules have started.
OnServers(s) ==
  /\ Read(s, "servers")
  /\ table' = [table EXCEPT ![s] = @ \union Head(toMonitor[link[s]]).servers]
  /\ phase' = [phase EXCEPT ![s] = "starting"]
  /\ UNCHANGED <<agent, link, owner, socket, toMaster, masterAgent, watchdog, faults>>

\* Mutant: replaceServer keeps what was there.
ApplyAdding(r, known) ==
  CASE r.action = "addServer" -> known \union {r.about}
    [] r.action = "removeServer" -> known \ {r.about}
    [] r.action = "replaceServer" -> known \union r.servers
    [] r.action = "startOver" -> known

\* application addServers, removeServers, replaceServers.
Apply(r, known) ==
  CASE r.action = "addServer" -> known \union {r.about}
    [] r.action = "removeServer" -> known \ {r.about}
    [] r.action = "replaceServer" -> r.servers
    [] r.action = "startOver" -> known

\* monitorwatcher addServer, removeServer, replaceServer, startOver, each answered.
OnRequest(s) ==
  /\ Read(s, "request")
  /\ agent[s] = "registered"
  /\ LET r == Head(toMonitor[link[s]])
     IN /\ table' = [table EXCEPT ![s] = Apply(r, @)]
        /\ Say(s, [type |-> "response", id |-> r.id])
  /\ UNCHANGED <<phase, agent, link, owner, socket, masterAgent, watchdog, faults>>

\* The application has started: START_SERVER, which monitorwatcher records with
\* the master.  The agent refuses only when it is not registered.
FinishStart(s) ==
  /\ phase[s] = "starting"
  /\ agent[s] = "registered" => link[s] \in Conn
  /\ phase' = [phase EXCEPT ![s] = "running"]
  /\ IF agent[s] = "registered" THEN Say(s, [type |-> "record"]) ELSE UNCHANGED toMaster
  /\ UNCHANGED <<agent, link, table, owner, socket, toMonitor, masterAgent, watchdog, faults>>

\* MqttClient.send without a socket: a TypeError nobody catches.
FinishStartThrows(s) ==
  /\ phase[s] = "starting"
  /\ agent[s] = "registered"
  /\ link[s] = Lost
  /\ Exit(s, "thrown")
  /\ UNCHANGED <<table, owner, socket, toMaster, masterAgent, watchdog, faults>>

-----------------------------------------------------------------------------
Next ==
  \/ \E s \in Server :
       \/ Boot(s) \/ Reconnect(s) \/ OnSocketClose(s) \/ CheckKeepAlive(s) \/ Crash(s)
       \/ OnRegistered(s) \/ OnReconnected(s) \/ OnServers(s) \/ OnRequest(s)
       \/ FinishStart(s) \/ FinishStartThrows(s)
  \/ \E c \in Conn :
       \/ OnRegister(c) \/ RefuseReconnect(c) \/ OnReconnect(c)
       \/ OnSubscribe(c) \/ OnRecord(c) \/ OnResponse(c) \/ OnDisconnect(c)
  \/ RestartMaster

Spec == Init /\ [][Next]_vars

\* TCP delivers what is sent or reports the close to both sides, the event loops
\* run, and the reconnect timer fires.
Fairness ==
  /\ \A s \in Server :
       /\ WF_vars(Reconnect(s))
       /\ WF_vars(link[s] \in Conn /\ ~Live(link[s]) /\ OnSocketClose(s))
       /\ WF_vars(OnRegistered(s) \/ OnReconnected(s) \/ OnServers(s) \/ OnRequest(s))
       /\ WF_vars(FinishStart(s) \/ FinishStartThrows(s))
  /\ \A c \in Conn :
       /\ WF_vars(OnRegister(c) \/ RefuseReconnect(c) \/ OnReconnect(c))
       /\ WF_vars(OnSubscribe(c) \/ OnRecord(c) \/ OnResponse(c))
       /\ WF_vars(~Heard(c) /\ OnDisconnect(c))

FairSpec == Spec /\ Fairness

-----------------------------------------------------------------------------
(* Properties *)

Action == {"addServer", "removeServer", "replaceServer", "startOver"}
Entry == [id : Nat \ {0}, action : Action, about : Server]
ToMaster ==
  [type : {"register", "reconnect", "subscribe", "record"}]
  \union [type : {"response"}, id : Nat \ {0}]
ToMonitor ==
  [type : {"registered"}]
  \union [type : {"reconnected"}, ok : BOOLEAN]
  \union [type : {"servers"}, servers : SUBSET Server]
  \union [type : {"request"}, id : Nat \ {0}, action : Action, about : Server,
           servers : SUBSET Server]

TypeOK ==
  /\ phase \in [Server -> {"idle"} \union Up \union Ended]
  /\ agent \in [Server -> {"inited", "connected", "registered"}]
  /\ link \in [Server -> 0 .. MaxConn + 1]
  /\ table \in [Server -> SUBSET Server]
  /\ owner \in [Conn -> Server \union {NoServer}]
  /\ socket \in [Conn -> {"unused", "open", "registered", "closed"}]
  /\ toMaster \in [Conn -> Seq(ToMaster)]
  /\ toMonitor \in [Conn -> Seq(ToMonitor)]
  /\ idMap \in [Server -> 0 .. MaxConn]
  /\ slaves \in [Server -> SUBSET Conn]
  /\ msgMap \in [Server -> Seq(Entry)]
  /\ callbacks \in [Server -> SUBSET (1 .. Len(latches))]
  /\ latches \in Seq(Nat \union {NoLatch})
  /\ threw \in BOOLEAN
  /\ servers \subseteq Server
  /\ listeners \subseteq Server
  /\ count \in Int
  /\ isStarted \in BOOLEAN
  /\ faults \in 0 .. MaxFault

\* With the closes found in order, the servers of the watchdog are those with a
\* registered connection, which is open and theirs, and only they listen: what
\* masterSocket, masterAgent and watchdog each keep stays in step (addConnection,
\* removeConnection, removeServer).
DirectoryAgrees ==
  ~LateCloses =>
    /\ listeners \subseteq servers
    /\ \A s \in Server :
         /\ s \in servers <=> idMap[s] # NoConn
         /\ idMap[s] # NoConn => socket[idMap[s]] = "registered" /\ owner[idMap[s]] = s
    /\ \A c \in Conn : socket[c] = "registered" => idMap[owner[c]] = c

\* CountDownLatch.done is never called on a latch that has fired, although kept
\* requests are pushed again and answered twice: a latch counts exactly the
\* callbacks still kept for it (notify, request, onMonitor).
LatchesCount ==
  ~LateCloses =>
    /\ ~threw
    /\ \A n \in DOMAIN latches :
         latches[n] # NoLatch => latches[n] = Cardinality({s \in Server : n \in callbacks[s]})

Attached(s) == agent[s] = "registered" /\ phase[s] \in {"starting", "running"}
Alive == {s \in Server : phase[s] \in Up}

\* Nothing is under way: every message is read, every close is found, every
\* live process has its connection.
Quiet ==
  /\ \A c \in Conn : toMaster[c] = <<>> /\ toMonitor[c] = <<>>
  /\ \A c \in Conn : Live(c) <=> Heard(c)
  /\ \A s \in Alive : link[s] \in Conn

\* When nothing is under way, a started server knows every server that lives,
\* whatever was lost, repeated or replaced before (application.servers) ...
KnowsTheLiving == Quiet => \A s \in Server : Attached(s) => Alive \subseteq table[s]

\* ... and none that does not.
KnowsNoDead == Quiet => \A s \in Server : Attached(s) => table[s] \subseteq Alive

\* The start of all is announced (record) only when every server has started, also
\* when servers ended, reconnected or subscribed again meanwhile.
StartedTogether == isStarted => \A s \in Server : phase[s] \in {"running", "dead"}

\* CountDownLatch.done does not throw in the master, which would end it.
MasterSurvives == ~threw

\* Started servers know exactly those that live, once nothing is under way, and all
\* are told of the start when all have started (watchdog, masterwatcher).
KnowsAll == TypeOK /\ KnowsTheLiving /\ KnowsNoDead /\ StartedTogether

\* When ended servers come back under their names, the tables still have all that
\* live; a server that came back may know a dead one, of a message kept for the
\* process it replaces (masterSocket, msgMap).
BackAgrees == DirectoryAgrees /\ LatchesCount /\ KnowsTheLiving

\* When connections are found closed late, in any order, no dead server is known,
\* and the master lives (masterSocket, CountDownLatch).
LateAgrees == KnowsNoDead /\ StartedTogether /\ MasterSurvives

\* A server that lives is, again and again, one the master notifies: it gets over
\* a broken connection and a restart of the master (reconnect, onReconnect).
Returns ==
  \A s \in Server :
    (phase[s] \in Up) ~> (phase[s] \notin Up \/ ~MasterRuns
                            \/ (agent[s] = "registered" /\ s \in listeners))
=============================================================================
