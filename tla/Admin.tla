------------------------------- MODULE Admin -------------------------------
(***************************************************************************)
(* The admin clients of the master: how they log in, and the requests they *)
(* make of the servers through the modules of the console service.         *)
(*                                                                         *)
(*   admin/client/client.js, master/masterSocket.js, masterAgent.js        *)
(*   admin/consoleService.js        execute, command, aclControl           *)
(*   admin/modules/watchServer.js, monitorLog.js, scripts.js               *)
(*   admin/monitor/monitorAgent.js  the 'monitor' event                    *)
(*                                                                         *)
(* A client is let in by the function authUser of the option authUser, an  *)
(* object; it may take its time.  (A function, which the console service   *)
(* takes as well, makes every login throw.)                                *)
(*                                                                         *)
(* A request of a client becomes requests to servers, which stay in msgMap *)
(* until they are answered and are sent again when the server registers.   *)
(***************************************************************************)
EXTENDS Naturals, FiniteSets

CONSTANTS
  Conn,       \* connections of clients
  Id, IdOf,   \* ids of clients, and the id each connection logs in with
  NoConn,
  Operators,  \* connections of users whose level is 1
  Server,
  Frontend,   \* frontend servers
  Request,
  MaxCuts     \* bound: connections of servers that are lost

\* What is assumed of the constants.
AdminAssumption ==
  /\ IdOf \in [Conn -> Id] /\ NoConn \notin Conn
  /\ Operators \subseteq Conn /\ Frontend \subseteq Server
  /\ MaxCuts \in Nat

VARIABLES
  conn,     \* "new", "register" (sent), "auth" (authUser works), "in", "closed"
  clients,  \* clients of the agent: id to connection
  idMap,    \* servers that are registered
  kind,     \* what each request is; "none" before it is made
  unknown,  \* requests made of a server that was not registered
  pending,  \* servers that a request waits for
  answers,  \* how often its callback was called
  msgMap,   \* requests the agent keeps for a server
  sent,     \* on their way to a server
  working,  \* executed by a server, not answered yet
  replies,  \* answers on their way
  callbacks,\* requests to a server whose callback the agent has
  ran,      \* how often a server executed a request
  lost,     \* requests whose connection was lost before the answer
  cuts

logins == <<conn, clients>>
asked == <<kind, unknown, pending, answers>>
agent == <<msgMap, sent, working, replies, callbacks, ran, lost>>
vars == <<logins, idMap, asked, agent, cuts>>

Part == Request \X Server
Kinds == {"none", "servers", "connections", "status", "show", "dump", "set", "log", "emptyLog",
          "unread", "mistyped", "local", "denied"}

TypeOK ==
  /\ conn \in [Conn -> {"new", "register", "auth", "in", "closed"}]
  /\ clients \in [Id -> Conn \union {NoConn}]
  /\ idMap \subseteq Server
  /\ kind \in [Request -> Kinds]
  /\ unknown \subseteq Request
  /\ pending \in [Request -> SUBSET Server]
  /\ answers \in [Request -> 0 .. 2]
  /\ \A ps \in {msgMap, sent, working, replies, callbacks, lost} : ps \subseteq Part
  /\ ran \in [Part -> Nat]
  /\ cuts \in 0 .. MaxCuts

NoClients == [i \in Id |-> NoConn]

Init ==
  /\ conn = [c \in Conn |-> "new"]
  /\ clients = NoClients
  /\ idMap \in SUBSET Server
  /\ kind = [r \in Request |-> "none"]
  /\ unknown = {}
  /\ pending = [r \in Request |-> {}]
  /\ answers = [r \in Request |-> 0]
  /\ msgMap = {} /\ sent = {} /\ working = {} /\ replies = {} /\ callbacks = {} /\ lost = {}
  /\ ran = [p \in Part |-> 0]
  /\ cuts = 0

-----------------------------------------------------------------------------
(* Logins *)

\* The master accepts the connection, and the client sends 'register' on it.
Accepted(c) == [conn EXCEPT ![c] = "register"]

\* connect of the client, which may fail.
Connect(c) ==
  /\ conn[c] = "new"
  /\ conn' = Accepted(c) \/ conn' = [conn EXCEPT ![c] = "closed"]
  /\ UNCHANGED <<clients, idMap, asked, agent, cuts>>

\* 'register': the user is looked up; one without an id or a name is refused.
Login(c) ==
  /\ conn[c] = "register"
  /\ \/ conn' = [conn EXCEPT ![c] = "auth"]
     \/ conn' = [conn EXCEPT ![c] = "closed"]
  /\ UNCHANGED <<clients, idMap, asked, agent, cuts>>

\* An id can be used once.
Free(c) == clients[IdOf[c]] = NoConn
MayLogIn(c) == Free(c)

\* The answer of authUser.  The client may be gone by then: its id stays taken.
Authorized(c) ==
  /\ conn[c] = "auth"
  /\ IF MayLogIn(c)
     THEN /\ clients' = [clients EXCEPT ![IdOf[c]] = c]
          /\ \/ conn' = [conn EXCEPT ![c] = "in"]
             \/ conn' = [conn EXCEPT ![c] = "closed"]
     ELSE conn' = [conn EXCEPT ![c] = "closed"] /\ UNCHANGED clients
  /\ UNCHANGED <<idMap, asked, agent, cuts>>

Refused(c) ==
  /\ conn[c] = "auth"
  /\ conn' = [conn EXCEPT ![c] = "closed"]
  /\ UNCHANGED <<clients, idMap, asked, agent, cuts>>

\* onDisconnect, of a client that is logged in.
LeavesClient(c) ==
  /\ conn[c] = "in"
  /\ conn' = [conn EXCEPT ![c] = "closed"]
  /\ clients' = [clients EXCEPT ![IdOf[c]] = NoConn]
  /\ UNCHANGED <<idMap, asked, agent, cuts>>

-----------------------------------------------------------------------------
(* Requests of clients: onClient, execute, clientHandler *)

\* request or command of a client that is logged in.
Asks(c, r) == conn[c] = "in" /\ kind[r] = "none"

Given(c, r, k) ==
  /\ Asks(c, r)
  /\ kind' = [kind EXCEPT ![r] = k]
  /\ UNCHANGED <<logins, idMap, working, replies, ran, lost, cuts>>

Answered(r) == answers' = [answers EXCEPT ![r] = @ + 1]

\* request: also one to an unknown server is kept.
RequestAll(r, to) ==
  LET parts == {r} \X to IN
  /\ msgMap' = msgMap \union parts
  /\ callbacks' = callbacks \union parts
  /\ sent' = sent \union ({r} \X (to \intersect idMap))
  /\ pending' = [pending EXCEPT ![r] = to]

NoRequest == UNCHANGED <<pending, msgMap, sent, callbacks>>

\* 'servers': every registered server is asked, and all answers are awaited.
\* 'connections' and 'logins' of all: every frontend.
AskAll(r, to) ==
  /\ RequestAll(r, to)
  /\ IF to = {} THEN Answered(r) ELSE UNCHANGED answers
  /\ UNCHANGED unknown

ShowServers(c, r) == Given(c, r, "servers") /\ AskAll(r, idMap)

ShowConnections(c, r) == Given(c, r, "connections") /\ AskAll(r, idMap \intersect Frontend)

\* 'connections' of one server; of an unknown one, it throws after the answer.
ConnectionsOf(c, r, s) ==
  /\ Given(c, r, "connections")
  /\ IF s \in idMap \intersect Frontend
     THEN RequestAll(r, {s}) /\ UNCHANGED answers
     ELSE NoRequest /\ Answered(r)
  /\ UNCHANGED unknown

\* The commands for one server.  When it is unknown, the callback is called at
\* once; and again when it has registered and answered.
Forward(c, r, s, k) ==
  /\ Given(c, r, k)
  /\ RequestAll(r, {s})
  /\ IF s \in idMap THEN UNCHANGED <<unknown, answers>>
     ELSE unknown' = unknown \union {r} /\ Answered(r)

\* All of them but 'status' and 'config' refuse the context 'all'.
RefuseAll(c, r, k) == Given(c, r, k) /\ NoRequest /\ Answered(r) /\ UNCHANGED unknown

ShowStatus(c, r, s) == Forward(c, r, s, "status")
Show(c, r, s) == Forward(c, r, s, "show") \/ RefuseAll(c, r, "show")
Dump(c, r, s) == Forward(c, r, s, "dump") \/ RefuseAll(c, r, "dump")
Set(c, r, s) == Forward(c, r, s, "set") \/ RefuseAll(c, r, "set")

\* An error of one of these is logged, and nothing is answered.
ForwardHopeful(c, r, s, k) ==
  /\ Given(c, r, k)
  /\ RequestAll(r, {s})
  /\ unknown' = IF s \in idMap THEN unknown ELSE unknown \union {r}
  /\ UNCHANGED answers

\* The logs of a server; a log without a name is an error.
FetchLogs(c, r, s) == \E k \in {"log", "emptyLog"} : ForwardHopeful(c, r, s, k)

RunScript(c, r, s) == ForwardHopeful(c, r, s, "log")

\* Answered by the master: its modules, or its configuration.
Local(c, r) == Given(c, r, "local") /\ NoRequest /\ Answered(r) /\ UNCHANGED unknown

\* The script files of the master: list, get, save.
Scripts(c, r) == Local(c, r)

\* get, of a file that cannot be read: the error is answered, and then no data.
ScriptUnread(c, r) ==
  /\ Given(c, r, "unread")
  /\ answers' = [answers EXCEPT ![r] = @ + 2]
  /\ NoRequest /\ UNCHANGED unknown

\* A command that watchServer does not know is not answered.
ShowError(c, r) == Given(c, r, "mistyped") /\ NoRequest /\ UNCHANGED <<answers, unknown>>

\* aclControl: stop, add, kill and the commands are for operators.
Denied(c, r) ==
  c \notin Operators /\ Given(c, r, "denied") /\ NoRequest /\ Answered(r) /\ UNCHANGED unknown

-----------------------------------------------------------------------------
(* The servers: execute, monitorHandler *)

\* Some of the handlers answer later.
Handle(p) ==
  /\ p \in sent
  /\ sent' = sent \ {p}
  /\ ran' = [ran EXCEPT ![p] = @ + 1]
  /\ working' = working \union {p}
  /\ UNCHANGED <<logins, idMap, asked, msgMap, replies, callbacks, lost, cuts>>

\* An answer without a connection is lost.
HandlerAnswers(p) ==
  /\ p \in working
  /\ working' = working \ {p}
  /\ replies' = IF p[2] \in idMap THEN replies \union {p} ELSE replies
  /\ UNCHANGED <<logins, idMap, asked, msgMap, sent, callbacks, ran, lost, cuts>>

\* 'status' asks ps and pidstat, and never answers if the latter fails.
GetPsInfoFails(p) ==
  /\ p \in working /\ kind[p[1]] = "status"
  /\ working' = working \ {p}
  /\ UNCHANGED <<logins, idMap, asked, msgMap, sent, replies, callbacks, ran, lost, cuts>>

\* The connection of a server is lost; with its process, what it worked on is too.
Disconnects(s) ==
  /\ s \in idMap /\ cuts < MaxCuts
  /\ cuts' = cuts + 1
  /\ idMap' = idMap \ {s}
  /\ sent' = {p \in sent : p[2] # s}
  /\ replies' = {p \in replies : p[2] # s}
  /\ \/ working' = {p \in working : p[2] # s}
     \/ UNCHANGED working
  /\ lost' = lost \union {p \in callbacks : p[2] = s}
  /\ UNCHANGED <<logins, asked, msgMap, callbacks, ran>>

\* repushQosMessage, when a server registers or is back.
Nothing(s) == {}
Repushed(s) == {p \in msgMap : p[2] = s}

Registers(s) ==
  /\ s \notin idMap
  /\ idMap' = idMap \union {s}
  /\ sent' = sent \union Repushed(s)
  /\ UNCHANGED <<logins, asked, msgMap, working, replies, callbacks, ran, lost, cuts>>

\* The callback is called once: a second answer has an unknown id.
Removed(p) == callbacks \ {p}

Forgotten(p) == msgMap \ {p}

OnMonitor(p) ==
  /\ p \in replies
  /\ replies' = replies \ {p}
  /\ IF p \in callbacks
     THEN /\ callbacks' = Removed(p)
          /\ msgMap' = Forgotten(p)
          /\ pending' = [pending EXCEPT ![p[1]] = @ \ {p[2]}]
          /\ IF pending[p[1]] \subseteq {p[2]} /\ kind[p[1]] # "emptyLog"
             THEN Answered(p[1]) ELSE UNCHANGED answers
     ELSE UNCHANGED <<callbacks, msgMap, pending, answers>>
  /\ UNCHANGED <<logins, idMap, kind, unknown, sent, working, ran, lost, cuts>>

-----------------------------------------------------------------------------

ClientHandler(c, r) ==
  \/ ShowServers(c, r) \/ ShowConnections(c, r) \/ Local(c, r) \/ Scripts(c, r) \/ Denied(c, r)
  \/ ScriptUnread(c, r) \/ ShowError(c, r)
  \/ \E s \in Server : \/ ConnectionsOf(c, r, s) \/ ShowStatus(c, r, s) \/ Show(c, r, s)
                       \/ Dump(c, r, s) \/ Set(c, r, s) \/ FetchLogs(c, r, s) \/ RunScript(c, r, s)

Next ==
  \/ \E c \in Conn : \/ Connect(c) \/ Login(c) \/ Authorized(c) \/ Refused(c) \/ LeavesClient(c)
                     \/ \E r \in Request : ClientHandler(c, r)
  \/ \E p \in Part : Handle(p) \/ HandlerAnswers(p) \/ GetPsInfoFails(p) \/ OnMonitor(p)
  \/ \E s \in Server : Disconnects(s) \/ Registers(s)

Spec == Init /\ [][Next]_vars

\* Servers and the master handle what arrives.
Fairness ==
  \A p \in Part : WF_vars(Handle(p)) /\ WF_vars(HandlerAnswers(p)) /\ WF_vars(OnMonitor(p))

-----------------------------------------------------------------------------
(* Properties *)

\* An id is used by one client at a time, however long authUser takes.
OneLogin ==
  \A c, d \in Conn : conn[c] = "in" /\ conn[d] = "in" /\ IdOf[c] = IdOf[d] => c = d

\* A request is answered once, even when a server answers it twice because its
\* connection was lost in between; but for a request to an unknown server, and for a
\* script file that cannot be read, of which the client is told twice.
AnsweredOnce == \A r \in Request : answers[r] > 1 => r \in unknown \/ kind[r] = "unread"

\* A server executes a request a second time (sets a value, runs a script again)
\* only when its connection was lost before the answer arrived.
RanOnce == \A p \in Part : ran[p] > 1 => p \in lost

\* A request of a client is answered unless one of the servers it asks stays away,
\* or it asks for a log without a name, for the status of a process that pidstat
\* does not find, or by a command that is not known.  There is no timeout.
AllAnswered ==
  <>[](\A r \in Request :
         kind[r] \notin {"none", "emptyLog", "status", "mistyped"}
           => answers[r] > 0 \/ ~(pending[r] \subseteq idMap))
=============================================================================
