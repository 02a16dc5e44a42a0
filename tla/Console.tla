------------------------------- MODULE Console -------------------------------
(***************************************************************************)
(* The console of the master: an operator's commands to the servers, the   *)
(* processes they start and stop, and the automatic restart of a server    *)
(* that is lost.                                                           *)
(*                                                                         *)
(*   core/modules/console.js       monitorHandler, clientHandler           *)
(*   core/master/master.js         the 'disconnect' event                  *)
(*   core/master/starter.js        run, spawnProcess                       *)
(*   core/util/countDownLatch.js, utils.loadCluster                        *)
(*   admin/master/masterAgent.js   request, notifyById, notifyAll          *)
(*                                                                         *)
(* A request to a server stays in the msgMap of the agent until the server *)
(* answers, and is sent again when the server registers.  The commands     *)
(* that ask every server count the answers with a latch.                   *)
(*                                                                         *)
(* Here a server registers again only after its old connection is gone     *)
(* (Watch has the other order).                                            *)
(***************************************************************************)
EXTENDS Naturals, FiniteSets

CONSTANTS
  Server, Own,  \* servers; the one of the master's own process is always there
  Command,      \* commands of operators
  AutoRestart,  \* servers that are restarted automatically
  MaxCrashes    \* bound: servers that end by themselves

\* What is assumed of the constants.
ConsoleAssumption ==
  /\ IsFiniteSet(Server) /\ Own \in Server
  /\ AutoRestart \subseteq Server \ {Own}
  /\ MaxCrashes \in Nat

VARIABLES
  proc,         \* "down", "new" (launched), "up", "ending" (it stops, or exits soon)
  idMap,        \* servers that are registered
  stopServers,  \* setting STOP_SERVERS: the servers of the last stop command
  restarting,   \* lost servers whose port the 'disconnect' event will check
  rerunning,    \* and those it will run, three seconds after the check
  seen,         \* servers that have been registered: their types are known
  master,       \* "up", "killing" (exits in two seconds), "exited"
  signal,       \* what each command is; "none" before it is given
  left,         \* count of its latch
  timer,        \* its latch may time out
  answers,      \* how often the operator was answered
  late,         \* its latch timed out
  thrown,       \* an exception was thrown for it
  failed,       \* a process it launched has failed
  msgMap,       \* requests the agent keeps for a server
  sent,         \* requests on their way
  replies,      \* answers on their way
  answered,     \* requests whose answer came
  stopping,     \* servers a stop notification is on its way to
  toRun,        \* servers a command will run: after the port is checked
  launched,     \* the processes that tell a command 'add' how they end
  crashes

requests == <<msgMap, sent, replies, answered, stopping>>
commands == <<signal, left, timer, answers, late, thrown, failed, toRun, launched>>
vars == <<proc, idMap, stopServers, restarting, rerunning, seen, master, requests, commands, crashes>>

Ask == [cmd : Command, to : Server]
Signals == {"none", "kill", "list", "stop", "stopAll", "restart", "emptied", "add", "cluster", "notify"}

TypeOK ==
  /\ proc \in [Server -> {"down", "new", "up", "ending"}]
  /\ idMap \subseteq Server
  /\ stopServers \subseteq Server
  /\ restarting \subseteq Server /\ rerunning \subseteq Server /\ seen \subseteq Server
  /\ master \in {"up", "killing", "exited"}
  /\ signal \in [Command -> Signals]
  /\ left \in [Command -> 0 .. Cardinality(Server)]
  /\ timer \subseteq Command /\ late \subseteq Command
  /\ thrown \subseteq Command /\ failed \subseteq Command
  /\ answers \in [Command -> Nat]
  /\ msgMap \subseteq Ask /\ sent \subseteq Ask /\ replies \subseteq Ask /\ answered \subseteq Ask
  /\ stopping \subseteq Server
  /\ toRun \subseteq Ask /\ launched \subseteq Ask
  /\ crashes \in 0 .. MaxCrashes

Init ==
  /\ \E up \in SUBSET Server :
       /\ Own \in up
       /\ proc = [s \in Server |-> IF s \in up THEN "up" ELSE "down"]
       /\ idMap = up /\ seen = up
  /\ stopServers = {}
  /\ restarting = {} /\ rerunning = {}
  /\ master = "up"
  /\ signal = [k \in Command |-> "none"]
  /\ left = [k \in Command |-> 0]
  /\ timer = {} /\ late = {} /\ thrown = {} /\ failed = {}
  /\ answers = [k \in Command |-> 0]
  /\ msgMap = {} /\ sent = {} /\ replies = {} /\ answered = {}
  /\ stopping = {}
  /\ toRun = {} /\ launched = {}
  /\ crashes = 0

-----------------------------------------------------------------------------
(* The latch *)

\* The timer of a latch that waits for some answers.
LatchTimer(k, n) == IF n > 0 THEN timer \union {k} ELSE timer

\* One answer more: the callback of the latch when it is the last one.  A done()
\* too many throws.
Done(k) ==
  IF left[k] = 0
  THEN thrown' = thrown \union {k} /\ UNCHANGED <<left, timer, answers>>
  ELSE /\ left' = [left EXCEPT ![k] = @ - 1]
       /\ IF left[k] = 1
          THEN timer' = timer \ {k} /\ answers' = [answers EXCEPT ![k] = @ + 1]
          ELSE UNCHANGED <<timer, answers>>
       /\ UNCHANGED thrown

NoDone == UNCHANGED <<left, timer, answers, thrown>>

\* The callback of kill sets the timer that ends the master, at the last answer
\* and at the timeout.
LastAnswer(k) == IF signal[k] = "kill" /\ left'[k] = 0 /\ left[k] = 1 THEN "killing" ELSE master

LatchTimeout(k) ==
  /\ k \in timer /\ signal[k] # "stopAll"
  /\ timer' = timer \ {k}
  /\ late' = late \union {k}
  /\ answers' = [answers EXCEPT ![k] = @ + 1]
  /\ master' = IF signal[k] = "kill" THEN "killing" ELSE master
  /\ UNCHANGED <<proc, idMap, stopServers, restarting, rerunning, seen, requests, signal, left, thrown, failed, toRun, launched, crashes>>

-----------------------------------------------------------------------------
(* clientHandler *)

Given(k, s) == /\ master # "exited" /\ signal[k] = "none"
               /\ signal' = [signal EXCEPT ![k] = s]

Asks(k, to) == {[cmd |-> k, to |-> s] : s \in to}

\* agent.request to each of some servers; those that are registered get it, and
\* the others may still.
AskServer(k, to) ==
  /\ msgMap' = msgMap \union Asks(k, to)
  /\ sent' = sent \union Asks(k, to \intersect idMap)
  /\ UNCHANGED <<replies, answered, stopping>>

\* kill and list count the registered servers; there is always the master's own.
AskAll(k, s) ==
  /\ Given(k, s)
  /\ left' = [left EXCEPT ![k] = Cardinality(idMap)]
  /\ timer' = LatchTimer(k, Cardinality(idMap))
  /\ AskServer(k, idMap)
  /\ UNCHANGED <<proc, idMap, stopServers, restarting, rerunning, seen, master, answers, late, thrown, failed, toRun, launched, crashes>>

Kill(k) == AskAll(k, "kill")
List(k) == AskAll(k, "list")

\* stop some servers: the operator is answered for each unknown one, and at the end.
StopSome(k, ids) ==
  /\ ids # {}
  /\ Given(k, "stop")
  /\ stopServers' = ids
  /\ stopping' = stopping \union (ids \intersect idMap)
  /\ answers' = [answers EXCEPT ![k] = Cardinality(ids \ idMap) + 1]
  /\ UNCHANGED <<proc, idMap, restarting, rerunning, seen, master, msgMap, sent, replies, answered,
                 left, timer, late, thrown, failed, toRun, launched, crashes>>

StopAll(k) ==
  /\ Given(k, "stopAll")
  /\ stopServers' = idMap
  /\ stopping' = stopping \union idMap
  /\ timer' = timer \union {k}
  /\ UNCHANGED <<proc, idMap, restarting, rerunning, seen, master, msgMap, sent, replies, answered,
                 left, answers, late, thrown, failed, toRun, launched, crashes>>

\* Three seconds later the master stops as well.
StopMaster(k) ==
  /\ k \in timer /\ signal[k] = "stopAll"
  /\ timer' = timer \ {k}
  /\ answers' = [answers EXCEPT ![k] = @ + 1]
  /\ master' = "exited"
  /\ UNCHANGED <<proc, idMap, stopServers, restarting, rerunning, seen, requests, signal, left, late, thrown, failed, toRun, launched, crashes>>

\* restart some servers, or all: an unknown one is done at once, but stays in msgMap.
Restart(k, ids) ==
  /\ Given(k, "restart")
  /\ LET to == IF ids = {} THEN idMap ELSE ids
         rest == Cardinality(to \intersect idMap)
     IN  /\ left' = [left EXCEPT ![k] = rest]
         /\ timer' = LatchTimer(k, rest)
         /\ answers' = [answers EXCEPT ![k] = IF rest > 0 THEN 0 ELSE 1]
         /\ AskServer(k, to)
  /\ UNCHANGED <<proc, idMap, stopServers, restarting, rerunning, seen, master, late, thrown, failed, toRun, launched, crashes>>

\* restart with a type that no server has had.
RestartNone(k) ==
  /\ Given(k, "restart")
  /\ answers' = [answers EXCEPT ![k] = 1]
  /\ UNCHANGED <<proc, idMap, stopServers, restarting, rerunning, seen, master, requests, left, timer, late, thrown, failed, toRun, launched, crashes>>

\* restart with a type whose servers have all gone: their list is there, and empty.
\* The latch cannot count to zero, and throws.  Each server may be alone of its type.
RestartEmptied(k) ==
  /\ seen \ idMap # {}
  /\ Given(k, "emptied")
  /\ thrown' = thrown \union {k}
  /\ UNCHANGED <<proc, idMap, stopServers, restarting, rerunning, seen, master, requests, left, timer, answers, late, failed,
                 toRun, launched, crashes>>

\* startServer, or startCluster with the servers loadCluster names.
StartServers(k, ids, s) ==
  /\ ids # {} /\ Own \notin ids
  /\ Given(k, s)
  /\ left' = [left EXCEPT ![k] = Cardinality(ids)]
  /\ toRun' = toRun \union Asks(k, ids)
  /\ UNCHANGED <<proc, idMap, stopServers, restarting, rerunning, seen, master, requests, timer, answers, late, thrown, failed, launched, crashes>>

\* An argument clusterCount makes it a cluster.
StartServer(k) == \E s \in Server : StartServers(k, {s}, "add")
StartCluster(k) == \E ids \in SUBSET Server : StartServers(k, ids, "cluster")
Add(k) == StartServer(k) \/ StartCluster(k)

\* addCron, removeCron and blacklist are notifications, answered at once.
Notify(k) ==
  /\ Given(k, "notify")
  /\ answers' = [answers EXCEPT ![k] = 1]
  /\ UNCHANGED <<proc, idMap, stopServers, restarting, rerunning, seen, master, requests, left, timer, late, thrown, failed, toRun, launched, crashes>>

SendCronInfo(k) == Notify(k)
Blacklist(k) == Notify(k)

\* parseArgs answers that the arguments are malformed; the caller goes on with
\* nothing, and throws.
Malformed(k) ==
  /\ \E s \in {"add", "notify"} : Given(k, s)
  /\ answers' = [answers EXCEPT ![k] = 1]
  /\ thrown' = thrown \union {k}
  /\ UNCHANGED <<proc, idMap, stopServers, restarting, rerunning, seen, master, requests, left, timer, late, failed, toRun, launched, crashes>>

\* runServer and startCluster: a port that is taken is a failure; otherwise the
\* process is launched, and that counts as a success.
PortFree(s) == proc[s] = "down"

RunProcess(s) == [proc EXCEPT ![s] = "new"]

\* An add or a cluster is told how the child ends.
SpawnProcess(r) ==
  /\ proc' = RunProcess(r.to)
  /\ launched' = IF signal[r.cmd] \in {"add", "cluster"} THEN launched \union {r} ELSE launched

Run(r) ==
  /\ r \in toRun
  /\ toRun' = toRun \ {r}
  /\ IF PortFree(r.to)
     THEN SpawnProcess(r)
     ELSE UNCHANGED <<proc, launched>>
  /\ Done(r.cmd)
  /\ UNCHANGED <<idMap, stopServers, restarting, rerunning, seen, master, requests, signal, late, failed, crashes>>

\* The launched process ends with an error code (or writes to stderr, in
\* development): an add is answered once more, and for a cluster that server
\* counts as done a second time.
LaunchedFails(r) ==
  /\ r \in launched
  /\ launched' = launched \ {r}
  /\ failed' = failed \union {r.cmd}
  /\ IF signal[r.cmd] = "cluster" THEN Done(r.cmd)
     ELSE /\ answers' = [answers EXCEPT ![r.cmd] = @ + 1]
          /\ UNCHANGED <<left, timer, thrown>>
  /\ UNCHANGED <<proc, idMap, stopServers, restarting, rerunning, seen, master, requests, signal, late, toRun, crashes>>

-----------------------------------------------------------------------------
(* The servers: monitorHandler *)

Registers(s) ==
  /\ proc[s] = "new" /\ s \notin idMap
  /\ proc' = [proc EXCEPT ![s] = "up"]
  /\ idMap' = idMap \union {s}
  /\ seen' = seen \union {s}
  /\ sent' = sent \union {r \in msgMap : r.to = s}
  /\ UNCHANGED <<stopServers, restarting, rerunning, master, msgMap, replies, answered, stopping, commands, crashes>>

\* Requests: list is answered; kill is answered and ends the process after two
\* seconds; restart is answered and stops it.  The master's own server only
\* answers the first two.
Handle(r) ==
  /\ r \in sent /\ proc[r.to] \in {"up", "ending"}
  /\ sent' = sent \ {r}
  /\ replies' = IF r.to = Own /\ signal[r.cmd] = "restart" THEN replies ELSE replies \union {r}
  /\ proc' = IF r.to # Own /\ signal[r.cmd] \in {"kill", "restart"}
             THEN [proc EXCEPT ![r.to] = "ending"] ELSE proc
  /\ UNCHANGED <<idMap, stopServers, restarting, rerunning, seen, master, msgMap, answered, stopping, commands, crashes>>

HandleStop(s) ==
  /\ s \in stopping /\ proc[s] \in {"up", "ending"}
  /\ stopping' = stopping \ {s}
  /\ proc' = IF s = Own THEN proc ELSE [proc EXCEPT ![s] = "ending"]
  /\ UNCHANGED <<idMap, stopServers, restarting, rerunning, seen, master, msgMap, sent, replies, answered, commands, crashes>>

Ends(s) ==
  /\ proc[s] = "ending"
  /\ proc' = [proc EXCEPT ![s] = "down"]
  /\ UNCHANGED <<idMap, stopServers, restarting, rerunning, seen, master, requests, commands, crashes>>

Crashes(s) ==
  /\ s # Own /\ proc[s] \in {"up", "new"} /\ crashes < MaxCrashes
  /\ crashes' = crashes + 1
  /\ proc' = [proc EXCEPT ![s] = "down"]
  /\ UNCHANGED <<idMap, stopServers, restarting, rerunning, seen, master, requests, commands>>

-----------------------------------------------------------------------------
(* The master *)

\* What the agent remembers of a request that is answered: nothing.
Kept(r) == msgMap
Forgotten(r) == msgMap \ {r}

\* The answer of a server: kill and list are done with it, restart runs it again
\* five seconds later.
Reply(r) ==
  /\ r \in replies
  /\ replies' = replies \ {r}
  /\ msgMap' = Forgotten(r)
  /\ answered' = answered \union {r}
  /\ IF signal[r.cmd] = "restart"
     THEN toRun' = toRun \union {r} /\ NoDone /\ UNCHANGED master
     ELSE /\ Done(r.cmd)
          /\ master' = LastAnswer(r.cmd)
          /\ UNCHANGED toRun
  /\ UNCHANGED <<proc, idMap, stopServers, restarting, rerunning, seen, sent, stopping, signal, late, failed, launched, crashes>>

\* The connection of a process that ended; the 'disconnect' event.
Disconnect(s) ==
  /\ s \in idMap /\ proc[s] \in {"down", "new"}
  /\ idMap' = idMap \ {s}
  /\ sent' = {r \in sent : r.to # s}
  /\ replies' = {r \in replies : r.to # s}
  /\ stopping' = stopping \ {s}
  /\ restarting' = IF s \in AutoRestart /\ s \notin stopServers
                   THEN restarting \union {s} ELSE restarting
  /\ UNCHANGED <<proc, stopServers, rerunning, seen, master, msgMap, answered, commands, crashes>>

\* Its host answers a ping, and its port is checked.  When that fails or the port is
\* taken, the callback of the master's start runs a second time, or with
\* RESTART_FORCE the kill throws: the server is not run.
CheckPort(s) ==
  /\ s \in restarting
  /\ restarting' = restarting \ {s}
  /\ \/ PortFree(s) /\ rerunning' = rerunning \union {s}
     \/ UNCHANGED rerunning
  /\ UNCHANGED <<proc, idMap, stopServers, seen, master, requests, commands, crashes>>

\* Three seconds later it is run without another look: where it runs by now, the
\* second process finds its port taken.
RunAgain(s) ==
  /\ s \in rerunning
  /\ rerunning' = rerunning \ {s}
  /\ proc' = IF PortFree(s) THEN RunProcess(s) ELSE proc
  /\ UNCHANGED <<idMap, stopServers, restarting, seen, master, requests, commands, crashes>>

MasterExits ==
  /\ master = "killing"
  /\ master' = "exited"
  /\ UNCHANGED <<proc, idMap, stopServers, restarting, rerunning, seen, requests, commands, crashes>>

-----------------------------------------------------------------------------

ClientHandler(k) ==
  \/ Kill(k) \/ List(k)
  \/ \E ids \in SUBSET Server : StopSome(k, ids) \/ Restart(k, ids)
  \/ StopAll(k) \/ RestartNone(k) \/ RestartEmptied(k)
  \/ Add(k) \/ SendCronInfo(k) \/ Blacklist(k) \/ Malformed(k)

Timers(k) == LatchTimeout(k) \/ StopMaster(k)

Next ==
  /\ master # "exited"
  /\ \/ \E k \in Command : ClientHandler(k) \/ Timers(k)
     \/ \E r \in Ask : Run(r) \/ LaunchedFails(r) \/ Handle(r) \/ Reply(r)
     \/ \E s \in Server : \/ Registers(s) \/ HandleStop(s) \/ Ends(s) \/ Crashes(s)
                          \/ Disconnect(s) \/ CheckPort(s) \/ RunAgain(s)
     \/ MasterExits

Spec == Init /\ [][Next]_vars

\* Timers fire, ports are checked, connections that are gone are noticed.
Fairness ==
  /\ \A k \in Command : WF_vars(master # "exited" /\ Timers(k))
  /\ \A r \in Ask : WF_vars(master # "exited" /\ Run(r))
  /\ WF_vars(MasterExits)

-----------------------------------------------------------------------------
(* Properties *)

\* A request that a server has answered is never sent to it again: a server that
\* comes up after a restart or a kill is not restarted or killed once more.
AskedOnce == sent \intersect answered = {}

\* The operator gets one answer to a command, except for a stop with unknown
\* servers, a latch that timed out and then got its answers, and an added server
\* whose process fails after it was launched.
AnsweredOnce ==
  \A k \in Command :
    answers[k] > 1 => signal[k] = "stop" \/ k \in late \/ (signal[k] = "add" /\ k \in failed)

\* At last every command is answered, but a restart of a type whose servers have all
\* gone, and after a kill the master has exited, whether or not the servers answer.
CommandsAnswered ==
  <>[](\A k \in Command :
         /\ signal[k] \notin {"none", "emptied"} => answers[k] > 0 \/ master = "exited"
         /\ signal[k] = "kill" => master = "exited")
=============================================================================
