------------------------------ MODULE Report -------------------------------
(***************************************************************************)
(* What the load robot measures: actors of an agent report the begin and   *)
(* the end of their requests to the monitor of their process, the agent    *)
(* sends it to the master at intervals, the master keeps the last of each  *)
(* agent, and web pages show it together with the list of agents.          *)
(*                                                                         *)
(*   olemop-robot/lib: monitor/monitor.js, monitor/stat.js,                *)
(*   agent/Actor.js, Agent.run, master/Server.js, WebClient.js,            *)
(*   console/js/webclient.js                                               *)
(*                                                                         *)
(* A machine is the process of an agent, and a node one of its connections *)
(* (Robot has the reconnections); the messages of a node arrive in order   *)
(* until the master finds it lost, and so do those of a page.              *)
(***************************************************************************)
EXTENDS Integers, FiniteSets, SequencesExt

CONSTANTS
  Machine,  \* processes of agents
  Node,     \* their connections
  MachineOf,  \* node: its process
  Page,     \* web pages
  ReqOf,    \* machine: the requests of its actors
  Span,     \* how long a request may take
  MaxRuns,  \* bound: commands of the operator
  MaxCount  \* bound: reports on their way to the master

\* What is assumed of the constants.
ReportAssumption ==
  /\ IsFiniteSet(Node) /\ MachineOf \in [Node -> Machine]
  /\ \A a \in Machine : IsFiniteSet(ReqOf[a])
  /\ Span \subseteq Nat /\ MaxRuns \in Nat /\ MaxCount \in Nat

VARIABLES
  runs,        \* machine: the run begun last; actors and timers of the earlier ones live on
  times,       \* machine: dataMap, the requests that have begun
  issued,      \* machine: the requests that ever began
  prof,        \* machine: profData of a route
  socket,      \* machine: its nodes so far, the socket it uses last
  toNode, toMaster,
  up,          \* nodes the master takes for connected
  gone,        \* nodes that were
  listed,      \* Server.nodes
  stat,        \* _timeDataMap and _countDataMap
  phase,       \* Server.status
  commands,
  called,      \* nodes that were told of the last run
  webClients,  \* pages the master knows
  toPage,      \* page: events on their way to it
  shown,       \* page: the ids it shows
  counted      \* page: stats.nodes

agentVars == <<runs, times, issued, prof>>
linkVars == <<socket, toNode, toMaster, up, gone>>
masterVars == <<listed, stat, phase, commands, called>>
pageVars == <<webClients, toPage, shown, counted>>
vars == <<agentVars, linkVars, masterVars, pageVars>>

\* The run is the one for which the data was cleared.
NoData == [run |-> 0, num |-> 0, sum |-> 0, min |-> 0, max |-> 0]

TypeOK ==
  /\ runs \in [Machine -> 0 .. MaxRuns] /\ commands \in 0 .. MaxRuns
  /\ \A a \in Machine : times[a] \subseteq ReqOf[a] /\ issued[a] \subseteq ReqOf[a]
  /\ \A a \in Machine : DOMAIN prof[a] = DOMAIN NoData
  /\ up \subseteq Node /\ gone \subseteq Node /\ listed \subseteq Node /\ called \subseteq Node
  /\ DOMAIN stat \subseteq Node
  /\ phase \in {"idle", "ready", "running"}
  /\ webClients \subseteq Page /\ shown \in [Page -> SUBSET Node] /\ counted \in [Page -> Int]

Init ==
  /\ runs = [a \in Machine |-> 0] /\ times = [a \in Machine |-> {}] /\ issued = times
  /\ prof = [a \in Machine |-> NoData] /\ socket = [a \in Machine |-> <<>>]
  /\ toNode = [n \in Node |-> <<>>] /\ toMaster = toNode /\ up = {} /\ gone = {}
  /\ listed = {} /\ stat = <<>> /\ phase = "idle" /\ commands = 0 /\ called = {}
  /\ webClients = {} /\ toPage = [p \in Page |-> <<>>]
  /\ shown = [p \in Page |-> {}] /\ counted = [p \in Page |-> 0]

-----------------------------------------------------------------------------
(* The monitor of an agent *)

\* Monitor.clear does not forget the requests that have begun.
Clear(a, k) == prof' = [prof EXCEPT ![a] = [NoData EXCEPT !.run = k]]

BeginTime(a, r) == times' = [times EXCEPT ![a] = @ \union {r}]

Smaller(x, y) == IF x < y THEN x ELSE y
Larger(x, y) == IF x < y THEN y ELSE x

\* The average is the sum by the number.
Measured(d, span) ==
  [d EXCEPT !.num = @ + 1, !.sum = @ + span, !.max = Larger(@, span),
            !.min = IF d.num = 0 THEN span ELSE Smaller(@, span)]

EndTime(a, r, span) ==
  IF r \notin times[a] THEN UNCHANGED <<times, prof>>
  ELSE prof' = [prof EXCEPT ![a] = Measured(@, span)] /\ times' = [times EXCEPT ![a] = @ \ {r}]

GetData(a) == prof[a]

-----------------------------------------------------------------------------
(* The agent and its actors *)

\* What the script of an actor emits: the start and the end of requests, the end also
\* of one that has ended.  (The counters of incr and decr are not told apart.)  It does
\* so with or without a connection.
ActorEmits(a) ==
  /\ runs[a] > 0
  /\ \/ \E r \in ReqOf[a] \ issued[a] : /\ BeginTime(a, r) /\ issued' = [issued EXCEPT ![a] = @ \union {r}]
                                   /\ UNCHANGED prof
     \/ \E r \in issued[a], span \in Span : EndTime(a, r, span) /\ UNCHANGED issued
  /\ UNCHANGED <<runs, linkVars, masterVars, pageVars>>

\* this.socket is this node.
Uses(a, n) == socket[a] # <<>> /\ Last(socket[a]) = n /\ n \in up

\* Agent.run: the monitor is cleared and actors are made; those of an earlier run,
\* and its timer of reports, go on.
AgentRuns(a, n) ==
  /\ Uses(a, n) /\ toNode[n] # <<>> /\ toNode' = [toNode EXCEPT ![n] = Tail(@)]
  /\ Clear(a, Head(toNode[n])) /\ runs' = [runs EXCEPT ![a] = Head(toNode[n])]
  /\ UNCHANGED <<times, issued, socket, toMaster, up, gone, masterVars, pageVars>>

\* The timer of reports uses the socket there is, though the run began on another; what
\* it emits before that is connected is sent afterwards.
Reports(a, n) ==
  /\ Uses(a, n) /\ runs[a] > 0 /\ Len(toMaster[n]) < MaxCount
  /\ toMaster' = [toMaster EXCEPT ![n] = Append(@, GetData(a))]
  /\ UNCHANGED <<agentVars, socket, toNode, up, gone, masterVars, pageVars>>

-----------------------------------------------------------------------------
(* The master *)

ToPages(msgs) == toPage' = [p \in Page |-> IF p \in webClients THEN toPage[p] \o msgs ELSE toPage[p]]

\* The master may not have found yet that the last node of the machine is lost.
AnnounceNode(n) ==
  /\ n \notin up \union gone /\ up' = up \union {n} /\ listed' = listed \union {n}
  /\ socket' = [socket EXCEPT ![MachineOf[n]] = Append(@, n)]
  /\ ToPages(<<<<"add", n>>>>)
  /\ UNCHANGED <<agentVars, toNode, toMaster, gone, stat, phase, commands, called, webClients, shown, counted>>

\* stat.clear of a node, stat.merge
StatClear(S) == [n \in DOMAIN stat \ S |-> stat[n]]
StatMerge(n, data) == [m \in DOMAIN stat \union {n} |-> IF m = n THEN data ELSE stat[m]]

\* The listener of the master and the one of NodeClient tell the pages, each; the
\* process goes on with what it does.
Disconnected(n) ==
  /\ n \in up /\ up' = up \ {n} /\ gone' = gone \union {n} /\ listed' = listed \ {n}
  /\ toNode' = [toNode EXCEPT ![n] = <<>>] /\ toMaster' = [toMaster EXCEPT ![n] = <<>>]
  /\ ToPages(<<<<"remove", n>>, <<"remove", n>>>>)
  /\ phase' = IF listed' = {} THEN "idle" ELSE phase
  /\ stat' = StatClear({n})
  /\ UNCHANGED <<agentVars, socket, commands, called, webClients, shown, counted>>

MergeReport(n) ==
  /\ toMaster[n] # <<>> /\ toMaster' = [toMaster EXCEPT ![n] = Tail(@)]
  /\ stat' = StatMerge(n, Head(toMaster[n]))
  /\ UNCHANGED <<agentVars, socket, toNode, up, gone, listed, phase, commands, called, pageVars>>

\* The events of a page: run, and ready (which also starts agents, see Robot).
Run ==
  /\ webClients # {} /\ commands < MaxRuns /\ commands' = commands + 1
  /\ stat' = StatClear(Node) /\ phase' = "running" /\ called' = listed
  /\ toNode' = [n \in Node |-> IF n \in listed THEN Append(toNode[n], commands') ELSE toNode[n]]
  /\ UNCHANGED <<agentVars, socket, toMaster, up, gone, listed, pageVars>>

Ready ==
  /\ webClients # {} /\ phase' = "ready" /\ stat' = StatClear(Node)
  /\ UNCHANGED <<agentVars, linkVars, listed, commands, called, pageVars>>

\* PULL_WEBREPORT is answered only while actors run.
WebReport == IF phase = "running" THEN stat ELSE <<>>

-----------------------------------------------------------------------------
(* The pages *)

\* A page that connects, or connects again: WebClient is told every node.
Listing(S) == LET ids == SetToSeq(S) IN [k \in DOMAIN ids |-> <<"add", ids[k]>>]

AnnounceWebClient(p) ==
  /\ p \notin webClients /\ webClients' = webClients \union {p}
  /\ toPage' = [toPage EXCEPT ![p] = Listing(listed)]
  /\ UNCHANGED <<agentVars, linkVars, masterVars, shown, counted>>

\* The page keeps what it shows.
PageLost(p) ==
  /\ p \in webClients /\ webClients' = webClients \ {p} /\ toPage' = [toPage EXCEPT ![p] = <<>>]
  /\ UNCHANGED <<agentVars, linkVars, masterVars, shown, counted>>

\* One that is shown is not added again.
AddNode(p, n) ==
  IF n \in shown[p] THEN UNCHANGED <<shown, counted>>
  ELSE shown' = [shown EXCEPT ![p] = @ \union {n}] /\ counted' = [counted EXCEPT ![p] = @ + 1]

\* Node.destroy uses a field that is never set and throws: the node stays on the
\* page and in its count.
RemoveNode(p, n) ==
  IF n \in shown[p] THEN UNCHANGED <<shown, counted>>
  ELSE counted' = [counted EXCEPT ![p] = Larger(@ - 1, 0)] /\ UNCHANGED shown

PageReads(p) == toPage[p] # <<>> /\
  LET e == Head(toPage[p]) IN
  /\ toPage' = [toPage EXCEPT ![p] = Tail(@)]
  /\ IF e[1] = "add" THEN AddNode(p, e[2]) ELSE RemoveNode(p, e[2])
  /\ UNCHANGED <<agentVars, linkVars, masterVars, webClients>>

Next ==
  \/ Run \/ Ready
  \/ \E a \in Machine : ActorEmits(a) \/ \E n \in Node : AgentRuns(a, n) \/ Reports(a, n)
  \/ \E n \in Node : AnnounceNode(n) \/ Disconnected(n) \/ MergeReport(n)
  \/ \E p \in Page : AnnounceWebClient(p) \/ PageLost(p) \/ PageReads(p)

Spec == Init /\ [][Next]_vars

\* The timers of reports fire, and messages arrive.
Fairness ==
  \A n \in Node : /\ WF_vars(Reports(MachineOf[n], n)) /\ WF_vars(MergeReport(n))
                  /\ WF_vars(AgentRuns(MachineOf[n], n))

-----------------------------------------------------------------------------
(* Properties *)

\* A page that has read what it was told shows every agent the master lists, and
\* counts each once, through losses of agents and of the page itself.
PagesShow == \A p \in Page :
  /\ p \in webClients /\ toPage[p] = <<>> => listed \subseteq shown[p]
  /\ counted[p] = Cardinality(shown[p])

\* A request is measured at most once, however often its end is told, and the
\* average lies between the extremes; what is shown is of agents that are there.
MeasuredOnce ==
  /\ \A a \in Machine : LET d == prof[a] IN
       /\ d.num + Cardinality(times[a]) <= Cardinality(issued[a])
       /\ d.num * d.min <= d.sum /\ d.sum <= d.num * d.max
  /\ DOMAIN WebReport \subseteq up

\* A late report of the run before is replaced: at last the master holds, under the
\* node an agent with actors uses, what it measured in the run it was told last, and
\* that is the present run if this node was told of it.  An agent that was away when the
\* run began reports what it measures in an earlier one.
LatestShown == <>[](phase = "running" =>
  \A n \in listed : LET a == MachineOf[n] IN
    Uses(a, n) /\ runs[a] > 0 =>
      /\ n \in DOMAIN stat /\ stat[n].run = runs[a]
      /\ n \in called => runs[a] = commands)
=============================================================================
