------------------------------- MODULE Cluster -------------------------------
(***************************************************************************)
(* The processes of a cluster: the life of one of them, the console and    *)
(* its commands, the requests of the admin agents, the records of the      *)
(* master's agent and the modules it collects with, the agents of the      *)
(* robot and what they measure.  They share no state: one of them runs in  *)
(* each behaviour, the others stay where they start.                       *)
(***************************************************************************)
EXTENDS Naturals, Sequences, FiniteSets

CONSTANTS
  Process, StartCall, StopCall, Twice, Modules, UseDict, Buffered, Hooks,         \* Lifecycle
  Server, Own, Command, AutoRestart, MaxCrashes,                                  \* Console
  AdminConn, AdminId, AdminIdOf, NoConn, Operators, Monitor, Frontend, Request, MaxCuts,  \* Admin
  Conn, Id, Type, IdOf, TypeOf, AddressOf, NoAddress, Tokens, OwnTokens, NoToken, \* Registry
  Agent, MaxSockets, MaxTimers, MaxEvents,                                        \* Robot
  Machine, MachineOf, Node, Page, ReqOf, Span, MaxCount, MaxRuns,                 \* Report
  Profiled, MaxJobs, MaxTaken                                                     \* Modules

VARIABLES
  part,
  process, hooks, state, loaded, starts, stops, started, opened, closed, console, consoles,
  launched, timers, stopTimer, exited, early,
  proc, idMapC, stopServers, restarting, rerunning, seen, master, signal, left, timer, answersC, late, thrown,
  failed, msgMapC, sentC, repliesC, answered, stopping, toRun, launchedC, crashes,
  conn, clients, idMapA, kind, unknown, pending, answersA, msgMapA, sentA, working, repliesA,
  callbacks, ranA, lost, cuts,
  alive, current, connected, reconnecting, timersR, client, told, ranR, exitedR, overlapped,
  server, heard, nodes, inbox, statusR, commanded, events,
  status, idMap, slaveMap, typeMap, sent, waiting, threw,
  runs, times, issued, prof, socket, toNode, toMaster, up, gone, listed, stat, phase, commands, called,
  webClients, toPage, shown, counted,
  stateM, enable, jobId, jobs, idMapM, pulls, data, threwM, sampling, taken, wire, profiles,
  headers, polls, answeredM

Lifecycle == INSTANCE Lifecycle

Console == INSTANCE Console WITH
  idMap <- idMapC, answers <- answersC, msgMap <- msgMapC, sent <- sentC, replies <- repliesC,
  launched <- launchedC

Admin == INSTANCE Admin WITH
  Conn <- AdminConn, Id <- AdminId, IdOf <- AdminIdOf, Server <- Monitor,
  idMap <- idMapA, answers <- answersA, msgMap <- msgMapA, sent <- sentA, replies <- repliesA,
  ran <- ranA

Robot == INSTANCE Robot WITH timers <- timersR, ran <- ranR, exited <- exitedR, status <- statusR

Report == INSTANCE Report

Registry == INSTANCE Registry

AdminModules == INSTANCE Modules WITH
  Server <- Profiled, state <- stateM, idMap <- idMapM, threw <- threwM, answered <- answeredM

ASSUME LifecycleAssumption == Lifecycle!LifecycleAssumption
ASSUME ConsoleAssumption == Console!ConsoleAssumption
ASSUME AdminAssumption == Admin!AdminAssumption
ASSUME RegistryAssumption == Registry!RegistryAssumption
ASSUME RobotAssumption == Robot!RobotAssumption
ASSUME ReportAssumption == Report!ReportAssumption
ASSUME ModulesAssumption == AdminModules!ModulesAssumption

lifecycleVars == <<process, hooks, state, loaded, starts, stops, started, opened, closed, console,
                   consoles, launched, timers, stopTimer, exited, early>>
consoleVars == <<proc, idMapC, stopServers, restarting, rerunning, seen, master, signal, left, timer, answersC, late,
                 thrown, failed, msgMapC, sentC, repliesC, answered, stopping, toRun, launchedC, crashes>>
adminVars == <<conn, clients, idMapA, kind, unknown, pending, answersA, msgMapA, sentA, working,
               repliesA, callbacks, ranA, lost, cuts>>
robotVars == <<alive, current, connected, reconnecting, timersR, client, told, ranR, exitedR,
               overlapped, server, heard, nodes, inbox, statusR, commanded, events>>
registryVars == <<status, idMap, slaveMap, typeMap, sent, waiting, threw>>
reportVars == <<runs, times, issued, prof, socket, toNode, toMaster, up, gone, listed, stat, phase,
                commands, called, webClients, toPage, shown, counted>>
moduleVars == <<stateM, enable, jobId, jobs, idMapM, pulls, data, threwM, sampling, taken, wire,
                profiles, headers, polls, answeredM>>
vars == <<part, lifecycleVars, consoleVars, adminVars, robotVars, registryVars, reportVars, moduleVars>>

Init ==
  /\ part \in {"lifecycle", "console", "admin", "robot", "registry", "report", "modules"}
  /\ Lifecycle!Init /\ Console!Init /\ Admin!Init /\ Robot!Init /\ Registry!Init /\ Report!Init
  /\ AdminModules!Init
  /\ part # "lifecycle" => process = (CHOOSE p \in Process : TRUE) /\ hooks = {}
  /\ part # "console" => idMapC = Server
  /\ part # "admin" => idMapA = Monitor

Next ==
  \/ /\ part = "lifecycle" /\ Lifecycle!Next
     /\ UNCHANGED <<part, consoleVars, adminVars, robotVars, registryVars, reportVars, moduleVars>>
  \/ /\ part = "console" /\ Console!Next
     /\ UNCHANGED <<part, lifecycleVars, adminVars, robotVars, registryVars, reportVars, moduleVars>>
  \/ /\ part = "admin" /\ Admin!Next
     /\ UNCHANGED <<part, lifecycleVars, consoleVars, robotVars, registryVars, reportVars, moduleVars>>
  \/ /\ part = "robot" /\ Robot!Next
     /\ UNCHANGED <<part, lifecycleVars, consoleVars, adminVars, registryVars, reportVars, moduleVars>>
  \/ /\ part = "registry" /\ Registry!Next
     /\ UNCHANGED <<part, lifecycleVars, consoleVars, adminVars, robotVars, reportVars, moduleVars>>
  \/ /\ part = "report" /\ Report!Next
     /\ UNCHANGED <<part, lifecycleVars, consoleVars, adminVars, robotVars, registryVars, moduleVars>>
  \/ /\ part = "modules" /\ AdminModules!Next
     /\ UNCHANGED <<part, lifecycleVars, consoleVars, adminVars, robotVars, registryVars, reportVars>>

\* What stays where it starts has no fair action that could be taken.
Spec ==
  /\ Init /\ [][Next]_vars
  /\ Lifecycle!Fairness /\ Console!Fairness /\ Admin!Fairness /\ Robot!Fairness
  /\ Report!Fairness

-----------------------------------------------------------------------------
(* Properties *)

\* No component opens before all that were loaded have started, a stopped process
\* starts nothing more, and the timer of stop ends it only while it is stopping,
\* however calls of start and stop overlap (startup, afterStart, stop).
StartsInOrder ==
  /\ [](Lifecycle!TypeOK /\ Lifecycle!ReadyInOrder)
  /\ Lifecycle!StoppedStays /\ Lifecycle!ExitJustified

\* A process that is stopping comes to an end though a component never calls back.
StopEnds == Lifecycle!StopEnds

\* What the master answers once it answers no second time, and no server gets again
\* what it has answered: commands of the console, requests of admin clients whose
\* servers reconnect (consoleService, masterAgent, monitorAgent).
AnsweredOnce ==
  /\ Console!TypeOK /\ Console!AskedOnce /\ Console!AnsweredOnce
  /\ Admin!TypeOK /\ Admin!AnsweredOnce /\ Admin!RanOnce

\* At last commands and requests are answered, if the servers asked are there; and a
\* kill ends the master.
CommandsAnswered == Console!CommandsAnswered /\ Admin!AllAnswered

\* The master's agent has one client for an id, and its maps of servers agree with the
\* connections, whatever comes and goes meanwhile (doAuthUser, addConnection).
MapsAgree == Admin!OneLogin /\ Registry!TypeOK /\ Registry!MapsAgree /\ Registry!SentOnce

\* An agent of the robot has one socket, and runs a command once (Agent, Server); pages
\* that come and go show every agent the master lists, and a request is measured once,
\* though its end is told twice or in a later run (monitor, stat, WebClient).
OneSocket ==
  /\ Robot!TypeOK /\ Robot!OneSocket
  /\ Report!TypeOK /\ Report!PagesShow /\ Report!MeasuredOnce

\* A client of the admin console gets no older profile than one it was told of, and a
\* module has one job, whatever clients enable and disable (profileProxy, consoleService).
NewestProfile == AdminModules!TypeOK /\ AdminModules!OneJob /\ AdminModules!NewestProfile

\* A lost agent is listed again while its process lives, and at last the master holds
\* what each measured in the run it was told last (Agent.reconnect, Agent.run).
AgentsReturn == Robot!AgentsReturn /\ Report!LatestShown
=============================================================================
