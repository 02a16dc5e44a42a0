------------------------------ MODULE Lifecycle ------------------------------
(***************************************************************************)
(* The life of one server process: the components the application loads,   *)
(* starts one after the other, and stops again.                            *)
(*                                                                         *)
(*   core/application.js         load, start, afterStart, stop             *)
(*   core/util/appUtil.js        startByType, loadDefaultComponents,       *)
(*                               optComponents, stopComps                  *)
(*   core/util/moduleUtil.js     modules of the monitor and the master     *)
(*   core/components             start, afterStart and stop                *)
(*   core/monitor, core/master   start, stop                               *)
(*                                                                         *)
(* start() and stop() may be called again while an earlier call is still   *)
(* at work: each call goes through the components on its own.              *)
(***************************************************************************)
EXTENDS Naturals, Sequences, SequencesExt, FiniteSets

CONSTANTS
  Process,    \* kinds of process to look at
  StartCall, StopCall,  \* calls of start and stop, numbered from 1
  Twice,      \* bound: the processes whose start and stop are called more than once
  Modules,    \* number of admin modules
  UseDict,    \* the connector component uses a dictionary and protobuf
  Buffered,   \* the push scheduler is the buffer scheduler
  Hooks       \* lifecycle callbacks a server type may have

\* What is assumed of the constants.
LifecycleAssumption ==
  /\ Process \subseteq {"launcher", "master", "relay", "backend", "frontend"}
  /\ StartCall \subseteq Nat \ {0} /\ StopCall \subseteq Nat \ {0}
  /\ Modules \in Nat
  /\ UseDict \in BOOLEAN /\ Buffered \in BOOLEAN
  /\ Hooks \subseteq {"beforeStartup", "afterStartup", "beforeShutdown"}

VARIABLES
  process,    \* what the arguments of the process say it is
  hooks,      \* Application.lifecycleCbs
  state,      \* Application.state
  loaded,     \* Application.loaded
  starts,     \* where each call of start is
  stops,      \* where each call of stop is
  started, opened, closed,  \* components whose start, afterStart, stop called back
  console,    \* the console service of the monitor or of the master that is starting
  consoles,   \* which of them were started
  launched,   \* servers of the configuration were started as processes
  timers,     \* calls of stop whose timer runs
  stopTimer,  \* Application.stopTimer: the call that set it last
  exited,     \* "no", "forced" or "timeout" when stopped, "error" if listening failed
  early       \* a call of start was still at work when stop was called

config == <<process, hooks>>
vars == <<config, state, loaded, starts, stops, started, opened, closed,
          console, consoles, launched, timers, stopTimer, exited, early>>

Component == {"proxy", "remote", "connection", "dictionary", "protobuf", "connector",
              "session", "pushScheduler", "backendSession", "channel", "server",
              "monitor", "master"}

Nobody == 0   \* no call

(* The components that have a start, an afterStart, a stop. *)
HasStart == {"proxy", "remote", "dictionary", "connector", "channel", "server", "monitor", "master"}
HasAfterStart == {"proxy", "connector", "pushScheduler", "server"}
HasStop == {"remote", "protobuf", "connector", "pushScheduler", "server", "monitor", "master"}

(* The steps of a call of start; "stuck" is one that nobody will continue. *)
Idle == [at |-> "idle", i |-> 0]
Busy == {"before", "start", "after", "afterFun"}

(* Application.state, and what a process is given when it is created. *)
States == {"inited", "start", "started", "stoped"}
LoadLifecycle == SUBSET Hooks
NewConsole == [at |-> "idle", i |-> 0, for |-> Nobody]

TypeOK ==
  /\ process \in Process /\ hooks \in LoadLifecycle
  /\ state \in States
  /\ loaded \in Seq(Component)
  /\ starts \in [StartCall -> [at : Busy \union {"idle", "refused", "elsewhere", "stuck", "failed", "done"},
                               i : Nat]]
  /\ stops \in [StopCall -> [at : {"idle", "hook", "stop", "ignored", "done"}, i : Nat, force : BOOLEAN]]
  /\ started \subseteq Component /\ opened \subseteq Component /\ closed \subseteq Component
  /\ console \in [at : {"idle", "starting", "modules", "up", "closed"}, i : Nat,
                  for : StartCall \union {Nobody}]
  /\ consoles \subseteq {"monitor", "master"}
  /\ launched \in BOOLEAN
  /\ timers \subseteq StopCall
  /\ stopTimer \in StopCall \union {Nobody}
  /\ exited \in {"no", "forced", "timeout", "error"}
  /\ early \in BOOLEAN

Init ==
  /\ process \in Process
  /\ hooks \in LoadLifecycle
  /\ state = "inited"
  /\ loaded = << >>
  /\ starts = [n \in StartCall |-> Idle]
  /\ stops = [m \in StopCall |-> [at |-> "idle", i |-> 0, force |-> FALSE]]
  /\ started = {} /\ opened = {} /\ closed = {}
  /\ console = NewConsole
  /\ consoles = {}
  /\ launched = FALSE
  /\ timers = {}
  /\ stopTimer = Nobody
  /\ exited = "no"
  /\ early = FALSE

-----------------------------------------------------------------------------
(* Loading *)

\* What the connector component loads before itself.
Coders == IF UseDict THEN <<"dictionary", "protobuf">> ELSE << >>

FrontendList == <<"connection">> \o Coders \o <<"connector", "session", "pushScheduler">>

\* What the arguments say: a process given a type or an id to start only runs those.
processArgs ==
  [startsOthers |-> process = "launcher", master |-> process = "master",
   port |-> process \in {"backend", "frontend"}, frontend |-> process = "frontend"]

DefaultComponents ==
  IF processArgs.master THEN <<"master", "monitor">>
  ELSE <<"proxy">>
       \o (IF processArgs.port THEN <<"remote">> ELSE << >>)
       \o (IF processArgs.frontend THEN FrontendList ELSE << >>)
       \o <<"backendSession", "channel", "server", "monitor">>

\* load, for one component after the other: it ignores one whose name is taken.
Load(list) ==
  LET upTo[k \in 0 .. Len(list)] ==
        IF k = 0 THEN loaded
        ELSE IF Contains(upTo[k - 1], list[k]) THEN upTo[k - 1] ELSE Append(upTo[k - 1], list[k])
  IN  upTo[Len(list)]

-----------------------------------------------------------------------------
(* Starting *)

\* The place of the first component from i on that has the method, 0 if none.
NextPlace(list, i, has) ==
  LET places == {j \in i .. Len(list) : list[j] \in has}
  IN  IF places = {} THEN 0 ELSE CHOOSE j \in places : \A k \in places : j <= k

At(step, i) == [at |-> step, i |-> i]

\* The callback of afterStart's components.
Finished ==
  IF "afterStartup" \in hooks THEN At("afterFun", 0) ELSE At("done", 0)

\* Continue call n: the component after the i-th one is started, or afterStart
\* begins with the first one, or the process has started.
StartFrom(n, list, i) ==
  LET s == NextPlace(list, i + 1, HasStart)
      a == NextPlace(list, 1, HasAfterStart)
  IN  IF s > 0 THEN starts' = [starts EXCEPT ![n] = At("start", s)] /\ UNCHANGED state
      ELSE IF a > 0 THEN starts' = [starts EXCEPT ![n] = At("after", a)] /\ state' = "start"
      ELSE starts' = [starts EXCEPT ![n] = Finished] /\ state' = "started"

AfterFrom(n, i) ==
  LET a == NextPlace(loaded, i + 1, HasAfterStart)
  IN  IF a > 0 THEN starts' = [starts EXCEPT ![n] = At("after", a)] /\ UNCHANGED state
      ELSE starts' = [starts EXCEPT ![n] = Finished] /\ state' = "started"

Refused == state # "inited"

\* startByType: the servers of a type or an id are run, and nobody is called back.
StartByType(n) ==
  /\ processArgs.startsOthers
  /\ launched' = TRUE
  /\ starts' = [starts EXCEPT ![n] = At("elsewhere", 0)]
  /\ UNCHANGED <<state, loaded>>

\* start: refused only when an earlier call has started all components.
StartCalled(n) ==
  /\ starts[n].at = "idle"
  /\ n > 1 => process \in Twice /\ starts[n - 1].at # "idle"
  /\ IF Refused
     THEN starts' = [starts EXCEPT ![n] = At("refused", 0)] /\ UNCHANGED <<state, loaded, launched>>
     ELSE \/ StartByType(n)
          \/ /\ ~processArgs.startsOthers
             /\ loaded' = Load(DefaultComponents)
             /\ IF "beforeStartup" \in hooks
                THEN starts' = [starts EXCEPT ![n] = At("before", 0)] /\ UNCHANGED state
                ELSE StartFrom(n, loaded', 0)
             /\ UNCHANGED launched
  /\ UNCHANGED <<config, stops, started, opened, closed, console, consoles, timers, stopTimer, exited, early>>

\* The callback beforeStartup calls startUp.
StartUp(n) ==
  /\ starts[n].at = "before"
  /\ StartFrom(n, loaded, 0)
  /\ UNCHANGED <<config, loaded, stops, started, opened, closed, console, consoles, launched, timers, stopTimer, exited, early>>

Current(n) == loaded[starts[n].i]

\* The components that start at once, and call back in the next tick.
ComponentStarts(n) ==
  /\ starts[n].at = "start"
  /\ Current(n) \notin {"monitor", "master"}
  /\ started' = started \union {Current(n)}
  /\ StartFrom(n, loaded, starts[n].i)
  /\ UNCHANGED <<config, loaded, stops, opened, closed, console, consoles, launched, timers, stopTimer, exited, early>>

GoesOn == At("after", NextPlace(loaded, 1, HasAfterStart))
AfterError == At("failed", 0)

\* A component calls back with an error: that of a channel whose store cannot be
\* read, of the monitor, of a module.  start's callback is never called then (it
\* names a variable that does not exist).
StartFails(n) ==
  /\ starts[n].at = "start"
  /\ \/ Current(n) = "channel" /\ UNCHANGED console
     \/ /\ Current(n) \in {"monitor", "master"}
        /\ console.for = n
        /\ console.at \in (IF Current(n) = "monitor" THEN {"starting", "modules"} ELSE {"modules"})
        /\ console' = [console EXCEPT !.for = Nobody, !.at = "up"]
  /\ state' = "start"
  /\ starts' = [starts EXCEPT ![n] = AfterError]
  /\ UNCHANGED <<config, loaded, stops, started, opened, closed, consoles, launched, timers, stopTimer, exited, early>>

\* Monitor.start and Server.start of the master: the console connects or listens.
\* One that was started before only logs an error.
ConsoleStarts(n) ==
  /\ console.for # n
  /\ IF Current(n) \notin consoles
     THEN console' = [at |-> "starting", i |-> 0, for |-> n] /\ UNCHANGED starts
     ELSE starts' = [starts EXCEPT ![n] = At("stuck", 0)] /\ UNCHANGED console
  /\ consoles' = consoles \union {Current(n)}
  /\ UNCHANGED <<config, state, loaded, stops, started, opened, closed, launched, timers, stopTimer, exited, early>>

MonitorStarts(n) == starts[n].at = "start" /\ Current(n) = "monitor" /\ ConsoleStarts(n)
MasterStarts(n) == starts[n].at = "start" /\ Current(n) = "master" /\ ConsoleStarts(n)

\* It is registered, or listens; startModules.
ConsoleConnected(n) ==
  /\ console.at = "starting" /\ console.for = n
  /\ console' = [console EXCEPT !.at = "modules", !.i = 1]
  /\ UNCHANGED <<config, state, loaded, starts, stops, started, opened, closed, consoles, launched, timers, stopTimer, exited, early>>

\* The master cannot listen, its console's callback exits.
CannotListen(n) ==
  /\ console.at = "starting" /\ console.for = n
  /\ starts[n].at = "start" /\ Current(n) = "master"
  /\ exited' = "error"
  /\ UNCHANGED <<config, state, loaded, starts, stops, started, opened, closed, console, consoles, launched, timers, stopTimer, early>>

\* The master runs the servers of the configuration.
RunsServers(n) == launched \/ Current(n) = "master"

\* The i-th module has started; after the last one, the component has.
ModuleStarts(n) ==
  /\ console.at = "modules" /\ console.for = n
  /\ starts[n].at = "start"
  /\ IF console.i < Modules
     THEN /\ console' = [console EXCEPT !.i = @ + 1]
          /\ UNCHANGED <<started, launched, starts, state>>
     ELSE /\ console' = [console EXCEPT !.at = "up", !.for = Nobody]
          /\ started' = started \union {Current(n)}
          /\ launched' = RunsServers(n)
          /\ StartFrom(n, loaded, starts[n].i)
  /\ UNCHANGED <<config, loaded, stops, opened, closed, consoles, timers, stopTimer, exited, early>>

\* A component that was stopped meanwhile has no connector any more: afterStart throws.
ConnectorGone(n) == Current(n) = "connector" /\ "connector" \in closed

ComponentOpens(n) ==
  /\ starts[n].at = "after"
  /\ IF ConnectorGone(n)
     THEN starts' = [starts EXCEPT ![n] = At("stuck", 0)] /\ UNCHANGED <<opened, state>>
     ELSE opened' = opened \union {Current(n)} /\ AfterFrom(n, starts[n].i)
  /\ UNCHANGED <<config, loaded, stops, started, closed, console, consoles, launched, timers, stopTimer, exited, early>>

\* The rpc client cannot connect, the connector cannot listen.
OpenFails(n) ==
  /\ starts[n].at = "after"
  /\ Current(n) \in {"proxy", "connector"} \ closed
  /\ state' = "started"
  /\ starts' = [starts EXCEPT ![n] = Finished]
  /\ UNCHANGED <<config, loaded, stops, started, opened, closed, console, consoles, launched, timers, stopTimer, exited, early>>

\* The callback afterStartup calls back.
AfterStartup(n) ==
  /\ starts[n].at = "afterFun"
  /\ starts' = [starts EXCEPT ![n] = At("done", 0)]
  /\ UNCHANGED <<config, state, loaded, stops, started, opened, closed, console, consoles, launched, timers, stopTimer, exited, early>>

-----------------------------------------------------------------------------
(* Stopping *)

\* stop sets its timer; cancelShutDownTimer clears the one that was set last.
NotArmed(set, m) == set
Armed(set, m) == set \union {m}
Cancelled(set, m) == set \ {m}

\* stopComps from the component after the i-th one.
StopFrom(m, i, force) ==
  LET s == NextPlace(loaded, i + 1, HasStop)
  IN  IF s > 0
      THEN /\ stops' = [stops EXCEPT ![m] = [at |-> "stop", i |-> s, force |-> force]]
           /\ UNCHANGED <<timers, exited>>
      ELSE /\ stops' = [stops EXCEPT ![m] = [at |-> "done", i |-> 0, force |-> force]]
           /\ timers' = Cancelled(timers, stopTimer)
           /\ exited' = IF force THEN "forced" ELSE exited

StopCalled(m, force) ==
  /\ stops[m].at = "idle"
  /\ m > 1 => process \in Twice /\ stops[m - 1].at # "idle"
  /\ IF state = "stoped"
     THEN /\ stops' = [stops EXCEPT ![m].at = "ignored"]
          /\ UNCHANGED <<state, timers, stopTimer, exited, early>>
     ELSE /\ state' = "stoped"
          /\ stopTimer' = m
          /\ early' = (early \/ \E n \in StartCall : starts[n].at \in Busy)
          /\ IF "beforeShutdown" \in hooks
             THEN /\ stops' = [stops EXCEPT ![m] = [at |-> "hook", i |-> 0, force |-> force]]
                  /\ timers' = Armed(timers, m)
                  /\ UNCHANGED exited
             ELSE IF NextPlace(loaded, 1, HasStop) > 0
             THEN /\ stops' = [stops EXCEPT ![m] = [at |-> "stop", i |-> NextPlace(loaded, 1, HasStop), force |-> force]]
                  /\ timers' = Armed(timers, m)
                  /\ UNCHANGED exited
             ELSE \* nothing to stop: the timer is cancelled again
                  /\ stops' = [stops EXCEPT ![m] = [at |-> "done", i |-> 0, force |-> force]]
                  /\ exited' = IF force THEN "forced" ELSE exited
                  /\ UNCHANGED timers
  /\ UNCHANGED <<config, loaded, starts, started, opened, closed, console, consoles, launched>>

\* The callback beforeShutdown calls shutDown, or cancels the timer first.
ShutDown(m) ==
  /\ stops[m].at = "hook"
  /\ StopFrom(m, 0, stops[m].force)
  /\ UNCHANGED <<config, state, loaded, starts, started, opened, closed, console, consoles, launched, stopTimer, early>>

CancelTimer(m) ==
  /\ stops[m].at = "hook"
  /\ stopTimer \in timers
  /\ timers' = Cancelled(timers, stopTimer)
  /\ UNCHANGED <<config, state, loaded, starts, stops, started, opened, closed, console, consoles, launched, stopTimer, exited, early>>

\* The buffer scheduler has no callback: its stop takes the one it is given for
\* its flag.  The remote component and the consoles throw when they were not started.
\* The components after such a one are not stopped.
Answers(c) ==
  /\ ~ (c = "pushScheduler" /\ Buffered)
  /\ c = "remote" => c \in started
  /\ c \in {"monitor", "master"} => c \in consoles

ComponentStops(m) ==
  /\ stops[m].at = "stop"
  /\ LET c == loaded[stops[m].i]
     IN  /\ Answers(c)
         /\ closed' = closed \union {c}
         /\ console' = IF c \in {"monitor", "master"} THEN [console EXCEPT !.at = "closed"] ELSE console
  /\ StopFrom(m, stops[m].i, stops[m].force)
  /\ UNCHANGED <<config, state, loaded, starts, started, opened, consoles, launched, stopTimer, early>>

StopTimeout(m) ==
  /\ m \in timers
  /\ timers' = timers \ {m}
  /\ exited' = "timeout"
  /\ UNCHANGED <<config, state, loaded, starts, stops, started, opened, closed, console, consoles, launched, stopTimer, early>>

-----------------------------------------------------------------------------

StartStep(n) ==
  \/ StartUp(n) \/ ComponentStarts(n) \/ StartFails(n)
  \/ MonitorStarts(n) \/ MasterStarts(n) \/ ConsoleConnected(n) \/ CannotListen(n) \/ ModuleStarts(n)
  \/ ComponentOpens(n) \/ OpenFails(n) \/ AfterStartup(n)

StopStep(m) == ShutDown(m) \/ ComponentStops(m) \/ StopTimeout(m)

Next ==
  /\ exited = "no"
  /\ \/ \E n \in StartCall : StartCalled(n) \/ StartStep(n)
     \/ \E m \in StopCall : \/ \E force \in BOOLEAN : StopCalled(m, force)
                            \/ CancelTimer(m) \/ StopStep(m)

Spec == Init /\ [][Next]_vars

\* Components call back, the callbacks of the server type do, and timers fire.
Fairness == \A m \in StopCall : WF_vars(exited = "no" /\ StopStep(m))

-----------------------------------------------------------------------------
(* Properties *)

Loaded(has) == ToSet(loaded) \intersect has

\* A component opens (its afterStart is called) only when every component that
\* was loaded has started, whatever calls of start and stop overlap: the
\* connector accepts clients when the server, the channels and the monitor are there.
ReadyInOrder ==
  \A n \in StartCall : starts[n].at = "after" => Loaded(HasStart) \subseteq started

\* A process that was stopped starts no component any more, unless stop came
\* during the start: this goes on, and sets the state to started in the end.
StoppedStays ==
  [][state = "stoped" /\ ~ early => started' = started /\ opened' = opened]_vars

\* The timer ends a process only while it is still stopping; with a stop during
\* the start there may be a second one, and one timer that is never cancelled.
ExitJustified ==
  [][exited' = "timeout" /\ ~ early =>
       \E m \in StopCall : stops[m].at \in {"hook", "stop"}]_vars

\* A process that is stopping comes to an end: all components have stopped, or it
\* exits, even when one of them never calls back.  (The callback of the server type may
\* cancel the timer, and is then on its own.)
StopEnds ==
  <>[](\A m \in StopCall :
         stops[m].at = "stop" /\ "beforeShutdown" \notin hooks => exited # "no")
=============================================================================
