# Verification of olemop

TLA+ models, TLC runs and TLAPS proofs for [olemop](../src), a Node.js server
framework for online games (a fork of pomelo): frontend servers hold the
clients' connections, backend servers run game logic, the servers call each
other over rpc, and a master process watches and controls them all.  Paths
below are relative to `src/packages/` and drop the `olemop-` prefix's scope
(`rpc` is `olemop-rpc`, `core` is `olemop/lib`, `admin` is `olemop-admin/lib`).

## 1. The system

Every process is a single-threaded JavaScript event loop.  Nothing is shared
between processes but messages; inside a process the interleavings are those of
event-loop turns: a socket event, a timer, `nextTick`, or a callback of user
code (filters, handlers, connect callbacks) that answers later, or twice, or
never.  Nothing is persisted except the data the sync package writes to redis,
so a restart starts from nothing.

### 1.1 Components

| component | state | operations | correct when |
|---|---|---|---|
| rpc client (`rpc/rpc-client/{client,mailstation,failureProcess}.js`) | state, servers, onlines, serversMap, mailboxes, connecting, pendings, filters | start, stop, addServer, removeServer, replaceServers, dispatch, lazy connect, flush of parked requests, failure processes | a server has one link; a request is held once and answered once; nothing parked is stranded; a stopped station is silent |
| mailboxes (`rpc/rpc-client/mailboxes/*`) | socket, requests, timers, queue, connected, closed, keep-alive stamps | connect, send, flush, reply, callback timeout, keep-alive, disconnect, close | a callback is called once; each link failure is reported once |
| routers (`rpc/rpc-client/router.js`, `rpc/util/consistentHash.js`) | round-robin index, weights, hash ring | def, random, rr, wrr, least-active, consistent hash | a live server is chosen; weights are respected; the ring holds live nodes only |
| rpc server (`rpc/rpc-server/*`) | sockets, per-socket queues, services | listen, dispatch, reply, buffer flush, reload, close | each request gets one reply; nothing is written to a closed socket |
| session service (`core/common/service/sessionService.js`) | sessions by id, uidMap | create, bind, unbind, import, kick, closed, send by uid | `uidMap` and the sessions' uids agree; a closed session is unreachable; `closed` fires once |
| connection service (`connectionService.js`) | connection count, login count, login records | increase, decrease, add/remove/update logined user | counts equal the live connections and bound users |
| connector component (`core/components/connector.js`) | server, blacklist, the services above | new socket, message, session close, stop | each accepted socket has one session until it closes |
| sequence queue, task manager, serial filter (`core/common/manager/{sequeue,taskManager}.js`, `core/filters/handler/serial.js`) | queue, status, running task, timers; a queue per session | push, close, next, timeout | tasks of a session run one at a time, in order, each once |
| timeout and toobusy filters (`core/filters/handler/*`) | timers by session id, size | before, after | the timer of an answered request does not fire |
| server and filter service (`core/server/server.js`, `filterService.js`, `handlerService.js`) | handlers, filters, crons, state | globalHandle, handle, forward, cron scheduling | one response per request; after filters run once |
| channel service (`core/common/service/channelService.js`) | channels, groups, records, an optional store | create, destroy, add, leave, push, broadcast, restore | groups and records agree; a push reaches each member or reports it; the store holds what the channels do |
| push schedulers (`core/pushSchedulers/*`, `components/pushScheduler.js`) | per-session queues, interval | schedule, flush, session close, stop | each message reaches each live session once, in order |
| backend sessions (`core/common/service/backendSessionService.js`, `common/remote/*`) | copies of frontend sessions | get, bind, unbind, push, kick through rpc | a pushed setting reaches the frontend session |
| connectors (`core/connectors/*`: hybrid, udp, sio, mqtt) | socket state (inited, wait-ack, working, closed), heartbeat timers | handshake, ack, heartbeat, data, kick, send | data is exchanged only in the working state; a silent client is dropped, a live one is not |
| js client (`client-js/src/olemop-jsclient.js`) | socket, callbacks, heartbeat and reconnect timers | init, request, notify, disconnect, reconnect | each request is answered once; a reconnect does not inherit old timers |
| admin agents (`admin/{master,monitor,protocol,client}/*`) | registered agents, request callbacks, reconnect records, QoS records | register, reconnect, request, response, command, disconnect | an id has one registered agent; a callback is called once |
| watch of servers (`core/master/watchdog.js`, `core/util/countDownLatch.js`, `core/modules/{master,monitor}watcher.js`, `core/monitor/*`) | servers, listeners, count; server table of each process | add, remove, reconnect, subscribe, query, record, notify | a subscriber's table converges to the watchdog's; the cluster starts once |
| master and console (`core/master/*`, `core/modules/console.js`) | exiting processes, start and stop replies | start, stop, kill, restart, list, cron | a command is answered once |
| application (`core/application.js`, `core/util/appUtil.js`, `core/common/manager/appManager.js`) | state, components, servers, settings | start, afterStart, stop, add/remove/replace servers, transaction | components are started and stopped in order, once |
| scheduler (`scheduler/*`) | job map, priority queue, timer | schedule, cancel, execute | the earliest job runs first, no job is lost |
| data sync (`sync/*`, `sync-redis`, `plugins/plugin-sync`) | write queue, merged writes, flush queue | exec, sync, flush, isDone, tick | redis keeps the last value of a key until it is flushed; isDone does not say so before |
| status plugin (`plugins/status-plugin`) | uid -> server ids in redis | add, leave, clean, push by uids | redis lists the servers a user is bound at, and a push reaches them |
| behaviour tree (`behavior-tree`) | child index, pending results | doAction of each node | a node's result is the one its policy defines |
| protocol, protobuf (`protocol`, `protobuf`), dictionary and protobuf components | protos and dictionary of each end | encode, decode, reload | decode undoes encode; both ends use the same protos |
| application transaction (`core/common/manager/appManager.js`) | conditions, handlers, rounds left | condition, handler, retry | handlers run in order, and only if all conditions held |
| robot (`robot/lib/*`) | agents and their sockets, commands, measurements, pages | connect, announce, run, ready, exit, report, merge | an agent has one socket; a request is measured once; a page shows every agent |
| logger, loader, utils, templates, command line | I/O, reflection, formatting | | not modelled: no state worth a model |

### 1.2 Interactions

* client socket -> connector -> session service -> server -> filters -> handler
  -> `next` -> response -> push scheduler -> connector -> client socket;
* a request for another server type: server `doForward` -> rpc client -> mailbox
  -> acceptor -> `msgRemote.forwardMessage` -> handler of that server;
* channel and backend session -> rpc -> `channelRemote`/`sessionRemote` of the
  frontend -> session service;
* monitor -> master: register, record, subscribe; master -> monitor: server
  added, removed, replaced, all started; monitor -> application -> rpc client
  (`addServer`, `removeServer`, `replaceServers`);
* connector events (`connection`, `disconnect`, `error`) and application events
  (`add_servers`, `close_session`, ...) are the callbacks that tie them.

### 1.3 What is hard

Late callbacks of things already removed (connect callbacks of removed
mailboxes, timers of closed sockets, replies after a timeout); state that lives
longer than the object it is about (`connecting` and `pendings` of a removed
server, `uidMap`, heartbeat timers, login records); the tail of a loop deleting
what the loop has just added; callbacks that run twice or never; stop racing
everything else; a call repeated while the first is still under way (`start`,
`stop`, a handshake, a profile, a restart of an agent); messages an rpc takes
by reference and reads later; formats whose two ends are two copies of the same
code.  `PROJECT.json` lists each of these at its line.

## 2. Plan

Modules in the order in which they were written, the most important behaviour
first.  Each is parameterised by constants with a named assumption, has one
action per operation, and holds no RECURSIVE operator where theorems are proved
or meant to be proved about it.

| step | modules | about | state |
|---|---|---|---|
| 1 | `MailStation`, `MailStationProofs` | the rpc client and its mailboxes | done |
| 2 | `Sessions`, `SessionsProofs` | sessions, connections and logins of a frontend | done |
| 3 | `Watch`, `WatchProofs` | agents, watchdog and watchers of a cluster | done |
| 4 | `RpcPromise`, `RpcLink` | what a call promises, and the four transports that implement it | done |
| 5 | `Requests` | filters, handlers, forwarding, sequence queue, timeout filter | done |
| 6 | `ClientLink`, `Udp` | client links over the hybrid and the udp connector | done |
| 7 | `Push`, `BackendSessions`, `ChannelStore`, `Status`, `DataSync` | what servers keep of users, in memory and outside | done |
| 8 | `Lifecycle`, `Console`, `Admin`, `Registry`, `Modules` | processes, and the master that controls them | done |
| 9 | `Scheduler`, `CronTime`, `Routing`, `BehaviorTree`, `Transaction` | services of a server | done |
| 10 | `Protocol`, `Protobuf`, `Codecs`, `Wire` | the formats, and which of them are in use | done |
| 11 | `Robot`, `Report` | the load robot and its measurements | done |
| 12 | `RpcLinkProofs`; more in `MailStationProofs` and `SessionsProofs` | the transports keep the promise of a call; requests are held once, filtered once and flushed without a loss; several sessions of a user | done |
| 13 | `Users`, `UsersProofs`, `PushProofs` | backend sessions, status, store, synced entries; pushes | done |
| 14 | `Cluster`, `ClusterProofs` | the master's records, commands and requests; the robot and its measurements; the modules of the admin agents; the start and the stop of a process | done |
| 15 | `Frontend`, `FrontendProofs` | the links of clients, requests, protos and dictionary in use, the udp connector, jobs and crons, the choice of a server; the parts with RECURSIVE operators are kept apart in `MCServices` | done |
| 16 | more in `WatchProofs` | the tables of the servers and the start of all: invariants over the contents of all queues | done |
| 17 | the moments between a TCP connect and its connack, and three servers, in `Watch` | | open |
| 18 | proofs about `Transaction`, `CronTime` and `BehaviorTree` | the first could be proved about as it stands; the other two compute with RECURSIVE operators, whose results for every input take an induction over data | open |

The runs are composed by group: `MCFrontend`, `MCUsers`, `MCServices` and
`MCCluster` hold several components that share no variables.  The constant
choice of `part` in the initial state says which of them runs; the others stay
where they start.  The state space of such a run is the sum of those of its
parts and not their product, and each of its properties states one promise of
the group, part by part.  `Frontend`, `Users` and `Cluster` are such groups for
any constants, with the properties; `MCFrontend`, `MCUsers` and `MCCluster`
extend them and give the constants values, and the proofs extend them too, so
that what is proved is the very property that is run.  `MCServices` holds the
parts that compute with RECURSIVE operators, and the transaction.  Components
that do share state are in one module: the two ends of a link, a mailbox and its
acceptor, the agents and the watchdog.

## 3. The modules

A definition whose comment begins with "Mutant:" is a faulty variant of the one
next to it.  No specification uses it; `PROJECT.json` substitutes it, or another
of the module's own operators, to show that a property notices the fault.

### 3.1 MailStation

`Client.rpcInvoke`, `MailStation` and the default `mqtt-mailbox`.

* A turn of the event loop is one action.  The exception is `flushPending`: it
  calls `dispatch` for each parked request and then deletes the list, and each
  of these calls changes state the next one reads.  The calls a turn has still
  to make are the sequence `agenda`; every other action waits for it to be empty
  (`Idle`).  This is what exposes the tail of the loop: `ClearPending` deletes
  what a `dispatch` of the same loop has parked again.
* Mailbox objects are numbered in `Box`; `mailboxes[s]` is the registered one and
  `owner`, `opener`, `acked`, `connected`, `closed`, `listening`, `dead`, `cut`
  say what has happened to each object, registered or not.  An object keeps
  living in its callbacks and timers after the station has forgotten it.
* `pendings` and `connecting` are the station's maps by server; they outlive the
  mailbox, as in the code.
* `requests[b]` stands for both the callback table and the timers of a mailbox,
  `queue[b]` for the buffered messages and `wire[b]` for what was written and not
  yet replied to.  `grace` is the timer of `stop(false)`.
* `answers[r]` counts the calls of the callback the caller passed.  `Traced`
  matters because `failureProcess` finds that callback through the tracer only.

| code | action |
|---|---|
| `Client.start`, `MailStation.start` | `Start` |
| `stop(force)` and its timer | `Stop`, `GraceExpires` |
| `addServer`, `removeServer`, `replaceServers` | `AddServer`, `RemoveServer`, `ReplaceServers` |
| `rpcInvoke` | `Invoke` |
| `dispatch`, by its early returns | `DispatchNotStarted`, `DispatchNoTarget`, `DispatchLazyConnect`, `DispatchConnecting`, `DispatchSend` |
| before filters calling `next` | `BeforeFilterPasses`, `BeforeFilterFails` |
| `flushPending` | `FlushCalls` in `ConnectSucceeds`, then dispatches, then `ClearPending` |
| callback of `mailbox.connect` | `ConnectSucceeds`, `ConnectFails` |
| `close` before anyone listens | `ConnectLost` |
| `close` heard by the station | `LinkFails`, `Disconnect` (by a DISCONNECT packet) |
| the interval of a buffering mailbox | `FlushQueue` |
| `processMsg`, `setCbTimeout` | `Reply`, `CallbackTimeout` |

### 3.2 Sessions

One frontend server: `connector.js`, `sessionService.js`, `connectionService.js`.

* `socket` is what the network knows of a socket (new, live, gone); `attached` is
  whether the connector's listeners are on it; `sessions`, `uid`, `uidMap` are the
  tables of the session service; `ended` the sessions whose `closed` has run;
  `ticks` the disconnects that `process.nextTick` still owes; `connCount`,
  `logined` the connection service.
* `counted` is a history variable: the connections that are counted and whose
  `disconnect` has not come.
* `Connect`, `ConnectFiltered`, `ConnectBlacklisted`, `FilterAccepts` and
  `FilterRefuses` are `hostFilter` and `bindEvents` with a static blacklist and
  with an asynchronous `blacklistFun`; `SocketCloses`, `SocketErrs` the two events
  of the socket; `Disconnect` the deferred call of `session.closed`; `Bind`,
  `Unbind`, `Kick`, `KickBySessionId` the operations of the service.
* User code runs between turns.  `Idle` (no tick is due) guards the events of
  the loop, as `process.nextTick` runs before the next of them; the callback of
  an asynchronous call may come in between.

### 3.3 Watch

Every server process has a `MonitorAgent`; the master process has a
`MasterAgent`, the watchdog and an agent of its own.

* A connection is two FIFO queues, `toMaster` and `toMonitor`.  Each side finds it
  closed at a time of its own: `socket` is what the master knows, `link` what the
  process knows.  `Live(c)` and `Heard(c)` say that the side is still there; what
  was sent to a side that has gone is lost.
* `idMap` and `slaves` (slaveMap) are the connections by server id, `msgMap` the
  requests kept to be pushed again on the next registration, `callbacks` the
  request callbacks, `latches` what each `CountDownLatch` still waits for.
* `servers`, `listeners`, `count` and `isStarted` are the watchdog's fields.
* `phase` is how far the start of a process is, which waits for `register` and
  `subscribe` to be answered; `table` is `application.servers`.
* Actions of a process: `Boot`, `Reconnect`, `OnSocketClose`, `CheckKeepAlive`,
  `Crash`, `OnRegistered`, `OnReconnected`, `OnServers`, `OnRequest`,
  `FinishStart`, `FinishStartThrows`.  Actions of the master, each one message
  or event: `OnRegister`, `RefuseReconnect`, `OnReconnect`, `OnSubscribe`,
  `OnRecord`, `OnResponse`, `OnDisconnect`, `RestartMaster`.
* `FaultPlan` bounds the faults and their kinds.  With `LateCloses` the master
  may read from a server's new connection before it finds the old one closed;
  with `Respawn` a process that ended is started again.
* `RestartMaster` is also how a master that has thrown comes back.

### 3.4 RpcPromise and RpcLink

`RpcPromise` is what a caller of an rpc may rely on: the callback of a call runs
once, with the answer to that call or an error, and it runs at last.  Four
weaknesses are part of the promise, each a parameter: `repeats` (a second
callback, with an error, may follow: ws, whose `disconnect` calls back every
request of the mailbox, answered or not), `silent` (the callback may never run:
ws2 drops a call that times out, and so does tcp, whose timer forgets the call
and then throws on a logger its file does not require), `blank` (the callback
may run with neither an error nor a result: ws2 passes the error of a closed
connection in the place of the tracer), `mixed` (an answer may be that of
another call: tcp with buffering, whose acceptor keeps all clients in one queue
under the key `undefined`).

`RpcLink` is the mailbox, its connection, the acceptor, the gateway and the
dispatcher, for `kind` in mqtt, ws, ws2 and tcp.  Actions of the transports have
their names (`WsReceive`, `TcpArrives`); what two transports share is written
once and guarded by `kind`.  `PromiseKept` is the refinement: `called` is what
was sent, `outcome` the callbacks made, the weaknesses those of the transport
at hand.  A method called by the gateway may answer, answer later, throw,
answer and then throw, or be missing (`Conduct`).

### 3.5 Requests

`globalHandle` and `handle` of the server, the filter and handler services,
`msgRemote`, and the filters of the framework.  A filter, an error handler or a
handler is the application's and calls back when it likes: what waits for it is
a record in `work`, with the place (`global`, `front`, `back`) and the stage it
stands for.  Each callback is one action.  `queues` are the sessions whose
serial filter holds a task; a task that is queued is never run, because the
tick that should start it reads a field nothing sets (`sequeue.js:48`), and
`RequestAnswered` excludes those requests by name.

### 3.6 ClientLink and Udp

`ClientLink` has the js client and the hybrid socket, and one pair of queues per
connection, which may be cut at any time without a word to either end.  The
client's reconnect and heartbeat timers are kept apart from its connection, as
in its code, where they outlive it; `client.fresh` tells a timer set for this
connection from one that is left over.  The timeout that the switcher sets on a
socket is not in the model: ws takes it off when the connection is upgraded, so
that only the heartbeat finds a cut.  `Udp` has one socket of the connector
and a socket per address; a datagram of any type may come from any address at
any time, which covers loss, repetition, reordering and an address used again.

### 3.7 Push, ChannelStore, BackendSessions, Status, DataSync

`Push` is one channel: `listed` counts a user's entries in the group of a
frontend, `records` is the record of the member, `rpc` the messages under way.
A message is `live` until it is encoded: until then it refers to the array of
the group itself, which a join or a leave changes.  A push on a destroyed
channel is refused, and nobody is called back (`Refuse`).  `queue`, `queued` and `got`
are the buffer scheduler and what a session was sent.  `ChannelStore` has the
channels by name, the objects made for them, which the application may keep
after `destroy`, and the writes to the store, in order, that may fail or be lost
in a crash; a process that starts again reads them (`Start`).  A member without
a sid is refused by the channel and written to the store (`Sidless`).
`BackendSessions`
has the copies and the calls under way, which arrive in any order, run or not,
and call back once.  `Status` and `DataSync` have redis as a value that outlives
the process and a queue of commands per connection.  In `DataSync` nothing goes
on to the database: `tick` of the rewriter throws at the first entry it is given
(section 7.3).  What is left to ask is what redis keeps, and what `isDone` says.

### 3.8 Scheduler, CronTime, Routing, BehaviorTree, Transaction

`Scheduler` has the heap as the array of `priorityQueue.js`, 1-based, and
`frames`, the stack of jobs whose functions are running: a function may call
the scheduler, whose `schedule` runs due jobs before it returns.  A `while` loop
of the queue is one round of it, applied as often as the heap has places
(`Rounds`), and a round that has nothing left to do changes nothing.  `CronTime` is
the search for the next time of a cron, stage by stage as in `cronTrigger.js`,
against the least matching time of a short calendar.  `Routing` has the servers
of one type as the application, the client and the station keep them, all six
routers and the ring.  The loop of the weighted router is its result
(`NextHeavy`): the first server from its index on that is heavy enough, or the
first of the list for the weight below.  The ring is `keys`, a digest with the
number of times it was added, and `at`, its map of digests; the search looks at
as many of the sorted keys as the map has digests (`Searched`).  `turns` is a
history variable: the latest choices of rr or wrr, and of which list and weights
they were made.  `BehaviorTree` gives every node its memory between ticks
and the results of the leaves as inputs of a tick.  `Transaction` has the
conditions and then the rounds of handlers.

### 3.9 Protocol, Protobuf, Codecs, Wire

Operators, and no state, for the package and message formats and for messages
with protos.  Both ends are modelled, since they are two copies of the code that
differ in how strings and buffers behave.  `Codecs` sends messages from one end
to the other through all layers, several packages at a time.  `Wire` abstracts
a body to the version of the protos it was written with and asks which protos
each end uses as files change, servers restart and clients keep what they have.

### 3.10 Lifecycle, Console, Admin, Registry, Modules

`Lifecycle` is one process, of four kinds (launcher, master, relay, frontend),
with every default component and hook and every call of `start` and `stop` on
its own way through them.  `Console` is the operator's commands, one latch per
command, the processes and the automatic restart, which checks a port
(`CheckPort`) and runs the server three seconds later (`RunAgain`).  `Admin` is the console's
clients: their login, which is asynchronous, and the requests they make of
servers, kept to be sent again.  `Registry` is `idMap`, `slaveMap` and `typeMap`
of the master's agent with several processes of one id or one address.
`Modules` is the pulled modules with their jobs, and the CPU profiles of the
profiler, numbered as they are taken, of which clients are told and which they
then ask for.  A heap snapshot is never sent (section 7.5), so a request for one
is polled for ever.

### 3.11 Robot and Report

`Robot` is the operator's master and the agents, whose handlers all work on the
last socket made.  `overlapped` is a history variable: the agents that were
restarted while a reconnection was pending, or made two sockets otherwise; the
properties are about the others.  `Report` is what the actors of an agent
measure, how reports reach the master, and what pages show.  A `Machine` is the
process of an agent, whose actors, timers and measurements outlive its
connections, and a `Node` is one of these: an agent that was away when a run
began reports what it measures in an earlier one under its new node.

## 4. Runs

| run | what runs | what it shows |
|---|---|---|
| `rpc_client` | 1 server, 2 requests, buffered, no tracer, pendingSize 1 | links, parked requests and callbacks stay consistent through removals, re-adding, late connect callbacks, link failures and stops; a flush loses nothing, a kept callback is called at last and a stopped station closes its links |
| `rpc_client_filters` | 2 servers, 2 traced requests, before filters, connects that report errors, pendingSize 0 | with filters that redirect a request, nothing is stranded or copied, and a stopped station is silent |
| `sessions` | 4 sockets, 2 users, singleSession, limit 2, the synchronous blacklist | the tables of sessions, users, connections and logins agree in any order of closes, errors, kicks and binds |
| `sessions_multi` | 3 sockets, 2 users, several sessions per user, asynchronous blacklistFun | the same for `uidMap` and logins; a closed session is disconnected at last |
| `watch` | the master and a server; a crash or a restart of the master, then any fault | sockets, ids, servers and listeners agree; a latch counts its callbacks; when nothing is under way a started server knows exactly the living; the start is announced only when all have started |
| `watch_respawn` | the same, one fault, ended servers start again, under fairness | the tables of the master agree, a started server knows all that live, and a live server is again one the master notifies |
| `watch_late` | one fault or a keep-alive that gives up; closes found in any order | no dead server is known, no start is announced early, no latch is overrun |
| `rpc_link` | four transports, 2 clients, one of which may make two calls; 2 calls in all | the refinement `PromiseKept`: each transport implements `RpcPromise`, its liveness included |
| `frontend` | `ClientLink`, `Requests`, `Wire`, `Udp`, `Scheduler`, `Routing` | no heartbeat timer is left on a dead socket and the udp connector has the open sockets only; one response per request; a message is read with the protos it was written with; jobs in the map run and removed ones do not; the servers the application lists can be reached and chosen, rr and wrr give each server its turns, failover does not come back, the ring moves only what it must; a cut is noticed, a request answered, and the server follows its proto files |
| `users` | `Push`, `ChannelStore`, `BackendSessions`, `Status`, `DataSync` | a push reaches its members or reports them, and calls back; copies of sessions, redis and the store of channels agree with what they are about; redis keeps the newest value of an entity until it is flushed |
| `services` | `CronTime`, `Transaction`, `BehaviorTree`, `Codecs` | a cron is due at the first of its times, handlers of a transaction run in order; a tree answers what its actions mean; what is encoded is decoded |
| `cluster` | `Lifecycle`, `Console`, `Admin`, `Registry`, `Robot`, `Report`, `Modules` | components start in order and a stopped process stays stopped and ends; commands are answered, and once; the master's maps agree with its connections; an agent of the robot has one socket and comes back, and a request is measured once; a client gets no profile older than one it was told of |

A property of a composed run is a conjunction over the parts it names; where it
excludes a case ("but for ..."), the comment above it in the module says which,
and section 7 says why the code needs it.

### 4.1 Bounds

A small server count is enough for most of this because the maps are kept per
id and no operation of a module touches two ids except where the run has two
(`ReplaceServers`, a filter's redirect, a notification from one server to the
other).

* `MaxBox`, twice the number of requests: a mailbox is created by a dispatch
  only, and a request is dispatched at most twice (by the caller, and by a
  flush).  The bound therefore cuts nothing off.
* `PendingSize` 0 and 1: the list holds one request more than its size, so two
  requests fill it with 0 and fit with 1, or are parked together.
* Each request is invoked once, each socket used once.  Four sockets against a
  limit of two leave room for a kicked session, its successor and two refusals.
* `FaultPlan` bounds the faults of `Watch` by one or two.  The second fault of
  `watch` comes after a crash or a restart of the master; two broken
  connections in one behaviour are not run, the state space being too large.
* `RpcLink`: two clients show what an acceptor mixes between clients, two calls
  of one client what a mailbox mixes between calls.
* `frontend`: two connections of the client, so that timers of the first can
  fire on the second; one request; two versions of each proto file, two starts
  of the server and two messages in all, so that each change can fall before,
  between and after them; two addresses and three udp sockets, so that one
  address is used again; three jobs, in two instants of the clock, with three
  calls of the scheduler from outside and from jobs; two servers of a type, two
  calls, weights up to two and one replacement, with three choices, so that a
  round of each router is complete, and for the ring three servers with two
  digests each, where `MaxKeys` lets a server be added twice.
* `users`: two frontends of which one holds the channel, two sessions of one
  user, a user listed twice at most, one message that is pushed or broadcast; two
  copies and two calls under way; two starts of two servers and a clean-up; two
  entries, one of which has a user, two values, three commands under way, one
  crash; two channel names, two objects, a member with a sid and one without,
  and two writes under way.
* `services`: a calendar of two years of two months of two and three days, with
  weeks of three days and days of two hours, in which every field wraps, and
  lists of hours that hold the hour after the last (24 in the code); three
  ticks of a tree; `MaxRoute` is 12, not 255, so that a route of some dozen
  bytes crosses it, and no other length is scaled.
* `cluster`: of the four kinds of process only the master has its `start` and
  `stop` called twice; two servers (one the master's own), two commands, one
  crash; two connections that log in with one id, one request, two cuts; four
  server processes, of which three have one id and two one address; one robot
  agent with three sockets, two timers and four events; one reporting agent
  over two connections, one of which may come before a run and one after it, and
  two runs; one server with a profiler and three profiles, so that two may be
  late.
* Deadlock is checked in the runs of `MailStation`, whose table of servers can
  change for ever.  `CHECK_DEADLOCK FALSE` stands in the other configurations,
  where sockets, faults, calls and commands are used up and the system may stop.
* No run uses symmetry: the instances are small enough without it.

## 5. Fairness

What is assumed fair is what the event loop, a timer or TCP owes; nothing is
assumed of users, operators, faults or the application's own callbacks, except
where a property is about what follows from them.

* `MailStation`: a turn of the loop runs to its end (`Turn`), and timers armed
  by `setTimeout` fire (`GraceExpires`, `CallbackTimeout`).  An answer is owed to
  the timer alone.
* `Sessions`: `process.nextTick` runs what it was given (`Disconnect`).
* `Watch`: TCP delivers what is sent or reports the close to both sides, the
  event loops run, and the reconnect timer fires.  `OnSocketClose` and
  `OnDisconnect` are fair only where the other side has gone; a break is never
  owed, and neither is a start (`Boot`) or a fault.
* `RpcLink`: the timer of each call fires.  Nothing is assumed of the network or
  of the methods.
* `ClientLink`: timers of the client fire, each side reads what has come, the
  server answers a request it has taken, and its heartbeat timer fires once the
  connection is cut, for then nothing sets it anew; `Requests` has the way of that answer, and
  there each filter, error handler, handler and rpc is assumed to call back in
  some way (`Runs`).
* `Wire`: a change of a file reaches its watcher.  `Udp`: timers and answers to
  handshakes come.
* `Push`: rpc arrives or fails, and the interval of a running scheduler fires.
* `Lifecycle`: while a stop waits, something of it happens: a component or the
  hook calls back, or else the shutdown timer fires.
* `Console`: the timers of latches and the exit fire, and a process that was
  told to start is spawned or fails.  `Admin`: servers that are there handle
  what they get and answers arrive.
* `Robot`: timers and heartbeats fire, connections are made while the master
  listens, messages arrive and the end of a socket is noticed at both its ends.
  `Report`: the interval of reports fires, messages arrive.
* `BackendSessions`, `ChannelStore`, `Status`, `DataSync`, `Registry`, `Routing`,
  and all of `services` promise no liveness.

## 6. What is proved

The theorems hold for every value of the constants that the named assumption
of the module allows: any finite or infinite set of servers, requests, sockets
and users where the module does not ask for a finite one, any bound, any
configuration, any plan of faults.  They assume nothing else, but for the cases
that three theorems of `Watch` name: `LateCloses` and `Respawn`.  Finite are the
servers of a console, the ids of the master's records, the names and objects of
channels, the entries of a sync, the servers of a type and their digests (which
do not collide), the frontends, users and sessions of a channel
and what an agent of the robot measures: what is counted or put in an array
there.  The theorems about `Users`, `Frontend` and `Cluster` are about each of
their parts, for the initial state may choose any.

| module | theorem | says |
|---|---|---|
| `MailStationProofs` | `TypeCorrect` | `[]TypeOK` |
| | `LinksCorrect` | `[]OneLinkPerServer` |
| | `ShutdownIsSilent` | `SilentAfterShutdown` |
| | `NothingStranded` | `[]NoStrandedRequests` |
| | `FilteredCorrect` | `[]FilteredOnce` |
| | `HeldOnceCorrect` | `[]HeldOnce` |
| | `FlushCorrect` | `FlushLosesNothing` |
| `SessionsProofs` | `TypeCorrect` | `[]TypeOK` |
| | `IndexCorrect` | `[]UidMapAgrees` |
| | `SingleSessionCorrect` | `[]OneSessionPerUser` |
| | `LimitCorrect` | `[]AcceptedWithinLimit` |
| | `LoginsCorrect` | `[]NoStaleLogins` |
| | `GhostsCorrect` | `[]NoGhostSessions` |
| | `LoginsAgreeCorrect` | `[]LoginsAgree`, the property of the run, from four of the above |
| | `ManyAgreeCorrect` | `[]ManyAgree`, the property of `sessions_multi` |
| `WatchProofs` | `TypeCorrect` | `[]TypeOK` |
| | `DirectoryCorrect` | `[]DirectoryAgrees` |
| | `LatchesCorrect` | `[]LatchesCount` |
| | `KnowsAllCorrect` | `[]KnowsAll`, with the closes in order and no process coming back |
| | `BackAgreesCorrect` | `[]BackAgrees`, with the closes in order |
| | `StartedTogetherCorrect` | `[]StartedTogether`, with no process coming back, in any order of the closes |
| `RpcLinkProofs` | `TypeCorrect` | `[]TypeOK` |
| | `PromiseSafe` | `Promise!Safe`: every step of `RpcLink` is one of `RpcPromise` or a stutter |
| `UsersProofs` | `SessionsAgreeCorrect` | `[]SessionsAgree` |
| | `NewestIsKeptCorrect` | `[]NewestIsKept` |
| `PushProofs` | `EveryMemberCorrect` | `[]EveryMember` |
| `ClusterProofs` | `MapsAgreeCorrect` | `[]MapsAgree` |
| | `AnsweredOnceCorrect` | `[]AnsweredOnce` |
| | `OneSocketCorrect` | `[]OneSocket` |
| | `NewestProfileCorrect` | `[]NewestProfile` |
| | `StartsInOrderCorrect` | `StartsInOrder`, its two action properties included |
| `FrontendProofs` | `NoTimerLeftCorrect` | `[]NoTimerLeft` |
| | `ReadAsWrittenCorrect` | `[]ReadAsWritten` |
| | `OneResponseCorrect` | `[]OneResponse` |
| | `JobsRunCorrect` | `[]JobsRun` |
| | `RoutesHoldCorrect` | `RoutesHold`, its action property included |

The arguments:

* **MailStation.**  `LinkInv` adds to the property that a shut down station is
  closed and its registered mailboxes with it (`Shutdown`): without it a stop
  could be followed by a dispatch that opens a link.  `SilentAfterShutdown` is
  then read off each action.  `ParkedInv` covers the middle of a flush: while
  `agenda` is not empty the list may hold requests of a server with an open
  mailbox, and the sweep at its end is what makes the property true again.
  `CopyInv` says where a request is: called for by the agenda, parked, with a
  filter or with a mailbox, in one of these and once; a list that still owes its
  clear no longer counts as holding its requests, which is what a flush needs.
  `CountInv` adds how often a callback has run: not at all before a request is
  with a mailbox, once there if the mailbox got a DISCONNECT, and no request
  reaches a mailbox after that (`CutGone`).  With a tracer the failure process
  may call back as well, and the count is not claimed.  `FlushInv` is about the
  middle of a flush: each request still listed is on the agenda or has got what
  it will get, and the clear is the last call of the turn.
* **Sessions.**  `TInv` (a session in the table has not ended and its connection
  is still counted) makes the index argument local: a kick finds only sessions
  in the table.  `LimitInv` relates the sessions to the counter by the
  cardinality of the counted connections.  `LoginsInv` lets a recorded user be
  without a session only while a disconnect is due.
* **Watch.**  `DirectoryAgrees` is not inductive.  What makes it so is a fact
  about what is under way: a server says nothing but what it connects with until
  the master has welcomed it (`OnlyAsks`, `OnlyRefused`), and a server that
  believes it is registered on a connection is right (`RegisteredOn`).  Together
  they give that a `subscribe` can come only from a server the watchdog has.
  `LatchInv` states that a latch equals the number of callbacks kept for its
  number; a `done` beyond zero would need a callback that is not kept, and
  callbacks are deleted as they are called.  Both hold with the closes found in
  order; findings 4 and 5 of section 7 show why that is needed.

  `KnowInv` is about what the messages on their way will do to the table of a
  server (`Learns`): of the messages that add a server or drop it, `replaceServer`
  and the answer to `subscribe` included, the last one in the queue decides, and
  with none the table as it is.  A listener on its registered connection will
  know every server of the watchdog (`LearnsAll`) and, when no process comes back
  under its name, no other (`LearnsOnly`).  That a notification reaches whoever
  must hear it needs that a started process is a listener (`Starts`), or has the
  answer to its `subscribe` still to come; that a new listener starts from a
  table without strangers needs that nothing is kept for an id before its first
  registration (`NothingKept`), which is where `Respawn` makes the difference.
  Each action is one argument about appending to the queues or reading their
  heads.  With nothing under way the queues are empty and what a server will
  know is what it knows.
  `StartInv` counts: the servers that have started or ended, and of which no
  record is on its way, are at least as many as the records counted (`Enough`).
  A process is recorded once because each question of its start and its answer
  are together on its connection at most once, and only while it waits for them
  (`Stages`), so that a process that runs never starts again; this needs no order
  of the closes.

* **RpcLink.**  The refinement needs that nothing is under way on a connection
  that is down (`LinksAgree`), that a call waits together with its timer and has
  no outcome but where ws or ws2 lost its connection (`WaitingOnce`), and that
  each response on its way, in packets or in the queue of an acceptor, carries
  the result of the call it names unless a tcp acceptor buffers (`AnswersOwn`).
  Each action then makes one step of the promise; a packet of answers and a
  lost connection make one `Resolve` of several calls.  `Promise!Safe` is the
  promise without `Ends`, its liveness.
* **Users.**  The store of channels and redis are written behind what they
  follow.  What holds at every step is what they will have when all that was
  sent has run: a write that is the last of its kind in the queue counts (`Kept`),
  and what is there counts if nothing in the queue takes it away (`Untaken`).
  A change of a channel or a session appends its write, a command that runs
  moves from the queue to the value, and neither changes what will be
  (`StoreFollows`, `StatusFollows`).  A cleaning deletes only entries that named
  the server (`DeletesOwn`), and a server that cleans up has no sessions.  The
  latch of a push by status equals the queries that are open and those that
  failed (`LatchCounts`).  For synced entries the last call, an `hset` or the
  `hdel` of a flush, is the last thing on its way about its entry, and when
  nothing is on its way it has come (`Follows`); what `isDone` has said holds
  until another value comes (`DoneSays`).
* **Push.**  The users a push is owed to are covered in turn by the message, by
  the reply and by the callback (`MessagesCover`, `RepliesCover`,
  `CallbacksCover`): a message that is not encoded yet covers them by the group
  it refers to.  One message goes to a server (`OneMessage`), and the amount of
  the channel is the number of the places in its groups.
* **Cluster.**  `RegistryInv`: a record is a live connection of its id, the list
  of a type is the records of that type, each once, so that an array that loses
  its first occurrence of a connection has lost it altogether.  `AdminInv`: what
  waits is what `msgMap` has, a request with someone to wait for has not been
  answered (but for one to an unknown id), and what is sent to a server, or would
  be when it registers, the server has not executed.  `ConsoleInv`: a part of a
  command on its way is in `msgMap` and one that was answered is not; a latch
  that still counts, or a stop whose timer runs, has not answered.
* **Robot.**  `ReportInv`: before each "remove" on its way to a page there is an
  "add" or the page shows the node, and a listed node is shown or will be;
  measured and pending requests together are no more than those that began.
  `RobotInv`: a reconnection timer is pending only while the agent has no
  socket (`Single`, `SingleSocket`), so the socket it makes is the only one; a
  socket announces itself once and on itself, so the master never has its id
  already and lists it once; and the commands an agent ran with those on their
  way to it are no more than the master gave.  This is about agents that were
  not restarted while a reconnection was pending.  Of the others only types are
  kept, and that what they announce are ids of their own, which keeps the
  confusion of one agent away from the rest.
* **Modules.**  `ModulesInv`: the profiles of a server on their way are in
  increasing order, and all newer than what a client was told of (`Increasing`);
  the profile that is kept is the newest that was told, or none once it has been
  cleared.
* **Lifecycle.**  `LifecycleInv`: a call of start that is at a component has
  started all before it, and one that opens them has started all (`Placed`).  A
  second call does not disturb this because the list it would load is there
  already (`Listed`, `LoadDoes`); what `load` leaves is shown by induction over
  the list.  After a stop that came during no start, no call of start is at work
  (`StoppedQuietly`), so the state stays "stoped", every further stop is ignored,
  and the one timer is that of the one stop at work (`OneStop`).
* **ClientLink and Udp.**  `LinkInv`: a socket of the server with a timer or an
  entry works, which each action shows of the one socket it touches.  `UdpInv`
  adds that sockets are numbered in the order in which they were made, so that a
  new one is neither open nor anybody's.
* **Wire.**  `Lines` says what is on the two lines in each state of the
  connection: while it is up, each message can be read with the protos its
  receiver will have (`Readable`), unless they have changed since the handshake.
* **Requests.**  `RequestsInv` counts: the responses a client was given, and the
  work and the forwarded messages that still owe one (`Owed`), are together at
  most one, or two when a handler of the frontend that had called back has
  failed (`Budget`).  An entry of the timeout filter has an item of work, or a
  forwarded message, that will pass the filter on its way back (`Timers`,
  `Keeps`).
* **Scheduler.**  `SchedInv`: a job in the map is in the queue at most once, with
  its next time (`QueueOK`), and it is there (`Found`) unless the function of a job
  called the scheduler, which loses jobs (section 7.2); the timer is in time for the head of the queue, be its
  job in the map or not (`TimerOK`), and what the functions that are running will
  do keeps this (`FramesOK`).  The heap is the long part: a round of sifting moves
  the one place at which the order may be wrong (`Rising`, `Falling`), and with
  as many rounds as places it is gone (`UpHeap`, `DownHeap`); `offer` and `pop`
  then make a heap of the elements they should (`OfferMakes`, `PopMakes`), each in
  as many places as before (`Rearranged`), whose head is the least
  (`HeadLeast`).  Induction over the rounds is over a set of natural numbers
  (`FromZero`), for a loop is a recursive function here.
* **Routing.**  A round of a router is the set of its places, a server and, for
  wrr, one of the weight levels the server belongs to, in the order in which the
  loop comes to them (`Ahead`).  A choice takes the place that `Follows` the last
  one: rr by its index (`RestNext`), wrr whether it stays at its weight or goes
  down (`StaysNext`, `GoesNext`).  The latest choices are thus distinct places one
  after the other (`Window`, `TurnTaken`), wherever the router was before, and a
  window with as many places as a round has all of them (`RoundCounts`).
  `RoutingInv` has this (`Turned`), that what is listed is known and online
  (`Listed`) and, without failover, in the array the routers choose from
  (`Offered`), that the array of a traced call has none of the servers it tried
  (`Tries`), and that the keys of the ring are those of its digests (`RingHas`).
  A ring that has no server twice is searched whole (`SearchedAll`), and what a
  larger ring finds among the digests of a smaller one the smaller one finds
  (`BestStays`).

Only model-checked:

* all liveness, which is out of the prover's reach under fairness (`NothingLost`
  in part, `EndedIsDisconnected`, `Returns`, `CutNoticed`, `RequestAnswered`,
  `ProtosFollow`, `PushReturns`, `StopEnds`, `CommandsAnswered`, `AgentsReturn`,
  and `Ends` in `PromiseKept`);
* `KnowsNoDead` and `MasterSurvives` when the closes are found late, parts of
  `LateAgrees`: a `register` that the master reads after the `reconnect` that
  followed it leaves two registered connections of one id, and `DirInv`, on which
  the other proofs of `Watch` rest, does not hold then.  `StartedTogether`, its
  third part, is proved for that case too;
* the properties of `services`.  `CronTime`, `BehaviorTree`, `Protobuf` and
  `Codecs` compute with RECURSIVE operators, over trees, messages and calendars,
  and are checked over bounded inputs, most of them against a reference
  definition; no theorem can be stated in a module that reaches such an operator,
  and what they compute for every input takes an induction over data.
  `Transaction`, which is in the same group, is not proved either (step 18).

Of the invariants of the runs `LateAgrees`, `ReadAsSent` and `AnswersItsMeaning`
are left; of the action properties none.

## 7. Known divergences

The models contain what the code does.  Where this breaks what the repository
says of it, the properties exclude the case by name, and it is listed here.

### 7.1 Against a test, a comment or a document

1. The mqtt mailbox only emits `close` when a connect fails, and the station
   starts to listen after a successful one (`mqtt-mailbox.js:153`).  A request
   parked for that server is never answered; the station's own test expects an
   error (`rpc/test/rpc-client/mailstation.js:213`).
2. A client that leaves while `blacklistFun` is asked gets a session that
   nothing removes: `hostFilter` does not look at the socket again
   (`connector.js:62`; `sessionService.js:411`).
3. A connection refused for `max-connections` is counted and never counted down
   (`connector.js:78`; `connectionService.js:2`): a server that was full once
   refuses clients for good.
4. `removeConnection` recognises a connection by host and port and removes the
   registered one whichever has closed (`masterAgent.js:477`).  A server that
   comes back before the master has seen its end is forgotten while it lives.
5. A request to an unknown id is answered by an error, kept, and pushed again
   when the id registers; the second answer makes `CountDownLatch.done` throw in
   the master, uncaught (`masterAgent.js:163`; `olemop-admin/test/console-service-test.js:204`).
6. A push on a destroyed channel passes its error in the place of the callback,
   so the caller is never called back (`channelService.js:292`); the test of it
   gives a callback and expects the error there (`olemop/test/service/channel.js:154`).
7. The scheduler documents months from 1 to 12 and hours from 0 to 23
   (`olemop-scheduler/README.md:92`); the code takes months from 0 to 11, as
   `Date` does (`cronTrigger.js:18`), and lets hour 24 through, where a field is
   checked and where a step fills it (`cronTrigger.js:16`, `:324`).  A cron with
   it may be given midnight of the next day, which does not match
   (`cronTrigger.js:122`).  `CronTime` counts months as the code does, and
   `NextIsLeast` excepts that hour by name.

### 7.2 Rpc and servers

* A station that is closed, or has no such server, reports a request to the
  failure process, which finds the caller's callback through the tracer: without
  `rpcDebugLog` nobody is answered (`failureProcess.js:112`, `mailstation.js:308`).
* The pending list takes `pendingSize + 1` requests and drops the next without a
  callback (`mailstation.js:84`).  Failover removes the failed server from the
  array that is the station's own list (`failureProcess.js:20`).
* The routers rd, rr, wrr and la choose from `serversMap` of the station, where a
  removed server stays (`mailstation.js:241`), so they may choose one that has
  gone; only the default router looks at the application's list.
  `ListedReachable` and `ListedOffered` are about the servers that are listed:
  each has a station that knows it and, without failover, is offered to the
  routers.
* ws calls back every request again after a lost connection, ws2 and tcp forget
  calls that time out, ws2 calls back with nothing when its connection closes,
  a buffering tcp acceptor has one queue for all clients: the
  four parameters of `RpcPromise`.  The timer of a tcp call throws on a logger
  that is not required (`tcp-mailbox.js:49`).  A tcp acceptor does not catch what a method
  throws, and the process ends.
* `replaceServers` tells the ring nothing, so a consistent hash goes on with the
  old servers; with no servers it does nothing at all.  An emptied ring answers
  index 0.  A server that comes to a least-active router counts as idle for good.
* A task of a session queue never runs (`sequeue.js:48`): with a serial filter a
  request waits for ever.  A handler of a frontend that throws after it has
  called back makes a second response.
* `Server.stop` cancels no cron, and `addCrons` schedules a cron that is there a
  second time.  `excuteJob` pops whatever is at the head after the job has run.

### 7.3 Sessions, channels and users

* `removeLoginedUser` removes the record of a user when one session of several
  closes, although the user is still there (`connectionService.js:73`,
  `connector.js:200`).  `NoStaleLogins` states the direction that holds.
* `restore` of the channel service loads the members with an undeclared name and
  throws at the first: members of restored channels are lost
  (`channelService.js:434`).  `destroy` of an old object destroys the channel
  that has its name now; errors of the store are only logged.
* `add` of a channel refuses a member without a sid and writes it to the store
  all the same (`channelService.js:205`), so that only the store has it;
  `StoreAgrees` excepts these members by name.
* The rewriter of sync-redis takes `invoke` from a module that has it in its
  default export, and so has `undefined` (`Rewriter.ts:1`): `tick` throws for
  every entry, also for one without a mapping function, where it looks for a
  logger nobody sets, and nothing is ever written.  `flush` removes the entry
  before it calls the rewriter (`dbsync.ts:258`), so the value is lost and the
  caller never called back; with a user and an id it removes a key that `exec`
  never made, and `flushByUid` throws as well.  A call of `execSync` without a
  callback counts before it throws, so that `isDone` is never true again.
* The status plugin has no handler for unbind, and a crash leaves its entries;
  `cleanOnStartUp` deletes the entries of every server.

### 7.4 Clients

* Heartbeat timers of the js client outlive their connection; a link that is cut
  before the first heartbeat is never found dead; what is asked before the
  handshake is done is never called back.
* A websocket that is cut before its handshake was acknowledged is never noticed
  by the server: the timeout of the switcher (`switcher.js:69`) is taken off by
  ws with the upgrade, and the heartbeat has not begun.  The same holds with no
  heartbeat, or with its `disconnectOnTimeout` off; `CutNoticed` is about the rest.
* An error of the udp socket throws on a logger that is not declared
  (`udpconnector.js:73`).
* A udp peer that never acknowledges keeps its socket for good, and a client
  whose handshake answer was lost is ignored from then on (`udpsocket.js:69`).
* The two ends reserve different room for a message with protos: with floats the
  node encoder throws and the browser's cuts the message.  Both treat an invalid
  message as an empty one.  A code unit of a surrogate pair is not what the
  other end reads.  A client whose server has protos for its messages fails to
  read every route of them (`deCompose`).

### 7.5 Processes and consoles

* A second `start` during the first starts components twice; an error of a start
  throws a ReferenceError; a `stop` during a start is undone by it.  The push
  scheduler takes the callback of `stop` for its `force` flag, so that only the
  shutdown timer ends the process (`components/pushScheduler.js:70`).
* The list of servers an operator stopped is overwritten by each stop and never
  cleared; a restart by the operator and the automatic one may both launch; a
  latch that timed out may answer again.  A restart of a type whose servers have
  all gone finds their empty list, and the latch throws on a count of zero: the
  operator is never answered (`console.js:173`, `countDownLatch.js:41`;
  `RestartEmptied`).
* The automatic restart runs a server three seconds after it has checked the
  port, without another look.  When the check fails or the port is taken it
  calls the callback of the master's start a second time (`master.js:71`, `:77`),
  and with RESTART_FORCE the kill throws on an undeclared `i`
  (`starter.js:130`).
* A script file that cannot be read is answered twice, with the error and then
  with no data (`scripts.js:103`); a command `watchServer` does not know is never
  answered (`watchServer.js:605`).
* `doAuthUser` takes `authUser` and `env` out of the option `authUser`, and every
  login throws unless that option is an object that holds them.  A
  client that goes during its login leaves the id taken.
* `requestServer` and `notifyByServer` of the master's agent compare the record
  with an address it does not have, so nothing is sent.  A slave is never
  promoted.  A heap snapshot throws on a `path` that is not required
  (`profiler.js:48`): no chunk is ever sent, and the client polls for ever.
* A kept `addServer` is pushed to a server that came back, although the server
  it is about has ended meanwhile (`masterSocket.js:238`): with three servers of
  which one comes back, `KnowsNoDead` fails, and `BackAgrees` does not claim it.
  A server that comes back before its end is found is a listener without a
  connection once that is removed: a notice to it is counted down at once, yet
  kept, pushed when it connects again and answered, which ends the master
  (`countDownLatch.js:20`); `LateAgrees` is about servers that do not come back.
  A server that is
  started again is recorded a second time, so the start of all may be announced
  before all have started (`watchdog.js:58`).
* The monitor agent checks its state and not its socket: a notify between the
  loss of a connection and the reconnect throws (`mqttClient.js:121`,
  `monitorAgent.js:215`; `FinishStartThrows`).  A start waits for the answers of
  `register` and `subscribe` for ever (`monitorAgent.js:70`).
* A reconnect that the master refuses, because it has not yet found the old
  connection closed, is never retried (`masterSocket.js:176`): `Returns` fails
  with `LateCloses`.  A client that its own keep-alive has closed never
  reconnects (`mqttClient.js:205`): `Returns` fails with the fault "silence".
* Forced restarts of a robot agent that overlap a reconnection give two live
  sockets, or an agent that exits because its id is taken.  Actors and timers of
  an earlier run go on and count in the new one; a page never removes a node.
  An agent that was away when a run began goes on reporting on its new socket,
  so what it measures in its earlier run is shown as the present one
  (`Agent.js:131`, `Server.js:75`); `LatestShown` excepts it by name.

## 8. Not modelled

* In `MailStation`: `CONNECT_TIMEOUT`, whose event has no listener; user callbacks
  that call `rpcInvoke` again inside the same turn.
* In `Sessions`: socket errors before the connector's listeners; user listeners
  of `closed` that bind or unbind inside the emit; settings set or removed on
  the frontend itself.
* In `Watch`: authentication of servers (in `Registry`); the moments between a
  TCP connect and its connack; a server restarted with another host or port.
* Code that cannot run: the mqtt2 mailbox and acceptor, the coder and buffers of
  the rpc server (they require files the package does not hold), the socket of
  raw TCP clients (it throws in its constructor), the mqtt connector (its first
  client throws), the failsafe process (not selectable), the commands of
  `olemop-sync` and the component of plugin-sync (they throw), the verification
  of signed messages (the client's side of it does not work),
  `cronTriggerDecoder.js` (nobody requires it).
* Data and I/O: command lines and ssh of the starter, what `ps`, `iostat` and
  `pidstat` print (a value or a failure), settings of the application, hot
  loading of files, the layout of the robot's pages and its counters, log files,
  loader, logger, utilities, templates and the command line tools.
* In the formats: numbers from 2^31 on and the bits of a float.
