------------------------------ MODULE Frontend ------------------------------
(***************************************************************************)
(* A frontend server and its clients: the link of a client, the way of a   *)
(* request, the choice of the server an rpc goes to, the protos and the    *)
(* dictionary in use, the udp connector, and the jobs and crons the server *)
(* schedules.  They share no state: one of them runs in each behaviour,    *)
(* the others stay where they start.                                       *)
(***************************************************************************)
EXTENDS Integers, Sequences, FiniteSets

CONSTANTS
  MaxConn, Req, NoReq, Reconnect, MaxAttempts, DisconnectOnTimeout,               \* ClientLink
  Session, NoSession, Configurations, ErrorHandlers,                              \* Requests
  Route, ClientProtos, ServerProtos, Dict, MaxVersion, MaxStarts, MaxWire, MaxMsg, \* Wire
  Server, Call, Field, Point, Digest, Options, Traced,                            \* Routing
  MaxWeight, MaxReplaced, MaxKeys, MaxPicks,
  Peer, UserHandshake, MaxSockets, MaxAnswers, MaxHeard,                          \* Udp
  MaxJobs, MaxTime, Periods, Counts, MaxCalls, Cron, NoCron                       \* Scheduler

VARIABLES
  part,
  client, wire, socket, requests,
  filters, server, open, msg, work, forwarded, timeouts, queues, responses, repeated,
  file, half, reads, protos, life, conn, cprotos, storage, cdict, fresh, toServer, toClient, handled, sentCount,
  rpc, opts, proxies, list, known, onlines, weight, arrays, latest, rrParam, wrrParam, laParam, ring,
  rpcs, picks, turns,
  clients, peer, state, answers, beats, watched, session, refused, heard,
  now, jobs, live, queue, timer, frames, crons, jobOf, calls, history

Link == INSTANCE ClientLink WITH server <- socket

Requests == INSTANCE Requests

Wire == INSTANCE Wire

Routing == INSTANCE Routing WITH client <- rpc, now <- latest, calls <- rpcs

Udp == INSTANCE Udp WITH timeouts <- beats

Scheduler == INSTANCE Scheduler

ASSUME LinkAssumption == Link!LinkAssumption
ASSUME RequestsAssumption == Requests!ConstantsAssumption
ASSUME WireAssumption == Wire!WireAssumption
ASSUME RoutingAssumption == Routing!RoutingAssumption
ASSUME UdpAssumption == Udp!UdpAssumption
ASSUME SchedulerAssumption == Scheduler!SchedulerAssumption

linkVars == <<client, wire, socket, requests>>
requestVars == <<filters, server, open, msg, work, forwarded, timeouts, queues, responses, repeated>>
wireVars == <<file, half, reads, protos, life, conn, cprotos, storage, cdict,
              fresh, toServer, toClient, handled, sentCount>>
routingVars == <<rpc, opts, proxies, list, known, onlines, weight, arrays, latest, rrParam, wrrParam,
                 laParam, ring, picks, turns, rpcs>>
udpVars == <<clients, peer, state, answers, beats, watched, session, refused, heard>>
schedulerVars == <<now, jobs, live, queue, timer, frames, crons, jobOf, calls, history>>
vars == <<part, linkVars, requestVars, wireVars, routingVars, udpVars, schedulerVars>>

Init ==
  /\ part \in {"link", "requests", "wire", "routing", "udp", "jobs"}
  /\ Link!Init /\ Requests!Init /\ Wire!Init /\ Routing!Init /\ Udp!Init /\ Scheduler!Init
  /\ part # "requests" => filters = (CHOOSE f \in Configurations : TRUE)
  /\ part # "routing" => opts = (CHOOSE o \in Options : TRUE)
  /\ part # "jobs" => crons = {}

Next ==
  \/ /\ part = "link" /\ Link!Next
     /\ UNCHANGED <<part, requestVars, wireVars, routingVars, udpVars, schedulerVars>>
  \/ /\ part = "requests" /\ Requests!Next
     /\ UNCHANGED <<part, linkVars, wireVars, routingVars, udpVars, schedulerVars>>
  \/ /\ part = "wire" /\ Wire!Next
     /\ UNCHANGED <<part, linkVars, requestVars, routingVars, udpVars, schedulerVars>>
  \/ /\ part = "routing" /\ Routing!Next
     /\ UNCHANGED <<part, linkVars, requestVars, wireVars, udpVars, schedulerVars>>
  \/ /\ part = "udp" /\ Udp!Next
     /\ UNCHANGED <<part, linkVars, requestVars, wireVars, routingVars, schedulerVars>>
  \/ /\ part = "jobs" /\ Scheduler!Next
     /\ UNCHANGED <<part, linkVars, requestVars, wireVars, routingVars, udpVars>>

\* What stays where it starts has no fair action that could be taken.
Spec ==
  /\ Init /\ [][Next]_vars
  /\ Link!Fairness /\ Requests!Fairness /\ Wire!Fairness /\ Udp!Fairness

-----------------------------------------------------------------------------
(* Properties *)

\* No timer of a heartbeat is left for a socket that is closed, whoever closed it in
\* whatever state, and the udp connector has exactly the open sockets, whatever
\* datagrams are lost, repeated or late (Heartbeat, Socket.disconnect, udpsocket).
NoTimerLeft ==
  /\ Link!TypeOK /\ Link!NoTimerLeft
  /\ Udp!TypeOK /\ Udp!PeersAgree

\* Both ends notice that a connection was cut, and a udp client that falls silent is
\* forgotten (Heartbeat, udpsocket).
CutNoticed == Link!CutNoticed /\ Udp!SilentForgotten

\* A client gets one response to a request, and no entry of the timeout filter
\* outlives its request (globalHandle, doForward, TimeoutFilter).
OneResponse == Requests!TypeOK /\ Requests!OneResponse /\ Requests!TimersHaveRequests

\* Every request is answered at last, unless its connection ends or is cut before the
\* client watches it, or a serial filter holds the request (jsclient, globalHandle).
RequestAnswered == Link!RequestEnds /\ Requests!RequestAnswered

\* What one end wrote the other reads as it was written, whenever protos, dictionary
\* and server change in between; until then client and server have the same ones.
ReadAsWritten == Wire!TypeOK /\ Wire!SameProtos /\ Wire!ReadAsWritten

\* Once the proto files are left alone the server has what is in them (onUpdate).
ProtosFollow == Wire!ProtosFollow

\* The servers the application lists can be reached and chosen; rr and wrr give each
\* server of the station its turns, though it may have been removed; a call does not try
\* again one that failed, and the ring moves only what has to move (Router,
\* ConsistentHash, failover).
RoutesHold ==
  /\ [](part = "routing" => /\ Routing!TypeOK /\ Routing!ListedReachable /\ Routing!ListedOffered
                            /\ Routing!EveryTurn /\ Routing!NoReturn)
  /\ Routing!RingMoves

\* A job in the map runs when it is due and one that was removed does not, whatever
\* is scheduled and cancelled, by functions of jobs too: the queue is a heap, and the
\* timer is set for its earliest job (Schedule, PriorityQueue, Server.addCrons).
JobsRun ==
  /\ Scheduler!TypeOK /\ Scheduler!HeapOrdered /\ Scheduler!NoneLost
  /\ Scheduler!TimerInTime /\ Scheduler!RemovedCronsStop
=============================================================================
