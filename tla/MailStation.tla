---------------------------- MODULE MailStation ----------------------------
(***************************************************************************)
(* The rpc client of @olemop/rpc: Client.rpcInvoke, the MailStation that   *)
(* routes a request to the mailbox of its target server, and the mqtt      *)
(* mailbox (the default of mailbox.js) that holds the link to that server. *)
(*                                                                         *)
(* Everything runs on one JavaScript thread.  A turn of the event loop is  *)
(* one action, except that flushPending runs dispatch once per parked      *)
(* request: the calls still to be made in the current turn are the         *)
(* sequence agenda, and no other event is taken until it is empty.         *)
(*                                                                         *)
(* The failure processes modelled are failfast (the default) and failback  *)
(* (an empty function).                                                    *)
(***************************************************************************)
EXTENDS Naturals, Sequences

CONSTANTS
  Server,        \* ids of remote servers
  Req,           \* rpc requests, each invoked at most once
  NoReq,         \* not a request
  MaxBox,        \* bound: mailboxes that can be created
  PendingSize,   \* opts.pendingSize
  Traced,        \* opts.rpcDebugLog: every request carries a tracer
  FailMode,      \* opts.failMode
  Filtered,      \* before and after filters are installed
  Buffered,      \* opts.bufferMsg
  ConnectErrors  \* the mailbox reports a failed connect (ws-mailbox.js does,
                 \* mqtt-mailbox.js does not)

ASSUME ConstantsAssumption ==
  /\ MaxBox \in Nat
  /\ PendingSize \in Nat
  /\ NoReq \notin Req
  /\ Traced \in BOOLEAN
  /\ FailMode \in {"failfast", "failback"}
  /\ Filtered \in BOOLEAN
  /\ Buffered \in BOOLEAN
  /\ ConnectErrors \in BOOLEAN

Box == 1..MaxBox      \* mailbox objects, in the order of their creation
NoBox == 0            \* a server with no entry in station.mailboxes

VARIABLES
  state,       \* station (and client) state
  grace,       \* the timer that stop(false) arms
  servers,     \* servers: ids whose info is known
  onlines,     \* onlines: ids marked 1
  mailboxes,   \* mailboxes: the mailbox of a server, or NoBox
  connecting,  \* connecting: ids flagged true
  pendings,    \* pendings: parked requests of a server
  owner,       \* the server id of each mailbox created so far
  opener,      \* the request whose dispatch created each mailbox
  acked,       \* mailboxes whose connect callback has run
  connected,   \* mailboxes with connected = true
  closed,      \* mailboxes with closed = true
  listening,   \* mailboxes whose 'close' event the station hears
  dead,        \* mailboxes whose socket has failed
  cut,         \* mailboxes that received a DISCONNECT packet
  requests,    \* requests and timeout of a mailbox: awaiting an answer
  queue,       \* queue of a mailbox: buffered, not yet written
  wire,        \* written to the socket of a mailbox, not yet replied to
  filtering,   \* <<request, server>> inside the before filters
  agenda,      \* calls left in the current turn
  invoked,     \* requests passed to rpcInvoke so far
  answers      \* how many times the callback of a request has been called

station == <<state, grace, servers, onlines>>
routing == <<mailboxes, connecting, pendings>>
links   == <<owner, opener, acked, connected, closed, listening, dead, cut>>
traffic == <<requests, queue, wire, filtering>>
vars == <<station, routing, links, traffic, agenda, invoked, answers>>

Call == [op : {"dispatch"}, req : Req, srv : Server]
          \cup [op : {"clear"}, req : {NoReq}, srv : Server]

Created == 1..Len(owner)

TypeOK ==
  /\ state \in {"inited", "started", "closed"}
  /\ grace \in {"off", "armed", "fired"}
  /\ servers \subseteq Server
  /\ onlines \subseteq servers
  /\ mailboxes \in [Server -> Created \cup {NoBox}]
  /\ connecting \subseteq Server
  /\ pendings \in [Server -> Seq(Req)]
  /\ owner \in Seq(Server)
  /\ opener \in Seq(Req)
  /\ Len(owner) \in 0..MaxBox
  /\ Len(opener) = Len(owner)
  /\ acked \subseteq Created
  /\ connected \subseteq Created
  /\ closed \subseteq Created
  /\ listening \subseteq Created
  /\ dead \subseteq Created
  /\ cut \subseteq Created
  /\ requests \in [Box -> SUBSET Req]
  /\ queue \in [Box -> Seq(Req)]
  /\ wire \in [Box -> SUBSET Req]
  /\ filtering \subseteq Req \X Server
  /\ agenda \in Seq(Call)
  /\ invoked \subseteq Req
  /\ answers \in [Req -> Nat]

Init ==
  /\ state = "inited"
  /\ grace = "off"
  /\ servers = {}
  /\ onlines = {}
  /\ mailboxes = [s \in Server |-> NoBox]
  /\ connecting = {}
  /\ pendings = [s \in Server |-> <<>>]
  /\ owner = <<>>
  /\ opener = <<>>
  /\ acked = {}
  /\ connected = {}
  /\ closed = {}
  /\ listening = {}
  /\ dead = {}
  /\ cut = {}
  /\ requests = [b \in Box |-> {}]
  /\ queue = [b \in Box |-> <<>>]
  /\ wire = [b \in Box |-> {}]
  /\ filtering = {}
  /\ agenda = <<>>
  /\ invoked = {}
  /\ answers = [r \in Req |-> 0]

Idle == agenda = <<>>          \* the event loop may take the next event

-----------------------------------------------------------------------------
(* Errors and callbacks.                                                   *)

\* What station.emit('error') does for a request: failureProcess finds the
\* callback only through the tracer, so without one nobody is told.
FailureAnswers == IF Traced /\ FailMode = "failfast" THEN 1 ELSE 0

\* The callbacks of the requests in R are called n more times.
Answer(R, n) == answers' = [r \in Req |-> IF r \in R THEN answers[r] + n
                                                     ELSE answers[r]]

\* The callback of mailbox.send with an error: emit('error'), then cb(err).
AnswerSendError(R) == Answer(R, FailureAnswers + 1)

-----------------------------------------------------------------------------
(* Lifecycle of the station and the table of servers.                      *)

Start ==
  /\ Idle
  /\ state = "inited"
  /\ state' = "started"
  /\ UNCHANGED <<grace, servers, onlines, routing, links, traffic, agenda,
                 invoked, answers>>

\* Mutant: closes nothing.
CloseNothing(B) == UNCHANGED <<closed, connected>>

\* mailbox.close() on each mailbox of B.
Close(B) ==
  /\ closed' = closed \cup B
  /\ connected' = connected \ B

Registered == {mailboxes[s] : s \in Server} \ {NoBox}

Stop(force) ==
  /\ Idle
  /\ state = "started"
  /\ state' = "closed"
  /\ IF force THEN /\ grace' = "fired"
                   /\ Close(Registered)
              ELSE /\ grace' = "armed"
                   /\ UNCHANGED <<closed, connected>>
  /\ UNCHANGED <<servers, onlines, routing, owner, opener, acked, listening,
                 dead, cut, traffic, agenda, invoked, answers>>

\* The GRACE_TIMEOUT timer of a stop that was not forced.
GraceExpires ==
  /\ Idle
  /\ grace = "armed"
  /\ grace' = "fired"
  /\ Close(Registered)
  /\ UNCHANGED <<state, servers, onlines, routing, owner, opener, acked,
                 listening, dead, cut, traffic, agenda, invoked, answers>>

AddServer(s) ==
  /\ Idle
  /\ servers' = servers \cup {s}
  /\ onlines' = onlines \cup {s}
  /\ UNCHANGED <<state, grace, routing, links, traffic, agenda, invoked,
                 answers>>

\* Mutant: drops the mailbox without closing it.
ForgetOpen(s) ==
  /\ UNCHANGED <<closed, connected>>
  /\ mailboxes' = [mailboxes EXCEPT ![s] = NoBox]

\* The mailbox of s, if any, is closed and forgotten; the connecting flag and
\* the parked requests stay.
Forget(s) ==
  /\ Close({mailboxes[s]} \ {NoBox})
  /\ mailboxes' = [mailboxes EXCEPT ![s] = NoBox]

RemoveServer(s) ==
  /\ Idle
  /\ onlines' = onlines \ {s}
  /\ Forget(s)
  /\ UNCHANGED <<state, grace, servers, connecting, pendings, owner, opener,
                 acked, listening, dead, cut, traffic, agenda, invoked,
                 answers>>

ReplaceServers(S) ==
  /\ Idle
  /\ servers' = servers \cup S
  /\ onlines' = S
  /\ UNCHANGED <<state, grace, routing, links, traffic, agenda, invoked,
                 answers>>

-----------------------------------------------------------------------------
(* Dispatch.                                                               *)

\* Client.rpcInvoke: refused unless the client runs, else dispatched.
Invoke(r, s) ==
  /\ Idle
  /\ r \notin invoked
  /\ invoked' = invoked \cup {r}
  /\ IF state = "started"
       THEN /\ agenda' = <<[op |-> "dispatch", req |-> r, srv |-> s]>>
            /\ UNCHANGED answers
       ELSE /\ Answer({r}, 1)
            /\ UNCHANGED agenda
  /\ UNCHANGED <<station, routing, links, traffic>>

\* addToPending: dropped without a word once the list is too long.
Park(r, s) ==
  pendings' = IF Len(pendings[s]) > PendingSize
                THEN pendings
                ELSE [pendings EXCEPT ![s] = Append(@, r)]

\* mailbox.send of a connected mailbox: remember the callback, arm its timer
\* and write the message, or buffer it.
Transmit(r, b) ==
  /\ requests' = [requests EXCEPT ![b] = @ \cup {r}]
  /\ IF Buffered
       THEN /\ queue' = [queue EXCEPT ![b] = Append(@, r)]
            /\ UNCHANGED wire
       ELSE /\ wire' = [wire EXCEPT ![b] = @ \cup {r}]
            /\ UNCHANGED queue

\* Mutant: a mailbox that is not ready swallows the request.
SendSilently(r, s) ==
  LET b == mailboxes[s] IN
  \/ /\ b = NoBox
     /\ Answer({r}, FailureAnswers)
     /\ UNCHANGED <<requests, queue, wire>>
  \/ /\ b # NoBox
     /\ b \notin connected \/ b \in closed
     /\ UNCHANGED <<requests, queue, wire, answers>>
  \/ /\ b \in connected \ closed
     /\ Transmit(r, b)
     /\ UNCHANGED answers

\* The continuation of dispatch after the before filters.
Send(r, s) ==
  LET b == mailboxes[s] IN
  \/ /\ b = NoBox
     /\ Answer({r}, FailureAnswers)
     /\ UNCHANGED <<requests, queue, wire>>
  \/ /\ b # NoBox
     /\ b \notin connected \/ b \in closed
     /\ AnswerSendError({r})
     /\ UNCHANGED <<requests, queue, wire>>
  \/ /\ b \in connected \ closed
     /\ Transmit(r, b)
     /\ UNCHANGED answers

\* The next call of the turn is a dispatch of r to s.
Dispatching(r, s) ==
  /\ ~ Idle
  /\ Head(agenda) = [op |-> "dispatch", req |-> r, srv |-> s]
  /\ agenda' = Tail(agenda)

DispatchNotStarted(r, s) ==
  /\ Dispatching(r, s)
  /\ state # "started"
  /\ Answer({r}, FailureAnswers)
  /\ UNCHANGED <<station, routing, links, traffic, invoked>>

Reachable(s) == s \in servers /\ s \in onlines

\* lazyConnect fails; the request is parked all the same.
DispatchNoTarget(r, s) ==
  /\ Dispatching(r, s)
  /\ state = "started"
  /\ mailboxes[s] = NoBox
  /\ ~ Reachable(s)
  /\ Answer({r}, FailureAnswers)
  /\ Park(r, s)
  /\ UNCHANGED <<station, mailboxes, connecting, links, traffic, invoked>>

\* lazyConnect creates a mailbox and starts to connect it.
DispatchLazyConnect(r, s) ==
  /\ Dispatching(r, s)
  /\ state = "started"
  /\ mailboxes[s] = NoBox
  /\ Reachable(s)
  /\ Len(owner) < MaxBox
  /\ owner' = Append(owner, s)
  /\ opener' = Append(opener, r)
  /\ mailboxes' = [mailboxes EXCEPT ![s] = Len(owner) + 1]
  /\ connecting' = connecting \cup {s}
  /\ Park(r, s)
  /\ UNCHANGED <<station, acked, connected, closed, listening, dead, cut,
                 traffic, invoked, answers>>

DispatchConnecting(r, s) ==
  /\ Dispatching(r, s)
  /\ state = "started"
  /\ mailboxes[s] # NoBox
  /\ s \in connecting
  /\ Park(r, s)
  /\ UNCHANGED <<station, mailboxes, connecting, links, traffic, invoked,
                 answers>>

DispatchSend(r, s) ==
  /\ Dispatching(r, s)
  /\ state = "started"
  /\ mailboxes[s] # NoBox
  /\ s \notin connecting
  /\ IF Filtered
       THEN /\ filtering' = filtering \cup {<<r, s>>}
            /\ UNCHANGED <<requests, queue, wire, answers>>
       ELSE /\ Send(r, s)
            /\ UNCHANGED filtering
  /\ UNCHANGED <<station, routing, links, invoked>>

\* Mutant: the filter chain stays live and may call next again.
BeforeFilterRepeats(r, s, t) ==
  /\ Idle
  /\ <<r, s>> \in filtering
  /\ Send(r, t)
  /\ UNCHANGED <<station, routing, links, filtering, agenda, invoked>>

\* A before filter may answer later, name another target, or pass an error.
BeforeFilterPasses(r, s, t) ==
  /\ Idle
  /\ <<r, s>> \in filtering
  /\ filtering' = filtering \ {<<r, s>>}
  /\ Send(r, t)
  /\ UNCHANGED <<station, routing, links, agenda, invoked>>

BeforeFilterFails(r, s) ==
  /\ Idle
  /\ <<r, s>> \in filtering
  /\ filtering' = filtering \ {<<r, s>>}
  /\ Answer({r}, FailureAnswers)
  /\ UNCHANGED <<station, routing, links, requests, queue, wire, agenda,
                 invoked>>

\* Mutant: the flushed list is not deleted.
ClearNothing(s) ==
  /\ ~ Idle
  /\ Head(agenda) = [op |-> "clear", req |-> NoReq, srv |-> s]
  /\ agenda' = Tail(agenda)
  /\ UNCHANGED <<station, routing, links, traffic, invoked, answers>>

\* The end of flushPending: whatever is parked by now is deleted.
ClearPending(s) ==
  /\ ~ Idle
  /\ Head(agenda) = [op |-> "clear", req |-> NoReq, srv |-> s]
  /\ agenda' = Tail(agenda)
  /\ pendings' = [pendings EXCEPT ![s] = <<>>]
  /\ UNCHANGED <<station, mailboxes, connecting, links, traffic, invoked,
                 answers>>

-----------------------------------------------------------------------------
(* Events of a mailbox.                                                    *)

\* Mutant: a flush that returns at once.
FlushNothing(s) == <<>>

\* flushPending: dispatch each parked request, then delete the list.
FlushCalls(s) ==
  [i \in 1..(Len(pendings[s]) + 1) |->
     IF i <= Len(pendings[s])
       THEN [op |-> "dispatch", req |-> pendings[s][i], srv |-> s]
       ELSE [op |-> "clear", req |-> NoReq, srv |-> s]]

\* The connect callback of the mailbox.  It was queued when the connection
\* was written, so it may still run after close() destroyed the socket.
ConnectSucceeds(b) ==
  /\ Idle
  /\ b \in Created \ (acked \cup dead)
  /\ acked' = acked \cup {b}
  /\ connected' = connected \cup {b}
  /\ listening' = listening \cup {b}
  /\ connecting' = connecting \ {owner[b]}
  /\ agenda' = IF pendings[owner[b]] = <<>> THEN <<>>
                                            ELSE FlushCalls(owner[b])
  /\ UNCHANGED <<station, mailboxes, pendings, owner, opener, closed, dead,
                 cut, traffic, invoked, answers>>

\* The connect callback with an error.  The failure process gets the tracer
\* of the request that opened the mailbox.
ConnectFails(b) ==
  /\ Idle
  /\ ConnectErrors
  /\ b \in Created \ (acked \cup dead)
  /\ acked' = acked \cup {b}
  /\ dead' = dead \cup {b}
  /\ mailboxes' = [mailboxes EXCEPT ![owner[b]] = NoBox]
  /\ Answer({opener[b]}, FailureAnswers)
  /\ UNCHANGED <<station, connecting, pendings, owner, opener, connected,
                 closed, listening, cut, traffic, agenda, invoked>>

\* The socket fails before the connect callback: the mailbox emits 'close' and
\* nobody listens yet.  (CONNECT_TIMEOUT emits the same event, to nobody.)
ConnectLost(b) ==
  /\ Idle
  /\ ~ ConnectErrors
  /\ b \in Created \ (acked \cup dead \cup closed)
  /\ dead' = dead \cup {b}
  /\ UNCHANGED <<station, routing, owner, opener, acked, connected, closed,
                 listening, cut, traffic, agenda, invoked, answers>>

\* The station's 'close' listener: it closes the mailbox it now has for the
\* id that the event carries.
HearClose(b) == Forget(owner[b])

\* A socket error or a missed keep-alive of a mailbox in use.
LinkFails(b) ==
  /\ Idle
  /\ b \in listening \ (closed \cup dead)
  /\ dead' = dead \cup {b}
  /\ HearClose(b)
  /\ UNCHANGED <<station, connecting, pendings, owner, opener, acked,
                 listening, cut, traffic, agenda, invoked, answers>>

\* A DISCONNECT packet: every waiting callback gets an error, but neither the
\* callbacks nor their timers are forgotten; then 'close' is emitted.
Disconnect(b) ==
  /\ Idle
  /\ b \in listening \ (closed \cup dead)
  /\ dead' = dead \cup {b}
  /\ cut' = cut \cup {b}
  /\ AnswerSendError(requests[b])
  /\ HearClose(b)
  /\ UNCHANGED <<station, connecting, pendings, owner, opener, acked,
                 listening, traffic, agenda, invoked>>

\* The interval of a buffering mailbox writes its queue as one message.
FlushQueue(b) ==
  /\ Idle
  /\ b \in acked \ closed
  /\ queue[b] # <<>>
  /\ wire' = [wire EXCEPT ![b] = @ \cup {queue[b][i] : i \in DOMAIN queue[b]}]
  /\ queue' = [queue EXCEPT ![b] = <<>>]
  /\ UNCHANGED <<station, routing, links, requests, filtering, agenda,
                 invoked, answers>>

\* A reply arrives.  One that comes after the timeout finds no callback.  A
\* failing after filter changes nothing here: the reply's tracer carries no
\* callback for the failure process, and the reply is delivered anyway.
Reply(b, r) ==
  /\ Idle
  /\ b \notin closed \cup dead
  /\ r \in wire[b]
  /\ wire' = [wire EXCEPT ![b] = @ \ {r}]
  /\ IF r \in requests[b]
       THEN /\ requests' = [requests EXCEPT ![b] = @ \ {r}]
            /\ Answer({r}, 1)
       ELSE UNCHANGED <<requests, answers>>
  /\ UNCHANGED <<station, routing, links, queue, filtering, agenda, invoked>>

\* The timer of a request fires, whatever became of the mailbox.
CallbackTimeout(b, r) ==
  /\ Idle
  /\ r \in requests[b]
  /\ requests' = [requests EXCEPT ![b] = @ \ {r}]
  /\ AnswerSendError({r})
  /\ UNCHANGED <<station, routing, links, queue, wire, filtering, agenda,
                 invoked>>

-----------------------------------------------------------------------------
Membership ==
  \/ \E s \in Server : AddServer(s) \/ RemoveServer(s)
  \/ \E S \in SUBSET Server : ReplaceServers(S)

Lifecycle == Start \/ GraceExpires \/ \E force \in BOOLEAN : Stop(force)

Turn == \E s \in Server :
  \/ ClearPending(s)
  \/ \E r \in Req : \/ DispatchNotStarted(r, s)
                    \/ DispatchNoTarget(r, s)
                    \/ DispatchLazyConnect(r, s)
                    \/ DispatchConnecting(r, s)
                    \/ DispatchSend(r, s)

Calls == \E r \in Req, s \in Server :
  \/ Invoke(r, s)
  \/ BeforeFilterFails(r, s)
  \/ \E t \in Server : BeforeFilterPasses(r, s, t)

LinkEvent == \E b \in Box :
  \/ ConnectSucceeds(b)
  \/ ConnectFails(b)
  \/ ConnectLost(b)
  \/ LinkFails(b)
  \/ Disconnect(b)
  \/ FlushQueue(b)

Answering == \E b \in Box, r \in Req : Reply(b, r) \/ CallbackTimeout(b, r)

Next == Lifecycle \/ Membership \/ Turn \/ Calls \/ LinkEvent \/ Answering

Spec == Init /\ [][Next]_vars

(***************************************************************************)
(* Fairness.  A turn of the event loop runs to its end, and the timers     *)
(* armed by setTimeout fire.  Nothing is assumed of the network, of the    *)
(* callers or of the changes to the table of servers.                      *)
(***************************************************************************)
FairSpec ==
  /\ Spec
  /\ WF_vars(Turn)
  /\ WF_vars(GraceExpires)
  /\ \A b \in Box, r \in Req : WF_vars(CallbackTimeout(b, r))

-----------------------------------------------------------------------------
(* Properties.                                                             *)

\* A mailbox registered for a server was created for it and is open until the
\* station shuts down; with the mqtt mailbox, every open mailbox is registered:
\* no link is leaked and no server has two, whatever the order of removals,
\* late connect callbacks and 'close' events (mailstation.js removeServer,
\* connect, lazyConnect).
OneLinkPerServer ==
  /\ \A s \in Server : mailboxes[s] # NoBox =>
       /\ owner[mailboxes[s]] = s
       /\ mailboxes[s] \in closed => grace = "fired"
  /\ ~ ConnectErrors =>
       \A b \in Created \ closed : mailboxes[owner[b]] = b

\* No request waits in the pending list of a server whose mailbox is not
\* connecting: nothing would ever flush it (dispatch, flushPending).
NoStrandedRequests ==
  Idle => \A s \in Server :
            mailboxes[s] # NoBox /\ s \notin connecting => pendings[s] = <<>>

\* Where the station holds a request.
Places(r) ==
  (UNION {{<<"parked", s, i>> : i \in {j \in DOMAIN pendings[s] :
                                         pendings[s][j] = r}} : s \in Server})
  \cup {<<"filter", s, 0>> : s \in {t \in Server : <<r, t>> \in filtering}}
  \cup {<<"sent", b, 0>> : b \in {c \in Box : r \in requests[c]}}

\* A request is held in one place at most: no interleaving of flushes, late
\* connect callbacks and removals makes a copy of it that would be sent twice.
OneCopy == Idle => \A r \in Req : \A p, q \in Places(r) : p = q

\* Without a tracer a callback is called once, after which the station holds
\* nothing for the request; only a DISCONNECT packet, which leaves callbacks
\* and timers in place (mqtt-mailbox.js 162-169), makes exceptions.
CallbackOnce ==
  Idle /\ ~ Traced => \A r \in Req :
    \/ answers[r] = 0
    \/ answers[r] = 1 /\ Places(r) = {}
    \/ \E b \in cut : r \in requests[b] \/ answers[r] = 2

\* Once the station has closed its mailboxes for good it registers no new
\* callback and opens no new link, although parked requests, pending filters
\* and late connect callbacks still run (stop, dispatch).
SilentAfterShutdown ==
  [][grace = "fired" => /\ \A b \in Box : requests'[b] \subseteq requests[b]
                        /\ owner' = owner]_vars

\* When a flush deletes the pending list of a server, each request in it has
\* been passed on or answered, unless the station stopped, or the server is
\* out of reach, or the flush had to connect again (flushPending, dispatch).
FlushLosesNothing ==
  [][\A s \in Server : ClearPending(s) =>
       \/ state # "started"
       \/ ~ Reachable(s)
       \/ s \in connecting
       \/ \A i \in DOMAIN pendings[s] :
            \/ answers[pendings[s][i]] > 0
            \/ \E p \in Places(pendings[s][i]) : p[1] # "parked"]_vars

\* A request whose callback a mailbox keeps is answered at last, by a reply, a
\* disconnection or its timer, even when the mailbox was closed, removed or
\* replaced (send, setCbTimeout, close).
SentIsAnswered ==
  \A r \in Req : (\E b \in Box : r \in requests[b]) ~> answers[r] > 0

\* A stopped station closes every link at last, those still connecting when it
\* stopped included (stop).
StopClosesLinks ==
  state = "closed" ~> (\A b \in Created : b \in closed)

\* A request is in one place, and its callback is called once (dispatch, flushPending,
\* mqtt-mailbox.js send, setCbTimeout).
HeldOnce == TypeOK /\ OneCopy /\ CallbackOnce

\* A flush loses no request, a request that was sent is answered at last, and a
\* station that stops closes its links (flushPending, setCbTimeout, stop).
NothingLost == FlushLosesNothing /\ SentIsAnswered /\ StopClosesLinks

\* With filters that redirect, and failed connects that may unregister a newer
\* mailbox, no request is stranded behind an open link, nor copied (beforeFilter).
FilteredOnce == NoStrandedRequests /\ OneCopy
=============================================================================
