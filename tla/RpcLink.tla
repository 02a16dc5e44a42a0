------------------------------ MODULE RpcLink ------------------------------
(***************************************************************************)
(* The mailboxes of rpc clients, the acceptor of the server they are       *)
(* connected to, and the gateway and dispatcher behind it, for each of the *)
(* transports that can be loaded.                                          *)
(*                                                                         *)
(*   rpc/lib/rpc-client/mailboxes/{mqtt,ws,ws2,tcp}-mailbox.js             *)
(*   rpc/lib/rpc-server/acceptors/{mqtt,ws,ws2,tcp}-acceptor.js            *)
(*   rpc/lib/rpc-server/{gateway,dispatcher}.js                            *)
(*                                                                         *)
(* A connection is a pair of FIFO channels that the network may cut.  The  *)
(* mail station's part is what it does on the close event of a mailbox it  *)
(* has connected: it closes the mailbox.  MailStation models the rest.     *)
(* Timers may fire at any time once set.  A tcp acceptor does not catch    *)
(* what a method throws: the process ends, and that is not modelled.       *)
(***************************************************************************)
EXTENDS Naturals, Sequences, FiniteSets

CONSTANTS
  Mailbox,     \* mailboxes, each of a client process of its own
  Calls,       \* function: the most calls made through each mailbox
  MaxCalls,    \* bound: calls in all
  Kinds        \* transports, of "mqtt", "ws", "ws2" and "tcp"

ASSUME RpcLinkAssumption ==
  /\ Kinds \subseteq {"mqtt", "ws", "ws2", "tcp"}
  /\ Calls \in [Mailbox -> Nat \ {0}]
  /\ MaxCalls \in Nat

\* A call is its mailbox and its id there; curId gives ids in order.
Req == UNION {{<<m, i>> : i \in 1..Calls[m]} : m \in Mailbox}
NoId == 0

VARIABLES
  kind,       \* of all mailboxes and the acceptor
  buffered,   \* opts.bufferMsg, of both sides
  mailbox,    \* of each: the MailBox object
  link,       \* of each: the connection and what is under way on it
  requests,   \* calls whose callback is in requests
  timeout,    \* calls that have a timer
  outcome,    \* of each call: the callbacks that ran
  acceptor,   \* the Acceptor object
  running     \* calls whose methods may still call back

vars == <<kind, buffered, mailbox, link, requests, timeout, outcome, acceptor, running>>
server == <<acceptor, running>>
callbacks == <<requests, timeout, outcome>>

Result(what, r) == [what |-> what, of |-> r]
Responses == [id : Nat, of : Req, ok : BOOLEAN]

\* The key of a connection in sockets: a tcp socket has no id.
Key(m) == IF kind = "tcp" THEN "undefined" ELSE m
Keys == Mailbox \union {"undefined"}
Nobody == "nobody"

TypeOK ==
  /\ kind \in Kinds /\ buffered \in BOOLEAN
  /\ mailbox \in [Mailbox -> [state : {"new", "connecting", "connected", "failed", "closed"},
                              sent : Nat, queue : Seq(Nat), pinged : BOOLEAN]]
  /\ link \in [Mailbox -> [state : {"none", "up", "cut", "gone"}, told : BOOLEAN,
                           up : Seq(Seq(Nat)), down : Seq(Seq(Responses))]]
  /\ requests \subseteq Req /\ timeout \subseteq Req /\ running \subseteq Req
  /\ outcome \in [Req -> Seq([what : {"answer", "error", "empty"}, of : Req])]
  /\ acceptor \in [state : {"new", "listening", "closed"}, sockets : [Keys -> Mailbox \union {Nobody}],
                   queues : [Keys -> Seq(Responses)]]

Init ==
  /\ kind \in Kinds /\ buffered \in BOOLEAN
  /\ mailbox = [m \in Mailbox |-> [state |-> "new", sent |-> 0, queue |-> <<>>, pinged |-> FALSE]]
  /\ link = [m \in Mailbox |-> [state |-> "none", told |-> FALSE, up |-> <<>>, down |-> <<>>]]
  /\ requests = {} /\ timeout = {}
  /\ outcome = [r \in Req |-> <<>>]
  /\ acceptor = [state |-> "new", sockets |-> [k \in Keys |-> Nobody], queues |-> [k \in Keys |-> <<>>]]
  /\ running = {}

-----------------------------------------------------------------------------
(* Mailboxes *)

\* The callbacks of the calls rs run, each with the result of f.
CalledBack(rs, f(_)) ==
  outcome' = [r \in Req |-> IF r \in rs THEN Append(outcome[r], f(r)) ELSE outcome[r]]

Called == {r \in Req : r[2] <= mailbox[r[1]].sent}

InState(m, s) == [mailbox EXCEPT ![m].state = s]

\* socket.end, close or disconnect of mailbox m.
Cut(m) == [link EXCEPT ![m].state = IF @ = "up" THEN "cut" ELSE @, ![m].up = <<>>, ![m].down = <<>>]

\* close: the queue is kept and never flushed again.
Close(m) ==
  /\ mailbox' = [mailbox EXCEPT ![m].state = "closed", ![m].pinged = FALSE]
  /\ link' = [Cut(m) EXCEPT ![m].told = TRUE]

Connect(m) ==
  /\ mailbox[m].state = "new"
  /\ mailbox' = InState(m, "connecting")
  /\ UNCHANGED <<kind, buffered, link, callbacks, server>>

MqttConnect(m) == kind = "mqtt" /\ Connect(m)
WsConnect(m) == kind = "ws" /\ Connect(m)
Ws2Connect(m) == kind = "ws2" /\ Connect(m)
TcpConnect(m) == kind = "tcp" /\ Connect(m)

\* The 'connect' or 'open' event.
Opens(m) ==
  /\ mailbox[m].state = "connecting"
  /\ link[m].state = "up"
  /\ mailbox' = InState(m, "connected")
  /\ UNCHANGED <<kind, buffered, link, callbacks, server>>

\* The connection is refused or lost before the mailbox is open: the station is
\* told, or for mqtt hears nothing, and forgets the mailbox.
ConnectFails(m) ==
  /\ mailbox[m].state = "connecting"
  /\ acceptor.state # "listening" \/ link[m].state \in {"cut", "gone"}
  /\ mailbox' = InState(m, IF kind = "ws2" THEN "closed" ELSE "failed")
  /\ UNCHANGED <<kind, buffered, link, callbacks, server>>

\* setCbTimeout.
Armed(r) == timeout \union {r}

\* What is written on a connection that is lost goes nowhere.
Written(m, packet) ==
  IF link[m].state = "up" THEN [link EXCEPT ![m].up = Append(@, packet)] ELSE link

Send(m) ==
  /\ mailbox[m].state # "new"
  /\ mailbox[m].sent < Calls[m] /\ Cardinality(Called) < MaxCalls
  /\ LET i == mailbox[m].sent + 1
         r == <<m, i>>
     IN IF mailbox[m].state # "connected"
          THEN /\ mailbox' = [mailbox EXCEPT ![m].sent = i]
               /\ outcome' = [outcome EXCEPT ![r] = Append(@, Result("error", r))]
               /\ UNCHANGED <<requests, timeout, link>>
          ELSE /\ mailbox' = [mailbox EXCEPT ![m].sent = i, ![m].queue = IF buffered THEN Append(@, i) ELSE @]
               /\ link' = IF buffered THEN link ELSE Written(m, <<i>>)
               /\ requests' = requests \union {r}
               /\ timeout' = Armed(r)
               /\ outcome' = outcome
  /\ UNCHANGED <<kind, buffered, server>>

MqttSend(m) == kind = "mqtt" /\ Send(m)
WsSend(m) == kind = "ws" /\ Send(m)
Ws2Send(m) == kind = "ws2" /\ Send(m)
TcpSend(m) == kind = "tcp" /\ Send(m)

\* flush, on the interval of a connected mailbox.
Flush(m) ==
  /\ mailbox[m].state = "connected" /\ mailbox[m].queue # <<>>
  /\ mailbox' = [mailbox EXCEPT ![m].queue = <<>>]
  /\ link' = Written(m, mailbox[m].queue)
  /\ UNCHANGED <<kind, buffered, callbacks, server>>

\* Mutant: the timer of an answered call goes on.
NotCleared(rs) == timeout

\* clearCbTimeout.
Cleared(rs) == timeout \ rs

\* The calls of mailbox m that responses name, and the first response to call r.
Named(m, responses) == {<<m, responses[k].id>> : k \in DOMAIN responses}
First(m, responses, r) ==
  responses[CHOOSE k \in DOMAIN responses :
              r = <<m, responses[k].id>> /\ \A j \in 1..k - 1 : r # <<m, responses[j].id>>]

\* What the callback of call r is given.
Returned(m, responses, r) ==
  IF First(m, responses, r).ok THEN Result("answer", First(m, responses, r).of) ELSE Result("error", r)

\* processMsg of the first n of a packet of responses: the callback of the last
\* of them throws if the packet has more.
Process(m, packet, n) ==
  LET taken == SubSeq(packet, 1, n)
      known == requests \intersect Named(m, taken)
  IN /\ requests' = requests \ known
     /\ timeout' = Cleared(Named(m, taken))
     /\ CalledBack(known, LAMBDA r : Returned(m, taken, r))

Receive(m) ==
  /\ link[m].down # <<>>
  /\ \E n \in 1..Len(Head(link[m].down)) :
       /\ kind = "tcp" => n = Len(Head(link[m].down))
       /\ Process(m, Head(link[m].down), n)
  /\ link' = [link EXCEPT ![m].down = Tail(@)]
  /\ UNCHANGED <<kind, buffered, mailbox, server>>

MqttReceive(m) == kind = "mqtt" /\ Receive(m)
WsReceive(m) == kind = "ws" /\ Receive(m)
Ws2Receive(m) == kind = "ws2" /\ Receive(m)
TcpReceive(m) == kind = "tcp" /\ Receive(m)

\* The timer of setCbTimeout.
TimeoutFires(r) ==
  /\ r \in timeout
  /\ timeout' = timeout \ {r}
  /\ requests' = requests \ {r}

CallsBackLate(r) ==
  /\ TimeoutFires(r)
  /\ outcome' = [outcome EXCEPT ![r] = Append(@, Result("error", r))]
  /\ UNCHANGED <<kind, buffered, mailbox, link, server>>

MqttTimeout(r) == kind = "mqtt" /\ CallsBackLate(r)
WsTimeout(r) == kind = "ws" /\ CallsBackLate(r)

\* The call is forgotten without a callback.
NeverCallsBack(r) ==
  /\ TimeoutFires(r)
  /\ UNCHANGED <<kind, buffered, mailbox, link, outcome, server>>

\* The timer of a ws2 mailbox does not call back; that of a tcp mailbox throws
\* before it would: the file has no logger.
Ws2Timeout(r) == kind = "ws2" /\ NeverCallsBack(r)
TcpTimeout(r) == kind = "tcp" /\ NeverCallsBack(r)

\* A connected mailbox is told that its connection is lost.
Told(m) ==
  /\ link[m].state \in {"cut", "gone"} /\ ~link[m].told
  /\ mailbox[m].state = "connected" \/ (kind = "ws2" /\ mailbox[m].state = "closed")
  /\ Close(m)
  /\ UNCHANGED <<kind, buffered, server>>

\* It emits close: mqtt on 'error', tcp on 'end'.
MqttError(m) == kind = "mqtt" /\ Told(m) /\ UNCHANGED callbacks
TcpEnd(m) == kind = "tcp" /\ Told(m) /\ UNCHANGED callbacks

\* The callbacks run, and stay in requests with their timers.
Pending(m) == {r \in requests : r[1] = m}

WsDisconnect(m) ==
  /\ kind = "ws"
  /\ Told(m)
  /\ CalledBack(Pending(m), LAMBDA r : Result("error", r))
  /\ UNCHANGED <<requests, timeout>>

\* The error is passed where callbacks expect the tracer: the caller sees neither
\* an error nor a result.
Ws2Close(m) ==
  /\ kind = "ws2"
  /\ Told(m)
  /\ CalledBack(Pending(m), LAMBDA r : Result("empty", r))
  /\ UNCHANGED <<requests, timeout>>

\* checkKeepAlive: a ping that is not answered in time closes a ws2 mailbox.  Its
\* callbacks run when the 'close' event comes; answers are taken until then.
CheckKeepAlive(m) ==
  /\ kind = "ws2"
  /\ mailbox[m].state = "connected"
  /\ mailbox' = IF mailbox[m].pinged
                   THEN [mailbox EXCEPT ![m].state = "closed", ![m].pinged = FALSE]
                   ELSE [mailbox EXCEPT ![m].pinged = TRUE]
  /\ UNCHANGED <<kind, buffered, link, callbacks, server>>

Pong(m) ==
  /\ mailbox[m].pinged /\ link[m].state = "up"
  /\ mailbox' = [mailbox EXCEPT ![m].pinged = FALSE]
  /\ UNCHANGED <<kind, buffered, link, callbacks, server>>

-----------------------------------------------------------------------------
(* The acceptor *)

\* start of the gateway, listen of the acceptor.
Listen ==
  /\ acceptor.state = "new"
  /\ acceptor' = [acceptor EXCEPT !.state = "listening"]
  /\ UNCHANGED <<kind, buffered, mailbox, link, callbacks, running>>

MqttListen == kind = "mqtt" /\ Listen
WsListen == kind = "ws" /\ Listen
Ws2Listen == kind = "ws2" /\ Listen
TcpListen == kind = "tcp" /\ Listen

Start == MqttListen \/ WsListen \/ Ws2Listen \/ TcpListen

\* stop of the gateway, close of the acceptor: connections stay, what is queued
\* is not flushed any more.
Stop ==
  /\ acceptor.state = "listening"
  /\ acceptor' = [acceptor EXCEPT !.state = "closed"]
  /\ UNCHANGED <<kind, buffered, mailbox, link, callbacks, running>>

\* The 'connection' event.
Connection(m) ==
  /\ acceptor.state = "listening"
  /\ mailbox[m].state = "connecting" /\ link[m].state = "none"
  /\ link' = [link EXCEPT ![m].state = "up"]
  /\ acceptor' = [acceptor EXCEPT !.sockets[Key(m)] = m]
  /\ UNCHANGED <<kind, buffered, mailbox, callbacks, running>>

MqttConnection(m) == kind = "mqtt" /\ Connection(m)
WsConnection(m) == kind = "ws" /\ Connection(m)
Ws2Connection(m) == kind = "ws2" /\ Connection(m)
TcpConnection(m) == kind = "tcp" /\ Connection(m)

\* What a method, or the dispatcher in its place, does before it returns.
Conduct == {"answers", "later", "throws", "missing", "answersThenThrows"}
Answers == {"answers", "answersThenThrows", "missing"}
Throws == {"throws", "answersThenThrows"}

Response(r, ok) == [id |-> r[2], of |-> r, ok |-> ok]

\* The elements of S in ascending order.
InOrder(S) == {f \in [1..Cardinality(S) -> S] : \A i, j \in DOMAIN f : i < j => f[i] < f[j]}

\* Route: the responses to calls of mailbox m are queued, or sent one by one.  The
\* packets beside are sent past the queue; rest is what is still under way to the server.
Route(m, responses, beside, rest) ==
  /\ acceptor' = IF buffered THEN [acceptor EXCEPT !.queues[Key(m)] = @ \o responses] ELSE acceptor
  /\ LET packets == IF buffered THEN beside
                    ELSE [i \in DOMAIN responses |-> <<responses[i]>>] \o beside
     IN link' = [link EXCEPT ![m].up = rest, ![m].down = IF link[m].state = "up" THEN @ \o packets ELSE @]

\* What a method threw is logged; mqtt sends an error as well, past the queue, and
\* for a packet of several calls without an id.
Thrown(r) ==
  IF kind = "mqtt"
    THEN <<<<[id |-> IF buffered THEN NoId ELSE r[2], of |-> r, ok |-> FALSE]>>>>
    ELSE <<>>

\* A packet arrives: a method that throws ends it.
Arrives(m) ==
  /\ link[m].up # <<>>
  /\ LET packet == Head(link[m].up)
     IN \E n \in 1..Len(packet) : \E conduct \in [1..n -> Conduct] :
          /\ \A k \in 1..n : conduct[k] \in Throws => k = n /\ kind # "tcp"
          /\ n < Len(packet) => conduct[n] \in Throws
          /\ \E order \in InOrder({k \in 1..n : conduct[k] \in Answers}) :
               Route(m, [i \in DOMAIN order |-> Response(<<m, packet[order[i]]>>, conduct[order[i]] # "missing")],
                     IF conduct[n] \in Throws THEN Thrown(<<m, packet[n]>>) ELSE <<>>,
                     Tail(link[m].up))
          /\ running' = running \union {<<m, packet[k]>> : k \in {j \in 1..n : conduct[j] = "later"}}
  /\ UNCHANGED <<kind, buffered, mailbox, callbacks>>

MqttArrives(m) == kind = "mqtt" /\ Arrives(m)
WsArrives(m) == kind = "ws" /\ Arrives(m)
Ws2Arrives(m) == kind = "ws2" /\ Arrives(m)
TcpArrives(m) == kind = "tcp" /\ Arrives(m)

\* A method calls back later.
MethodAnswers(r) ==
  /\ r \in running
  /\ running' = running \ {r}
  /\ Route(r[1], <<Response(r, TRUE)>>, <<>>, link[r[1]].up)
  /\ UNCHANGED <<kind, buffered, mailbox, callbacks>>

\* flush: queues whose socket is gone are deleted.
FlushServer ==
  /\ acceptor.state = "listening" /\ buffered
  /\ \E k \in Keys : acceptor.queues[k] # <<>>
  /\ acceptor' = [acceptor EXCEPT !.queues = [k \in Keys |-> <<>>]]
  /\ link' = [m \in Mailbox |->
       LET k == Key(m)
       IN IF acceptor.sockets[k] = m /\ acceptor.queues[k] # <<>> /\ link[m].state = "up"
            THEN [link[m] EXCEPT !.down = Append(@, acceptor.queues[k])]
            ELSE link[m]]
  /\ UNCHANGED <<kind, buffered, mailbox, callbacks, running>>

MqttFlush == kind = "mqtt" /\ FlushServer
WsFlush == kind = "ws" /\ FlushServer
Ws2Flush == kind = "ws2" /\ FlushServer
TcpFlush == kind = "tcp" /\ FlushServer

\* The socket of connection m closes.
OnSocketClose(m) ==
  /\ link[m].state = "cut"
  /\ link' = [link EXCEPT ![m].state = "gone"]
  /\ acceptor' = [acceptor EXCEPT !.sockets[Key(m)] = Nobody, !.queues[Key(m)] = <<>>]
  /\ UNCHANGED <<kind, buffered, mailbox, callbacks, running>>

\* The network, the white list of a ws acceptor or a mailbox that closes ends a connection.
Lose(m) ==
  /\ link[m].state = "up"
  /\ link' = Cut(m)
  /\ UNCHANGED <<kind, buffered, mailbox, callbacks, server>>

IpFilter(m) == kind \in {"ws", "ws2"} /\ mailbox[m].sent = 0 /\ Lose(m)
NetworkCuts(m) == Lose(m)

-----------------------------------------------------------------------------

Timeout(r) == MqttTimeout(r) \/ WsTimeout(r) \/ Ws2Timeout(r) \/ TcpTimeout(r)

Next ==
  \/ \E m \in Mailbox :
       \/ MqttConnect(m) \/ WsConnect(m) \/ Ws2Connect(m) \/ TcpConnect(m)
       \/ Opens(m) \/ ConnectFails(m) \/ Flush(m)
       \/ MqttSend(m) \/ WsSend(m) \/ Ws2Send(m) \/ TcpSend(m)
       \/ MqttReceive(m) \/ WsReceive(m) \/ Ws2Receive(m) \/ TcpReceive(m)
       \/ MqttError(m) \/ WsDisconnect(m) \/ Ws2Close(m) \/ TcpEnd(m)
       \/ CheckKeepAlive(m) \/ Pong(m)
       \/ MqttConnection(m) \/ WsConnection(m) \/ Ws2Connection(m) \/ TcpConnection(m)
       \/ OnSocketClose(m) \/ IpFilter(m) \/ NetworkCuts(m)
       \/ MqttArrives(m) \/ WsArrives(m) \/ Ws2Arrives(m) \/ TcpArrives(m)
  \/ \E r \in Req : Timeout(r) \/ MethodAnswers(r)
  \/ Start \/ Stop
  \/ MqttFlush \/ WsFlush \/ Ws2Flush \/ TcpFlush

Spec == Init /\ [][Next]_vars

\* A timer that is set fires, unless it is cleared.
Fairness == \A r \in Req : WF_vars(Timeout(r))

FairSpec == Spec /\ Fairness

-----------------------------------------------------------------------------
(* Properties *)

Promise ==
  INSTANCE RpcPromise WITH
    called <- Called,
    repeats <- kind = "ws",
    silent <- kind \in {"ws2", "tcp"},
    blank <- kind = "ws2",
    mixed <- kind = "tcp" /\ buffered

\* Every call is called back once, with its own answer or an error, whatever is
\* lost, buffered, thrown or late (send, processMsg, setCbTimeout, flush).  But ws
\* calls back again after a lost connection, ws2 and tcp forget calls that time out,
\* and a tcp acceptor that buffers mixes up the answers of its clients.
PromiseKept == Promise!Spec
=============================================================================
