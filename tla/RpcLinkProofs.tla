---------------------------- MODULE RpcLinkProofs ---------------------------
(***************************************************************************)
(* A mailbox and its acceptor keep the promise of a call, step by step,    *)
(* for any mailboxes, calls and transports.                                *)
(***************************************************************************)
EXTENDS RpcLink, SequenceTheorems, FiniteSetTheorems, WellFoundedInduction, TLAPS

-----------------------------------------------------------------------------
(* The inductive invariant *)

MailboxOf(m) == [state : {"new", "connecting", "connected", "failed", "closed"},
                 sent : 0..Calls[m], queue : Seq(1..Calls[m]), pinged : BOOLEAN]
LinkOf(m) == [state : {"none", "up", "cut", "gone"}, told : BOOLEAN,
              up : Seq(Seq(1..Calls[m])), down : Seq(Seq(Responses))]
Acceptors == [state : {"new", "listening", "closed"}, sockets : [Keys -> Mailbox \union {Nobody}],
              queues : [Keys -> Seq(Responses)]]

\* The type, with what the bound on the calls of a mailbox adds: the ids on their
\* way to the server are ids of calls, and no mailbox makes more than it may.
Typed ==
  /\ kind \in Kinds /\ buffered \in BOOLEAN
  /\ mailbox = [m \in Mailbox |-> mailbox[m]] /\ \A m \in Mailbox : mailbox[m] \in MailboxOf(m)
  /\ link = [m \in Mailbox |-> link[m]] /\ \A m \in Mailbox : link[m] \in LinkOf(m)
  /\ requests \subseteq Req /\ timeout \subseteq Req /\ running \subseteq Req
  /\ outcome \in [Req -> Seq([what : {"answer", "error", "empty"}, of : Req])]
  /\ acceptor \in Acceptors

\* Nothing is under way on a connection that is not up, and a mailbox that was
\* told that its connection is lost is closed.
LinksAgree ==
  \A m \in Mailbox :
    /\ link[m].state # "up" => (link[m].up = <<>> /\ link[m].down = <<>>)
    /\ link[m].told => (link[m].state # "up" /\ mailbox[m].state = "closed")

\* A call waits with its timer until its callback runs.  Where the callback has run
\* already its connection was lost, and nothing more can arrive.
WaitingOnce ==
  /\ requests = timeout
  /\ requests \subseteq Called
  /\ \A r \in Req : r \notin Called => outcome[r] = <<>>
  /\ \A r \in requests :
       outcome[r] = <<>> \/ (kind \in {"ws", "ws2"} /\ link[r[1]].told /\ Len(outcome[r]) = 1)

\* A response with a result carries the result of the call its id names.
Own(m, p) == p.ok => p.of = <<m, p.id>>

OwnAll(m, responses) == \A j \in DOMAIN responses : Own(m, responses[j])
OwnPackets(m, packets) == \A i \in DOMAIN packets : OwnAll(m, packets[i])

OwnOf(m) == OwnPackets(m, link[m].down) /\ OwnAll(m, acceptor.queues[Key(m)])

\* Every response on its way back is its call's own, unless a tcp acceptor
\* buffers them.
AnswersOwn == (kind = "tcp" /\ buffered) \/ \A m \in Mailbox : OwnOf(m)

\* An acceptor that does not buffer queues nothing.
NoQueues == buffered \/ \A k \in Keys : acceptor.queues[k] = <<>>

Inv == Typed /\ LinksAgree /\ WaitingOnce /\ AnswersOwn /\ NoQueues

-----------------------------------------------------------------------------
(* Data *)

\* A set of numbers that has a member has a least one.
LEMMA LeastNat ==
  ASSUME NEW S \in SUBSET Nat, S # {}
  PROVE  \E n \in S : \A k \in S : n <= k
<1> DEFINE R == OpToRel(<, Nat)
<1>1. IsWellFoundedOn(R, Nat)
  BY NatLessThanWellFounded
<1>2. \A k, n \in Nat : k < n => <<k, n>> \in R
  BY DEF OpToRel
<1> HIDE DEF R
<1>3. PICK n \in S : \A k \in S : ~ (<<k, n>> \in R)
  BY <1>1, WFMin
<1>4. \A k \in S : ~ (k < n)
  BY <1>2, <1>3
<1>5. \A k \in S : n <= k
  BY <1>4
<1> QED
  BY <1>5

LEMMA ReqIs ==
  /\ \A r \in Req : /\ r[1] \in Mailbox /\ r[2] \in 1..Calls[r[1]] /\ r[2] \in Nat
                    /\ r = <<r[1], r[2]>>
  /\ \A m \in Mailbox, i \in Nat : i \in 1..Calls[m] => <<m, i>> \in Req
  /\ \A m \in Mailbox : Calls[m] \in Nat
<1>1. \A m \in Mailbox : Calls[m] \in Nat
  BY RpcLinkAssumption
<1>2. ASSUME NEW r \in Req
      PROVE  /\ r[1] \in Mailbox /\ r[2] \in 1..Calls[r[1]] /\ r[2] \in Nat
             /\ r = <<r[1], r[2]>>
  <2>1. PICK m \in Mailbox : r \in {<<m, i>> : i \in 1..Calls[m]}
    BY DEF Req
  <2>2. PICK i \in 1..Calls[m] : r = <<m, i>>
    BY <2>1
  <2> QED
    BY <1>1, <2>2
<1>3. ASSUME NEW m \in Mailbox, NEW i \in Nat, i \in 1..Calls[m] PROVE <<m, i>> \in Req
  BY <1>3 DEF Req
<1> QED
  BY <1>1, <1>2, <1>3

LEMMA SeqMonotone ==
  ASSUME NEW A, NEW B, A \subseteq B
  PROVE  Seq(A) \subseteq Seq(B)
BY SeqMonotonic

LEMMA TypedIsTypeOK == Typed => TypeOK
<1> SUFFICES ASSUME Typed PROVE TypeOK
  OBVIOUS
<1>1. \A m \in Mailbox : 1..Calls[m] \subseteq Nat /\ 0..Calls[m] \subseteq Nat
  BY ReqIs
<1>2. \A m \in Mailbox : Seq(1..Calls[m]) \subseteq Seq(Nat)
  BY <1>1, SeqMonotone
<1>3. \A m \in Mailbox : Seq(Seq(1..Calls[m])) \subseteq Seq(Seq(Nat))
  BY <1>2, SeqMonotone
<1>4. mailbox \in [Mailbox -> [state : {"new", "connecting", "connected", "failed", "closed"},
                              sent : Nat, queue : Seq(Nat), pinged : BOOLEAN]]
  BY <1>1, <1>2 DEF Typed, MailboxOf
<1>5. link \in [Mailbox -> [state : {"none", "up", "cut", "gone"}, told : BOOLEAN,
                           up : Seq(Seq(Nat)), down : Seq(Seq(Responses))]]
  BY <1>3 DEF Typed, LinkOf
<1> QED
  BY <1>4, <1>5 DEF Typed, TypeOK, Acceptors

LEMMA TypedInit == Init => Typed
<1> SUFFICES ASSUME Init PROVE Typed
  OBVIOUS
<1>1. \A m \in Mailbox : mailbox[m] \in MailboxOf(m)
  BY ReqIs DEF Init, MailboxOf
<1>2. \A m \in Mailbox : link[m] \in LinkOf(m)
  BY DEF Init, LinkOf
<1> QED
  BY <1>1, <1>2 DEF Init, Typed, Acceptors

-----------------------------------------------------------------------------
(* Typing *)

\* The next-state relation without the names of the transports.
LEMMA NextSteps ==
  ASSUME Next
  PROVE  \/ \E m \in Mailbox :
              \/ Connect(m) \/ Opens(m) \/ ConnectFails(m) \/ Flush(m) \/ Send(m) \/ Receive(m)
              \/ kind \in {"mqtt", "tcp"} /\ Told(m) /\ UNCHANGED callbacks
              \/ WsDisconnect(m) \/ Ws2Close(m) \/ CheckKeepAlive(m) \/ Pong(m)
              \/ Connection(m) \/ OnSocketClose(m) \/ Lose(m) \/ Arrives(m)
         \/ \E r \in Req :
              \/ kind \in {"mqtt", "ws"} /\ CallsBackLate(r)
              \/ NeverCallsBack(r) \/ MethodAnswers(r)
         \/ Listen \/ Stop \/ FlushServer
<1>1. CASE \E m \in Mailbox :
             \/ MqttConnect(m) \/ WsConnect(m) \/ Ws2Connect(m) \/ TcpConnect(m)
             \/ MqttSend(m) \/ WsSend(m) \/ Ws2Send(m) \/ TcpSend(m)
             \/ MqttReceive(m) \/ WsReceive(m) \/ Ws2Receive(m) \/ TcpReceive(m)
  BY <1>1 DEF MqttConnect, WsConnect, Ws2Connect, TcpConnect, MqttSend, WsSend, Ws2Send, TcpSend,
              MqttReceive, WsReceive, Ws2Receive, TcpReceive
<1>2. CASE \E m \in Mailbox :
             \/ MqttError(m) \/ WsDisconnect(m) \/ Ws2Close(m) \/ TcpEnd(m)
             \/ OnSocketClose(m) \/ IpFilter(m) \/ NetworkCuts(m)
             \/ MqttConnection(m) \/ WsConnection(m) \/ Ws2Connection(m) \/ TcpConnection(m)
             \/ MqttArrives(m) \/ WsArrives(m) \/ Ws2Arrives(m) \/ TcpArrives(m)
  BY <1>2 DEF MqttError, TcpEnd, IpFilter, NetworkCuts, MqttConnection, WsConnection, Ws2Connection,
              TcpConnection, MqttArrives, WsArrives, Ws2Arrives, TcpArrives
<1>3. CASE \E m \in Mailbox : Opens(m) \/ ConnectFails(m) \/ Flush(m) \/ CheckKeepAlive(m) \/ Pong(m)
  BY <1>3
<1>4. CASE \E r \in Req : Timeout(r) \/ MethodAnswers(r)
  BY <1>4 DEF Timeout, MqttTimeout, WsTimeout, Ws2Timeout, TcpTimeout
<1>5. CASE Start \/ Stop \/ MqttFlush \/ WsFlush \/ Ws2Flush \/ TcpFlush
  BY <1>5 DEF Start, MqttListen, WsListen, Ws2Listen, TcpListen, MqttFlush, WsFlush, Ws2Flush, TcpFlush
<1> QED
  BY <1>1, <1>2, <1>3, <1>4, <1>5 DEF Next

\* One mailbox, or one connection, changes.
OneMailbox(m) ==
  /\ mailbox' = [n \in Mailbox |-> mailbox'[n]] /\ mailbox'[m] \in MailboxOf(m)
  /\ \A n \in Mailbox \ {m} : mailbox'[n] = mailbox[n]
OneLink(m) ==
  /\ link' = [n \in Mailbox |-> link'[n]] /\ link'[m] \in LinkOf(m)
  /\ \A n \in Mailbox \ {m} : link'[n] = link[n]

\* What a connection brings back to its mailbox is left alone.
Kept(m) == link'[m].state = link[m].state /\ link'[m].told = link[m].told /\ link'[m].down = link[m].down

LEMMA MailboxChanges ==
  ASSUME Typed, NEW m \in Mailbox, NEW b \in MailboxOf(m), mailbox' = [mailbox EXCEPT ![m] = b]
  PROVE  OneMailbox(m) /\ mailbox'[m] = b
BY DEF Typed, OneMailbox

LEMMA MailboxWrites ==
  ASSUME Typed, NEW m \in Mailbox, NEW s \in 0..Calls[m], NEW q \in Seq(1..Calls[m]),
         mailbox' = [mailbox EXCEPT ![m].sent = s, ![m].queue = q]
  PROVE  /\ OneMailbox(m)
         /\ mailbox'[m].state = mailbox[m].state /\ mailbox'[m].sent = s
<1> DEFINE b == [mailbox[m] EXCEPT !.sent = s, !.queue = q]
           c == [state |-> mailbox[m].state, sent |-> s, queue |-> q, pinged |-> mailbox[m].pinged]
<1>1. mailbox[m] \in MailboxOf(m)
  BY DEF Typed
<1>2. c \in MailboxOf(m) /\ c.state = mailbox[m].state /\ c.sent = s
  BY <1>1 DEF MailboxOf
<1>3. b = c
  <2> DEFINE d == [mailbox[m] EXCEPT !.sent = s]
  <2>1. mailbox[m] = [state |-> mailbox[m].state, sent |-> mailbox[m].sent,
                      queue |-> mailbox[m].queue, pinged |-> mailbox[m].pinged]
    BY <1>1 DEF MailboxOf
  <2>2. d = [state |-> mailbox[m].state, sent |-> s,
             queue |-> mailbox[m].queue, pinged |-> mailbox[m].pinged]
    BY <2>1
  <2>3. b = [d EXCEPT !.queue = q]
    BY Zenon
  <2> HIDE DEF d
  <2>4. [d EXCEPT !.queue = q] = c
    BY <2>2
  <2> QED
    BY <2>3, <2>4, Zenon
<1>4. mailbox' = [mailbox EXCEPT ![m] = b]
  OBVIOUS
<1> HIDE DEF b, c
<1>5. OneMailbox(m) /\ mailbox'[m] = c
  BY <1>2, <1>3, <1>4, MailboxChanges
<1> QED
  BY <1>2, <1>5

LEMMA LinkChanges ==
  ASSUME Typed, NEW m \in Mailbox, NEW l \in LinkOf(m), link' = [link EXCEPT ![m] = l]
  PROVE  OneLink(m) /\ link'[m] = l
BY DEF Typed, OneLink

LEMMA TypedLocal ==
  ASSUME Typed, NEW m \in Mailbox,
         Connect(m) \/ Opens(m) \/ ConnectFails(m) \/ CheckKeepAlive(m) \/ Pong(m)
  PROVE  /\ Typed' /\ OneMailbox(m) /\ mailbox'[m].sent = mailbox[m].sent
         /\ mailbox[m].state = "closed" => mailbox'[m].state = "closed"
         /\ UNCHANGED <<kind, buffered, link, requests, timeout, outcome, acceptor, running>>
<1>1. /\ OneMailbox(m) /\ mailbox'[m].sent = mailbox[m].sent
      /\ mailbox[m].state = "closed" => mailbox'[m].state = "closed"
  <2> USE DEF Typed, MailboxOf, OneMailbox, InState
  <2>1. CASE Connect(m)
    BY <2>1 DEF Connect
  <2>2. CASE Opens(m)
    BY <2>2 DEF Opens
  <2>3. CASE ConnectFails(m)
    BY <2>3 DEF ConnectFails
  <2>4. CASE CheckKeepAlive(m)
    <3>1. CASE mailbox[m].pinged
      BY <2>4, <3>1 DEF CheckKeepAlive
    <3>2. CASE ~ mailbox[m].pinged
      BY <2>4, <3>2 DEF CheckKeepAlive
    <3> QED
      BY <3>1, <3>2
  <2>5. CASE Pong(m)
    BY <2>5 DEF Pong
  <2> QED
    BY <2>1, <2>2, <2>3, <2>4, <2>5
<1>2. UNCHANGED <<kind, buffered, link, requests, timeout, outcome, acceptor, running>>
  BY DEF Connect, Opens, ConnectFails, CheckKeepAlive, Pong, callbacks, server
<1> QED
  BY <1>1, <1>2 DEF Typed, OneMailbox, Acceptors, Keys

LEMMA WrittenTyped ==
  ASSUME Typed, NEW m \in Mailbox, NEW packet \in Seq(1..Calls[m]), link' = Written(m, packet)
  PROVE  /\ OneLink(m)
         /\ Kept(m)
         /\ link[m].state # "up" => link' = link
<1>1. CASE link[m].state = "up"
  <2>1. link' = [link EXCEPT ![m].up = Append(@, packet)]
    BY <1>1 DEF Written
  <2>2. Append(link[m].up, packet) \in Seq(Seq(1..Calls[m]))
    BY DEF Typed, LinkOf
  <2> DEFINE l == [link[m] EXCEPT !.up = Append(link[m].up, packet)]
  <2>3. link[m] \in LinkOf(m)
    BY DEF Typed
  <2>4. l \in LinkOf(m) /\ l.state = link[m].state /\ l.told = link[m].told /\ l.down = link[m].down
    BY <2>2, <2>3 DEF LinkOf
  <2>5. link' = [link EXCEPT ![m] = l]
    BY <2>1
  <2> HIDE DEF l
  <2>6. OneLink(m) /\ link'[m] = l
    BY <2>4, <2>5, LinkChanges
  <2> QED
    BY <1>1, <2>4, <2>6 DEF Kept
<1>2. CASE link[m].state # "up"
  <2>1. link' = link
    BY <1>2 DEF Written
  <2> QED
    BY <1>2, <2>1 DEF Typed, OneLink, LinkOf, Kept
<1> QED
  BY <1>1, <1>2

LEMMA SendTyped ==
  ASSUME Typed, NEW m \in Mailbox, Send(m)
  PROVE  /\ Typed' /\ OneMailbox(m) /\ OneLink(m)
         /\ mailbox[m].sent + 1 \in 1..Calls[m]
         /\ mailbox'[m].state = mailbox[m].state /\ mailbox'[m].sent = mailbox[m].sent + 1
         /\ Kept(m)
         /\ link[m].state # "up" => link' = link
         /\ UNCHANGED <<kind, buffered, acceptor, running>>
         /\ LET r == <<m, mailbox[m].sent + 1>>
            IN \/ /\ mailbox[m].state # "connected"
                  /\ outcome' = [outcome EXCEPT ![r] = Append(@, Result("error", r))]
                  /\ UNCHANGED <<requests, timeout>>
               \/ /\ mailbox[m].state = "connected"
                  /\ requests' = requests \union {r} /\ timeout' = timeout \union {r}
                  /\ outcome' = outcome
<1> DEFINE i == mailbox[m].sent + 1
           r == <<m, i>>
<1>1. /\ mailbox[m] \in MailboxOf(m) /\ link[m] \in LinkOf(m)
      /\ mailbox[m].sent < Calls[m] /\ Calls[m] \in Nat
  BY ReqIs DEF Typed, Send
<1>2. i \in 1..Calls[m] /\ i \in Nat
  BY <1>1 DEF MailboxOf
<1>3. r \in Req
  BY <1>2, ReqIs
<1>4. UNCHANGED <<kind, buffered, acceptor, running>>
  BY DEF Send, server
<1>5. CASE mailbox[m].state # "connected"
  <2>1. /\ mailbox' = [mailbox EXCEPT ![m].sent = i]
        /\ outcome' = [outcome EXCEPT ![r] = Append(@, Result("error", r))]
        /\ UNCHANGED <<requests, timeout, link>>
    BY <1>5 DEF Send
  <2>2. OneMailbox(m) /\ mailbox'[m].state = mailbox[m].state /\ mailbox'[m].sent = mailbox[m].sent + 1
    <3> DEFINE b == [mailbox[m] EXCEPT !.sent = mailbox[m].sent + 1]
    <3>1. b \in MailboxOf(m) /\ b.state = mailbox[m].state /\ b.sent = mailbox[m].sent + 1
      BY <1>1, <1>2 DEF MailboxOf
    <3>2. mailbox' = [mailbox EXCEPT ![m] = b]
      BY <2>1
    <3> HIDE DEF b
    <3> QED
      BY <3>1, <3>2, MailboxChanges
  <2>3. OneLink(m) /\ Kept(m)
    BY <1>1, <2>1 DEF Typed, OneLink, LinkOf, Kept
  <2>4. outcome' \in [Req -> Seq([what : {"answer", "error", "empty"}, of : Req])]
    BY <1>3, <2>1 DEF Typed, Result
  <2>5. Typed'
    BY <1>4, <2>1, <2>2, <2>4 DEF Typed, OneMailbox, Acceptors, Keys
  <2> QED
    BY <1>2, <1>4, <1>5, <2>1, <2>2, <2>3, <2>5
<1>6. CASE mailbox[m].state = "connected"
  <2>1. /\ mailbox' = [mailbox EXCEPT ![m].sent = i, ![m].queue = IF buffered THEN Append(@, i) ELSE @]
        /\ link' = IF buffered THEN link ELSE Written(m, <<i>>)
        /\ requests' = requests \union {r} /\ timeout' = timeout \union {r}
        /\ outcome' = outcome
    BY <1>6 DEF Send, Armed
  <2>2. (IF buffered THEN Append(mailbox[m].queue, i) ELSE mailbox[m].queue) \in Seq(1..Calls[m])
    <3>1. mailbox[m].queue \in Seq(1..Calls[m])
      BY <1>1 DEF MailboxOf
    <3> HIDE DEF i
    <3>2. Append(mailbox[m].queue, i) \in Seq(1..Calls[m])
      BY <1>2, <3>1
    <3> QED
      BY <3>1, <3>2
  <2>3. OneMailbox(m) /\ mailbox'[m].state = mailbox[m].state /\ mailbox'[m].sent = mailbox[m].sent + 1
    <3> DEFINE q == IF buffered THEN Append(mailbox[m].queue, i) ELSE mailbox[m].queue
    <3>1. mailbox' = [mailbox EXCEPT ![m].sent = i, ![m].queue = q]
      BY <2>1
    <3>2. q \in Seq(1..Calls[m]) /\ i \in 0..Calls[m]
      BY <1>1, <1>2, <2>2
    <3> HIDE DEF q, i
    <3>3. OneMailbox(m) /\ mailbox'[m].state = mailbox[m].state /\ mailbox'[m].sent = i
      BY <3>1, <3>2, MailboxWrites, Zenon
    <3> QED
      BY <3>3 DEF i
  <2>4. /\ OneLink(m) /\ Kept(m)
        /\ link[m].state # "up" => link' = link
    <3>1. CASE buffered
      BY <1>1, <2>1, <3>1 DEF Typed, OneLink, LinkOf, Kept
    <3>2. CASE ~ buffered
      <4>1. <<i>> \in Seq(1..Calls[m]) /\ link' = Written(m, <<i>>)
        BY <1>2, <2>1, <3>2
      <4> QED
        BY <4>1, WrittenTyped
    <3> QED
      BY <3>1, <3>2
  <2>5. Typed'
    BY <1>3, <1>4, <2>1, <2>3, <2>4 DEF Typed, OneMailbox, OneLink, Acceptors, Keys
  <2> QED
    BY <1>2, <1>4, <1>6, <2>1, <2>3, <2>4, <2>5
<1> QED
  BY <1>5, <1>6

LEMMA FlushTyped ==
  ASSUME Typed, NEW m \in Mailbox, Flush(m)
  PROVE  /\ Typed' /\ OneMailbox(m) /\ OneLink(m)
         /\ mailbox'[m].state = mailbox[m].state /\ mailbox'[m].sent = mailbox[m].sent
         /\ Kept(m)
         /\ link[m].state # "up" => link' = link
         /\ UNCHANGED <<kind, buffered, requests, timeout, outcome, acceptor, running>>
<1>1. /\ mailbox' = [mailbox EXCEPT ![m].queue = <<>>]
      /\ link' = Written(m, mailbox[m].queue)
      /\ UNCHANGED <<kind, buffered, requests, timeout, outcome, acceptor, running>>
  BY DEF Flush, callbacks, server
<1>2. mailbox[m] \in MailboxOf(m) /\ mailbox[m].queue \in Seq(1..Calls[m])
  BY DEF Typed, MailboxOf
<1>3. OneMailbox(m) /\ mailbox'[m].state = mailbox[m].state /\ mailbox'[m].sent = mailbox[m].sent
  <2> DEFINE b == [mailbox[m] EXCEPT !.queue = <<>>]
             Q == Seq(1..Calls[m])
             I == 0..Calls[m]
  <2>1. <<>> \in Q
    OBVIOUS
  <2>2. mailbox[m] \in [state : {"new", "connecting", "connected", "failed", "closed"},
                       sent : I, queue : Q, pinged : BOOLEAN]
    BY <1>2 DEF MailboxOf
  <2>3. MailboxOf(m) = [state : {"new", "connecting", "connected", "failed", "closed"},
                        sent : I, queue : Q, pinged : BOOLEAN]
    BY DEF MailboxOf
  <2> HIDE DEF Q, I
  <2>4. b \in MailboxOf(m) /\ b.state = mailbox[m].state /\ b.sent = mailbox[m].sent
    BY <2>1, <2>2, <2>3
  <2>5. mailbox' = [mailbox EXCEPT ![m] = b]
    BY <1>1
  <2> HIDE DEF b
  <2> QED
    BY <2>4, <2>5, MailboxChanges
<1>4. /\ OneLink(m) /\ Kept(m)
      /\ link[m].state # "up" => link' = link
  BY <1>1, <1>2, WrittenTyped
<1>5. Typed'
  BY <1>1, <1>3, <1>4 DEF Typed, OneMailbox, OneLink, Acceptors, Keys
<1> QED
  BY <1>1, <1>3, <1>4, <1>5

\* What a connection is after it was cut.
AfterCut(m, told) ==
  [state |-> IF link[m].state = "up" THEN "cut" ELSE link[m].state, told |-> told, up |-> <<>>, down |-> <<>>]

LEMMA AfterCutIs ==
  ASSUME Typed, NEW m \in Mailbox, NEW t \in BOOLEAN
  PROVE  /\ AfterCut(m, t) \in LinkOf(m)
         /\ AfterCut(m, t).state # "up" /\ AfterCut(m, t).told = t
         /\ AfterCut(m, t).up = <<>> /\ AfterCut(m, t).down = <<>>
<1>1. link[m].state \in {"none", "up", "cut", "gone"}
  BY DEF Typed, LinkOf
<1> QED
  BY <1>1 DEF AfterCut, LinkOf

LEMMA CutIs ==
  ASSUME Typed, NEW m \in Mailbox
  PROVE  /\ Cut(m) = [link EXCEPT ![m] = AfterCut(m, link[m].told)]
         /\ [Cut(m) EXCEPT ![m].told = TRUE] = [link EXCEPT ![m] = AfterCut(m, TRUE)]
<1> DEFINE l == link[m]
           x == IF link[m].state = "up" THEN "cut" ELSE link[m].state
           a == [l EXCEPT !.state = x]
           b == [a EXCEPT !.up = <<>>]
           c == [b EXCEPT !.down = <<>>]
<1>1. l \in LinkOf(m)
  BY DEF Typed
<1>2. l = [state |-> l.state, told |-> l.told, up |-> l.up, down |-> l.down]
  BY <1>1 DEF LinkOf
<1>3. x \in {"none", "cut", "gone"} /\ l.told \in BOOLEAN
  BY <1>1 DEF LinkOf
<1>4. Cut(m) = [link EXCEPT ![m] = c]
  BY Zenon DEF Cut
<1>5. [Cut(m) EXCEPT ![m].told = TRUE] = [link EXCEPT ![m] = [c EXCEPT !.told = TRUE]]
  <2> HIDE DEF c
  <2> QED
    BY <1>4 DEF Typed
<1>6. c = AfterCut(m, l.told)
  <2> HIDE DEF x, l
  <2>1. a = [state |-> x, told |-> l.told, up |-> l.up, down |-> l.down]
    BY <1>2
  <2> HIDE DEF a
  <2>2. b = [state |-> x, told |-> l.told, up |-> <<>>, down |-> l.down]
    BY <2>1
  <2> HIDE DEF b
  <2>3. c = [state |-> x, told |-> l.told, up |-> <<>>, down |-> <<>>]
    BY <2>2
  <2> QED
    BY <2>3 DEF AfterCut, x, l
<1>7. [c EXCEPT !.told = TRUE] = AfterCut(m, TRUE)
  <2> HIDE DEF c, x
  <2>1. c = [state |-> x, told |-> l.told, up |-> <<>>, down |-> <<>>]
    BY <1>6 DEF AfterCut, x
  <2> HIDE DEF l
  <2>2. \A t : [c EXCEPT !.told = t] = [state |-> x, told |-> t, up |-> <<>>, down |-> <<>>]
    BY <2>1
  <2>3. AfterCut(m, TRUE) = [state |-> x, told |-> TRUE, up |-> <<>>, down |-> <<>>]
    BY DEF AfterCut, x, l
  <2> QED
    BY <2>2, <2>3, Zenon
<1> HIDE DEF c, l
<1> QED
  BY <1>4, <1>5, <1>6, <1>7 DEF l

LEMMA LoseTyped ==
  ASSUME Typed, NEW m \in Mailbox, Lose(m)
  PROVE  /\ Typed' /\ OneLink(m)
         /\ link'[m].state # "up" /\ link'[m].told = link[m].told
         /\ link'[m].up = <<>> /\ link'[m].down = <<>>
         /\ UNCHANGED <<kind, buffered, mailbox, requests, timeout, outcome, acceptor, running>>
<1>1. /\ link' = [link EXCEPT ![m] = AfterCut(m, link[m].told)]
      /\ UNCHANGED <<kind, buffered, mailbox, requests, timeout, outcome, acceptor, running>>
  BY CutIs DEF Lose, callbacks, server
<1>2. link[m].told \in BOOLEAN
  BY DEF Typed, LinkOf
<1>3. OneLink(m) /\ link'[m] = AfterCut(m, link[m].told)
  BY <1>1, <1>2, AfterCutIs, LinkChanges
<1>4. Typed'
  BY <1>1, <1>3 DEF Typed, OneLink, Acceptors, Keys
<1> QED
  BY <1>1, <1>2, <1>3, <1>4, AfterCutIs

LEMMA ToldTyped ==
  ASSUME Typed, NEW m \in Mailbox, Told(m)
  PROVE  /\ OneLink(m) /\ OneMailbox(m)
         /\ link'[m].state # "up" /\ link'[m].told
         /\ link'[m].up = <<>> /\ link'[m].down = <<>>
         /\ mailbox'[m].state = "closed" /\ mailbox'[m].sent = mailbox[m].sent
         /\ UNCHANGED <<kind, buffered, acceptor, running>>
<1>1. /\ link' = [link EXCEPT ![m] = AfterCut(m, TRUE)]
      /\ mailbox' = [mailbox EXCEPT ![m].state = "closed", ![m].pinged = FALSE]
      /\ UNCHANGED <<kind, buffered, acceptor, running>>
  BY CutIs DEF Told, Close, server
<1>2. OneLink(m) /\ link'[m] = AfterCut(m, TRUE)
  BY <1>1, AfterCutIs, LinkChanges
<1>3. OneMailbox(m) /\ mailbox'[m].state = "closed" /\ mailbox'[m].sent = mailbox[m].sent
  BY <1>1 DEF Typed, MailboxOf, OneMailbox
<1> QED
  BY <1>1, <1>2, <1>3, AfterCutIs

LEMMA ServerTyped ==
  ASSUME Typed, Listen \/ Stop
  PROVE  /\ Typed' /\ acceptor'.queues = acceptor.queues
         /\ UNCHANGED <<kind, buffered, mailbox, link, requests, timeout, outcome, running>>
<1>1. UNCHANGED <<kind, buffered, mailbox, link, requests, timeout, outcome, running>>
  BY DEF Listen, Stop, callbacks
<1>2. acceptor' \in Acceptors /\ acceptor'.queues = acceptor.queues
  BY DEF Listen, Stop, Typed, Acceptors
<1> QED
  BY <1>1, <1>2 DEF Typed, Acceptors, Keys

LEMMA ToldStep ==
  ASSUME Typed, NEW m \in Mailbox, Told(m),
         requests' = requests, timeout' = timeout,
         outcome' \in [Req -> Seq([what : {"answer", "error", "empty"}, of : Req])]
  PROVE  Typed'
<1>1. /\ OneLink(m) /\ OneMailbox(m)
      /\ UNCHANGED <<kind, buffered, acceptor, running>>
  BY ToldTyped
<1> QED
  BY <1>1 DEF Typed, OneLink, OneMailbox, Acceptors, Keys

LEMMA OutcomeTyped ==
  ASSUME Typed, NEW R, NEW what \in {"answer", "error", "empty"},
         outcome' = [r \in Req |-> IF r \in R THEN Append(outcome[r], Result(what, r)) ELSE outcome[r]]
  PROVE  outcome' \in [Req -> Seq([what : {"answer", "error", "empty"}, of : Req])]
<1>1. \A r \in Req : Result(what, r) \in [what : {"answer", "error", "empty"}, of : Req]
  BY DEF Result
<1>2. \A r \in Req : outcome[r] \in Seq([what : {"answer", "error", "empty"}, of : Req])
  BY DEF Typed
<1> DEFINE T == [what : {"answer", "error", "empty"}, of : Req]
<1> HIDE DEF T
<1>3. \A r \in Req : outcome[r] \in Seq(T) /\ Append(outcome[r], Result(what, r)) \in Seq(T)
  <2> TAKE r \in Req
  <2>1. outcome[r] \in Seq(T) /\ Result(what, r) \in T
    BY <1>1, <1>2 DEF T
  <2> QED
    BY <2>1, AppendProperties
<1>4. outcome' \in [Req -> Seq(T)]
  BY <1>3
<1> QED
  BY <1>4 DEF T

LEMMA KeyIs == \A m \in Mailbox : Key(m) \in Keys /\ (kind # "tcp" => Key(m) = m)
BY DEF Key, Keys

LEMMA QueuesChange ==
  ASSUME NEW a \in Acceptors, NEW q \in [Keys -> Seq(Responses)]
  PROVE  /\ [a EXCEPT !.queues = q] \in Acceptors
         /\ [a EXCEPT !.queues = q].queues = q
<1> DEFINE Q == [Keys -> Seq(Responses)]
<1>1. q \in Q /\ Acceptors = [state : {"new", "listening", "closed"},
                              sockets : [Keys -> Mailbox \union {Nobody}], queues : Q]
  BY DEF Acceptors
<1> HIDE DEF Q
<1> QED
  BY <1>1

LEMMA ConnectionTyped ==
  ASSUME Typed, NEW m \in Mailbox, Connection(m)
  PROVE  /\ Typed' /\ OneLink(m)
         /\ link'[m].state = "up" /\ link'[m].told = link[m].told
         /\ link'[m].up = link[m].up /\ link'[m].down = link[m].down
         /\ mailbox[m].state = "connecting"
         /\ acceptor'.queues = acceptor.queues
         /\ UNCHANGED <<kind, buffered, mailbox, requests, timeout, outcome, running>>
<1>1. /\ link' = [link EXCEPT ![m].state = "up"]
      /\ acceptor' = [acceptor EXCEPT !.sockets[Key(m)] = m]
      /\ mailbox[m].state = "connecting"
      /\ UNCHANGED <<kind, buffered, mailbox, requests, timeout, outcome, running>>
  BY DEF Connection, callbacks
<1>2. /\ OneLink(m) /\ link'[m].state = "up" /\ link'[m].told = link[m].told
      /\ link'[m].up = link[m].up /\ link'[m].down = link[m].down
  BY <1>1 DEF Typed, LinkOf, OneLink
<1>3. acceptor' \in Acceptors /\ acceptor'.queues = acceptor.queues
  BY <1>1, KeyIs DEF Typed, Acceptors
<1>4. Typed'
  BY <1>1, <1>2, <1>3 DEF Typed, OneLink, Acceptors, Keys
<1> QED
  BY <1>1, <1>2, <1>3, <1>4

LEMMA SocketCloseTyped ==
  ASSUME Typed, NEW m \in Mailbox, OnSocketClose(m)
  PROVE  /\ Typed' /\ OneLink(m)
         /\ link[m].state = "cut" /\ link'[m].state = "gone" /\ link'[m].told = link[m].told
         /\ link'[m].up = link[m].up /\ link'[m].down = link[m].down
         /\ \A k \in Keys : acceptor'.queues[k] = IF k = Key(m) THEN <<>> ELSE acceptor.queues[k]
         /\ UNCHANGED <<kind, buffered, mailbox, requests, timeout, outcome, running>>
<1>1. /\ link' = [link EXCEPT ![m].state = "gone"] /\ link[m].state = "cut"
      /\ acceptor' = [acceptor EXCEPT !.sockets[Key(m)] = Nobody, !.queues[Key(m)] = <<>>]
      /\ UNCHANGED <<kind, buffered, mailbox, requests, timeout, outcome, running>>
  BY DEF OnSocketClose, callbacks
<1>2. /\ OneLink(m) /\ link'[m].state = "gone" /\ link'[m].told = link[m].told
      /\ link'[m].up = link[m].up /\ link'[m].down = link[m].down
  BY <1>1 DEF Typed, LinkOf, OneLink
<1>3. /\ acceptor' \in Acceptors
      /\ \A k \in Keys : acceptor'.queues[k] = IF k = Key(m) THEN <<>> ELSE acceptor.queues[k]
  <2> DEFINE a == [acceptor EXCEPT !.sockets[Key(m)] = Nobody]
  <2>1. a \in Acceptors /\ a.queues = acceptor.queues
    BY KeyIs DEF Typed, Acceptors
  <2>2. acceptor' = [a EXCEPT !.queues[Key(m)] = <<>>]
    BY <1>1, Zenon
  <2> HIDE DEF a
  <2> DEFINE q == [a.queues EXCEPT ![Key(m)] = <<>>]
  <2>3. a.queues \in [Keys -> Seq(Responses)]
    BY <2>1 DEF Acceptors
  <2>4. q \in [Keys -> Seq(Responses)]
    BY <2>3, KeyIs
  <2>5. acceptor' = [a EXCEPT !.queues = q]
    BY <2>2, Zenon
  <2>6. \A k \in Keys : q[k] = IF k = Key(m) THEN <<>> ELSE a.queues[k]
    BY <2>3, KeyIs
  <2> HIDE DEF q
  <2>7. acceptor' \in Acceptors /\ acceptor'.queues = q
    BY <2>1, <2>4, <2>5, QueuesChange
  <2> QED
    BY <2>1, <2>6, <2>7
<1>4. Typed'
  BY <1>1, <1>2, <1>3 DEF Typed, OneLink, Acceptors, Keys
<1> QED
  BY <1>1, <1>2, <1>3, <1>4

LEMMA TimeoutTyped ==
  ASSUME Typed, NEW r \in Req, TimeoutFires(r),
         UNCHANGED <<kind, buffered, mailbox, link, acceptor, running>>,
         outcome' \in [Req -> Seq([what : {"answer", "error", "empty"}, of : Req])]
  PROVE  Typed'
BY DEF Typed, TimeoutFires, Acceptors, Keys

LEMMA Concatenated ==
  ASSUME NEW S, NEW s \in Seq(S), NEW t \in Seq(S)
  PROVE  /\ s \o t \in Seq(S)
         /\ \A i \in DOMAIN (s \o t) :
              (i \in DOMAIN s /\ (s \o t)[i] = s[i]) \/ \E j \in DOMAIN t : (s \o t)[i] = t[j]
<1>1. /\ s \o t \in Seq(S) /\ Len(s \o t) = Len(s) + Len(t)
      /\ \A i \in 1..(Len(s) + Len(t)) : (s \o t)[i] = IF i <= Len(s) THEN s[i] ELSE t[i - Len(s)]
  BY ConcatProperties
<1>2. /\ DOMAIN s = 1..Len(s) /\ DOMAIN t = 1..Len(t) /\ DOMAIN (s \o t) = 1..(Len(s) + Len(t))
      /\ Len(s) \in Nat /\ Len(t) \in Nat
  BY <1>1, LenProperties
<1>3. ASSUME NEW i \in DOMAIN (s \o t), ~ (i \in DOMAIN s)
      PROVE  \E j \in DOMAIN t : (s \o t)[i] = t[j]
  <2>1. i \in 1..(Len(s) + Len(t)) /\ ~ (i <= Len(s))
    BY <1>2, <1>3
  <2>2. i - Len(s) \in DOMAIN t /\ (s \o t)[i] = t[i - Len(s)]
    BY <1>1, <1>2, <2>1
  <2> QED
    BY <2>2
<1>4. ASSUME NEW i \in DOMAIN s PROVE (s \o t)[i] = s[i]
  BY <1>1, <1>2
<1> QED
  BY <1>1, <1>3, <1>4

LEMMA OwnConcatenated ==
  ASSUME NEW m \in Mailbox
  PROVE  /\ \A s, t \in Seq(Responses) : OwnAll(m, s) /\ OwnAll(m, t) => OwnAll(m, s \o t)
         /\ \A s, t \in Seq(Seq(Responses)) : OwnPackets(m, s) /\ OwnPackets(m, t) => OwnPackets(m, s \o t)
<1>1. ASSUME NEW s \in Seq(Responses), NEW t \in Seq(Responses), OwnAll(m, s), OwnAll(m, t)
      PROVE  OwnAll(m, s \o t)
  <2>1. \A i \in DOMAIN (s \o t) :
          (i \in DOMAIN s /\ (s \o t)[i] = s[i]) \/ \E j \in DOMAIN t : (s \o t)[i] = t[j]
    BY Concatenated
  <2> QED
    BY <1>1, <2>1 DEF OwnAll
<1>2. ASSUME NEW s \in Seq(Seq(Responses)), NEW t \in Seq(Seq(Responses)), OwnPackets(m, s), OwnPackets(m, t)
      PROVE  OwnPackets(m, s \o t)
  <2>1. \A i \in DOMAIN (s \o t) :
          (i \in DOMAIN s /\ (s \o t)[i] = s[i]) \/ \E j \in DOMAIN t : (s \o t)[i] = t[j]
    BY Concatenated
  <2> QED
    BY <1>2, <2>1 DEF OwnPackets
<1> QED
  BY <1>1, <1>2

LEMMA RouteTyped ==
  ASSUME Typed, NEW m \in Mailbox, NEW responses \in Seq(Responses), NEW beside \in Seq(Seq(Responses)),
         NEW rest \in Seq(Seq(1..Calls[m])), Route(m, responses, beside, rest)
  PROVE  /\ OneLink(m)
         /\ link'[m].state = link[m].state /\ link'[m].told = link[m].told /\ link'[m].up = rest
         /\ link[m].state # "up" => link'[m].down = link[m].down
         /\ OwnAll(m, responses) /\ OwnPackets(m, beside) /\ OwnPackets(m, link[m].down)
              => OwnPackets(m, link'[m].down)
         /\ acceptor' \in Acceptors
         /\ \A k \in Keys : acceptor'.queues[k] =
              IF buffered /\ k = Key(m) THEN acceptor.queues[k] \o responses ELSE acceptor.queues[k]
<1> DEFINE single == [i \in DOMAIN responses |-> <<responses[i]>>]
           packets == IF buffered THEN beside ELSE single \o beside
           down == IF link[m].state = "up" THEN link[m].down \o packets ELSE link[m].down
<1>1. /\ single \in Seq(Seq(Responses)) /\ DOMAIN single = DOMAIN responses
      /\ \A i \in DOMAIN responses : single[i] = <<responses[i]>>
  <2>1. DOMAIN responses = 1..Len(responses) /\ Len(responses) \in Nat
    BY LenProperties
  <2>2. \A i \in DOMAIN responses : responses[i] \in Responses
    BY ElementOfSeq, <2>1
  <2>3. \A i \in DOMAIN responses : <<responses[i]>> \in Seq(Responses)
    BY <2>2
  <2> QED
    BY <2>1, <2>3, IsASeq
<1>2. packets \in Seq(Seq(Responses))
  <2> HIDE DEF single
  <2> QED
    BY <1>1, Concatenated
<1>3. link[m].down \in Seq(Seq(Responses)) /\ link[m] \in LinkOf(m)
  BY DEF Typed, LinkOf
<1>4. down \in Seq(Seq(Responses))
  <2> HIDE DEF packets
  <2> QED
    BY <1>2, <1>3, Concatenated
<1>5. OwnAll(m, responses) => OwnPackets(m, single)
  <2> SUFFICES ASSUME OwnAll(m, responses), NEW i \in DOMAIN single PROVE OwnAll(m, single[i])
    BY DEF OwnPackets
  <2>1. single[i] = <<responses[i]>> /\ Own(m, responses[i])
    BY <1>1 DEF OwnAll
  <2> HIDE DEF single
  <2> QED
    BY <2>1 DEF OwnAll
<1>6. OwnAll(m, responses) /\ OwnPackets(m, beside) => OwnPackets(m, packets)
  <2> HIDE DEF single
  <2> QED
    BY <1>1, <1>5, OwnConcatenated
<1>7. OwnAll(m, responses) /\ OwnPackets(m, beside) /\ OwnPackets(m, link[m].down) => OwnPackets(m, down)
  <2> HIDE DEF packets
  <2> QED
    BY <1>2, <1>3, <1>6, OwnConcatenated
<1>8. link' = [link EXCEPT ![m].up = rest, ![m].down = down]
  BY DEF Route
<1> HIDE DEF down, packets
<1>9. OneLink(m) /\ link'[m] = [state |-> link[m].state, told |-> link[m].told, up |-> rest, down |-> down]
  <2> DEFINE o == link[m]
             l == [state |-> o.state, told |-> o.told, up |-> rest, down |-> down]
             d == [o EXCEPT !.up = rest]
             e == [o EXCEPT !.up = rest, !.down = down]
  <2>1. o = [state |-> o.state, told |-> o.told, up |-> o.up, down |-> o.down]
    BY <1>3 DEF LinkOf
  <2>2. e = [d EXCEPT !.down = down]
    BY Zenon
  <2>3. link' = [link EXCEPT ![m] = e]
    BY <1>8
  <2>4. e = l
    <3> HIDE DEF o
    <3>1. d = [state |-> o.state, told |-> o.told, up |-> rest, down |-> o.down]
      BY <2>1
    <3> HIDE DEF d
    <3>2. [d EXCEPT !.down = down] = l
      BY <3>1
    <3> HIDE DEF e, l
    <3> QED
      BY <2>2, <3>2
  <2>6. l \in LinkOf(m)
    BY <1>3, <1>4 DEF LinkOf
  <2> HIDE DEF e, l
  <2>7. OneLink(m) /\ link'[m] = l
    BY <2>3, <2>4, <2>6, LinkChanges
  <2> QED
    BY <2>7 DEF l
<1>10. /\ acceptor' \in Acceptors
       /\ \A k \in Keys : acceptor'.queues[k] =
             IF buffered /\ k = Key(m) THEN acceptor.queues[k] \o responses ELSE acceptor.queues[k]
  <2>1. acceptor \in Acceptors /\ acceptor.queues \in [Keys -> Seq(Responses)]
    BY DEF Typed, Acceptors
  <2>2. CASE buffered
    <3> DEFINE q == [acceptor.queues EXCEPT ![Key(m)] = @ \o responses]
    <3>1. acceptor.queues[Key(m)] \o responses \in Seq(Responses)
      BY <2>1, KeyIs, Concatenated
    <3>2. q \in [Keys -> Seq(Responses)]
      BY <2>1, <3>1
    <3>3. \A k \in Keys : q[k] = IF k = Key(m) THEN acceptor.queues[k] \o responses ELSE acceptor.queues[k]
      BY <2>1
    <3>4. acceptor' = [acceptor EXCEPT !.queues = q]
      BY <2>2 DEF Route
    <3> HIDE DEF q
    <3>5. acceptor' \in Acceptors /\ acceptor'.queues = q
      BY <2>1, <3>2, <3>4, QueuesChange
    <3> QED
      BY <2>2, <3>3, <3>5
  <2>3. CASE ~ buffered
    <3>1. acceptor' = acceptor
      BY <2>3 DEF Route
    <3> QED
      BY <2>1, <2>3, <3>1
  <2> QED
    BY <2>2, <2>3
<1> QED
  BY <1>7, <1>9, <1>10 DEF down

LEMMA ResponseIs ==
  ASSUME NEW m \in Mailbox, NEW i \in 1..Calls[m], NEW ok \in BOOLEAN
  PROVE  Response(<<m, i>>, ok) \in Responses /\ Own(m, Response(<<m, i>>, ok))
<1>1. <<m, i>> \in Req /\ i \in Nat
  BY ReqIs
<1> QED
  BY <1>1 DEF Response, Responses, Own

\* What routing responses of calls of m leaves of the invariant.
RouteKeeps(m) ==
  /\ OneLink(m)
  /\ link'[m].state = link[m].state /\ link'[m].told = link[m].told
  /\ link[m].state # "up" => link'[m].down = link[m].down
  /\ OwnPackets(m, link[m].down) => OwnPackets(m, link'[m].down)
  /\ acceptor' \in Acceptors
  /\ \A k \in Keys : acceptor'.queues[k] = acceptor.queues[k] \/ (buffered /\ k = Key(m))
  /\ OwnAll(m, acceptor.queues[Key(m)]) => OwnAll(m, acceptor'.queues[Key(m)])

LEMMA RouteIs ==
  ASSUME Typed, NEW m \in Mailbox, NEW responses \in Seq(Responses), NEW beside \in Seq(Seq(Responses)),
         NEW rest \in Seq(Seq(1..Calls[m])), Route(m, responses, beside, rest),
         OwnAll(m, responses), OwnPackets(m, beside)
  PROVE  RouteKeeps(m) /\ link'[m].up = rest
<1>1. /\ OneLink(m)
      /\ link'[m].state = link[m].state /\ link'[m].told = link[m].told /\ link'[m].up = rest
      /\ link[m].state # "up" => link'[m].down = link[m].down
      /\ OwnPackets(m, link[m].down) => OwnPackets(m, link'[m].down)
      /\ acceptor' \in Acceptors
      /\ \A k \in Keys : acceptor'.queues[k] =
           IF buffered /\ k = Key(m) THEN acceptor.queues[k] \o responses ELSE acceptor.queues[k]
  BY RouteTyped
<1>2. Key(m) \in Keys /\ acceptor.queues[Key(m)] \in Seq(Responses)
  BY KeyIs DEF Typed, Acceptors
<1>3. OwnAll(m, acceptor.queues[Key(m)]) => OwnAll(m, acceptor'.queues[Key(m)])
  <2>1. OwnAll(m, acceptor.queues[Key(m)]) => OwnAll(m, acceptor.queues[Key(m)] \o responses)
    BY <1>2, OwnConcatenated
  <2>2. acceptor'.queues[Key(m)] = acceptor.queues[Key(m)] \o responses
        \/ acceptor'.queues[Key(m)] = acceptor.queues[Key(m)]
    BY <1>1, <1>2
  <2> QED
    BY <2>1, <2>2
<1>4. \A k \in Keys : acceptor'.queues[k] = acceptor.queues[k] \/ (buffered /\ k = Key(m))
  BY <1>1
<1> QED
  BY <1>1, <1>3, <1>4 DEF RouteKeeps

LEMMA ArrivesTyped ==
  ASSUME Typed, NEW m \in Mailbox, Arrives(m)
  PROVE  /\ Typed' /\ RouteKeeps(m) /\ link[m].up # <<>>
         /\ UNCHANGED <<kind, buffered, mailbox, requests, timeout, outcome>>
<1> DEFINE packet == Head(link[m].up)
           rest == Tail(link[m].up)
<1>1. link[m].up # <<>> /\ UNCHANGED <<kind, buffered, mailbox, requests, timeout, outcome>>
  BY DEF Arrives, callbacks
<1>2. link[m].up \in Seq(Seq(1..Calls[m]))
  BY DEF Typed, LinkOf
<1>3. packet \in Seq(1..Calls[m]) /\ rest \in Seq(Seq(1..Calls[m]))
  BY <1>1, <1>2, HeadTailProperties
<1>0. PICK n \in 1..Len(packet) : \E conduct \in [1..n -> Conduct] :
        /\ \E order \in InOrder({k \in 1..n : conduct[k] \in Answers}) :
             Route(m, [i \in DOMAIN order |-> Response(<<m, packet[order[i]]>>, conduct[order[i]] # "missing")],
                   IF conduct[n] \in Throws THEN Thrown(<<m, packet[n]>>) ELSE <<>>, rest)
        /\ running' = running \union {<<m, packet[k]>> : k \in {j \in 1..n : conduct[j] = "later"}}
  BY DEF Arrives
<1>4. PICK conduct \in [1..n -> Conduct] :
        /\ \E order \in InOrder({k \in 1..n : conduct[k] \in Answers}) :
             Route(m, [i \in DOMAIN order |-> Response(<<m, packet[order[i]]>>, conduct[order[i]] # "missing")],
                   IF conduct[n] \in Throws THEN Thrown(<<m, packet[n]>>) ELSE <<>>, rest)
        /\ running' = running \union {<<m, packet[k]>> : k \in {j \in 1..n : conduct[j] = "later"}}
  BY <1>0
<1> DEFINE S == {k \in 1..n : conduct[k] \in Answers}
<1>5. PICK order \in InOrder(S) :
        Route(m, [i \in DOMAIN order |-> Response(<<m, packet[order[i]]>>, conduct[order[i]] # "missing")],
              IF conduct[n] \in Throws THEN Thrown(<<m, packet[n]>>) ELSE <<>>, rest)
  BY <1>4
<1> HIDE DEF packet, rest
<1>6. /\ Len(packet) \in Nat /\ n \in Nat /\ n \in 1..n
      /\ \A k \in 1..n : packet[k] \in 1..Calls[m]
  <2>1. Len(packet) \in Nat /\ \A k \in 1..Len(packet) : packet[k] \in 1..Calls[m]
    BY <1>3, LenProperties
  <2> QED
    BY <2>1
<1>7. Cardinality(S) \in Nat
  <2>1. IsFiniteSet(1..n)
    BY <1>6, FS_Interval
  <2>2. IsFiniteSet(S)
    BY <2>1, FS_Subset
  <2> QED
    BY <2>2, FS_CardinalityType
<1>8. order \in [1..Cardinality(S) -> S]
  BY DEF InOrder
<1> DEFINE responses == [i \in DOMAIN order |-> Response(<<m, packet[order[i]]>>, conduct[order[i]] # "missing")]
           beside == IF conduct[n] \in Throws THEN Thrown(<<m, packet[n]>>) ELSE <<>>
<1>9. \A i \in 1..Cardinality(S) :
        LET p == Response(<<m, packet[order[i]]>>, conduct[order[i]] # "missing")
        IN  p \in Responses /\ Own(m, p)
  <2> TAKE i \in 1..Cardinality(S)
  <2>1. packet[order[i]] \in 1..Calls[m]
    BY <1>6, <1>8
  <2>2. (conduct[order[i]] # "missing") \in BOOLEAN
    OBVIOUS
  <2> QED
    BY <2>1, <2>2, ResponseIs
<1>10. responses \in Seq(Responses) /\ OwnAll(m, responses)
  <2>1. /\ DOMAIN responses = 1..Cardinality(S)
        /\ \A i \in 1..Cardinality(S) : responses[i] \in Responses /\ Own(m, responses[i])
    BY <1>8, <1>9
  <2>2. responses = [i \in 1..Cardinality(S) |-> responses[i]]
    BY <2>1
  <2>3. responses \in [1..Cardinality(S) -> Responses]
    BY <2>1
  <2> HIDE DEF responses, S
  <2>4. responses \in Seq(Responses)
    BY <1>7, <2>3, SeqDef
  <2> QED
    BY <2>1, <2>4 DEF OwnAll
<1>11. beside \in Seq(Seq(Responses)) /\ OwnPackets(m, beside)
  <2>1. <<m, packet[n]>> \in Req /\ packet[n] \in Nat
    BY <1>6, ReqIs
  <2> DEFINE r == <<m, packet[n]>>
             p == [id |-> IF buffered THEN NoId ELSE r[2], of |-> r, ok |-> FALSE]
  <2>2. p \in Responses /\ Own(m, p)
    BY <2>1 DEF Responses, NoId, Own
  <2>3. beside = <<>> \/ beside = <<<<p>>>>
    BY Zenon DEF Thrown
  <2> HIDE DEF p, beside
  <2>4. <<p>> \in Seq(Responses)
    BY <2>2
  <2>5. <<<<p>>>> \in Seq(Seq(Responses))
    BY <2>4
  <2>6. OwnPackets(m, <<<<p>>>>)
    BY <2>2 DEF OwnPackets, OwnAll
  <2>7. <<>> \in Seq(Seq(Responses)) /\ OwnPackets(m, <<>>)
    BY DEF OwnPackets
  <2> QED
    BY <2>3, <2>5, <2>6, <2>7
<1>12. Route(m, responses, beside, rest)
  BY <1>5
<1> HIDE DEF responses, beside
<1>13. RouteKeeps(m)
  BY <1>3, <1>10, <1>11, <1>12, RouteIs
<1>14. running' \subseteq Req
  <2>1. running' = running \union {<<m, packet[k]>> : k \in {j \in 1..n : conduct[j] = "later"}}
    BY <1>4
  <2>2. \A k \in 1..n : <<m, packet[k]>> \in Req
    BY <1>6, ReqIs
  <2>3. running \subseteq Req
    BY DEF Typed
  <2> QED
    BY <2>1, <2>2, <2>3
<1>15. Typed'
  BY <1>1, <1>13, <1>14 DEF Typed, RouteKeeps, OneLink, Acceptors, Keys
<1> QED
  BY <1>1, <1>13, <1>15

LEMMA MethodTyped ==
  ASSUME Typed, NEW r \in Req, MethodAnswers(r)
  PROVE  /\ Typed' /\ RouteKeeps(r[1]) /\ link'[r[1]].up = link[r[1]].up
         /\ UNCHANGED <<kind, buffered, mailbox, requests, timeout, outcome>>
<1>1. /\ Route(r[1], <<Response(r, TRUE)>>, <<>>, link[r[1]].up)
      /\ running' = running \ {r}
      /\ UNCHANGED <<kind, buffered, mailbox, requests, timeout, outcome>>
  BY DEF MethodAnswers, callbacks
<1>2. r[1] \in Mailbox /\ r[2] \in 1..Calls[r[1]] /\ r = <<r[1], r[2]>>
  BY ReqIs
<1>3. Response(r, TRUE) \in Responses /\ Own(r[1], Response(r, TRUE))
  <2>1. TRUE \in BOOLEAN
    OBVIOUS
  <2>2. Response(<<r[1], r[2]>>, TRUE) \in Responses /\ Own(r[1], Response(<<r[1], r[2]>>, TRUE))
    BY <1>2, <2>1, ResponseIs, Zenon
  <2> QED
    BY <1>2, <2>2
<1>4. link[r[1]].up \in Seq(Seq(1..Calls[r[1]]))
  BY <1>2 DEF Typed, LinkOf
<1> DEFINE responses == <<Response(r, TRUE)>>
<1>5. responses \in Seq(Responses) /\ OwnAll(r[1], responses)
  <2> DEFINE p == Response(r, TRUE)
  <2>1. p \in Responses /\ Own(r[1], p)
    BY <1>3
  <2> HIDE DEF p
  <2>2. <<p>> \in Seq(Responses) /\ OwnAll(r[1], <<p>>)
    BY <2>1 DEF OwnAll
  <2> QED
    BY <2>2 DEF p
<1>6. <<>> \in Seq(Seq(Responses)) /\ OwnPackets(r[1], <<>>)
  BY DEF OwnPackets
<1> HIDE DEF responses
<1>7. RouteKeeps(r[1]) /\ link'[r[1]].up = link[r[1]].up
  BY <1>1, <1>2, <1>4, <1>5, <1>6, RouteIs DEF responses
<1>8. Typed'
  BY <1>1, <1>2, <1>7 DEF Typed, RouteKeeps, OneLink, Acceptors, Keys
<1> QED
  BY <1>1, <1>7, <1>8

LEMMA FlushServerTyped ==
  ASSUME Typed, FlushServer
  PROVE  /\ Typed'
         /\ \A m \in Mailbox :
              /\ link'[m].state = link[m].state /\ link'[m].told = link[m].told /\ link'[m].up = link[m].up
              /\ link[m].state # "up" => link'[m].down = link[m].down
              /\ OwnOf(m) => OwnPackets(m, link'[m].down)
         /\ \A k \in Keys : acceptor'.queues[k] = <<>>
         /\ UNCHANGED <<kind, buffered, mailbox, requests, timeout, outcome, running>>
<1>1. /\ acceptor' = [acceptor EXCEPT !.queues = [k \in Keys |-> <<>>]]
      /\ UNCHANGED <<kind, buffered, mailbox, requests, timeout, outcome, running>>
      /\ link' = [m \in Mailbox |->
           IF acceptor.sockets[Key(m)] = m /\ acceptor.queues[Key(m)] # <<>> /\ link[m].state = "up"
             THEN [link[m] EXCEPT !.down = Append(@, acceptor.queues[Key(m)])]
             ELSE link[m]]
  BY DEF FlushServer, callbacks
<1>2. acceptor' \in Acceptors /\ \A k \in Keys : acceptor'.queues[k] = <<>>
  <2> DEFINE q == [k \in Keys |-> <<>>]
  <2>1. q \in [Keys -> Seq(Responses)]
    OBVIOUS
  <2>2. \A k \in Keys : q[k] = <<>>
    OBVIOUS
  <2>3. acceptor' = [acceptor EXCEPT !.queues = q] /\ acceptor \in Acceptors
    BY <1>1 DEF Typed
  <2> HIDE DEF q
  <2>4. acceptor' \in Acceptors /\ acceptor'.queues = q
    BY <2>1, <2>3, QueuesChange
  <2> QED
    BY <2>2, <2>4
<1>3. ASSUME NEW m \in Mailbox
      PROVE  /\ link'[m] \in LinkOf(m)
             /\ link'[m].state = link[m].state /\ link'[m].told = link[m].told /\ link'[m].up = link[m].up
             /\ link[m].state # "up" => link'[m].down = link[m].down
             /\ OwnOf(m) => OwnPackets(m, link'[m].down)
  <2> DEFINE o == link[m]
             q == acceptor.queues[Key(m)]
             down == Append(o.down, q)
             l == [o EXCEPT !.down = down]
  <2>1. o \in LinkOf(m) /\ o.down \in Seq(Seq(Responses)) /\ q \in Seq(Responses)
    BY KeyIs DEF Typed, LinkOf, Acceptors
  <2>2. link'[m] = o \/ (o.state = "up" /\ link'[m] = l)
    BY <1>1
  <2>3. down \in Seq(Seq(Responses)) /\ down = o.down \o <<q>>
    <3> HIDE DEF q, o
    <3> QED
      BY <2>1, AppendProperties, AppendIsConcat
  <2>4. OwnOf(m) => OwnPackets(m, down)
    <3>1. <<q>> \in Seq(Seq(Responses))
      <4> HIDE DEF q
      <4> QED
        BY <2>1
    <3>2. OwnAll(m, q) => OwnPackets(m, <<q>>)
      <4> HIDE DEF q
      <4> QED
        BY DEF OwnPackets
    <3> HIDE DEF q, o, down
    <3>3. OwnPackets(m, o.down) /\ OwnPackets(m, <<q>>) => OwnPackets(m, o.down \o <<q>>)
      BY <2>1, <3>1, OwnConcatenated
    <3> QED
      BY <2>3, <3>2, <3>3 DEF OwnOf, o, q
  <2> HIDE DEF down
  <2>5. l \in LinkOf(m) /\ l.state = o.state /\ l.told = o.told /\ l.up = o.up /\ l.down = down
    <3> HIDE DEF o
    <3> QED
      BY <2>1, <2>3 DEF LinkOf
  <2> HIDE DEF l
  <2>6. CASE link'[m] = o
    BY <2>1, <2>6 DEF OwnOf
  <2>7. CASE o.state = "up" /\ link'[m] = l
    BY <2>4, <2>5, <2>7
  <2> QED
    BY <2>2, <2>6, <2>7
<1>4. link' = [m \in Mailbox |-> link'[m]]
  BY <1>1
<1>5. Typed'
  BY <1>1, <1>2, <1>3, <1>4 DEF Typed, Acceptors, Keys
<1> QED
  BY <1>1, <1>2, <1>3, <1>5

\* The first response to a call is one of the responses to it.
LEMMA FirstIs ==
  ASSUME NEW m \in Mailbox, NEW s \in Seq(Responses), NEW r \in Named(m, s)
  PROVE  \E k \in DOMAIN s : First(m, s, r) = s[k] /\ r = <<m, s[k].id>>
<1> DEFINE S == {k \in DOMAIN s : r = <<m, s[k].id>>}
<1>1. DOMAIN s = 1..Len(s) /\ Len(s) \in Nat
  BY LenProperties
<1>2. S \in SUBSET Nat /\ S # {}
  BY <1>1 DEF Named
<1>3. PICK n \in S : \A k \in S : n <= k
  <2> HIDE DEF S
  <2> QED
    BY <1>2, LeastNat
<1>4. \A j \in 1..n - 1 : r # <<m, s[j].id>>
  <2> SUFFICES ASSUME NEW j \in 1..n - 1, r = <<m, s[j].id>> PROVE FALSE
    OBVIOUS
  <2>1. j \in DOMAIN s /\ n \in Nat /\ j < n
    BY <1>1
  <2>2. j \in S
    BY <2>1
  <2> QED
    BY <1>3, <2>1, <2>2
<1> DEFINE P(k) == r = <<m, s[k].id>> /\ \A j \in 1..k - 1 : r # <<m, s[j].id>>
<1>5. n \in DOMAIN s /\ P(n)
  BY <1>4
<1>6. P(CHOOSE k \in DOMAIN s : P(k)) /\ (CHOOSE k \in DOMAIN s : P(k)) \in DOMAIN s
  <2> HIDE DEF P
  <2> QED
    BY <1>5, Zenon
<1>7. First(m, s, r) = s[CHOOSE k \in DOMAIN s : P(k)]
  BY Zenon DEF First
<1> QED
  BY <1>6, <1>7

\* The callbacks of the calls known run with the responses taken.
Answered(m, known, taken) ==
  /\ known = requests \intersect Named(m, taken)
  /\ requests' = requests \ known
  /\ timeout = requests => timeout' = requests'
  /\ outcome' = [r \in Req |-> IF r \in known THEN Append(outcome[r], Returned(m, taken, r)) ELSE outcome[r]]

LEMMA ReturnedIs ==
  ASSUME NEW m \in Mailbox, NEW s \in Seq(Responses), NEW r \in Named(m, s), r \in Req
  PROVE  /\ Returned(m, s, r) \in [what : {"answer", "error", "empty"}, of : Req]
         /\ \/ Returned(m, s, r) = Result("error", r)
            \/ \E q \in Req : Returned(m, s, r) = Result("answer", q)
         /\ OwnAll(m, s) => Returned(m, s, r) \in {Result("answer", r), Result("error", r)}
<1>1. PICK k \in DOMAIN s : First(m, s, r) = s[k] /\ r = <<m, s[k].id>>
  BY FirstIs
<1>2. s[k] \in Responses
  BY <1>1, LenProperties, ElementOfSeq
<1>3. CASE s[k].ok
  <2>1. Returned(m, s, r) = Result("answer", s[k].of)
    BY <1>1, <1>3 DEF Returned
  <2>2. s[k].of \in Req
    BY <1>2 DEF Responses
  <2>3. OwnAll(m, s) => s[k].of = r
    BY <1>1, <1>3 DEF OwnAll, Own
  <2>4. Result("answer", s[k].of) \in [what : {"answer", "error", "empty"}, of : Req]
    BY <2>2 DEF Result
  <2> QED
    BY <2>1, <2>2, <2>3, <2>4
<1>4. CASE ~ s[k].ok
  <2>1. Returned(m, s, r) = Result("error", r)
    BY <1>1, <1>4 DEF Returned
  <2>2. Result("error", r) \in [what : {"answer", "error", "empty"}, of : Req]
    BY DEF Result
  <2> QED
    BY <2>1, <2>2
<1> QED
  BY <1>3, <1>4

LEMMA ReceiveTyped ==
  ASSUME Typed, NEW m \in Mailbox, Receive(m)
  PROVE  /\ Typed' /\ OneLink(m) /\ link[m].down # <<>>
         /\ link'[m].state = link[m].state /\ link'[m].told = link[m].told /\ link'[m].up = link[m].up
         /\ OwnPackets(m, link[m].down) => OwnPackets(m, link'[m].down)
         /\ UNCHANGED <<kind, buffered, mailbox, acceptor, running>>
         /\ \E known \in SUBSET Req, taken \in Seq(Responses) :
              /\ Answered(m, known, taken)
              /\ OwnPackets(m, link[m].down) => OwnAll(m, taken)
<1> DEFINE packet == Head(link[m].down)
           rest == Tail(link[m].down)
<1>1. /\ link[m].down # <<>> /\ link' = [link EXCEPT ![m].down = rest]
      /\ UNCHANGED <<kind, buffered, mailbox, acceptor, running>>
  BY DEF Receive, server
<1>2. link[m] \in LinkOf(m) /\ link[m].down \in Seq(Seq(Responses))
  BY DEF Typed, LinkOf
<1>3. /\ packet \in Seq(Responses) /\ rest \in Seq(Seq(Responses))
      /\ 1 \in DOMAIN link[m].down /\ packet = link[m].down[1]
      /\ Len(rest) = Len(link[m].down) - 1
      /\ \A i \in 1..Len(rest) : rest[i] = link[m].down[i + 1]
      /\ DOMAIN link[m].down = 1..Len(link[m].down) /\ Len(link[m].down) \in Nat
      /\ DOMAIN rest = 1..Len(rest)
  BY <1>1, <1>2, HeadTailProperties, EmptySeq, LenProperties
<1>4. PICK n \in 1..Len(packet) : Process(m, packet, n)
  BY DEF Receive
<1> DEFINE taken == SubSeq(packet, 1, n)
           known == requests \intersect Named(m, taken)
<1>5. /\ requests' = requests \ known
      /\ timeout' = timeout \ Named(m, taken)
      /\ outcome' = [r \in Req |-> IF r \in known THEN Append(outcome[r], Returned(m, taken, r)) ELSE outcome[r]]
  BY <1>4 DEF Process, Cleared, CalledBack
<1> HIDE DEF packet, rest
<1>6. /\ taken \in Seq(Responses) /\ Len(taken) = n /\ DOMAIN taken = 1..n
      /\ \A i \in 1..n : taken[i] = packet[i]
      /\ DOMAIN packet = 1..Len(packet) /\ Len(packet) \in Nat /\ n \in Nat
  BY <1>3, SubSeqProperties, LenProperties, SMTT(30)
<1> HIDE DEF taken
<1>7. OwnPackets(m, link[m].down) => OwnAll(m, taken) /\ OwnPackets(m, rest)
  <2> SUFFICES ASSUME OwnPackets(m, link[m].down) PROVE OwnAll(m, taken) /\ OwnPackets(m, rest)
    OBVIOUS
  <2>1. \A i \in DOMAIN link[m].down : OwnAll(m, link[m].down[i])
    BY DEF OwnPackets
  <2>2. OwnAll(m, packet)
    BY <1>3, <2>1
  <2>3. \A i \in DOMAIN rest : i + 1 \in DOMAIN link[m].down /\ rest[i] = link[m].down[i + 1]
    BY <1>3, SMTT(30)
  <2>4. \A i \in DOMAIN rest : OwnAll(m, rest[i])
    BY <2>1, <2>3
  <2>5. OwnAll(m, taken)
    BY <1>6, <2>2 DEF OwnAll
  <2> QED
    BY <2>4, <2>5 DEF OwnPackets
<1>8. OneLink(m) /\ link'[m] = [link[m] EXCEPT !.down = rest]
  <2> DEFINE o == link[m]
             l == [o EXCEPT !.down = rest]
  <2>1. o \in LinkOf(m)
    BY <1>2
  <2>2. link' = [link EXCEPT ![m] = l]
    BY <1>1
  <2>3. l \in LinkOf(m)
    <3> HIDE DEF o
    <3> QED
      BY <1>3, <2>1 DEF LinkOf
  <2> HIDE DEF l
  <2>4. OneLink(m) /\ link'[m] = l
    BY <2>2, <2>3, LinkChanges
  <2> QED
    BY <2>4 DEF l
<1>9. /\ link'[m].state = link[m].state /\ link'[m].told = link[m].told /\ link'[m].up = link[m].up
      /\ link'[m].down = rest
  BY <1>2, <1>8 DEF LinkOf
<1>10. \A r \in known : Returned(m, taken, r) \in [what : {"answer", "error", "empty"}, of : Req]
  BY <1>6, ReturnedIs DEF Typed
<1>11. outcome' \in [Req -> Seq([what : {"answer", "error", "empty"}, of : Req])]
  <2> DEFINE T == [what : {"answer", "error", "empty"}, of : Req]
  <2>1. \A r \in known : Returned(m, taken, r) \in T
    BY <1>10
  <2>2. \A r \in Req : outcome[r] \in Seq(T)
    BY DEF Typed
  <2> HIDE DEF T, known
  <2>3. \A r \in Req : r \in known => Append(outcome[r], Returned(m, taken, r)) \in Seq(T)
    BY <2>1, <2>2, AppendProperties
  <2>4. outcome' \in [Req -> Seq(T)]
    BY <1>5, <2>2, <2>3
  <2> QED
    BY <2>4 DEF T
<1>12. Typed'
  BY <1>1, <1>5, <1>8, <1>11 DEF Typed, OneLink, Acceptors, Keys
<1>13. timeout = requests => timeout' = requests'
  BY <1>5
<1>14. known \in SUBSET Req /\ Answered(m, known, taken)
  BY <1>5, <1>13 DEF Answered, Typed
<1> QED
  BY <1>1, <1>6, <1>7, <1>8, <1>9, <1>12, <1>14

-----------------------------------------------------------------------------
(* The other parts of the invariant, each for the steps that do not disturb it *)

\* A step that runs no callback and makes no call is a stuttering step of the promise.
LEMMA QuietStep ==
  ASSUME WaitingOnce, UNCHANGED <<kind, buffered, requests, timeout, outcome>>,
         \A n \in Mailbox : mailbox'[n].sent = mailbox[n].sent /\ (link[n].told => link'[n].told)
  PROVE  WaitingOnce' /\ UNCHANGED Promise!vars
<1>1. Called' = Called
  BY ReqIs DEF Called
<1>2. /\ requests = timeout /\ requests \subseteq Called /\ Called \subseteq Req
      /\ \A r \in Req : r \notin Called => outcome[r] = <<>>
  BY DEF WaitingOnce, Called
<1>3. ASSUME NEW r \in requests
      PROVE  outcome[r] = <<>> \/ (kind \in {"ws", "ws2"} /\ link'[r[1]].told /\ Len(outcome[r]) = 1)
  <2>1. r[1] \in Mailbox
    BY <1>2, ReqIs
  <2>2. outcome[r] = <<>> \/ (kind \in {"ws", "ws2"} /\ link[r[1]].told /\ Len(outcome[r]) = 1)
    BY DEF WaitingOnce
  <2> QED
    BY <2>1, <2>2
<1>4. WaitingOnce'
  BY <1>1, <1>2, <1>3 DEF WaitingOnce
<1> QED
  BY <1>1, <1>4 DEF Promise!vars

LEMMA OwnStep ==
  ASSUME AnswersOwn, UNCHANGED <<kind, buffered>>,
         \A n \in Mailbox : OwnOf(n) => OwnPackets(n, link'[n].down),
         \A n \in Mailbox : ~ (kind = "tcp" /\ buffered) /\ OwnOf(n) => OwnAll(n, acceptor'.queues[Key(n)])
  PROVE  AnswersOwn'
<1>1. \A n \in Mailbox : Key(n)' = Key(n)
  BY DEF Key
<1>2. CASE kind = "tcp" /\ buffered
  BY <1>2 DEF AnswersOwn
<1>3. CASE ~ (kind = "tcp" /\ buffered)
  <2>1. \A n \in Mailbox : OwnOf(n)
    BY <1>3 DEF AnswersOwn
  <2>2. \A n \in Mailbox : OwnOf(n)'
    BY <1>1, <1>3, <2>1 DEF OwnOf
  <2> QED
    BY <2>2 DEF AnswersOwn
<1> QED
  BY <1>2, <1>3

LEMMA RouteStep ==
  ASSUME Inv, NEW m \in Mailbox, RouteKeeps(m), UNCHANGED <<kind, buffered>>
  PROVE  AnswersOwn' /\ NoQueues'
<1>1. \A n \in Mailbox : OwnOf(n) => OwnPackets(n, link'[n].down)
  BY DEF RouteKeeps, OneLink, OwnOf
<1>2. ASSUME NEW n \in Mailbox, ~ (kind = "tcp" /\ buffered), OwnOf(n)
      PROVE  OwnAll(n, acceptor'.queues[Key(n)])
  <2>1. CASE n = m
    BY <1>2, <2>1 DEF RouteKeeps, OwnOf
  <2>2. CASE n # m
    <3>1. acceptor'.queues[Key(n)] = acceptor.queues[Key(n)]
      BY <1>2, <2>2, KeyIs DEF RouteKeeps
    <3> QED
      BY <1>2, <3>1 DEF OwnOf
  <2> QED
    BY <2>1, <2>2
<1>3. NoQueues'
  BY DEF Inv, NoQueues, RouteKeeps, Keys
<1> QED
  BY <1>1, <1>2, <1>3, OwnStep DEF Inv

\* A step that leaves the queues of the acceptor alone.
LEMMA SameQueues ==
  ASSUME Inv, UNCHANGED <<kind, buffered>>, acceptor'.queues = acceptor.queues,
         \A n \in Mailbox : OwnPackets(n, link[n].down) => OwnPackets(n, link'[n].down)
  PROVE  AnswersOwn' /\ NoQueues'
<1>1. NoQueues'
  BY DEF Inv, NoQueues, Keys
<1> QED
  BY <1>1, OwnStep DEF Inv, OwnOf

LEMMA LocalStep ==
  ASSUME Inv, NEW m \in Mailbox,
         Connect(m) \/ Opens(m) \/ ConnectFails(m) \/ CheckKeepAlive(m) \/ Pong(m)
  PROVE  Inv' /\ UNCHANGED Promise!vars
<1>1. /\ Typed' /\ OneMailbox(m) /\ mailbox'[m].sent = mailbox[m].sent
      /\ mailbox[m].state = "closed" => mailbox'[m].state = "closed"
      /\ UNCHANGED <<kind, buffered, link, requests, timeout, outcome, acceptor, running>>
  BY TypedLocal DEF Inv
<1>2. LinksAgree'
  BY <1>1 DEF Inv, LinksAgree, OneMailbox
<1>3. WaitingOnce' /\ UNCHANGED Promise!vars
  BY <1>1, QuietStep DEF Inv, OneMailbox
<1>4. AnswersOwn' /\ NoQueues'
  BY <1>1, SameQueues
<1> QED
  BY <1>1, <1>2, <1>3, <1>4 DEF Inv

LEMMA FlushStep ==
  ASSUME Inv, NEW m \in Mailbox, Flush(m)
  PROVE  Inv' /\ UNCHANGED Promise!vars
<1>1. /\ Typed' /\ OneMailbox(m) /\ OneLink(m) /\ Kept(m)
      /\ mailbox'[m].state = mailbox[m].state /\ mailbox'[m].sent = mailbox[m].sent
      /\ link[m].state # "up" => link' = link
      /\ UNCHANGED <<kind, buffered, requests, timeout, outcome, acceptor, running>>
  BY FlushTyped DEF Inv
<1>2. LinksAgree'
  BY <1>1 DEF Inv, LinksAgree, OneMailbox, OneLink, Kept
<1>3. WaitingOnce' /\ UNCHANGED Promise!vars
  BY <1>1, QuietStep DEF Inv, OneMailbox, OneLink, Kept
<1>4. AnswersOwn' /\ NoQueues'
  BY <1>1, SameQueues DEF OneLink, Kept
<1> QED
  BY <1>1, <1>2, <1>3, <1>4 DEF Inv

LEMMA LoseStep ==
  ASSUME Inv, NEW m \in Mailbox, Lose(m)
  PROVE  Inv' /\ UNCHANGED Promise!vars
<1>1. /\ Typed' /\ OneLink(m)
      /\ link'[m].state # "up" /\ link'[m].told = link[m].told
      /\ link'[m].up = <<>> /\ link'[m].down = <<>>
      /\ UNCHANGED <<kind, buffered, mailbox, requests, timeout, outcome, acceptor, running>>
  BY LoseTyped DEF Inv
<1>2. LinksAgree'
  BY <1>1 DEF Inv, LinksAgree, OneLink
<1>3. WaitingOnce' /\ UNCHANGED Promise!vars
  BY <1>1, QuietStep DEF Inv, OneLink
<1>4. AnswersOwn' /\ NoQueues'
  BY <1>1, SameQueues DEF OneLink, OwnPackets
<1> QED
  BY <1>1, <1>2, <1>3, <1>4 DEF Inv

LEMMA ConnectionStep ==
  ASSUME Inv, NEW m \in Mailbox, Connection(m)
  PROVE  Inv' /\ UNCHANGED Promise!vars
<1>1. /\ Typed' /\ OneLink(m)
      /\ link'[m].state = "up" /\ link'[m].told = link[m].told
      /\ link'[m].up = link[m].up /\ link'[m].down = link[m].down
      /\ mailbox[m].state = "connecting"
      /\ acceptor'.queues = acceptor.queues
      /\ UNCHANGED <<kind, buffered, mailbox, requests, timeout, outcome, running>>
  BY ConnectionTyped DEF Inv
<1>2. LinksAgree'
  BY <1>1 DEF Inv, LinksAgree, OneLink
<1>3. WaitingOnce' /\ UNCHANGED Promise!vars
  BY <1>1, QuietStep DEF Inv, OneLink
<1>4. AnswersOwn' /\ NoQueues'
  BY <1>1, SameQueues DEF OneLink
<1> QED
  BY <1>1, <1>2, <1>3, <1>4 DEF Inv

LEMMA SocketCloseStep ==
  ASSUME Inv, NEW m \in Mailbox, OnSocketClose(m)
  PROVE  Inv' /\ UNCHANGED Promise!vars
<1>1. /\ Typed' /\ OneLink(m)
      /\ link[m].state = "cut" /\ link'[m].state = "gone" /\ link'[m].told = link[m].told
      /\ link'[m].up = link[m].up /\ link'[m].down = link[m].down
      /\ \A k \in Keys : acceptor'.queues[k] = IF k = Key(m) THEN <<>> ELSE acceptor.queues[k]
      /\ UNCHANGED <<kind, buffered, mailbox, requests, timeout, outcome, running>>
  BY SocketCloseTyped DEF Inv
<1>2. LinksAgree'
  BY <1>1 DEF Inv, LinksAgree, OneLink
<1>3. WaitingOnce' /\ UNCHANGED Promise!vars
  BY <1>1, QuietStep DEF Inv, OneLink
<1>4. \A n \in Mailbox : OwnOf(n) => OwnPackets(n, link'[n].down)
  BY <1>1 DEF OneLink, OwnOf
<1>5. \A n \in Mailbox : OwnOf(n) => OwnAll(n, acceptor'.queues[Key(n)])
  <2> SUFFICES ASSUME NEW n \in Mailbox, OwnOf(n) PROVE OwnAll(n, acceptor'.queues[Key(n)])
    OBVIOUS
  <2>1. acceptor'.queues[Key(n)] = <<>> \/ acceptor'.queues[Key(n)] = acceptor.queues[Key(n)]
    BY <1>1, KeyIs
  <2> QED
    BY <2>1 DEF OwnOf, OwnAll
<1>6. NoQueues'
  BY <1>1 DEF Inv, NoQueues, Keys
<1> QED
  BY <1>1, <1>2, <1>3, <1>4, <1>5, <1>6, OwnStep DEF Inv

LEMMA ServerStep ==
  ASSUME Inv, Listen \/ Stop
  PROVE  Inv' /\ UNCHANGED Promise!vars
<1>1. /\ Typed' /\ acceptor'.queues = acceptor.queues
      /\ UNCHANGED <<kind, buffered, mailbox, link, requests, timeout, outcome, running>>
  BY ServerTyped DEF Inv
<1>2. LinksAgree'
  BY <1>1 DEF Inv, LinksAgree
<1>3. WaitingOnce' /\ UNCHANGED Promise!vars
  BY <1>1, QuietStep DEF Inv
<1>4. AnswersOwn' /\ NoQueues'
  BY <1>1, SameQueues
<1> QED
  BY <1>1, <1>2, <1>3, <1>4 DEF Inv

LEMMA FlushServerStep ==
  ASSUME Inv, FlushServer
  PROVE  Inv' /\ UNCHANGED Promise!vars
<1>1. /\ Typed'
      /\ \A m \in Mailbox :
           /\ link'[m].state = link[m].state /\ link'[m].told = link[m].told /\ link'[m].up = link[m].up
           /\ link[m].state # "up" => link'[m].down = link[m].down
           /\ OwnOf(m) => OwnPackets(m, link'[m].down)
      /\ \A k \in Keys : acceptor'.queues[k] = <<>>
      /\ UNCHANGED <<kind, buffered, mailbox, requests, timeout, outcome, running>>
  BY FlushServerTyped DEF Inv
<1>2. LinksAgree'
  BY <1>1 DEF Inv, LinksAgree
<1>3. WaitingOnce' /\ UNCHANGED Promise!vars
  BY <1>1, QuietStep DEF Inv
<1>4. \A n \in Mailbox : OwnAll(n, acceptor'.queues[Key(n)])
  BY <1>1, KeyIs DEF OwnAll
<1>5. NoQueues'
  BY <1>1 DEF NoQueues, Keys
<1> QED
  BY <1>1, <1>2, <1>3, <1>4, <1>5, OwnStep DEF Inv

LEMMA ArrivesStep ==
  ASSUME Inv, NEW m \in Mailbox, Arrives(m)
  PROVE  Inv' /\ UNCHANGED Promise!vars
<1>1. /\ Typed' /\ RouteKeeps(m) /\ link[m].up # <<>>
      /\ UNCHANGED <<kind, buffered, mailbox, requests, timeout, outcome>>
  BY ArrivesTyped DEF Inv
<1>2. LinksAgree'
  BY <1>1 DEF Inv, LinksAgree, RouteKeeps, OneLink
<1>3. WaitingOnce' /\ UNCHANGED Promise!vars
  BY <1>1, QuietStep DEF Inv, RouteKeeps, OneLink
<1>4. AnswersOwn' /\ NoQueues'
  BY <1>1, RouteStep
<1> QED
  BY <1>1, <1>2, <1>3, <1>4 DEF Inv

LEMMA MethodStep ==
  ASSUME Inv, NEW r \in Req, MethodAnswers(r)
  PROVE  Inv' /\ UNCHANGED Promise!vars
<1>1. /\ Typed' /\ RouteKeeps(r[1]) /\ link'[r[1]].up = link[r[1]].up /\ r[1] \in Mailbox
      /\ UNCHANGED <<kind, buffered, mailbox, requests, timeout, outcome>>
  BY MethodTyped, ReqIs DEF Inv
<1>2. LinksAgree'
  BY <1>1 DEF Inv, LinksAgree, RouteKeeps, OneLink
<1>3. WaitingOnce' /\ UNCHANGED Promise!vars
  BY <1>1, QuietStep DEF Inv, RouteKeeps, OneLink
<1>4. AnswersOwn' /\ NoQueues'
  BY <1>1, RouteStep
<1> QED
  BY <1>1, <1>2, <1>3, <1>4 DEF Inv

-----------------------------------------------------------------------------
(* The steps that make calls or run callbacks *)

PromiseStep == Promise!Next \/ UNCHANGED Promise!vars

LEMMA AppendEmpty == \A e : Append(<<>>, e) = <<e>> /\ Len(<<e>>) = 1
<1> SUFFICES ASSUME NEW e PROVE Append(<<>>, e) = <<e>> /\ Len(<<e>>) = 1
  OBVIOUS
<1>1. <<>> \in Seq({e})
  OBVIOUS
<1>2. Append(<<>>, e) = <<>> \o <<e>>
  BY <1>1, AppendIsConcat
<1> QED
  BY <1>1, <1>2, ConcatEmptySeq

\* Callbacks of calls that had none run: the promise resolves them.
LEMMA ResolveStep ==
  ASSUME Typed, UNCHANGED <<kind, buffered>>, Called' = Called,
         NEW R \in SUBSET Req, NEW result,
         \A r \in R : r \in Called /\ outcome[r] = <<>>,
         result = [r \in R |-> result[r]],
         \A r \in R : result[r] \in Promise!Results(r),
         outcome' = [r \in Req |-> IF r \in R THEN Append(outcome[r], result[r]) ELSE outcome[r]]
  PROVE  PromiseStep
<1>1. R \in SUBSET {r \in Called : outcome[r] = <<>>}
  OBVIOUS
<1>2. result \in [R -> UNION {Promise!Results(r) : r \in R}]
  <2> DEFINE U == UNION {Promise!Results(r) : r \in R}
  <2>1. \A r \in R : result[r] \in U
    OBVIOUS
  <2> HIDE DEF U
  <2>2. result \in [R -> U]
    BY <2>1
  <2> QED
    BY <2>2 DEF U
<1>3. \A r \in R : Append(outcome[r], result[r]) = <<result[r]>>
  BY AppendEmpty
<1>4. outcome' = [r \in Req |-> IF r \in R THEN <<result[r]>> ELSE outcome[r]]
  BY <1>3
<1>5. Promise!Resolve
  BY <1>1, <1>2, <1>4 DEF Promise!Resolve
<1> QED
  BY <1>5 DEF Promise!Next, PromiseStep

LEMMA SendStep ==
  ASSUME Inv, NEW m \in Mailbox, Send(m)
  PROVE  Inv' /\ PromiseStep
<1> DEFINE r == <<m, mailbox[m].sent + 1>>
<1>1. /\ Typed' /\ OneMailbox(m) /\ OneLink(m) /\ Kept(m)
      /\ mailbox[m].sent + 1 \in 1..Calls[m]
      /\ mailbox'[m].state = mailbox[m].state /\ mailbox'[m].sent = mailbox[m].sent + 1
      /\ link[m].state # "up" => link' = link
      /\ UNCHANGED <<kind, buffered, acceptor, running>>
  BY SendTyped DEF Inv
<1>2. \/ /\ mailbox[m].state # "connected"
         /\ outcome' = [outcome EXCEPT ![r] = Append(@, Result("error", r))]
         /\ UNCHANGED <<requests, timeout>>
      \/ /\ mailbox[m].state = "connected"
         /\ requests' = requests \union {r} /\ timeout' = timeout \union {r}
         /\ outcome' = outcome
  BY SendTyped DEF Inv
<1>3. r \in Req /\ r[1] = m /\ r[2] = mailbox[m].sent + 1 /\ mailbox[m].sent \in Nat
  BY <1>1, ReqIs DEF Inv, Typed, MailboxOf
<1>4. Called' = Called \union {r} /\ r \notin Called
  <2>1. \A q \in Req : q[1] = m => (q[2] <= mailbox[m].sent + 1 <=> (q[2] <= mailbox[m].sent \/ q = r))
    BY <1>3, ReqIs
  <2>2. \A q \in Req : q[1] # m => mailbox'[q[1]] = mailbox[q[1]] /\ q # r
    BY <1>1, <1>3, ReqIs DEF OneMailbox
  <2>3. \A q \in Req : q[2] <= mailbox'[q[1]].sent <=> (q[2] <= mailbox[q[1]].sent \/ q = r)
    BY <1>1, <1>3, <2>1, <2>2
  <2>4. Called' = Called \union {r}
    BY <1>3, <2>3 DEF Called
  <2>5. r \notin Called
    BY <1>3 DEF Called
  <2> QED
    BY <2>4, <2>5
<1>5. /\ requests = timeout /\ requests \subseteq Called /\ Called \subseteq Req /\ outcome[r] = <<>>
      /\ \A q \in Req : q \notin Called => outcome[q] = <<>>
      /\ outcome = [q \in Req |-> outcome[q]]
  BY <1>3, <1>4 DEF Inv, WaitingOnce, Called, Typed
<1> HIDE DEF r
<1>6. LinksAgree'
  BY <1>1 DEF Inv, LinksAgree, OneMailbox, OneLink, Kept
<1>7. AnswersOwn' /\ NoQueues'
  BY <1>1, SameQueues DEF OneLink, Kept
<1>8. ASSUME NEW q \in requests
      PROVE  outcome[q] = <<>> \/ (kind \in {"ws", "ws2"} /\ link'[q[1]].told /\ Len(outcome[q]) = 1)
  <2>1. q[1] \in Mailbox
    BY <1>5, ReqIs
  <2>2. outcome[q] = <<>> \/ (kind \in {"ws", "ws2"} /\ link[q[1]].told /\ Len(outcome[q]) = 1)
    BY DEF Inv, WaitingOnce
  <2>3. link'[q[1]].told = link[q[1]].told
    BY <1>1, <2>1 DEF OneLink, Kept
  <2> QED
    BY <2>2, <2>3
<1>9. CASE /\ outcome' = [outcome EXCEPT ![r] = Append(@, Result("error", r))]
           /\ UNCHANGED <<requests, timeout>>
  <2>1. outcome' = [outcome EXCEPT ![r] = <<Promise!Error(r)>>]
    <3>1. Append(outcome[r], Result("error", r)) = <<Result("error", r)>>
      BY <1>5
    <3> QED
      BY <1>3, <1>5, <1>9, <3>1 DEF Promise!Error, Result
  <2>2. Promise!Call(r)
    BY <1>4, <2>1 DEF Promise!Call
  <2>3. \A q \in Req : q # r => outcome'[q] = outcome[q]
    BY <1>3, <1>5, <2>1
  <2>4. r \notin requests
    BY <1>4, <1>5
  <2>5. WaitingOnce'
    <3>1. requests' = timeout' /\ requests' \subseteq Called'
      BY <1>4, <1>5, <1>9
    <3>2. \A q \in Req : q \notin Called' => outcome'[q] = <<>>
      BY <1>4, <1>5, <2>3
    <3>3. ASSUME NEW q \in requests'
          PROVE  outcome'[q] = <<>> \/ (kind' \in {"ws", "ws2"} /\ link'[q[1]].told /\ Len(outcome'[q]) = 1)
      <4>1. q \in requests /\ q # r /\ q \in Req
        BY <1>5, <1>9, <2>4
      <4>2. outcome'[q] = outcome[q]
        BY <2>3, <4>1
      <4> QED
        BY <1>1, <1>8, <4>1, <4>2
    <3> QED
      BY <3>1, <3>2, <3>3 DEF WaitingOnce
  <2> QED
    BY <1>1, <1>3, <1>6, <1>7, <2>2, <2>5 DEF Inv, Promise!Next, PromiseStep
<1>10. CASE /\ requests' = requests \union {r} /\ timeout' = timeout \union {r}
            /\ outcome' = outcome
  <2>1. Promise!Call(r)
    BY <1>4, <1>10 DEF Promise!Call
  <2>2. WaitingOnce'
    <3>1. requests' = timeout' /\ requests' \subseteq Called'
      BY <1>4, <1>5, <1>10
    <3>2. \A q \in Req : q \notin Called' => outcome'[q] = <<>>
      BY <1>4, <1>5, <1>10
    <3>3. ASSUME NEW q \in requests'
          PROVE  outcome'[q] = <<>> \/ (kind' \in {"ws", "ws2"} /\ link'[q[1]].told /\ Len(outcome'[q]) = 1)
      BY <1>1, <1>5, <1>8, <1>10
    <3> QED
      BY <3>1, <3>2, <3>3 DEF WaitingOnce
  <2> QED
    BY <1>1, <1>3, <1>6, <1>7, <2>1, <2>2 DEF Inv, Promise!Next, PromiseStep
<1> QED
  BY <1>2, <1>9, <1>10

\* What a mailbox has not been told, its calls have not been told.
LEMMA NotTold ==
  ASSUME Inv, NEW r \in requests, ~ link[r[1]].told
  PROVE  r \in Called /\ outcome[r] = <<>>
<1>1. r \in Called
  BY DEF Inv, WaitingOnce
<1>2. outcome[r] = <<>> \/ (kind \in {"ws", "ws2"} /\ link[r[1]].told /\ Len(outcome[r]) = 1)
  BY DEF Inv, WaitingOnce
<1> QED
  BY <1>1, <1>2

LEMMA ReceiveStep ==
  ASSUME Inv, NEW m \in Mailbox, Receive(m)
  PROVE  Inv' /\ PromiseStep
<1>1. /\ Typed' /\ OneLink(m) /\ link[m].down # <<>>
      /\ link'[m].state = link[m].state /\ link'[m].told = link[m].told /\ link'[m].up = link[m].up
      /\ OwnPackets(m, link[m].down) => OwnPackets(m, link'[m].down)
      /\ UNCHANGED <<kind, buffered, mailbox, acceptor, running>>
  BY ReceiveTyped DEF Inv
<1>2. PICK known \in SUBSET Req, taken \in Seq(Responses) :
        /\ Answered(m, known, taken)
        /\ OwnPackets(m, link[m].down) => OwnAll(m, taken)
  BY ReceiveTyped DEF Inv
<1>3. ~ link[m].told
  BY <1>1 DEF Inv, LinksAgree
<1>4. Called' = Called
  BY <1>1 DEF Called
<1>5. LinksAgree'
  BY <1>1 DEF Inv, LinksAgree, OneLink
<1>6. AnswersOwn' /\ NoQueues'
  BY <1>1, SameQueues DEF OneLink
<1>7. \A r \in known : r \in requests /\ r[1] = m /\ r \in Named(m, taken)
  BY <1>2 DEF Answered, Named
<1>8. \A r \in known : r \in Called /\ outcome[r] = <<>>
  BY <1>3, <1>7, NotTold
<1> DEFINE result == [r \in known |-> Returned(m, taken, r)]
<1>9. \A r \in known : result[r] \in Promise!Results(r)
  <2> SUFFICES ASSUME NEW r \in known PROVE Returned(m, taken, r) \in Promise!Results(r)
    OBVIOUS
  <2>1. r \in Req /\ r \in Named(m, taken)
    BY <1>7
  <2>2. /\ \/ Returned(m, taken, r) = Result("error", r)
           \/ \E q \in Req : Returned(m, taken, r) = Result("answer", q)
        /\ OwnAll(m, taken) => Returned(m, taken, r) \in {Result("answer", r), Result("error", r)}
    BY <2>1, ReturnedIs
  <2>3. CASE kind = "tcp" /\ buffered
    BY <2>1, <2>2, <2>3 DEF Promise!Results, Promise!Answer, Promise!Error, Result
  <2>4. CASE ~ (kind = "tcp" /\ buffered)
    <3>1. OwnAll(m, taken)
      BY <1>2, <2>4 DEF Inv, AnswersOwn, OwnOf
    <3> QED
      BY <2>2, <3>1 DEF Promise!Results, Promise!Answer, Promise!Error, Result
  <2> QED
    BY <2>3, <2>4
<1>10. /\ outcome' = [r \in Req |-> IF r \in known THEN Append(outcome[r], result[r]) ELSE outcome[r]]
       /\ result = [r \in known |-> result[r]]
  BY <1>2 DEF Answered
<1> HIDE DEF result
<1>11. PromiseStep
  BY <1>1, <1>4, <1>8, <1>9, <1>10, ResolveStep DEF Inv
<1>12. WaitingOnce'
  <2>1. requests = timeout /\ requests \subseteq Called /\ Called \subseteq Req
    BY DEF Inv, WaitingOnce, Called
  <2>2. requests' = timeout' /\ requests' = requests \ known
    BY <1>2, <2>1 DEF Answered
  <2>3. \A r \in Req : r \notin Called' => outcome'[r] = <<>>
    BY <1>4, <1>8, <1>10 DEF Inv, WaitingOnce
  <2>4. ASSUME NEW r \in requests'
        PROVE  outcome'[r] = <<>> \/ (kind' \in {"ws", "ws2"} /\ link'[r[1]].told /\ Len(outcome'[r]) = 1)
    <3>1. r \in requests /\ r \in Req /\ r \notin known /\ r[1] \in Mailbox
      BY <2>1, <2>2, ReqIs
    <3>2. outcome[r] = <<>> \/ (kind \in {"ws", "ws2"} /\ link[r[1]].told /\ Len(outcome[r]) = 1)
      BY <3>1 DEF Inv, WaitingOnce
    <3>3. outcome'[r] = outcome[r] /\ link'[r[1]].told = link[r[1]].told
      BY <1>1, <1>10, <3>1 DEF OneLink
    <3> QED
      BY <1>1, <3>2, <3>3
  <2> QED
    BY <1>4, <2>1, <2>2, <2>3, <2>4 DEF WaitingOnce
<1> QED
  BY <1>1, <1>5, <1>6, <1>11, <1>12 DEF Inv

\* The callbacks of a mailbox that is told run, with what each transport gives them.
LEMMA ToldInv ==
  ASSUME Inv, NEW m \in Mailbox, Told(m), UNCHANGED <<requests, timeout>>,
         \A r \in Req : r \notin Pending(m) => outcome'[r] = outcome[r],
         outcome' \in [Req -> Seq([what : {"answer", "error", "empty"}, of : Req])],
         \A r \in Pending(m) : outcome'[r] = <<>> \/ (kind \in {"ws", "ws2"} /\ Len(outcome'[r]) = 1)
  PROVE  Inv' /\ Called' = Called
<1>1. /\ OneLink(m) /\ OneMailbox(m)
      /\ link'[m].state # "up" /\ link'[m].told
      /\ link'[m].up = <<>> /\ link'[m].down = <<>>
      /\ mailbox'[m].state = "closed" /\ mailbox'[m].sent = mailbox[m].sent
      /\ UNCHANGED <<kind, buffered, acceptor, running>>
  BY ToldTyped DEF Inv
<1>2. Typed'
  BY ToldStep DEF Inv
<1>3. Called' = Called
  BY <1>1, ReqIs DEF Called, OneMailbox
<1>4. LinksAgree'
  BY <1>1 DEF Inv, LinksAgree, OneMailbox, OneLink
<1>5. AnswersOwn' /\ NoQueues'
  BY <1>1, SameQueues DEF OneLink, OwnPackets
<1>6. requests = timeout /\ requests \subseteq Called /\ Called \subseteq Req
  BY DEF Inv, WaitingOnce, Called
<1>7. \A r \in Req : r \notin Called' => outcome'[r] = <<>>
  BY <1>3, <1>6 DEF Inv, WaitingOnce, Pending
<1>8. ASSUME NEW r \in requests'
      PROVE  outcome'[r] = <<>> \/ (kind' \in {"ws", "ws2"} /\ link'[r[1]].told /\ Len(outcome'[r]) = 1)
  <2>1. r \in requests /\ r \in Req /\ r[1] \in Mailbox
    BY <1>6, ReqIs
  <2>2. CASE r[1] = m
    BY <1>1, <2>1, <2>2 DEF Pending
  <2>3. CASE r[1] # m
    <3>1. outcome'[r] = outcome[r] /\ link'[r[1]] = link[r[1]]
      BY <1>1, <2>1, <2>3 DEF Pending, OneLink
    <3>2. outcome[r] = <<>> \/ (kind \in {"ws", "ws2"} /\ link[r[1]].told /\ Len(outcome[r]) = 1)
      BY <2>1 DEF Inv, WaitingOnce
    <3> QED
      BY <1>1, <3>1, <3>2
  <2> QED
    BY <2>2, <2>3
<1>9. WaitingOnce'
  BY <1>3, <1>6, <1>7, <1>8 DEF WaitingOnce
<1> QED
  BY <1>2, <1>3, <1>4, <1>5, <1>9 DEF Inv

\* The calls of a mailbox that was not told have had no callback.
LEMMA PendingIs ==
  ASSUME Inv, NEW m \in Mailbox, Told(m)
  PROVE  \A r \in Pending(m) : r \in Req /\ r \in Called /\ outcome[r] = <<>>
<1>1. ~ link[m].told
  BY DEF Told
<1> QED
  BY <1>1, NotTold DEF Pending, Called

LEMMA ToldAloneStep ==
  ASSUME Inv, NEW m \in Mailbox, Told(m), UNCHANGED callbacks
  PROVE  Inv' /\ PromiseStep
<1>1. UNCHANGED <<requests, timeout, outcome>>
  BY DEF callbacks
<1>2. Inv' /\ Called' = Called
  BY <1>1, PendingIs, ToldInv DEF Inv, Typed
<1>3. UNCHANGED <<kind, buffered>>
  BY ToldTyped DEF Inv
<1> QED
  BY <1>1, <1>2, <1>3 DEF PromiseStep, Promise!vars

LEMMA ToldAllStep ==
  ASSUME Inv, NEW m \in Mailbox, Told(m), UNCHANGED <<requests, timeout>>,
         NEW what \in {"error", "empty"},
         (kind = "ws" /\ what = "error") \/ kind = "ws2",
         outcome' = [r \in Req |-> IF r \in Pending(m) THEN Append(outcome[r], Result(what, r)) ELSE outcome[r]]
  PROVE  Inv' /\ PromiseStep
<1>1. \A r \in Pending(m) : r \in Req /\ r \in Called /\ outcome[r] = <<>>
  BY PendingIs
<1>2. outcome' \in [Req -> Seq([what : {"answer", "error", "empty"}, of : Req])]
  BY OutcomeTyped DEF Inv
<1>3. \A r \in Pending(m) : Len(outcome'[r]) = 1
  <2> TAKE r \in Pending(m)
  <2>1. outcome'[r] = Append(<<>>, Result(what, r))
    BY <1>1
  <2> QED
    BY <2>1, AppendEmpty
<1>4. kind \in {"ws", "ws2"}
  OBVIOUS
<1>5. \A r \in Req : r \notin Pending(m) => outcome'[r] = outcome[r]
  OBVIOUS
<1>6. Inv' /\ Called' = Called
  BY <1>2, <1>3, <1>4, <1>5, ToldInv
<1>7. UNCHANGED <<kind, buffered>>
  BY ToldTyped DEF Inv
<1> DEFINE result == [r \in Pending(m) |-> Result(what, r)]
<1>8. \A r \in Pending(m) : result[r] \in Promise!Results(r)
  BY DEF Promise!Results, Promise!Error, Promise!Empty, Result
<1>9. /\ result = [r \in Pending(m) |-> result[r]] /\ Pending(m) \in SUBSET Req
      /\ outcome' = [r \in Req |-> IF r \in Pending(m) THEN Append(outcome[r], result[r]) ELSE outcome[r]]
  BY <1>1
<1> HIDE DEF result
<1>10. PromiseStep
  BY <1>1, <1>6, <1>7, <1>8, <1>9, ResolveStep DEF Inv
<1> QED
  BY <1>6, <1>10

LEMMA TimeoutInv ==
  ASSUME Inv, NEW r \in Req, TimeoutFires(r),
         UNCHANGED <<kind, buffered, mailbox, link, acceptor, running>>,
         \A q \in Req \ {r} : outcome'[q] = outcome[q],
         outcome' \in [Req -> Seq([what : {"answer", "error", "empty"}, of : Req])]
  PROVE  Inv' /\ Called' = Called /\ r \in requests
<1>1. r \in timeout /\ timeout' = timeout \ {r} /\ requests' = requests \ {r}
  BY DEF TimeoutFires
<1>2. Typed'
  BY TimeoutTyped DEF Inv
<1>3. Called' = Called
  BY DEF Called
<1>4. LinksAgree' /\ AnswersOwn' /\ NoQueues'
  BY SameQueues DEF Inv, LinksAgree
<1>5. requests = timeout /\ requests \subseteq Called /\ Called \subseteq Req
  BY DEF Inv, WaitingOnce, Called
<1>6. \A q \in Req : q \notin Called' => outcome'[q] = <<>>
  BY <1>1, <1>3, <1>5 DEF Inv, WaitingOnce
<1>7. ASSUME NEW q \in requests'
      PROVE  outcome'[q] = <<>> \/ (kind' \in {"ws", "ws2"} /\ link'[q[1]].told /\ Len(outcome'[q]) = 1)
  <2>1. q \in requests /\ q \in Req \ {r}
    BY <1>1, <1>5
  <2>2. outcome[q] = <<>> \/ (kind \in {"ws", "ws2"} /\ link[q[1]].told /\ Len(outcome[q]) = 1)
    BY <2>1 DEF Inv, WaitingOnce
  <2>3. outcome'[q] = outcome[q]
    BY <2>1
  <2> QED
    BY <2>2, <2>3
<1>8. WaitingOnce'
  BY <1>1, <1>3, <1>5, <1>6, <1>7 DEF WaitingOnce
<1> QED
  BY <1>1, <1>2, <1>3, <1>4, <1>5, <1>8 DEF Inv

\* The timer of a mailbox calls back; after a lost ws connection it does so again.
LEMMA CallsBackLateStep ==
  ASSUME Inv, NEW r \in Req, kind \in {"mqtt", "ws"}, CallsBackLate(r)
  PROVE  Inv' /\ PromiseStep
<1>1. /\ TimeoutFires(r) /\ outcome' = [outcome EXCEPT ![r] = Append(@, Result("error", r))]
      /\ UNCHANGED <<kind, buffered, mailbox, link, acceptor, running>>
  BY DEF CallsBackLate, server
<1>2. outcome = [q \in Req |-> outcome[q]]
  BY DEF Inv, Typed
<1>3. outcome' = [q \in Req |-> IF q \in {r} THEN Append(outcome[q], Result("error", q)) ELSE outcome[q]]
  BY <1>1, <1>2
<1>4. outcome' \in [Req -> Seq([what : {"answer", "error", "empty"}, of : Req])]
  BY <1>3, OutcomeTyped DEF Inv
<1>5. Inv' /\ Called' = Called /\ r \in requests
  BY <1>1, <1>3, <1>4, TimeoutInv
<1>6. r \in Called
  BY <1>5 DEF Inv, WaitingOnce
<1>7. outcome[r] = <<>> \/ (kind \in {"ws", "ws2"} /\ link[r[1]].told /\ Len(outcome[r]) = 1)
  BY <1>5 DEF Inv, WaitingOnce
<1>8. CASE outcome[r] = <<>>
  <2> DEFINE result == [q \in {r} |-> Result("error", q)]
  <2>1. \A q \in {r} : result[q] \in Promise!Results(q)
    BY DEF Promise!Results, Promise!Error, Result
  <2>2. /\ result = [q \in {r} |-> result[q]] /\ {r} \in SUBSET Req
        /\ outcome' = [q \in Req |-> IF q \in {r} THEN Append(outcome[q], result[q]) ELSE outcome[q]]
    BY <1>3
  <2>3. \A q \in {r} : q \in Called /\ outcome[q] = <<>>
    BY <1>6, <1>8
  <2> HIDE DEF result
  <2>4. PromiseStep
    BY <1>1, <1>5, <2>1, <2>2, <2>3, ResolveStep DEF Inv
  <2> QED
    BY <1>5, <2>4
<1>9. CASE kind = "ws" /\ Len(outcome[r]) = 1
  <2>1. outcome' = [outcome EXCEPT ![r] = Append(@, Promise!Error(r))]
    BY <1>1 DEF Promise!Error, Result
  <2>2. Promise!Repeat(r)
    BY <1>5, <1>9, <2>1 DEF Promise!Repeat
  <2> QED
    BY <1>1, <1>5, <2>2 DEF Promise!Next, PromiseStep
<1> QED
  BY <1>7, <1>8, <1>9

LEMMA NeverCallsBackStep ==
  ASSUME Inv, NEW r \in Req, NeverCallsBack(r)
  PROVE  Inv' /\ PromiseStep
<1>1. /\ TimeoutFires(r)
      /\ UNCHANGED <<kind, buffered, mailbox, link, outcome, acceptor, running>>
  BY DEF NeverCallsBack, server
<1>2. outcome' \in [Req -> Seq([what : {"answer", "error", "empty"}, of : Req])]
  BY <1>1 DEF Inv, Typed
<1>3. Inv' /\ Called' = Called
  BY <1>1, <1>2, TimeoutInv
<1> QED
  BY <1>1, <1>3 DEF PromiseStep, Promise!vars

-----------------------------------------------------------------------------
(* The theorems *)

LEMMA InvInit == Init => Inv /\ Promise!Init
<1> SUFFICES ASSUME Init PROVE Inv /\ Promise!Init
  OBVIOUS
<1>1. Typed
  BY TypedInit
<1>2. Called = {}
  BY ReqIs DEF Init, Called
<1>3. LinksAgree
  BY DEF Init, LinksAgree
<1>4. WaitingOnce
  BY <1>2 DEF Init, WaitingOnce
<1>5. NoQueues /\ AnswersOwn
  BY KeyIs DEF Init, NoQueues, AnswersOwn, OwnOf, OwnPackets, OwnAll
<1>6. Promise!Init
  BY <1>2 DEF Init, Promise!Init
<1> QED
  BY <1>1, <1>3, <1>4, <1>5, <1>6 DEF Inv

LEMMA InvStep == Inv /\ [Next]_vars => Inv' /\ PromiseStep
<1> SUFFICES ASSUME Inv, [Next]_vars PROVE Inv' /\ PromiseStep
  OBVIOUS
<1>1. CASE UNCHANGED vars
  <2>1. UNCHANGED <<kind, buffered, mailbox, link, requests, timeout, outcome, acceptor, running>>
    BY <1>1 DEF vars
  <2>2. Typed'
    BY <2>1 DEF Inv, Typed, Acceptors, Keys
  <2>3. LinksAgree' /\ AnswersOwn' /\ NoQueues'
    BY <2>1, SameQueues DEF Inv, LinksAgree
  <2>4. WaitingOnce' /\ UNCHANGED Promise!vars
    BY <2>1, QuietStep DEF Inv
  <2> QED
    BY <2>2, <2>3, <2>4 DEF Inv, PromiseStep
<1>2. ASSUME NEW m \in Mailbox, WsDisconnect(m) PROVE Inv' /\ PromiseStep
  <2>1. /\ kind = "ws" /\ Told(m) /\ UNCHANGED <<requests, timeout>>
        /\ outcome' = [r \in Req |->
             IF r \in Pending(m) THEN Append(outcome[r], Result("error", r)) ELSE outcome[r]]
    BY <1>2 DEF WsDisconnect, CalledBack
  <2> QED
    BY <2>1, ToldAllStep
<1>3. ASSUME NEW m \in Mailbox, Ws2Close(m) PROVE Inv' /\ PromiseStep
  <2>1. /\ kind = "ws2" /\ Told(m) /\ UNCHANGED <<requests, timeout>>
        /\ outcome' = [r \in Req |->
             IF r \in Pending(m) THEN Append(outcome[r], Result("empty", r)) ELSE outcome[r]]
    BY <1>3 DEF Ws2Close, CalledBack
  <2> QED
    BY <2>1, ToldAllStep
<1>4. CASE \E m \in Mailbox :
             \/ Connect(m) \/ Opens(m) \/ ConnectFails(m) \/ CheckKeepAlive(m) \/ Pong(m)
             \/ Flush(m) \/ Connection(m) \/ OnSocketClose(m) \/ Lose(m) \/ Arrives(m)
  BY <1>4, LocalStep, FlushStep, ConnectionStep, SocketCloseStep, LoseStep, ArrivesStep DEF PromiseStep
<1>5. CASE \E m \in Mailbox :
             \/ Send(m) \/ Receive(m)
             \/ kind \in {"mqtt", "tcp"} /\ Told(m) /\ UNCHANGED callbacks
  BY <1>5, SendStep, ReceiveStep, ToldAloneStep
<1>6. CASE \E r \in Req :
             \/ kind \in {"mqtt", "ws"} /\ CallsBackLate(r)
             \/ NeverCallsBack(r) \/ MethodAnswers(r)
  BY <1>6, CallsBackLateStep, NeverCallsBackStep, MethodStep DEF PromiseStep
<1>7. CASE Listen \/ Stop \/ FlushServer
  BY <1>7, ServerStep, FlushServerStep DEF PromiseStep
<1>8. CASE Next
  BY <1>2, <1>3, <1>4, <1>5, <1>6, <1>7, <1>8, NextSteps
<1> QED
  BY <1>1, <1>8

\* Mailboxes, connections, acceptors and calls stay well typed, whatever arrives,
\* is lost or times out (the mailboxes and acceptors of rpc/lib).
THEOREM TypeCorrect == Spec => []TypeOK
<1>1. Inv => TypeOK
  BY TypedIsTypeOK DEF Inv
<1> QED
  BY <1>1, InvInit, InvStep, PTL DEF Spec

\* Every step of a mailbox and its acceptor is one the promise of a call allows, or
\* one its caller does not see: a call is called back once, with its own answer or
\* an error, but for the weaknesses that RpcPromise names (send, processMsg,
\* setCbTimeout, flush, the 'close' and 'disconnect' events).
THEOREM PromiseSafe == Spec => Promise!Safe
<1>1. Inv /\ [Next]_vars => Inv' /\ [Promise!Next]_(Promise!vars)
  BY InvStep DEF PromiseStep
<1>2. Spec => Promise!Init /\ [][Promise!Next]_(Promise!vars)
  BY <1>1, InvInit, PTL DEF Spec
<1> QED
  BY <1>2 DEF Promise!Safe
=============================================================================
