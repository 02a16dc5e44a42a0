------------------------- MODULE MailStationProofs -------------------------
(***************************************************************************)
(* What is proved of the rpc client for every set of servers and requests, *)
(* every pending size and every configuration.                             *)
(***************************************************************************)
EXTENDS MailStation, SequenceTheorems, TLAPS

(***************************************************************************)
(* Facts about the operators of the model.                                 *)
(***************************************************************************)
LEMMA AnswerType ==
  ASSUME TypeOK, NEW R \in SUBSET Req, NEW n \in Nat, Answer(R, n)
  PROVE  answers' \in [Req -> Nat]
BY DEF Answer, TypeOK

LEMMA FailureAnswersType == FailureAnswers \in Nat
BY DEF FailureAnswers

LEMMA ParkType ==
  ASSUME TypeOK, NEW r \in Req, NEW s \in Server, Park(r, s)
  PROVE  pendings' \in [Server -> Seq(Req)]
BY DEF Park, TypeOK

LEMMA DispatchingType ==
  ASSUME TypeOK, NEW r \in Req, NEW s \in Server, Dispatching(r, s)
  PROVE  agenda' \in Seq(Call)
BY HeadTailProperties DEF Dispatching, TypeOK, Idle

LEMMA FlushCallsType ==
  ASSUME TypeOK, NEW s \in Server
  PROVE  FlushCalls(s) \in Seq(Call)
<1>1. pendings[s] \in Seq(Req) /\ Len(pendings[s]) \in Nat
  BY DEF TypeOK
<1>2. \A i \in 1..(Len(pendings[s]) + 1) : FlushCalls(s)[i] \in Call
  BY <1>1 DEF FlushCalls, Call
<1>3. FlushCalls(s) \in [1..(Len(pendings[s]) + 1) -> Call]
  BY <1>2 DEF FlushCalls
<1>4. Len(pendings[s]) + 1 \in Nat
  BY <1>1
<1> QED
  BY <1>3, <1>4, IsASeq

\* Mailboxes created so far are among those that may be created.
LEMMA CreatedType == TypeOK => Created \subseteq Box
BY ConstantsAssumption DEF TypeOK, Created, Box

LEMMA SendType ==
  ASSUME TypeOK, NEW r \in Req, NEW s \in Server, Send(r, s)
  PROVE  /\ requests' \in [Box -> SUBSET Req]
         /\ queue' \in [Box -> Seq(Req)]
         /\ wire' \in [Box -> SUBSET Req]
         /\ answers' \in [Req -> Nat]
<1> DEFINE b == mailboxes[s]
<1>1. CASE /\ Answer({r}, FailureAnswers)
           /\ UNCHANGED <<requests, queue, wire>>
  BY <1>1, AnswerType, FailureAnswersType DEF TypeOK
<1>2. CASE /\ AnswerSendError({r})
           /\ UNCHANGED <<requests, queue, wire>>
  <2>1. FailureAnswers + 1 \in Nat
    BY FailureAnswersType
  <2>2. Answer({r}, FailureAnswers + 1)
    BY <1>2 DEF AnswerSendError
  <2>3. answers' \in [Req -> Nat]
    BY <2>1, <2>2, AnswerType
  <2> QED
    BY <1>2, <2>3 DEF TypeOK
<1>3. CASE b \in connected \ closed /\ Transmit(r, b) /\ UNCHANGED answers
  <2>1. b \in Box
    BY <1>3, CreatedType DEF TypeOK
  <2>2. requests' \in [Box -> SUBSET Req]
    BY <1>3, <2>1 DEF TypeOK, Transmit
  <2>3. CASE Buffered
    <3>1. queue' = [queue EXCEPT ![b] = Append(@, r)] /\ wire' = wire
      BY <1>3, <2>3 DEF Transmit
    <3>2. Append(queue[b], r) \in Seq(Req)
      BY <2>1 DEF TypeOK
    <3> QED
      BY <1>3, <2>1, <2>2, <3>1, <3>2 DEF TypeOK
  <2>4. CASE ~ Buffered
    <3>1. wire' = [wire EXCEPT ![b] = @ \cup {r}] /\ queue' = queue
      BY <1>3, <2>4 DEF Transmit
    <3> QED
      BY <1>3, <2>1, <2>2, <3>1 DEF TypeOK
  <2> QED
    BY <2>3, <2>4
<1> QED
  BY <1>1, <1>2, <1>3 DEF Send

-----------------------------------------------------------------------------
(***************************************************************************)
(* Type correctness.  TypeOK is inductive on its own.                      *)
(***************************************************************************)
LEMMA TypeInit == Init => TypeOK
<1> SUFFICES ASSUME Init PROVE TypeOK
  OBVIOUS
<1>1. <<>> \in Seq(Req) /\ <<>> \in Seq(Server) /\ <<>> \in Seq(Call)
  OBVIOUS
<1>2. Len(owner) = 0 /\ Len(opener) = 0
  BY DEF Init
<1> QED
  BY <1>1, <1>2, ConstantsAssumption DEF Init, TypeOK

LEMMA TypeLifecycle == TypeOK /\ Lifecycle => TypeOK'
<1> SUFFICES ASSUME TypeOK, Lifecycle PROVE TypeOK'
  OBVIOUS
<1> USE DEF station, routing, links, traffic, Created
<1>1. CASE Start
  BY <1>1 DEF Start, TypeOK
<1>2. CASE GraceExpires
  BY <1>2 DEF GraceExpires, Close, Registered, TypeOK
<1>3. ASSUME NEW force \in BOOLEAN, Stop(force)
      PROVE  TypeOK'
  <2>1. grace' \in {"off", "armed", "fired"}
    BY <1>3 DEF Stop
  <2>2. closed' \subseteq Created /\ connected' \subseteq Created
    <3>1. CASE force
      <4>1. Registered \subseteq Created
        BY DEF Registered, TypeOK
      <4>2. closed' = closed \cup Registered /\ connected' = connected \ Registered
        BY <1>3, <3>1 DEF Stop, Close
      <4> QED
        BY <4>1, <4>2 DEF TypeOK
    <3>2. CASE ~ force
      BY <1>3, <3>2 DEF Stop, TypeOK
    <3> QED
      BY <3>1, <3>2
  <2> QED
    BY <1>3, <2>1, <2>2 DEF Stop, TypeOK
<1> QED
  BY <1>1, <1>2, <1>3 DEF Lifecycle

LEMMA TypeMembership == TypeOK /\ Membership => TypeOK'
<1> SUFFICES ASSUME TypeOK, Membership PROVE TypeOK'
  OBVIOUS
<1> USE DEF station, routing, links, traffic, Created
<1>1. ASSUME NEW s \in Server, AddServer(s)
      PROVE  TypeOK'
  BY <1>1 DEF AddServer, TypeOK
<1>2. ASSUME NEW s \in Server, RemoveServer(s)
      PROVE  TypeOK'
  BY <1>2 DEF RemoveServer, Forget, Close, TypeOK
<1>3. ASSUME NEW S \in SUBSET Server, ReplaceServers(S)
      PROVE  TypeOK'
  BY <1>3 DEF ReplaceServers, TypeOK
<1> QED
  BY <1>1, <1>2, <1>3 DEF Membership

LEMMA TypeTurn == TypeOK /\ Turn => TypeOK'
<1> SUFFICES ASSUME TypeOK, Turn PROVE TypeOK'
  OBVIOUS
<1> USE DEF station, routing, links, traffic, Created
<1>1. ASSUME NEW s \in Server, ClearPending(s)
      PROVE  TypeOK'
  <2>1. agenda' \in Seq(Call)
    BY <1>1, HeadTailProperties DEF ClearPending, Idle, TypeOK
  <2>2. pendings' \in [Server -> Seq(Req)]
    BY <1>1 DEF ClearPending, TypeOK
  <2> QED
    BY <1>1, <2>1, <2>2 DEF ClearPending, TypeOK
<1>2. ASSUME NEW r \in Req, NEW s \in Server, DispatchNotStarted(r, s)
      PROVE  TypeOK'
  <2>1. answers' \in [Req -> Nat] /\ agenda' \in Seq(Call)
    BY <1>2, AnswerType, FailureAnswersType, DispatchingType
       DEF DispatchNotStarted
  <2> QED
    BY <1>2, <2>1 DEF DispatchNotStarted, TypeOK
<1>3. ASSUME NEW r \in Req, NEW s \in Server, DispatchNoTarget(r, s)
      PROVE  TypeOK'
  <2>1. answers' \in [Req -> Nat] /\ agenda' \in Seq(Call)
    BY <1>3, AnswerType, FailureAnswersType, DispatchingType
       DEF DispatchNoTarget
  <2>2. pendings' \in [Server -> Seq(Req)]
    BY <1>3, ParkType DEF DispatchNoTarget
  <2> QED
    BY <1>3, <2>1, <2>2 DEF DispatchNoTarget, TypeOK
<1>4. ASSUME NEW r \in Req, NEW s \in Server, DispatchLazyConnect(r, s)
      PROVE  TypeOK'
  <2>1. agenda' \in Seq(Call) /\ pendings' \in [Server -> Seq(Req)]
    BY <1>4, DispatchingType, ParkType DEF DispatchLazyConnect
  <2>2. owner' \in Seq(Server) /\ Len(owner') = Len(owner) + 1
    BY <1>4 DEF DispatchLazyConnect, TypeOK
  <2>3. opener' \in Seq(Req) /\ Len(opener') = Len(opener) + 1
    BY <1>4 DEF DispatchLazyConnect, TypeOK
  <2>4. Len(owner') \in 0..MaxBox /\ Len(owner) + 1 \in Box
    BY <1>4, <2>2, ConstantsAssumption DEF DispatchLazyConnect, TypeOK, Box
  <2>5. Created \subseteq Created' /\ Len(owner) + 1 \in Created'
    BY <2>2, <2>4 DEF TypeOK
  <2>6. mailboxes' \in [Server -> Created' \cup {NoBox}]
    BY <1>4, <2>5 DEF DispatchLazyConnect, TypeOK
  <2>7. /\ acked' \subseteq Created' /\ connected' \subseteq Created'
        /\ closed' \subseteq Created' /\ listening' \subseteq Created'
        /\ dead' \subseteq Created' /\ cut' \subseteq Created'
    BY <1>4, <2>5 DEF DispatchLazyConnect, TypeOK
  <2> HIDE DEF Created
  <2> QED
    BY <1>4, <2>1, <2>2, <2>3, <2>4, <2>6, <2>7 DEF DispatchLazyConnect, TypeOK
<1>5. ASSUME NEW r \in Req, NEW s \in Server, DispatchConnecting(r, s)
      PROVE  TypeOK'
  <2>1. agenda' \in Seq(Call) /\ pendings' \in [Server -> Seq(Req)]
    BY <1>5, DispatchingType, ParkType DEF DispatchConnecting
  <2> QED
    BY <1>5, <2>1 DEF DispatchConnecting, TypeOK
<1>6. ASSUME NEW r \in Req, NEW s \in Server, DispatchSend(r, s)
      PROVE  TypeOK'
  <2>1. agenda' \in Seq(Call)
    BY <1>6, DispatchingType DEF DispatchSend
  <2>2. CASE Filtered
    <3>1. filtering' \subseteq Req \X Server
      BY <1>6, <2>2 DEF DispatchSend, TypeOK
    <3>2. UNCHANGED <<station, routing, links, requests, queue, wire, invoked,
                      answers>>
      BY <1>6, <2>2 DEF DispatchSend
    <3> QED
      BY <2>1, <3>1, <3>2 DEF TypeOK
  <2>3. CASE ~ Filtered
    <3>1. Send(r, s) /\ filtering' = filtering
      BY <1>6, <2>3 DEF DispatchSend
    <3>2. /\ requests' \in [Box -> SUBSET Req]
          /\ queue' \in [Box -> Seq(Req)]
          /\ wire' \in [Box -> SUBSET Req]
          /\ answers' \in [Req -> Nat]
      BY <3>1, SendType
    <3>3. UNCHANGED <<station, routing, links, filtering, invoked>>
      BY <1>6, <3>1 DEF DispatchSend
    <3> QED
      BY <2>1, <3>2, <3>3 DEF TypeOK
  <2> QED
    BY <2>2, <2>3
<1> QED
  BY <1>1, <1>2, <1>3, <1>4, <1>5, <1>6 DEF Turn

LEMMA TypeCalls == TypeOK /\ Calls => TypeOK'
<1> SUFFICES ASSUME TypeOK, Calls PROVE TypeOK'
  OBVIOUS
<1> USE DEF station, routing, links, traffic, Created
<1>1. ASSUME NEW r \in Req, NEW s \in Server, Invoke(r, s)
      PROVE  TypeOK'
  <2>1. CASE state = "started"
    <3>1. [op |-> "dispatch", req |-> r, srv |-> s] \in Call
      BY DEF Call
    <3>2. agenda' = <<[op |-> "dispatch", req |-> r, srv |-> s]>>
      BY <1>1, <2>1 DEF Invoke
    <3>3. agenda' \in Seq(Call)
      BY <3>1, <3>2
    <3> QED
      BY <1>1, <2>1, <3>3 DEF Invoke, TypeOK
  <2>2. CASE state # "started"
    <3>1. answers' \in [Req -> Nat]
      BY <1>1, <2>2, AnswerType DEF Invoke
    <3> QED
      BY <1>1, <2>2, <3>1 DEF Invoke, TypeOK
  <2> QED
    BY <2>1, <2>2
<1>2. ASSUME NEW r \in Req, NEW s \in Server, BeforeFilterFails(r, s)
      PROVE  TypeOK'
  <2>1. answers' \in [Req -> Nat]
    BY <1>2, AnswerType, FailureAnswersType DEF BeforeFilterFails
  <2> QED
    BY <1>2, <2>1 DEF BeforeFilterFails, TypeOK
<1>3. ASSUME NEW r \in Req, NEW s \in Server, NEW t \in Server,
             BeforeFilterPasses(r, s, t)
      PROVE  TypeOK'
  <2>1. /\ requests' \in [Box -> SUBSET Req]
        /\ queue' \in [Box -> Seq(Req)]
        /\ wire' \in [Box -> SUBSET Req]
        /\ answers' \in [Req -> Nat]
    BY <1>3, SendType DEF BeforeFilterPasses
  <2> QED
    BY <1>3, <2>1 DEF BeforeFilterPasses, TypeOK
<1> QED
  BY <1>1, <1>2, <1>3 DEF Calls

LEMMA TypeLinkEvent == TypeOK /\ LinkEvent => TypeOK'
<1> SUFFICES ASSUME TypeOK, NEW b \in Box,
                    \/ ConnectSucceeds(b)
                    \/ ConnectFails(b)
                    \/ ConnectLost(b)
                    \/ LinkFails(b)
                    \/ Disconnect(b)
                    \/ FlushQueue(b)
             PROVE  TypeOK'
  BY DEF LinkEvent
<1> USE DEF station, routing, links, traffic, Created
<1>1. CASE ConnectSucceeds(b)
  <2>1. owner[b] \in Server
    BY <1>1 DEF ConnectSucceeds, TypeOK, Created
  <2>2. agenda' \in Seq(Call)
    BY <1>1, <2>1, FlushCallsType DEF ConnectSucceeds
  <2> QED
    BY <1>1, <2>2 DEF ConnectSucceeds, TypeOK
<1>2. CASE ConnectFails(b)
  <2>1. opener[b] \in Req
    BY <1>2 DEF ConnectFails, TypeOK, Created
  <2>2. answers' \in [Req -> Nat]
    BY <1>2, <2>1, AnswerType, FailureAnswersType DEF ConnectFails
  <2> QED
    BY <1>2, <2>2 DEF ConnectFails, TypeOK
<1>3. CASE ConnectLost(b)
  <2>1. dead' \subseteq Created
    BY <1>3 DEF ConnectLost, TypeOK
  <2>2. UNCHANGED <<station, routing, owner, opener, acked, connected, closed,
                    listening, cut, traffic, agenda, invoked, answers>>
    BY <1>3 DEF ConnectLost
  <2> QED
    BY <2>1, <2>2 DEF TypeOK
<1>4. CASE LinkFails(b)
  <2>0. b \in listening
    BY <1>4 DEF LinkFails
  <2>1. owner[b] \in Server /\ b \in Created
    BY <2>0 DEF TypeOK
  <2>2. /\ dead' \subseteq Created /\ closed' \subseteq Created
        /\ connected' \subseteq Created
        /\ mailboxes' \in [Server -> Created \cup {NoBox}]
    BY <1>4, <2>1 DEF LinkFails, HearClose, Forget, Close, TypeOK
  <2>3. UNCHANGED <<station, connecting, pendings, owner, opener, acked,
                    listening, cut, traffic, agenda, invoked, answers>>
    BY <1>4 DEF LinkFails
  <2> QED
    BY <2>2, <2>3 DEF TypeOK
<1>5. CASE Disconnect(b)
  <2>1. requests[b] \in SUBSET Req
    BY DEF TypeOK
  <2>2. answers' \in [Req -> Nat]
    <3>1. Answer(requests[b], FailureAnswers + 1)
      BY <1>5 DEF Disconnect, AnswerSendError
    <3>2. FailureAnswers + 1 \in Nat
      BY FailureAnswersType
    <3> QED
      BY <3>1, <3>2, <2>1, AnswerType
  <2>3. /\ dead' \subseteq Created /\ cut' \subseteq Created
        /\ closed' \subseteq Created /\ connected' \subseteq Created
        /\ mailboxes' \in [Server -> Created \cup {NoBox}]
    <3>0. b \in listening
      BY <1>5 DEF Disconnect
    <3>1. owner[b] \in Server /\ b \in Created
      BY <3>0 DEF TypeOK
    <3>2. dead' = dead \cup {b} /\ cut' = cut \cup {b} /\ Forget(owner[b])
      BY <1>5 DEF Disconnect, HearClose
    <3>3. dead' \subseteq Created /\ cut' \subseteq Created
      BY <3>1, <3>2 DEF TypeOK
    <3> QED
      BY <3>1, <3>2, <3>3 DEF Forget, Close, TypeOK
  <2>4. UNCHANGED <<station, connecting, pendings, owner, opener, acked,
                    listening, traffic, agenda, invoked>>
    BY <1>5 DEF Disconnect
  <2> QED
    BY <2>2, <2>3, <2>4 DEF TypeOK
<1>6. CASE FlushQueue(b)
  <2>1. queue[b] \in Seq(Req)
    BY DEF TypeOK
  <2>2. {queue[b][i] : i \in DOMAIN queue[b]} \subseteq Req
    BY <2>1
  <2>3. wire' \in [Box -> SUBSET Req]
    BY <1>6, <2>2 DEF FlushQueue, TypeOK
  <2>4. queue' \in [Box -> Seq(Req)]
    BY <1>6 DEF FlushQueue, TypeOK
  <2> QED
    BY <1>6, <2>3, <2>4 DEF FlushQueue, TypeOK
<1> QED
  BY <1>1, <1>2, <1>3, <1>4, <1>5, <1>6

LEMMA TypeAnswering == TypeOK /\ Answering => TypeOK'
<1> SUFFICES ASSUME TypeOK, NEW b \in Box, NEW r \in Req,
                    Reply(b, r) \/ CallbackTimeout(b, r)
             PROVE  TypeOK'
  BY DEF Answering
<1> USE DEF station, routing, links, traffic, Created
<1>1. CASE Reply(b, r)
  <2>1. wire' \in [Box -> SUBSET Req]
    BY <1>1 DEF Reply, TypeOK
  <2>2. CASE r \in requests[b]
    <3>1. requests' \in [Box -> SUBSET Req]
      <4>1. requests' = [requests EXCEPT ![b] = @ \ {r}]
        BY <1>1, <2>2 DEF Reply
      <4> QED
        BY <4>1 DEF TypeOK
    <3>2. answers' \in [Req -> Nat]
      BY <1>1, <2>2, AnswerType DEF Reply
    <3>3. UNCHANGED <<station, routing, links, queue, filtering, agenda, invoked>>
      BY <1>1 DEF Reply
    <3> QED
      BY <2>1, <3>1, <3>2, <3>3 DEF TypeOK
  <2>3. CASE r \notin requests[b]
    BY <1>1, <2>1, <2>3 DEF Reply, TypeOK
  <2> QED
    BY <2>2, <2>3
<1>2. CASE CallbackTimeout(b, r)
  <2>1. requests' \in [Box -> SUBSET Req]
    BY <1>2 DEF CallbackTimeout, TypeOK
  <2>2. answers' \in [Req -> Nat]
    BY <1>2, AnswerType, FailureAnswersType
       DEF CallbackTimeout, AnswerSendError
  <2> QED
    BY <1>2, <2>1, <2>2 DEF CallbackTimeout, TypeOK
<1> QED
  BY <1>1, <1>2

LEMMA TypeStep == TypeOK /\ [Next]_vars => TypeOK'
<1>1. TypeOK /\ UNCHANGED vars => TypeOK'
  BY DEF TypeOK, vars, station, routing, links, traffic, Created
<1> QED
  BY <1>1, TypeLifecycle, TypeMembership, TypeTurn, TypeCalls, TypeLinkEvent,
     TypeAnswering DEF Next

\* Every reachable state of the rpc client is well typed.
THEOREM TypeCorrect == Spec => []TypeOK
BY TypeInit, TypeStep, PTL DEF Spec

-----------------------------------------------------------------------------
(***************************************************************************)
(* Links.  OneLinkPerServer is inductive over well typed states; Shutdown  *)
(* is the strengthening that SilentAfterShutdown needs: once the mailboxes *)
(* have been closed for good, every mailbox still registered is closed.    *)
(***************************************************************************)
Shutdown ==
  /\ grace # "off" => state = "closed"
  /\ grace = "fired" =>
       \A s \in Server : mailboxes[s] # NoBox => mailboxes[s] \in closed

LinkInv == TypeOK /\ OneLinkPerServer /\ Shutdown

\* The variables that OneLinkPerServer and Shutdown speak of.
linkVars == <<state, grace, mailboxes, owner, closed>>

LEMMA LinkUnchanged ==
  ASSUME LinkInv, UNCHANGED linkVars
  PROVE  OneLinkPerServer' /\ Shutdown'
BY DEF LinkInv, linkVars, OneLinkPerServer, Shutdown, Created

\* Closing every registered mailbox keeps the links in order, if grace fires.
LEMMA LinkCloseAll ==
  ASSUME LinkInv, grace' = "fired", state' = "closed", Close(Registered),
         UNCHANGED <<mailboxes, owner>>
  PROVE  OneLinkPerServer' /\ Shutdown'
<1>1. \A s \in Server : mailboxes[s] # NoBox => mailboxes[s] \in closed'
  BY DEF Close, Registered
<1>2. OneLinkPerServer'
  BY DEF LinkInv, OneLinkPerServer, Close, Created
<1> QED
  BY <1>1, <1>2 DEF Shutdown

\* So does closing and forgetting the mailbox of one server.
LEMMA LinkForget ==
  ASSUME LinkInv, NEW s \in Server, Forget(s), UNCHANGED <<state, grace, owner>>
  PROVE  OneLinkPerServer' /\ Shutdown'
<1>1. \A t \in Server : mailboxes'[t] = IF t = s THEN NoBox ELSE mailboxes[t]
  BY DEF Forget, LinkInv, TypeOK
<1>2. closed' = closed \cup ({mailboxes[s]} \ {NoBox})
  BY DEF Forget, Close
<1>3. ASSUME NEW t \in Server, mailboxes'[t] # NoBox
      PROVE  /\ owner'[mailboxes'[t]] = t
             /\ mailboxes'[t] \in closed' => grace' = "fired"
  <2>1. t # s /\ mailboxes'[t] = mailboxes[t] /\ mailboxes[t] # NoBox
    BY <1>1, <1>3
  <2>2. owner[mailboxes[t]] = t
    BY <2>1 DEF LinkInv, OneLinkPerServer
  <2>3. mailboxes[t] # mailboxes[s]
    BY <2>1, <2>2 DEF LinkInv, OneLinkPerServer
  <2> QED
    BY <1>2, <2>1, <2>2, <2>3 DEF LinkInv, OneLinkPerServer
<1>4. ASSUME ~ ConnectErrors, NEW b \in Created' \ closed'
      PROVE  mailboxes'[owner'[b]] = b
  <2>1. b \in Created \ closed /\ (mailboxes[s] = NoBox \/ b # mailboxes[s])
    BY <1>2 DEF Created
  <2>2. mailboxes[owner[b]] = b /\ owner[b] \in Server /\ b # NoBox
    BY <1>4, <2>1 DEF LinkInv, OneLinkPerServer, TypeOK, Created, NoBox
  <2> QED
    BY <1>1, <2>1, <2>2
<1>5. Shutdown'
  BY <1>1, <1>2 DEF LinkInv, Shutdown
<1> QED
  BY <1>3, <1>4, <1>5 DEF OneLinkPerServer

LEMMA LinkLazyConnect ==
  ASSUME LinkInv, NEW r \in Req, NEW s \in Server, DispatchLazyConnect(r, s)
  PROVE  OneLinkPerServer' /\ Shutdown'
<1> DEFINE n == Len(owner) + 1
<1>1. /\ owner \in Seq(Server) /\ owner' = Append(owner, s)
      /\ mailboxes' = [mailboxes EXCEPT ![s] = n]
      /\ mailboxes \in [Server -> Created \cup {NoBox}]
      /\ mailboxes[s] = NoBox /\ closed' = closed /\ state = "started"
      /\ state' = state /\ grace' = grace /\ closed \subseteq Created
  BY DEF DispatchLazyConnect, LinkInv, TypeOK, links, station
<1>2. /\ \A b \in Created : owner'[b] = owner[b]
      /\ owner'[n] = s
      /\ Created' = Created \cup {n}
      /\ n \notin Created /\ n # NoBox
  BY <1>1 DEF Created, NoBox
<1>3. ASSUME NEW t \in Server, mailboxes'[t] # NoBox
      PROVE  /\ owner'[mailboxes'[t]] = t
             /\ mailboxes'[t] \in closed' => grace' = "fired"
  <2>1. CASE t = s
    BY <1>1, <1>2, <2>1
  <2>2. CASE t # s
    BY <1>1, <1>2, <1>3, <2>2 DEF LinkInv, OneLinkPerServer
  <2> QED
    BY <2>1, <2>2
<1>4. ASSUME ~ ConnectErrors, NEW b \in Created' \ closed'
      PROVE  mailboxes'[owner'[b]] = b
  <2>1. CASE b = n
    BY <1>1, <1>2, <2>1
  <2>2. CASE b # n
    <3>1. b \in Created \ closed /\ owner'[b] = owner[b] /\ b # NoBox
      BY <1>1, <1>2, <2>2 DEF Created, NoBox
    <3>2. mailboxes[owner[b]] = b /\ owner[b] \in Server
      BY <1>1, <1>4, <3>1 DEF LinkInv, OneLinkPerServer, Created
    <3> QED
      BY <1>1, <3>1, <3>2
  <2> QED
    BY <2>1, <2>2
<1>5. Shutdown'
  BY <1>1 DEF LinkInv, Shutdown
<1> QED
  BY <1>3, <1>4, <1>5 DEF OneLinkPerServer

LEMMA LinkStep == LinkInv /\ [Next]_vars => LinkInv'
<1> SUFFICES ASSUME LinkInv, [Next]_vars
             PROVE  OneLinkPerServer' /\ Shutdown'
  BY TypeStep DEF LinkInv
<1> USE DEF station, routing, links, traffic
<1>1. CASE UNCHANGED vars
  BY <1>1, LinkUnchanged DEF vars, linkVars
<1>2. CASE Lifecycle
  <2>1. CASE Start
    BY <2>1 DEF Start, LinkInv, OneLinkPerServer, Shutdown, Created
  <2>2. CASE GraceExpires
    <3>1. state' = "closed"
      BY <2>2 DEF GraceExpires, LinkInv, Shutdown
    <3> QED
      BY <2>2, <3>1, LinkCloseAll DEF GraceExpires
  <2>3. ASSUME NEW force \in BOOLEAN, Stop(force)
        PROVE  OneLinkPerServer' /\ Shutdown'
    <3>1. CASE force
      BY <2>3, <3>1, LinkCloseAll DEF Stop
    <3>2. CASE ~ force
      BY <2>3, <3>2 DEF Stop, LinkInv, OneLinkPerServer, Shutdown, Created
    <3> QED
      BY <3>1, <3>2
  <2> QED
    BY <1>2, <2>1, <2>2, <2>3 DEF Lifecycle
<1>3. CASE Membership
  <2>1. ASSUME NEW s \in Server, RemoveServer(s)
        PROVE  OneLinkPerServer' /\ Shutdown'
    BY <2>1, LinkForget DEF RemoveServer
  <2>2. ASSUME NEW s \in Server, AddServer(s)
        PROVE  OneLinkPerServer' /\ Shutdown'
    BY <2>2, LinkUnchanged DEF AddServer, linkVars
  <2>3. ASSUME NEW S \in SUBSET Server, ReplaceServers(S)
        PROVE  OneLinkPerServer' /\ Shutdown'
    BY <2>3, LinkUnchanged DEF ReplaceServers, linkVars
  <2> QED
    BY <1>3, <2>1, <2>2, <2>3 DEF Membership
<1>4. CASE Turn
  <2>1. ASSUME NEW r \in Req, NEW s \in Server, DispatchLazyConnect(r, s)
        PROVE  OneLinkPerServer' /\ Shutdown'
    BY <2>1, LinkLazyConnect
  <2>2. ASSUME NEW s \in Server,
               \/ ClearPending(s)
               \/ \E r \in Req : \/ DispatchNotStarted(r, s)
                                 \/ DispatchNoTarget(r, s)
                                 \/ DispatchConnecting(r, s)
                                 \/ DispatchSend(r, s)
        PROVE  OneLinkPerServer' /\ Shutdown'
    BY <2>2, LinkUnchanged
       DEF ClearPending, DispatchNotStarted, DispatchNoTarget,
           DispatchConnecting, DispatchSend, linkVars
  <2> QED
    BY <1>4, <2>1, <2>2 DEF Turn
<1>5. CASE Calls
  BY <1>5, LinkUnchanged
     DEF Calls, Invoke, BeforeFilterFails, BeforeFilterPasses, linkVars
<1>6. CASE LinkEvent
  <2> SUFFICES ASSUME NEW b \in Box,
                      \/ ConnectSucceeds(b)
                      \/ ConnectFails(b)
                      \/ ConnectLost(b)
                      \/ LinkFails(b)
                      \/ Disconnect(b)
                      \/ FlushQueue(b)
               PROVE  OneLinkPerServer' /\ Shutdown'
    BY <1>6 DEF LinkEvent
  <2>1. CASE ConnectSucceeds(b) \/ ConnectLost(b) \/ FlushQueue(b)
    BY <2>1, LinkUnchanged
       DEF ConnectSucceeds, ConnectLost, FlushQueue, linkVars
  <2>2. CASE ConnectFails(b)
    <3>1. /\ ConnectErrors
          /\ UNCHANGED <<state, grace, owner, closed>>
          /\ mailboxes' = [mailboxes EXCEPT ![owner[b]] = NoBox]
      BY <2>2 DEF ConnectFails
    <3>2. mailboxes \in [Server -> Created \cup {NoBox}]
      BY DEF LinkInv, TypeOK
    <3>3. \A t \in Server : mailboxes'[t] \in {mailboxes[t], NoBox}
      BY <3>1, <3>2
    <3>4. \A t \in Server : mailboxes'[t] # NoBox =>
            /\ owner'[mailboxes'[t]] = t
            /\ mailboxes'[t] \in closed' => grace' = "fired"
      BY <3>1, <3>3 DEF LinkInv, OneLinkPerServer
    <3>5. OneLinkPerServer'
      BY <3>1, <3>4 DEF OneLinkPerServer
    <3>6. Shutdown'
      BY <3>1, <3>3 DEF LinkInv, Shutdown
    <3> QED
      BY <3>5, <3>6
  <2>3. CASE LinkFails(b) \/ Disconnect(b)
    <3>1. owner[b] \in Server
      <4>1. b \in listening
        BY <2>3 DEF LinkFails, Disconnect
      <4> QED
        BY <4>1 DEF LinkInv, TypeOK, Created
    <3>2. Forget(owner[b]) /\ UNCHANGED <<state, grace, owner>>
      BY <2>3 DEF LinkFails, Disconnect, HearClose
    <3> QED
      BY <3>1, <3>2, LinkForget
  <2> QED
    BY <2>1, <2>2, <2>3
<1>7. CASE Answering
  BY <1>7, LinkUnchanged DEF Answering, Reply, CallbackTimeout, linkVars
<1> QED
  BY <1>1, <1>2, <1>3, <1>4, <1>5, <1>6, <1>7 DEF Next

LEMMA LinkInit == Init => LinkInv
<1> SUFFICES ASSUME Init PROVE OneLinkPerServer /\ Shutdown
  BY TypeInit DEF LinkInv
<1>1. Created = {}
  BY DEF Init, Created
<1> QED
  BY <1>1 DEF Init, OneLinkPerServer, Shutdown, NoBox

\* A registered mailbox was created for its server and is open until shutdown,
\* and no open mqtt mailbox escapes the station's table.
THEOREM LinksCorrect == Spec => []OneLinkPerServer
<1>1. LinkInv => OneLinkPerServer
  BY DEF LinkInv
<1> QED
  BY LinkInit, LinkStep, <1>1, PTL DEF Spec

-----------------------------------------------------------------------------
(***************************************************************************)
(* After shutdown.  With every registered mailbox closed, send always      *)
(* fails, and with the station stopped dispatch never connects.            *)
(***************************************************************************)
Silent == /\ \A b \in Box : requests'[b] \subseteq requests[b]
          /\ owner' = owner

LEMMA SendAfterShutdown ==
  ASSUME LinkInv, grace = "fired", NEW r \in Req, NEW s \in Server, Send(r, s)
  PROVE  requests' = requests
<1>1. connected \subseteq Created /\ NoBox \notin Created
  BY DEF LinkInv, TypeOK, Created, NoBox
<1>2. mailboxes[s] \notin connected \ closed
  BY <1>1 DEF LinkInv, Shutdown
<1> QED
  BY <1>2 DEF Send

LEMMA SilentStep ==
  LinkInv /\ [Next]_vars => (grace = "fired" => Silent)
<1> SUFFICES ASSUME LinkInv, [Next]_vars, grace = "fired"
             PROVE  Silent
  OBVIOUS
<1> USE DEF station, routing, links, traffic
<1>1. state = "closed"
  BY DEF LinkInv, Shutdown
<1>2. CASE UNCHANGED <<requests, owner>>
  BY <1>2 DEF Silent
<1>3. CASE Lifecycle \/ Membership
  BY <1>1, <1>3, <1>2
     DEF Lifecycle, Start, Stop, GraceExpires, Membership, AddServer,
         RemoveServer, ReplaceServers
<1>4. CASE Turn
  <2>1. ASSUME NEW r \in Req, NEW s \in Server, DispatchSend(r, s)
        PROVE  Silent
    BY <1>1, <2>1 DEF DispatchSend
  <2> QED
    BY <1>1, <1>2, <1>4, <2>1
       DEF Turn, ClearPending, DispatchNotStarted, DispatchNoTarget,
           DispatchLazyConnect, DispatchConnecting
<1>5. CASE Calls
  <2>1. ASSUME NEW r \in Req, NEW s \in Server, NEW t \in Server,
               BeforeFilterPasses(r, s, t)
        PROVE  Silent
    BY <1>2, <2>1, SendAfterShutdown DEF BeforeFilterPasses
  <2> QED
    BY <1>2, <1>5, <2>1 DEF Calls, Invoke, BeforeFilterFails
<1>6. CASE LinkEvent
  BY <1>2, <1>6
     DEF LinkEvent, ConnectSucceeds, ConnectFails, ConnectLost, LinkFails,
         Disconnect, FlushQueue
<1>7. CASE Answering
  <2> SUFFICES ASSUME NEW b \in Box, NEW r \in Req,
                      Reply(b, r) \/ CallbackTimeout(b, r)
               PROVE  Silent
    BY <1>7 DEF Answering
  <2>1. \/ requests' = [requests EXCEPT ![b] = @ \ {r}]
        \/ requests' = requests
    BY DEF Reply, CallbackTimeout
  <2>2. owner' = owner /\ requests \in [Box -> SUBSET Req]
    BY DEF Reply, CallbackTimeout, LinkInv, TypeOK
  <2> QED
    BY <2>1, <2>2 DEF Silent
<1>8. CASE UNCHANGED vars
  BY <1>2, <1>8 DEF vars
<1> QED
  BY <1>3, <1>4, <1>5, <1>6, <1>7, <1>8 DEF Next

\* After the station has closed its mailboxes no callback is registered and no
\* mailbox is created, in any interleaving.
THEOREM ShutdownIsSilent == Spec => SilentAfterShutdown
<1>1. LinkInv /\ [Next]_vars =>
        [grace = "fired" => /\ \A b \in Box : requests'[b] \subseteq requests[b]
                            /\ owner' = owner]_vars
  BY SilentStep DEF Silent
<1> QED
  BY LinkInit, LinkStep, <1>1, PTL DEF Spec, SilentAfterShutdown

-----------------------------------------------------------------------------
(***************************************************************************)
(* Parked requests.  While a flush is under way the list of its server is  *)
(* owed a clear; NoStrandedRequests becomes inductive once that is said.   *)
(***************************************************************************)
Clear(s) == [op |-> "clear", req |-> NoReq, srv |-> s]

Owed(s) == \E i \in 1..Len(agenda) : agenda[i] = Clear(s)

ParkedInv ==
  /\ TypeOK
  /\ \A s \in Server :
       \/ mailboxes[s] = NoBox
       \/ s \in connecting
       \/ pendings[s] = <<>>
       \/ Owed(s)

\* A call that is not the clear of s leaves it on the agenda.
LEMMA OwedTail ==
  ASSUME TypeOK, ~ Idle, agenda' = Tail(agenda), NEW s \in Server, Owed(s),
         Head(agenda) # Clear(s)
  PROVE  Owed(s)'
<1>1. PICK i \in 1..Len(agenda) : agenda[i] = Clear(s)
  BY DEF Owed
<1>2. agenda \in Seq(Call) /\ agenda # <<>> /\ Len(agenda) \in Nat
  BY DEF TypeOK, Idle
<1>3. i # 1
  BY <1>1, <1>2
<1>4. i - 1 \in 1..Len(agenda') /\ agenda'[i - 1] = agenda[i]
  BY <1>1, <1>2, <1>3
<1> QED
  BY <1>1, <1>4 DEF Owed, Clear

LEMMA ParkedTurn ==
  ASSUME ParkedInv, NEW r \in Req, NEW s \in Server, Dispatching(r, s),
         NEW u \in Server, Owed(u)
  PROVE  Owed(u)'
<1>1. Head(agenda).op = "dispatch" /\ Clear(u).op = "clear"
  BY DEF Dispatching, Clear
<1>2. Head(agenda) # Clear(u)
  BY <1>1
<1> QED
  BY <1>2, OwedTail DEF ParkedInv, Dispatching

LEMMA ParkedStep == ParkedInv /\ [Next]_vars => ParkedInv'
<1> SUFFICES ASSUME ParkedInv, [Next]_vars, NEW u \in Server,
                    mailboxes'[u] # NoBox, u \notin connecting'
             PROVE  pendings'[u] = <<>> \/ Owed(u)'
  BY TypeStep DEF ParkedInv
<1> USE DEF station, routing, links, traffic
<1>1. ASSUME UNCHANGED <<connecting, pendings, agenda>>,
             mailboxes'[u] = mailboxes[u]
      PROVE  pendings'[u] = <<>> \/ Owed(u)'
  BY <1>1 DEF ParkedInv, Owed, Clear
<1>2. CASE UNCHANGED vars
  BY <1>1, <1>2 DEF vars
<1>3. CASE Lifecycle
  BY <1>1, <1>3 DEF Lifecycle, Start, Stop, GraceExpires
<1>4. ASSUME NEW s \in Server, Forget(s), UNCHANGED <<connecting, pendings, agenda>>
      PROVE  pendings'[u] = <<>> \/ Owed(u)'
  <2>1. u # s /\ mailboxes'[u] = mailboxes[u]
    BY <1>4 DEF Forget, ParkedInv, TypeOK
  <2> QED
    BY <1>1, <1>4, <2>1
<1>5. CASE Membership
  BY <1>1, <1>4, <1>5
     DEF Membership, AddServer, RemoveServer, ReplaceServers
<1>6. CASE Turn
  <2>1. ASSUME NEW s \in Server, ClearPending(s)
        PROVE  pendings'[u] = <<>> \/ Owed(u)'
    <3>1. CASE u = s
      BY <2>1, <3>1 DEF ClearPending, ParkedInv, TypeOK
    <3>2. CASE u # s
      <4>1. /\ pendings'[u] = pendings[u] /\ mailboxes[u] # NoBox
            /\ u \notin connecting
        BY <2>1, <3>2 DEF ClearPending, ParkedInv, TypeOK
      <4>2. CASE pendings[u] = <<>>
        BY <4>1, <4>2
      <4>3. CASE Owed(u)
        <5>1. Head(agenda).srv = s /\ Clear(u).srv = u
          BY <2>1 DEF ClearPending, Clear
        <5>2. Head(agenda) # Clear(u)
          BY <3>2, <5>1
        <5> QED
          BY <2>1, <4>3, <5>2, OwedTail DEF ClearPending, ParkedInv
      <4> QED
        BY <4>1, <4>2, <4>3 DEF ParkedInv
    <3> QED
      BY <3>1, <3>2
  <2>2. ASSUME NEW s \in Server, NEW r \in Req, Dispatching(r, s),
               mailboxes[u] # NoBox, u \notin connecting,
               pendings'[u] = pendings[u]
        PROVE  pendings'[u] = <<>> \/ Owed(u)'
    BY <2>2, ParkedTurn DEF ParkedInv
  <2>3. ASSUME NEW s \in Server, NEW r \in Req, Park(r, s), u # s
        PROVE  pendings'[u] = pendings[u]
    BY <2>3 DEF Park, ParkedInv, TypeOK
  <2>4. ASSUME NEW s \in Server, NEW r \in Req, DispatchNotStarted(r, s)
        PROVE  pendings'[u] = <<>> \/ Owed(u)'
    BY <2>2, <2>4 DEF DispatchNotStarted
  <2>5. ASSUME NEW s \in Server, NEW r \in Req, DispatchNoTarget(r, s)
        PROVE  pendings'[u] = <<>> \/ Owed(u)'
    BY <2>2, <2>3, <2>5 DEF DispatchNoTarget
  <2>6. ASSUME NEW s \in Server, NEW r \in Req, DispatchLazyConnect(r, s)
        PROVE  pendings'[u] = <<>> \/ Owed(u)'
    <3>1. u # s /\ u \notin connecting
      BY <2>6 DEF DispatchLazyConnect
    <3>2. mailboxes'[u] = mailboxes[u]
      BY <2>6, <3>1 DEF DispatchLazyConnect, ParkedInv, TypeOK
    <3> QED
      BY <2>2, <2>3, <2>6, <3>1, <3>2 DEF DispatchLazyConnect
  <2>7. ASSUME NEW s \in Server, NEW r \in Req, DispatchConnecting(r, s)
        PROVE  pendings'[u] = <<>> \/ Owed(u)'
    BY <2>2, <2>3, <2>7 DEF DispatchConnecting
  <2>8. ASSUME NEW s \in Server, NEW r \in Req, DispatchSend(r, s)
        PROVE  pendings'[u] = <<>> \/ Owed(u)'
    BY <2>2, <2>8 DEF DispatchSend
  <2> QED
    BY <1>6, <2>1, <2>4, <2>5, <2>6, <2>7, <2>8 DEF Turn
<1>7. CASE Calls
  <2>1. ASSUME NEW r \in Req, NEW s \in Server, Invoke(r, s)
        PROVE  pendings'[u] = <<>> \/ Owed(u)'
    <3>1. ~ Owed(u)
      BY <2>1 DEF Invoke, Idle, Owed
    <3> QED
      BY <2>1, <3>1 DEF Invoke, ParkedInv
  <2> QED
    BY <1>1, <1>7, <2>1 DEF Calls, BeforeFilterFails, BeforeFilterPasses
<1>8. CASE LinkEvent
  <2> SUFFICES ASSUME NEW b \in Box,
                      \/ ConnectSucceeds(b)
                      \/ ConnectFails(b)
                      \/ ConnectLost(b)
                      \/ LinkFails(b)
                      \/ Disconnect(b)
                      \/ FlushQueue(b)
               PROVE  pendings'[u] = <<>> \/ Owed(u)'
    BY <1>8 DEF LinkEvent
  <2>1. CASE ConnectSucceeds(b)
    <3>1. CASE u \notin connecting
      <4>1. pendings[u] = <<>>
        BY <2>1, <3>1 DEF ConnectSucceeds, Idle, Owed, ParkedInv
      <4> QED
        BY <2>1, <4>1 DEF ConnectSucceeds
    <3>2. CASE u \in connecting /\ pendings[u] # <<>>
      <4>1. u = owner[b] /\ agenda' = FlushCalls(u)
        BY <2>1, <3>2 DEF ConnectSucceeds
      <4>2. Len(pendings[u]) \in Nat
        BY DEF ParkedInv, TypeOK
      <4>3. /\ agenda'[Len(pendings[u]) + 1] = Clear(u)
            /\ DOMAIN agenda' = 1..(Len(pendings[u]) + 1)
        BY <4>1, <4>2 DEF FlushCalls, Clear
      <4>4. agenda' \in Seq(Call)
        BY TypeStep DEF ParkedInv, TypeOK
      <4>5. Len(pendings[u]) + 1 \in 1..Len(agenda')
        BY <4>2, <4>3, <4>4
      <4> QED
        BY <4>3, <4>5 DEF Owed, Clear
    <3> QED
      BY <2>1, <3>1, <3>2 DEF ConnectSucceeds
  <2>2. CASE ConnectFails(b)
    <3>1. mailboxes'[u] = mailboxes[u]
      <4>1. mailboxes' = [mailboxes EXCEPT ![owner[b]] = NoBox]
        BY <2>2 DEF ConnectFails
      <4>2. mailboxes \in [Server -> Created \cup {NoBox}]
        BY DEF ParkedInv, TypeOK
      <4> QED
        BY <4>1, <4>2
    <3> QED
      BY <1>1, <2>2, <3>1 DEF ConnectFails
  <2>3. CASE ConnectLost(b) \/ FlushQueue(b)
    BY <1>1, <2>3 DEF ConnectLost, FlushQueue
  <2>4. CASE LinkFails(b) \/ Disconnect(b)
    <3>1. owner[b] \in Server
      <4>1. b \in listening
        BY <2>4 DEF LinkFails, Disconnect
      <4> QED
        BY <4>1 DEF ParkedInv, TypeOK, Created
    <3>2. Forget(owner[b]) /\ UNCHANGED <<connecting, pendings, agenda>>
      BY <2>4 DEF LinkFails, Disconnect, HearClose
    <3> QED
      BY <1>4, <3>1, <3>2
  <2> QED
    BY <2>1, <2>2, <2>3, <2>4
<1>9. CASE Answering
  BY <1>1, <1>9 DEF Answering, Reply, CallbackTimeout
<1> QED
  BY <1>2, <1>3, <1>5, <1>6, <1>7, <1>8, <1>9 DEF Next

LEMMA ParkedInit == Init => ParkedInv
BY TypeInit DEF ParkedInv, Init

\* Between turns of the event loop, requests are parked only for servers that
\* have no mailbox or are connecting.
THEOREM NothingStranded == Spec => []NoStrandedRequests
<1>1. ParkedInv => NoStrandedRequests
  BY DEF ParkedInv, NoStrandedRequests, Idle, Owed
<1> QED
  BY ParkedInit, ParkedStep, <1>1, PTL DEF Spec

-----------------------------------------------------------------------------
(***************************************************************************)
(* Where a request is.  In the middle of a turn it may be called for by    *)
(* the agenda; a list that is owed a clear does not hold its requests any  *)
(* more: each of them is on the agenda, or has been dispatched.  The four  *)
(* places are then exclusive, and a request is at most once in each.       *)
(***************************************************************************)
Called(r) == \E i \in 1..Len(agenda) : agenda[i].req = r

Parked(r) ==
  \E s \in Server : /\ ~ Owed(s)
                    /\ \E i \in 1..Len(pendings[s]) : pendings[s][i] = r

Sifted(r) == \E s \in Server : <<r, s>> \in filtering

Sent(r) == \E b \in Box : r \in requests[b]

CalledOnce ==
  \A i, j \in 1..Len(agenda) : agenda[i].req = agenda[j].req => i = j

ParkedOnce ==
  \A s, t \in Server : ~ Owed(s) /\ ~ Owed(t) =>
    \A i \in 1..Len(pendings[s]), j \in 1..Len(pendings[t]) :
      pendings[s][i] = pendings[t][j] => s = t /\ i = j

SiftedOnce ==
  \A r \in Req, s, t \in Server :
    <<r, s>> \in filtering /\ <<r, t>> \in filtering => s = t

SentOnce ==
  \A r \in Req, b, c \in Box : r \in requests[b] /\ r \in requests[c] => b = c

Apart ==
  \A r \in Req :
    /\ Called(r) => ~ Parked(r) /\ ~ Sifted(r) /\ ~ Sent(r)
    /\ Parked(r) => ~ Sifted(r) /\ ~ Sent(r)
    /\ Sifted(r) => ~ Sent(r)
    /\ Called(r) \/ Parked(r) \/ Sifted(r) \/ Sent(r) => r \in invoked

CopyInv == TypeOK /\ CalledOnce /\ ParkedOnce /\ SiftedOnce /\ SentOnce /\ Apart

\* What a call leaves on the agenda.
LEMMA AgendaTail ==
  ASSUME TypeOK, ~ Idle, agenda' = Tail(agenda)
  PROVE  /\ Len(agenda) \in Nat /\ Len(agenda') = Len(agenda) - 1
         /\ 1 \in 1..Len(agenda) /\ Head(agenda) = agenda[1]
         /\ \A i \in 1..Len(agenda') :
              /\ i + 1 \in 1..Len(agenda) /\ i + 1 # 1
              /\ agenda'[i] = agenda[i + 1]
<1>1. agenda \in Seq(Call) /\ agenda # <<>> /\ Len(agenda) \in Nat
  BY DEF TypeOK, Idle
<1>2. Len(agenda) # 0
  BY <1>1, EmptySeq
<1>3. Len(agenda') = Len(agenda) - 1
  BY <1>1, <1>2
<1>4. Head(agenda) = agenda[1]
  BY <1>1, <1>2
<1>5. \A i \in 1..(Len(agenda) - 1) : agenda'[i] = agenda[i + 1]
  BY <1>1, <1>2
<1> QED
  BY <1>1, <1>2, <1>3, <1>4, <1>5

LEMMA CalledTail ==
  ASSUME TypeOK, CalledOnce, ~ Idle, agenda' = Tail(agenda)
  PROVE  /\ CalledOnce'
         /\ Called(Head(agenda).req)
         /\ \A q : Called(q)' => Called(q) /\ q # Head(agenda).req
<1>1. CalledOnce'
  <2> SUFFICES ASSUME NEW i \in 1..Len(agenda'), NEW j \in 1..Len(agenda'),
                      agenda'[i].req = agenda'[j].req
               PROVE  i = j
    BY DEF CalledOnce
  <2>1. i + 1 = j + 1
    BY AgendaTail DEF CalledOnce
  <2>2. i \in Nat /\ j \in Nat
    BY AgendaTail
  <2> QED
    BY <2>1, <2>2
<1>2. Called(Head(agenda).req)
  BY AgendaTail DEF Called
<1>3. ASSUME NEW q, Called(q)'
      PROVE  Called(q) /\ q # Head(agenda).req
  <2>1. PICK i \in 1..Len(agenda') : agenda'[i].req = q
    BY <1>3 DEF Called
  <2>2. i + 1 \in 1..Len(agenda) /\ i + 1 # 1 /\ agenda[i + 1].req = q
    BY <2>1, AgendaTail
  <2>3. 1 \in 1..Len(agenda) /\ Head(agenda) = agenda[1]
    BY AgendaTail
  <2> QED
    BY <2>2, <2>3 DEF Called, CalledOnce
<1> QED
  BY <1>1, <1>2, <1>3

\* A list that is owed a clear stays so, until that clear is made.
LEMMA OwedKept ==
  ASSUME TypeOK, NEW r \in Req, NEW s \in Server, Dispatching(r, s)
  PROVE  \A t \in Server : Owed(t)' <=> Owed(t)
<1> SUFFICES ASSUME NEW t \in Server PROVE Owed(t)' <=> Owed(t)
  OBVIOUS
<1>1. Head(agenda).op = "dispatch" /\ Clear(t).op = "clear"
  BY DEF Dispatching, Clear
<1>2. Head(agenda) # Clear(t)
  BY <1>1
<1>3. Owed(t) => Owed(t)'
  BY <1>2, OwedTail DEF Dispatching
<1>4. ASSUME Owed(t)' PROVE Owed(t)
  <2>1. PICK i \in 1..Len(agenda') : agenda'[i] = Clear(t)'
    BY <1>4 DEF Owed
  <2>2. i + 1 \in 1..Len(agenda) /\ agenda[i + 1] = Clear(t)
    BY <2>1, AgendaTail DEF Dispatching, Clear
  <2> QED
    BY <2>2 DEF Owed
<1> QED
  BY <1>3, <1>4

LEMMA ParkedKept ==
  ASSUME UNCHANGED pendings, \A t \in Server : Owed(t) => Owed(t)'
  PROVE  /\ ParkedOnce => ParkedOnce'
         /\ \A q : Parked(q)' => Parked(q)
BY DEF ParkedOnce, Parked

\* Parking a request that is parked nowhere.
LEMMA ParkPlaces ==
  ASSUME TypeOK, ParkedOnce, NEW r \in Req, NEW s \in Server, Park(r, s),
         ~ Parked(r), \A t \in Server : Owed(t) => Owed(t)'
  PROVE  /\ ParkedOnce'
         /\ \A q : Parked(q)' /\ q # r => Parked(q)
<1>1. CASE pendings' = pendings
  BY <1>1, ParkedKept
<1>2. CASE pendings' = [pendings EXCEPT ![s] = Append(@, r)]
  <2>1. /\ pendings[s] \in Seq(Req) /\ Len(pendings[s]) \in Nat
        /\ pendings'[s] = Append(pendings[s], r)
        /\ \A t \in Server : t # s => pendings'[t] = pendings[t]
    BY <1>2 DEF TypeOK
  <2>2. /\ Len(pendings'[s]) = Len(pendings[s]) + 1
        /\ pendings'[s][Len(pendings[s]) + 1] = r
        /\ \A i \in 1..Len(pendings[s]) : pendings'[s][i] = pendings[s][i]
    BY <2>1
  <2>3. ASSUME NEW t \in Server, NEW i \in 1..Len(pendings'[t]), ~ Owed(t)'
        PROVE  \/ t = s /\ i = Len(pendings[s]) + 1 /\ pendings'[t][i] = r
               \/ /\ i \in 1..Len(pendings[t])
                  /\ pendings'[t][i] = pendings[t][i] /\ pendings[t][i] # r
    <3>1. CASE t # s
      BY <2>1, <2>3, <3>1 DEF Parked
    <3>2. CASE t = s
      <4>1. i = Len(pendings[s]) + 1 \/ i \in 1..Len(pendings[s])
        BY <2>1, <2>2, <3>2
      <4>2. ASSUME i \in 1..Len(pendings[s])
            PROVE  pendings[s][i] # r
        BY <2>3, <3>2, <4>2 DEF Parked
      <4> QED
        BY <2>2, <3>2, <4>1, <4>2
    <3> QED
      BY <3>1, <3>2
  <2>4. ASSUME NEW t \in Server, NEW u \in Server, ~ Owed(t)', ~ Owed(u)',
               NEW i \in 1..Len(pendings'[t]), NEW j \in 1..Len(pendings'[u]),
               pendings'[t][i] = pendings'[u][j]
        PROVE  t = u /\ i = j
    <3>1. \/ t = s /\ i = Len(pendings[s]) + 1 /\ pendings'[t][i] = r
          \/ /\ i \in 1..Len(pendings[t])
             /\ pendings'[t][i] = pendings[t][i] /\ pendings[t][i] # r
      BY <2>3, <2>4
    <3>2. \/ u = s /\ j = Len(pendings[s]) + 1 /\ pendings'[u][j] = r
          \/ /\ j \in 1..Len(pendings[u])
             /\ pendings'[u][j] = pendings[u][j] /\ pendings[u][j] # r
      BY <2>3, <2>4
    <3>3. ~ Owed(t) /\ ~ Owed(u)
      BY <2>4
    <3> QED
      BY <2>4, <3>1, <3>2, <3>3 DEF ParkedOnce
  <2>5. ASSUME NEW q, Parked(q)', q # r
        PROVE  Parked(q)
    <3>1. PICK t \in Server : /\ ~ Owed(t)'
                              /\ \E i \in 1..Len(pendings'[t]) : pendings'[t][i] = q
      BY <2>5 DEF Parked
    <3>2. PICK i \in 1..Len(pendings'[t]) : pendings'[t][i] = q
      BY <3>1
    <3>3. i \in 1..Len(pendings[t]) /\ pendings[t][i] = q
      BY <2>3, <2>5, <3>1, <3>2
    <3> QED
      BY <3>1, <3>3 DEF Parked
  <2> QED
    BY <2>4, <2>5 DEF ParkedOnce
<1> QED
  BY <1>1, <1>2 DEF Park

\* Sending a request that no mailbox has.
LEMMA SendPlaces ==
  ASSUME TypeOK, SentOnce, NEW r \in Req, NEW s \in Server, Send(r, s), ~ Sent(r)
  PROVE  /\ SentOnce'
         /\ \A q \in Req : Sent(q)' /\ q # r => Sent(q)
<1>1. CASE requests' = requests
  BY <1>1 DEF SentOnce, Sent
<1>2. CASE mailboxes[s] \in connected \ closed /\ Transmit(r, mailboxes[s])
  <2> DEFINE b == mailboxes[s]
  <2>1. b \in Box
    BY <1>2, CreatedType DEF TypeOK
  <2>2. requests' = [requests EXCEPT ![b] = @ \cup {r}]
    BY <1>2 DEF Transmit
  <2>3. \A c \in Box : requests'[c] = IF c = b THEN requests[c] \cup {r}
                                               ELSE requests[c]
    BY <2>1, <2>2 DEF TypeOK
  <2>4. \A c \in Box : r \notin requests[c]
    BY DEF Sent
  <2>5. ASSUME NEW q \in Req, NEW c \in Box, NEW d \in Box,
               q \in requests'[c], q \in requests'[d]
        PROVE  c = d
    <3>1. CASE q = r
      <4>1. c = b /\ d = b
        BY <2>3, <2>4, <2>5, <3>1
      <4> QED
        BY <4>1
    <3>2. CASE q # r
      <4>1. q \in requests[c] /\ q \in requests[d]
        BY <2>3, <2>5, <3>2
      <4> QED
        BY <4>1 DEF SentOnce
    <3> QED
      BY <3>1, <3>2
  <2> HIDE DEF b
  <2>6. SentOnce'
    BY <2>5 DEF SentOnce
  <2> QED
    BY <2>3, <2>6 DEF Sent
<1> QED
  BY <1>1, <1>2 DEF Send

LEMMA CopyUnchanged ==
  ASSUME CopyInv, TypeOK', UNCHANGED <<agenda, pendings, filtering, invoked>>,
         \A b \in Box : requests'[b] \subseteq requests[b]
  PROVE  CopyInv'
<1>1. \A t \in Server : Owed(t)' <=> Owed(t)
  BY DEF Owed, Clear
<1>2. ParkedOnce' /\ \A q : Parked(q)' => Parked(q)
  BY <1>1, ParkedKept DEF CopyInv
<1>3. CalledOnce' /\ \A q : Called(q)' <=> Called(q)
  BY DEF CopyInv, CalledOnce, Called
<1>4. SiftedOnce' /\ \A q : Sifted(q)' <=> Sifted(q)
  BY DEF CopyInv, SiftedOnce, Sifted
<1>5. SentOnce' /\ \A q : Sent(q)' => Sent(q)
  BY DEF CopyInv, SentOnce, Sent
<1>6. Apart'
  BY <1>2, <1>3, <1>4, <1>5 DEF CopyInv, Apart
<1> QED
  BY <1>2, <1>3, <1>4, <1>5, <1>6 DEF CopyInv

\* A step that moves one request from the agenda or the filters, at most, to one
\* place, and puts no other request anywhere.
LEMMA CopyMoves ==
  ASSUME CopyInv, TypeOK', CalledOnce', ParkedOnce', SiftedOnce', SentOnce',
         invoked \subseteq invoked', NEW r \in invoked',
         \A q \in Req : q # r =>
           /\ Called(q)' => Called(q)
           /\ Parked(q)' => Parked(q)
           /\ Sifted(q)' => Sifted(q)
           /\ Sent(q)' => Sent(q),
         /\ Called(r)' => ~ Parked(r)' /\ ~ Sifted(r)' /\ ~ Sent(r)'
         /\ Parked(r)' => ~ Sifted(r)' /\ ~ Sent(r)'
         /\ Sifted(r)' => ~ Sent(r)'
  PROVE  CopyInv'
<1>1. ASSUME NEW q \in Req
      PROVE  /\ Called(q)' => ~ Parked(q)' /\ ~ Sifted(q)' /\ ~ Sent(q)'
             /\ Parked(q)' => ~ Sifted(q)' /\ ~ Sent(q)'
             /\ Sifted(q)' => ~ Sent(q)'
             /\ Called(q)' \/ Parked(q)' \/ Sifted(q)' \/ Sent(q)' => q \in invoked'
  <2>1. CASE q = r
    BY <2>1
  <2>2. CASE q # r
    BY <2>2 DEF CopyInv, Apart
  <2> QED
    BY <2>1, <2>2
<1>2. Apart'
  BY <1>1 DEF Apart
<1> QED
  BY <1>2 DEF CopyInv

\* What a dispatch finds: its request is nowhere but at the head of the agenda.
LEMMA DispatchFinds ==
  ASSUME CopyInv, NEW r \in Req, NEW s \in Server, Dispatching(r, s)
  PROVE  /\ Called(r) /\ ~ Parked(r) /\ ~ Sifted(r) /\ ~ Sent(r) /\ r \in invoked
         /\ CalledOnce' /\ ~ Called(r)'
         /\ \A q : Called(q)' => Called(q)
         /\ \A t \in Server : Owed(t) <=> Owed(t)'
<1>1. TypeOK /\ CalledOnce /\ ~ Idle /\ agenda' = Tail(agenda)
  BY DEF CopyInv, Dispatching
<1>2. Head(agenda).req = r
  BY DEF Dispatching
<1>3. CalledOnce' /\ Called(r) /\ \A q : Called(q)' => Called(q) /\ q # r
  BY <1>1, <1>2, CalledTail
<1>4. \A t \in Server : Owed(t) <=> Owed(t)'
  BY <1>1, OwedKept
<1> QED
  BY <1>3, <1>4 DEF CopyInv, Apart

LEMMA CopyTurn == CopyInv /\ Turn => CopyInv'
<1> SUFFICES ASSUME CopyInv, Turn PROVE CopyInv'
  OBVIOUS
<1>t. TypeOK /\ TypeOK'
  BY TypeTurn DEF CopyInv
<1>1. ASSUME NEW s \in Server, ClearPending(s)
      PROVE  CopyInv'
  <2>1. /\ ~ Idle /\ agenda' = Tail(agenda) /\ Head(agenda) = Clear(s)
        /\ Head(agenda).req = NoReq
        /\ pendings' = [pendings EXCEPT ![s] = <<>>]
        /\ UNCHANGED <<filtering, requests, invoked>>
    BY <1>1 DEF ClearPending, Clear, traffic
  <2>2. CalledOnce' /\ \A q : Called(q)' => Called(q)
    BY <1>t, <2>1, CalledTail DEF CopyInv
  <2>3. ASSUME NEW t \in Server, ~ Owed(t)', NEW i \in 1..Len(pendings'[t])
        PROVE  t # s /\ ~ Owed(t) /\ pendings'[t] = pendings[t]
    <3>1. t # s
      <4>1. pendings'[s] = <<>>
        BY <1>t, <2>1 DEF TypeOK
      <4>2. Len(pendings'[s]) = 0
        BY <4>1
      <4> QED
        BY <2>3, <4>2
    <3>2. Clear(t).srv = t /\ Clear(s).srv = s
      BY DEF Clear
    <3>3. Head(agenda) # Clear(t)
      BY <2>1, <3>1, <3>2
    <3>4. ~ Owed(t)
      BY <1>t, <2>1, <2>3, <3>3, OwedTail
    <3> QED
      BY <1>t, <2>1, <3>1, <3>4 DEF TypeOK
  <2>4. ParkedOnce'
    BY <2>3 DEF CopyInv, ParkedOnce
  <2>5. \A q : Parked(q)' => Parked(q)
    BY <2>3 DEF Parked
  <2>6. SiftedOnce' /\ SentOnce'
    BY <2>1 DEF CopyInv, SiftedOnce, SentOnce
  <2>7. \A q : (Sifted(q)' <=> Sifted(q)) /\ (Sent(q)' <=> Sent(q))
    BY <2>1 DEF Sifted, Sent
  <2>8. Apart'
    BY <2>1, <2>2, <2>5, <2>7 DEF CopyInv, Apart
  <2> QED
    BY <1>t, <2>2, <2>4, <2>6, <2>8 DEF CopyInv
<1>2. ASSUME NEW r \in Req, NEW s \in Server, Dispatching(r, s), Park(r, s),
             UNCHANGED <<filtering, requests, invoked>>
      PROVE  CopyInv'
  <2>1. /\ Called(r) /\ ~ Parked(r) /\ ~ Sifted(r) /\ ~ Sent(r) /\ r \in invoked
        /\ CalledOnce' /\ ~ Called(r)'
        /\ \A q : Called(q)' => Called(q)
        /\ \A t \in Server : Owed(t) <=> Owed(t)'
    BY <1>2, DispatchFinds
  <2>2. ParkedOnce' /\ \A q : Parked(q)' /\ q # r => Parked(q)
    BY <1>t, <1>2, <2>1, ParkPlaces DEF CopyInv
  <2>3. SiftedOnce' /\ SentOnce'
    BY <1>2 DEF CopyInv, SiftedOnce, SentOnce
  <2>4. \A q : (Sifted(q)' <=> Sifted(q)) /\ (Sent(q)' <=> Sent(q))
    BY <1>2 DEF Sifted, Sent
  <2>5. r \in invoked' /\ invoked \subseteq invoked'
    BY <1>2, <2>1
  <2> QED
    BY <1>t, <2>1, <2>2, <2>3, <2>4, <2>5, CopyMoves
<1>3. ASSUME NEW r \in Req, NEW s \in Server, DispatchNotStarted(r, s)
      PROVE  CopyInv'
  <2>0. Dispatching(r, s) /\ UNCHANGED <<pendings, filtering, requests, invoked>>
    BY <1>3 DEF DispatchNotStarted, routing, traffic
  <2>1. /\ Called(r) /\ ~ Parked(r) /\ ~ Sifted(r) /\ ~ Sent(r) /\ r \in invoked
        /\ CalledOnce' /\ ~ Called(r)'
        /\ \A q : Called(q)' => Called(q)
        /\ \A t \in Server : Owed(t) <=> Owed(t)'
    BY <2>0, DispatchFinds
  <2>2. ParkedOnce' /\ \A q : Parked(q)' => Parked(q)
    BY <2>0, <2>1, ParkedKept DEF CopyInv
  <2>3. SiftedOnce' /\ SentOnce'
    BY <2>0 DEF CopyInv, SiftedOnce, SentOnce
  <2>4. \A q : (Sifted(q)' <=> Sifted(q)) /\ (Sent(q)' <=> Sent(q))
    BY <2>0 DEF Sifted, Sent
  <2>5. r \in invoked' /\ invoked \subseteq invoked'
    BY <2>0, <2>1
  <2> QED
    BY <1>t, <2>1, <2>2, <2>3, <2>4, <2>5, CopyMoves
<1>4. ASSUME NEW r \in Req, NEW s \in Server, DispatchSend(r, s)
      PROVE  CopyInv'
  <2>0. Dispatching(r, s) /\ UNCHANGED <<pendings, invoked>>
    BY <1>4 DEF DispatchSend, routing
  <2>1. /\ Called(r) /\ ~ Parked(r) /\ ~ Sifted(r) /\ ~ Sent(r) /\ r \in invoked
        /\ CalledOnce' /\ ~ Called(r)'
        /\ \A q : Called(q)' => Called(q)
        /\ \A t \in Server : Owed(t) <=> Owed(t)'
    BY <2>0, DispatchFinds
  <2>2. ParkedOnce' /\ \A q : Parked(q)' => Parked(q)
    BY <2>0, <2>1, ParkedKept DEF CopyInv
  <2>3. r \in invoked' /\ invoked \subseteq invoked'
    BY <2>0, <2>1
  <2>4. CASE Filtered
    <3>1. filtering' = filtering \cup {<<r, s>>} /\ requests' = requests
      BY <1>4, <2>4 DEF DispatchSend
    <3>2. \A t \in Server : <<r, t>> \notin filtering
      BY <2>1 DEF Sifted
    <3>3. SiftedOnce' /\ \A q : Sifted(q)' /\ q # r => Sifted(q)
      BY <3>1, <3>2 DEF CopyInv, SiftedOnce, Sifted
    <3>4. SentOnce' /\ \A q : Sent(q)' <=> Sent(q)
      BY <3>1 DEF CopyInv, SentOnce, Sent
    <3> QED
      BY <1>t, <2>1, <2>2, <2>3, <3>3, <3>4, CopyMoves
  <2>5. CASE ~ Filtered
    <3>1. Send(r, s) /\ filtering' = filtering
      BY <1>4, <2>5 DEF DispatchSend
    <3>2. SentOnce' /\ \A q \in Req : Sent(q)' /\ q # r => Sent(q)
      BY <1>t, <2>1, <3>1, SendPlaces DEF CopyInv
    <3>3. SiftedOnce' /\ \A q : Sifted(q)' <=> Sifted(q)
      BY <3>1 DEF CopyInv, SiftedOnce, Sifted
    <3> QED
      BY <1>t, <2>1, <2>2, <2>3, <3>2, <3>3, CopyMoves
  <2> QED
    BY <2>4, <2>5
<1>5. ASSUME NEW r \in Req, NEW s \in Server,
             \/ DispatchNoTarget(r, s)
             \/ DispatchLazyConnect(r, s)
             \/ DispatchConnecting(r, s)
      PROVE  CopyInv'
  BY <1>2, <1>5
     DEF DispatchNoTarget, DispatchLazyConnect, DispatchConnecting, traffic
<1> QED
  BY <1>1, <1>3, <1>4, <1>5 DEF Turn

LEMMA IdleCallsNothing ==
  ASSUME Idle
  PROVE  /\ \A q : ~ Called(q)
         /\ \A t \in Server : ~ Owed(t)
<1>1. Len(agenda) = 0
  BY DEF Idle
<1> QED
  BY <1>1 DEF Called, Owed

\* A before filter is done with its request: nobody else has it.
LEMMA FilterFinds ==
  ASSUME CopyInv, Idle, NEW r \in Req, NEW s \in Server, <<r, s>> \in filtering,
         filtering' = filtering \ {<<r, s>>}
  PROVE  /\ ~ Called(r) /\ ~ Parked(r) /\ ~ Sent(r) /\ ~ Sifted(r)'
         /\ r \in invoked /\ SiftedOnce'
         /\ \A q : Sifted(q)' => Sifted(q)
<1>1. Sifted(r)
  BY DEF Sifted
<1>2. ~ Sifted(r)' /\ SiftedOnce' /\ \A q : Sifted(q)' => Sifted(q)
  BY DEF CopyInv, SiftedOnce, Sifted
<1> QED
  BY <1>1, <1>2 DEF CopyInv, Apart

LEMMA CopyCalls == CopyInv /\ Calls => CopyInv'
<1> SUFFICES ASSUME CopyInv, Calls PROVE CopyInv'
  OBVIOUS
<1>t. TypeOK /\ TypeOK'
  BY TypeCalls DEF CopyInv
<1>1. ASSUME NEW r \in Req, NEW s \in Server, Invoke(r, s)
      PROVE  CopyInv'
  <2>1. /\ Idle /\ r \notin invoked /\ invoked' = invoked \cup {r}
        /\ UNCHANGED <<pendings, filtering, requests>>
    BY <1>1 DEF Invoke, routing, traffic
  <2>2. \/ agenda' = <<[op |-> "dispatch", req |-> r, srv |-> s]>>
        \/ agenda' = agenda
    BY <1>1 DEF Invoke
  <2>3. ~ Parked(r) /\ ~ Sifted(r) /\ ~ Sent(r)
    BY <2>1 DEF CopyInv, Apart
  <2>4. CalledOnce' /\ \A q : Called(q)' /\ q # r => Called(q)
    <3>1. CASE agenda' = agenda
      BY <3>1 DEF CopyInv, CalledOnce, Called
    <3>2. CASE agenda' = <<[op |-> "dispatch", req |-> r, srv |-> s]>>
      <4>1. Len(agenda') = 1 /\ agenda'[1].req = r
        BY <3>2
      <4>2. \A i \in 1..Len(agenda') : i = 1
        BY <4>1
      <4> QED
        BY <4>1, <4>2 DEF CalledOnce, Called
    <3> QED
      BY <2>2, <3>1, <3>2
  <2>5. \A t \in Server : ~ Owed(t)
    BY <2>1, IdleCallsNothing
  <2>6. ParkedOnce' /\ \A q : Parked(q)' => Parked(q)
    BY <2>1, <2>5, ParkedKept DEF CopyInv
  <2>7. SiftedOnce' /\ SentOnce'
    BY <2>1 DEF CopyInv, SiftedOnce, SentOnce
  <2>8. \A q : (Sifted(q)' <=> Sifted(q)) /\ (Sent(q)' <=> Sent(q))
    BY <2>1 DEF Sifted, Sent
  <2>9. r \in invoked' /\ invoked \subseteq invoked'
    BY <2>1
  <2> QED
    BY <1>t, <2>3, <2>4, <2>6, <2>7, <2>8, <2>9, CopyMoves
<1>2. ASSUME NEW r \in Req, NEW s \in Server,
             \/ BeforeFilterFails(r, s)
             \/ \E t \in Server : BeforeFilterPasses(r, s, t)
      PROVE  CopyInv'
  <2>1. /\ Idle /\ <<r, s>> \in filtering /\ filtering' = filtering \ {<<r, s>>}
        /\ UNCHANGED <<agenda, pendings, invoked>>
    BY <1>2 DEF BeforeFilterFails, BeforeFilterPasses, routing
  <2>2. /\ ~ Called(r) /\ ~ Parked(r) /\ ~ Sent(r) /\ ~ Sifted(r)'
        /\ r \in invoked /\ SiftedOnce'
        /\ \A q : Sifted(q)' => Sifted(q)
    BY <2>1, FilterFinds
  <2>3. CalledOnce' /\ \A q : Called(q)' <=> Called(q)
    BY <2>1 DEF CopyInv, CalledOnce, Called
  <2>4. \A t \in Server : ~ Owed(t)
    BY <2>1, IdleCallsNothing
  <2>5. ParkedOnce' /\ \A q : Parked(q)' => Parked(q)
    BY <2>1, <2>4, ParkedKept DEF CopyInv
  <2>6. SentOnce' /\ \A q \in Req : Sent(q)' /\ q # r => Sent(q)
    <3>1. CASE BeforeFilterFails(r, s)
      BY <3>1 DEF BeforeFilterFails, CopyInv, SentOnce, Sent
    <3>2. ASSUME NEW t \in Server, BeforeFilterPasses(r, s, t)
          PROVE  SentOnce' /\ \A q \in Req : Sent(q)' /\ q # r => Sent(q)
      BY <1>t, <2>2, <3>2, SendPlaces DEF BeforeFilterPasses, CopyInv
    <3> QED
      BY <1>2, <3>1, <3>2
  <2>7. r \in invoked' /\ invoked \subseteq invoked'
    BY <2>1, <2>2
  <2> QED
    BY <1>t, <2>2, <2>3, <2>5, <2>6, <2>7, CopyMoves
<1> QED
  BY <1>1, <1>2 DEF Calls

\* A flush puts the requests of one list on the agenda, and the list aside.
LEMMA FlushAgenda ==
  ASSUME TypeOK, NEW s \in Server, agenda' = FlushCalls(s)
  PROVE  /\ Len(pendings[s]) \in Nat /\ Len(agenda') = Len(pendings[s]) + 1
         /\ \A i \in 1..Len(pendings[s]) :
              agenda'[i] = [op |-> "dispatch", req |-> pendings[s][i], srv |-> s]
         /\ agenda'[Len(pendings[s]) + 1] = Clear(s)
<1>1. Len(pendings[s]) \in Nat
  BY DEF TypeOK
<1>2. DOMAIN agenda' = 1..(Len(pendings[s]) + 1)
  BY DEF FlushCalls
<1>3. agenda' \in Seq(Call)
  BY FlushCallsType
<1>4. Len(agenda') = Len(pendings[s]) + 1
  BY <1>1, <1>2, <1>3
<1>5. \A i \in 1..Len(pendings[s]) :
        agenda'[i] = [op |-> "dispatch", req |-> pendings[s][i], srv |-> s]
  BY <1>1 DEF FlushCalls
<1>6. agenda'[Len(pendings[s]) + 1] = Clear(s)
  BY <1>1 DEF FlushCalls, Clear
<1> QED
  BY <1>1, <1>4, <1>5, <1>6

LEMMA CopyFlush ==
  ASSUME CopyInv, TypeOK', Idle, NEW s \in Server, agenda' = FlushCalls(s),
         UNCHANGED <<pendings, filtering, requests, invoked>>
  PROVE  CopyInv'
<1> DEFINE n == Len(pendings[s])
<1>1. /\ n \in Nat /\ Len(agenda') = n + 1
      /\ \A i \in 1..n : agenda'[i].req = pendings[s][i]
      /\ agenda'[n + 1].req = NoReq /\ agenda'[n + 1] = Clear(s)
  <2>1. /\ n \in Nat /\ Len(agenda') = n + 1
        /\ \A i \in 1..n :
             agenda'[i] = [op |-> "dispatch", req |-> pendings[s][i], srv |-> s]
        /\ agenda'[n + 1] = Clear(s)
    BY FlushAgenda DEF CopyInv
  <2>2. ASSUME NEW i \in 1..n
        PROVE  agenda'[i].req = pendings[s][i]
    <3>1. agenda'[i] = [op |-> "dispatch", req |-> pendings[s][i], srv |-> s]
      BY <2>1
    <3> QED
      BY <3>1
  <2>3. Clear(s).req = NoReq
    BY DEF Clear
  <2> QED
    BY <2>1, <2>2, <2>3
<1>2. \A i \in 1..n : pendings[s][i] \in Req /\ pendings[s][i] # NoReq
  BY <1>1, ConstantsAssumption DEF CopyInv, TypeOK
<1>3. \A t \in Server : ~ Owed(t)
  BY IdleCallsNothing
<1>4. Owed(s)'
  BY <1>1 DEF Owed, Clear
<1>5. CalledOnce'
  <2> SUFFICES ASSUME NEW i \in 1..(n + 1), NEW j \in 1..(n + 1),
                      agenda'[i].req = agenda'[j].req
               PROVE  i = j
    BY <1>1 DEF CalledOnce
  <2>1. CASE i \in 1..n /\ j \in 1..n
    BY <1>1, <1>3, <2>1 DEF CopyInv, ParkedOnce
  <2>2. CASE i = n + 1 \/ j = n + 1
    BY <1>1, <1>2, <2>2
  <2> QED
    BY <1>1, <2>1, <2>2
<1>6. \A q \in Req : Called(q)' => \E i \in 1..n : pendings[s][i] = q
  <2> SUFFICES ASSUME NEW q \in Req, Called(q)'
               PROVE  \E i \in 1..n : pendings[s][i] = q
    OBVIOUS
  <2>1. PICK i \in 1..(n + 1) : agenda'[i].req = q
    BY <1>1 DEF Called
  <2>2. i # n + 1
    BY <1>1, <2>1, ConstantsAssumption
  <2>3. i \in 1..n
    BY <1>1, <2>2
  <2> QED
    BY <1>1, <2>1, <2>3
<1>7. \A q \in Req : Called(q)' => Parked(q)
  BY <1>3, <1>6 DEF Parked
<1>8. ASSUME NEW q \in Req, Called(q)', Parked(q)'
      PROVE  FALSE
  <2>1. PICK i \in 1..n : pendings[s][i] = q
    BY <1>6, <1>8
  <2>2. PICK t \in Server : /\ ~ Owed(t)'
                            /\ \E j \in 1..Len(pendings[t]) : pendings[t][j] = q
    BY <1>8 DEF Parked
  <2>3. PICK j \in 1..Len(pendings[t]) : pendings[t][j] = q
    BY <2>2
  <2>4. s = t
    BY <1>3, <2>1, <2>3 DEF CopyInv, ParkedOnce
  <2> QED
    BY <1>4, <2>2, <2>4
<1>9. ParkedOnce' /\ \A q : Parked(q)' => Parked(q)
  BY <1>3, ParkedKept DEF CopyInv
<1>10. SiftedOnce' /\ SentOnce'
  BY DEF CopyInv, SiftedOnce, SentOnce
<1>11. \A q : (Sifted(q)' <=> Sifted(q)) /\ (Sent(q)' <=> Sent(q))
  BY DEF Sifted, Sent
<1>12. Apart'
  <2> HIDE DEF n
  <2>1. ASSUME NEW q \in Req
        PROVE  /\ Called(q)' => ~ Parked(q)' /\ ~ Sifted(q)' /\ ~ Sent(q)'
               /\ Parked(q)' => ~ Sifted(q)' /\ ~ Sent(q)'
               /\ Sifted(q)' => ~ Sent(q)'
               /\ Called(q)' \/ Parked(q)' \/ Sifted(q)' \/ Sent(q)' => q \in invoked'
    <3>1. /\ Parked(q) => ~ Sifted(q) /\ ~ Sent(q)
          /\ Sifted(q) => ~ Sent(q)
          /\ Parked(q) \/ Sifted(q) \/ Sent(q) => q \in invoked
      BY DEF CopyInv, Apart
    <3> QED
      BY <1>7, <1>8, <1>9, <1>11, <3>1
  <2> QED
    BY <2>1 DEF Apart
<1> QED
  BY <1>5, <1>9, <1>10, <1>12 DEF CopyInv

LEMMA CopyStep == CopyInv /\ [Next]_vars => CopyInv'
<1> SUFFICES ASSUME CopyInv, [Next]_vars PROVE CopyInv'
  OBVIOUS
<1>t. TypeOK /\ TypeOK'
  BY TypeStep DEF CopyInv
<1> USE DEF station, routing, links, traffic
<1>1. CASE UNCHANGED vars
  BY <1>t, <1>1, CopyUnchanged DEF vars
<1>2. CASE Lifecycle \/ Membership
  BY <1>t, <1>2, CopyUnchanged
     DEF Lifecycle, Start, Stop, GraceExpires, Membership, AddServer,
         RemoveServer, ReplaceServers
<1>3. CASE Turn
  BY <1>3, CopyTurn
<1>4. CASE Calls
  BY <1>4, CopyCalls
<1>5. CASE LinkEvent
  <2> SUFFICES ASSUME NEW b \in Box,
                      \/ ConnectSucceeds(b)
                      \/ ConnectFails(b)
                      \/ ConnectLost(b)
                      \/ LinkFails(b)
                      \/ Disconnect(b)
                      \/ FlushQueue(b)
               PROVE  CopyInv'
    BY <1>5 DEF LinkEvent
  <2>1. CASE ConnectSucceeds(b)
    <3>1. owner[b] \in Server
      BY <1>t, <2>1 DEF ConnectSucceeds, TypeOK, Created
    <3>2. Idle /\ UNCHANGED <<pendings, filtering, requests, invoked>>
      BY <2>1 DEF ConnectSucceeds
    <3>3. agenda' = agenda \/ agenda' = FlushCalls(owner[b])
      BY <2>1 DEF ConnectSucceeds, Idle
    <3> QED
      BY <1>t, <3>1, <3>2, <3>3, CopyFlush, CopyUnchanged
  <2>2. CASE ~ ConnectSucceeds(b)
    BY <1>t, <2>2, CopyUnchanged
       DEF ConnectFails, ConnectLost, LinkFails, Disconnect, FlushQueue
  <2> QED
    BY <2>1, <2>2
<1>6. CASE Answering
  <2> SUFFICES ASSUME NEW b \in Box, NEW r \in Req,
                      Reply(b, r) \/ CallbackTimeout(b, r)
               PROVE  CopyInv'
    BY <1>6 DEF Answering
  <2>1. UNCHANGED <<agenda, pendings, filtering, invoked>>
    BY DEF Reply, CallbackTimeout
  <2>2. \/ requests' = requests
        \/ requests' = [requests EXCEPT ![b] = @ \ {r}]
    BY DEF Reply, CallbackTimeout
  <2>3. \A c \in Box : requests'[c] \subseteq requests[c]
    BY <1>t, <2>2 DEF TypeOK
  <2> QED
    BY <1>t, <2>1, <2>3, CopyUnchanged
<1> QED
  BY <1>1, <1>2, <1>3, <1>4, <1>5, <1>6 DEF Next

LEMMA CopyInit == Init => CopyInv
<1> SUFFICES ASSUME Init PROVE CopyInv
  OBVIOUS
<1>1. Idle /\ TypeOK
  BY TypeInit DEF Init, Idle
<1>2. \A q : ~ Called(q)
  BY <1>1, IdleCallsNothing
<1>3. \A s \in Server : Len(pendings[s]) = 0
  BY DEF Init
<1>4. \A q : ~ Parked(q) /\ ~ Sifted(q) /\ ~ Sent(q)
  BY <1>3 DEF Parked, Sifted, Sent, Init
<1>5. CalledOnce
  BY DEF Init, CalledOnce
<1>6. ParkedOnce
  BY <1>3 DEF ParkedOnce
<1>7. SiftedOnce /\ SentOnce
  BY DEF Init, SiftedOnce, SentOnce
<1> QED
  BY <1>1, <1>2, <1>4, <1>5, <1>6, <1>7 DEF CopyInv, Apart

\* Places, taken apart.
LEMMA PlacesAre ==
  ASSUME TypeOK, NEW r \in Req, NEW p \in Places(r)
  PROVE  \/ \E s \in Server : \E i \in 1..Len(pendings[s]) :
              pendings[s][i] = r /\ p = <<"parked", s, i>>
         \/ \E s \in Server : <<r, s>> \in filtering /\ p = <<"filter", s, 0>>
         \/ \E b \in Box : r \in requests[b] /\ p = <<"sent", b, 0>>
<1> DEFINE inLists == UNION {{<<"parked", s, i>> : i \in {j \in DOMAIN pendings[s] :
                                 pendings[s][j] = r}} : s \in Server}
           inFilters == {<<"filter", s, 0>> : s \in {t \in Server :
                                 <<r, t>> \in filtering}}
           inBoxes == {<<"sent", b, 0>> : b \in {c \in Box : r \in requests[c]}}
<1>1. \A s \in Server : DOMAIN pendings[s] = 1..Len(pendings[s])
  BY DEF TypeOK
<1>2. p \in inLists => \E s \in Server : \E i \in 1..Len(pendings[s]) :
                         pendings[s][i] = r /\ p = <<"parked", s, i>>
  BY <1>1
<1>3. p \in inFilters => \E s \in Server : <<r, s>> \in filtering
                                           /\ p = <<"filter", s, 0>>
  OBVIOUS
<1>4. p \in inBoxes => \E b \in Box : r \in requests[b] /\ p = <<"sent", b, 0>>
  OBVIOUS
<1>5. Places(r) = inLists \cup inFilters \cup inBoxes
  BY DEF Places
<1> HIDE DEF inLists, inFilters, inBoxes
<1>6. p \in inLists \/ p \in inFilters \/ p \in inBoxes
  BY <1>5
<1> QED
  BY <1>2, <1>3, <1>4, <1>6

LEMMA CopyOne == CopyInv => OneCopy
<1> SUFFICES ASSUME CopyInv, Idle, NEW r \in Req,
                    NEW p \in Places(r), NEW q \in Places(r)
             PROVE  p = q
  BY DEF OneCopy
<1>1. \A s \in Server : ~ Owed(s)
  BY IdleCallsNothing
<1>2. /\ Parked(r) => ~ Sifted(r) /\ ~ Sent(r)
      /\ Sifted(r) => ~ Sent(r)
  BY DEF CopyInv, Apart
<1>3. \A x \in Places(r) :
        \/ /\ Parked(r)
           /\ \E s \in Server : \E i \in 1..Len(pendings[s]) :
                pendings[s][i] = r /\ x = <<"parked", s, i>>
        \/ /\ Sifted(r)
           /\ \E s \in Server : <<r, s>> \in filtering /\ x = <<"filter", s, 0>>
        \/ /\ Sent(r)
           /\ \E b \in Box : r \in requests[b] /\ x = <<"sent", b, 0>>
  BY <1>1, PlacesAre DEF CopyInv, Parked, Sifted, Sent
<1>4. CASE Parked(r)
  <2>1. PICK s \in Server : \E i \in 1..Len(pendings[s]) :
          pendings[s][i] = r /\ p = <<"parked", s, i>>
    BY <1>2, <1>3, <1>4
  <2>2. PICK i \in 1..Len(pendings[s]) :
          pendings[s][i] = r /\ p = <<"parked", s, i>>
    BY <2>1
  <2>3. PICK t \in Server : \E j \in 1..Len(pendings[t]) :
          pendings[t][j] = r /\ q = <<"parked", t, j>>
    BY <1>2, <1>3, <1>4
  <2>4. PICK j \in 1..Len(pendings[t]) :
          pendings[t][j] = r /\ q = <<"parked", t, j>>
    BY <2>3
  <2>5. s = t /\ i = j
    BY <1>1, <2>2, <2>4 DEF CopyInv, ParkedOnce
  <2> QED
    BY <2>2, <2>4, <2>5
<1>5. CASE Sifted(r)
  <2>1. PICK s \in Server : <<r, s>> \in filtering /\ p = <<"filter", s, 0>>
    BY <1>2, <1>3, <1>5
  <2>2. PICK t \in Server : <<r, t>> \in filtering /\ q = <<"filter", t, 0>>
    BY <1>2, <1>3, <1>5
  <2> QED
    BY <2>1, <2>2 DEF CopyInv, SiftedOnce
<1>6. CASE Sent(r)
  <2>1. PICK b \in Box : r \in requests[b] /\ p = <<"sent", b, 0>>
    BY <1>2, <1>3, <1>6
  <2>2. PICK c \in Box : r \in requests[c] /\ q = <<"sent", c, 0>>
    BY <1>2, <1>3, <1>6
  <2> QED
    BY <2>1, <2>2 DEF CopyInv, SentOnce
<1> QED
  BY <1>3, <1>4, <1>5, <1>6

\* No request is stranded behind an open link, and none is held twice, whatever the
\* filters and the failed connects do (dispatch, flushPending, beforeFilter).
THEOREM FilteredCorrect == Spec => []FilteredOnce
<1>1. Spec => []CopyInv
  BY CopyInit, CopyStep, PTL DEF Spec
<1>2. NoStrandedRequests /\ CopyInv => FilteredOnce
  BY CopyOne DEF FilteredOnce
<1> QED
  BY <1>1, <1>2, NothingStranded, PTL

-----------------------------------------------------------------------------
(***************************************************************************)
(* How often a callback has been called, when no tracer calls it as well.  *)
(* A request that is not yet with a mailbox has not been answered; one     *)
(* with a mailbox has been answered once if that mailbox got a DISCONNECT  *)
(* packet, and not at all otherwise.  No request can reach a mailbox after *)
(* its DISCONNECT, for such a mailbox has left the station's table.        *)
(***************************************************************************)
Loose(r) == Called(r) \/ Parked(r) \/ Sifted(r)

Counted ==
  \A r \in Req :
    /\ Loose(r) => answers[r] = 0
    /\ \A b \in Box : r \in requests[b] => answers[r] = IF b \in cut THEN 1 ELSE 0
    /\ answers[r] \in 0..2
    /\ answers[r] = 2 => cut # {}
    /\ answers[r] # 0 => r \in invoked

CutGone ==
  /\ cut \subseteq dead
  /\ \A s \in Server : mailboxes[s] \notin cut

CountInv == CopyInv /\ LinkInv /\ CutGone /\ (Traced \/ Counted)

LEMMA CutGoneStep == TypeOK /\ OneLinkPerServer /\ CutGone /\ [Next]_vars => CutGone'
<1> SUFFICES ASSUME TypeOK, OneLinkPerServer, CutGone, [Next]_vars
             PROVE  CutGone'
  OBVIOUS
<1> USE DEF station, routing, links, traffic
<1>0. NoBox \notin cut
  BY DEF TypeOK, Created, NoBox
<1>1. ASSUME cut' = cut, dead \subseteq dead',
             \A s \in Server : mailboxes'[s] \in {mailboxes[s], NoBox}
      PROVE  CutGone'
  BY <1>0, <1>1 DEF CutGone
<1>2. ASSUME NEW s \in Server, Forget(s)
      PROVE  \A t \in Server : mailboxes'[t] = IF t = s THEN NoBox ELSE mailboxes[t]
  BY <1>2 DEF Forget, TypeOK
<1>3. CASE UNCHANGED vars
  BY <1>1, <1>3 DEF vars
<1>4. CASE Lifecycle
  BY <1>1, <1>4 DEF Lifecycle, Start, Stop, GraceExpires
<1>5. CASE Membership
  <2>1. ASSUME NEW s \in Server, RemoveServer(s)
        PROVE  CutGone'
    BY <1>1, <1>2, <2>1 DEF RemoveServer
  <2> QED
    BY <1>1, <1>5, <2>1 DEF Membership, AddServer, ReplaceServers
<1>6. CASE Turn
  <2>1. ASSUME NEW r \in Req, NEW s \in Server, DispatchLazyConnect(r, s)
        PROVE  CutGone'
    <3>1. /\ cut' = cut /\ dead' = dead
          /\ mailboxes' = [mailboxes EXCEPT ![s] = Len(owner) + 1]
      BY <2>1 DEF DispatchLazyConnect
    <3>2. Len(owner) + 1 \notin cut
      BY DEF TypeOK, Created
    <3>3. \A t \in Server : mailboxes'[t] \in {mailboxes[t], Len(owner) + 1}
      BY <3>1 DEF TypeOK
    <3> QED
      BY <3>1, <3>2, <3>3 DEF CutGone
  <2>2. ASSUME NEW s \in Server,
               \/ ClearPending(s)
               \/ \E r \in Req : \/ DispatchNotStarted(r, s)
                                 \/ DispatchNoTarget(r, s)
                                 \/ DispatchConnecting(r, s)
                                 \/ DispatchSend(r, s)
        PROVE  CutGone'
    BY <1>1, <2>2
       DEF ClearPending, DispatchNotStarted, DispatchNoTarget,
           DispatchConnecting, DispatchSend
  <2> QED
    BY <1>6, <2>1, <2>2 DEF Turn
<1>7. CASE Calls
  BY <1>1, <1>7 DEF Calls, Invoke, BeforeFilterFails, BeforeFilterPasses
<1>8. CASE Answering
  BY <1>1, <1>8 DEF Answering, Reply, CallbackTimeout
<1>9. CASE LinkEvent
  <2> SUFFICES ASSUME NEW b \in Box,
                      \/ ConnectSucceeds(b)
                      \/ ConnectFails(b)
                      \/ ConnectLost(b)
                      \/ LinkFails(b)
                      \/ Disconnect(b)
                      \/ FlushQueue(b)
               PROVE  CutGone'
    BY <1>9 DEF LinkEvent
  <2>1. CASE ConnectSucceeds(b) \/ ConnectLost(b) \/ FlushQueue(b)
    BY <1>1, <2>1 DEF ConnectSucceeds, ConnectLost, FlushQueue
  <2>2. CASE ConnectFails(b)
    <3>1. /\ cut' = cut /\ dead \subseteq dead'
          /\ mailboxes' = [mailboxes EXCEPT ![owner[b]] = NoBox]
      BY <2>2 DEF ConnectFails
    <3>2. \A t \in Server : mailboxes'[t] \in {mailboxes[t], NoBox}
      BY <3>1 DEF TypeOK
    <3> QED
      BY <1>1, <3>1, <3>2
  <2>3. ASSUME b \in listening, Forget(owner[b])
        PROVE  \A t \in Server : mailboxes'[t] \in {mailboxes[t], NoBox} \ {b}
    <3>1. owner[b] \in Server /\ b # NoBox
      BY <2>3 DEF TypeOK, Created, NoBox
    <3>2. \A t \in Server : mailboxes'[t] = IF t = owner[b] THEN NoBox
                                                            ELSE mailboxes[t]
      BY <1>2, <2>3, <3>1
    <3>3. \A t \in Server : mailboxes[t] = b => t = owner[b]
      BY <3>1 DEF OneLinkPerServer
    <3> QED
      BY <3>1, <3>2, <3>3
  <2>4. CASE LinkFails(b)
    BY <1>1, <2>3, <2>4 DEF LinkFails, HearClose
  <2>5. CASE Disconnect(b)
    <3>1. /\ cut' = cut \cup {b} /\ dead' = dead \cup {b}
          /\ \A t \in Server : mailboxes'[t] \in {mailboxes[t], NoBox} \ {b}
      BY <2>3, <2>5 DEF Disconnect, HearClose
    <3> QED
      BY <1>0, <3>1 DEF CutGone
  <2> QED
    BY <2>1, <2>2, <2>4, <2>5
<1> QED
  BY <1>3, <1>4, <1>5, <1>6, <1>7, <1>8, <1>9 DEF Next

LEMMA AnswerCounts ==
  ASSUME NEW R, NEW n, Answer(R, n)
  PROVE  \A q \in Req : answers'[q] = IF q \in R THEN answers[q] + n ELSE answers[q]
BY DEF Answer

\* An answer that only the tracer would give changes nothing.
LEMMA AnswerNothing ==
  ASSUME TypeOK, ~ Traced, NEW R, Answer(R, FailureAnswers)
  PROVE  \A q \in Req : answers'[q] = answers[q]
<1>1. FailureAnswers = 0
  BY DEF FailureAnswers
<1>2. \A q \in Req : answers[q] \in Nat
  BY DEF TypeOK
<1> QED
  BY <1>1, <1>2, AnswerCounts

LEMMA AnswerOnce ==
  ASSUME TypeOK, ~ Traced, NEW R, AnswerSendError(R)
  PROVE  \A q \in Req : answers'[q] = IF q \in R THEN answers[q] + 1 ELSE answers[q]
<1>1. FailureAnswers + 1 = 1
  BY DEF FailureAnswers
<1> QED
  BY <1>1, AnswerCounts DEF AnswerSendError

LEMMA CountKept ==
  ASSUME Counted, \A q \in Req : answers'[q] = answers[q],
         cut' = cut, invoked \subseteq invoked',
         \A b \in Box : requests'[b] \subseteq requests[b],
         \A q \in Req : Loose(q)' => Loose(q) \/ q \notin invoked
  PROVE  Counted'
<1> SUFFICES ASSUME NEW q \in Req
             PROVE  /\ Loose(q)' => answers'[q] = 0
                    /\ \A b \in Box : q \in requests'[b] =>
                         answers'[q] = IF b \in cut' THEN 1 ELSE 0
                    /\ answers'[q] \in 0..2
                    /\ answers'[q] = 2 => cut' # {}
                    /\ answers'[q] # 0 => q \in invoked'
  BY DEF Counted
<1>1. answers'[q] = answers[q]
  OBVIOUS
<1>2. /\ Loose(q) => answers[q] = 0
      /\ \A b \in Box : q \in requests[b] => answers[q] = IF b \in cut THEN 1 ELSE 0
      /\ answers[q] \in 0..2
      /\ answers[q] = 2 => cut # {}
      /\ answers[q] # 0 => q \in invoked
  BY DEF Counted
<1> QED
  BY <1>1, <1>2

\* One request gets one more answer, and is then loose no more.
LEMMA CountOne ==
  ASSUME TypeOK, Counted, NEW r \in Req,
         \A q \in Req : answers'[q] = IF q \in {r} THEN answers[q] + 1 ELSE answers[q],
         cut' = cut, invoked \subseteq invoked', r \in invoked',
         \A b \in Box : requests'[b] \subseteq requests[b] \ {r},
         ~ Loose(r)', \A q \in Req : Loose(q)' => Loose(q),
         answers[r] = 0 \/ (answers[r] = 1 /\ cut # {})
  PROVE  Counted'
<1> SUFFICES ASSUME NEW q \in Req
             PROVE  /\ Loose(q)' => answers'[q] = 0
                    /\ \A b \in Box : q \in requests'[b] =>
                         answers'[q] = IF b \in cut' THEN 1 ELSE 0
                    /\ answers'[q] \in 0..2
                    /\ answers'[q] = 2 => cut' # {}
                    /\ answers'[q] # 0 => q \in invoked'
  BY DEF Counted
<1>1. CASE q = r
  <2>1. answers'[r] = answers[r] + 1
    OBVIOUS
  <2>2. /\ answers'[r] \in 0..2
        /\ answers'[r] = 2 => cut' # {}
    BY <2>1
  <2>3. \A b \in Box : r \notin requests'[b]
    OBVIOUS
  <2> QED
    BY <1>1, <2>2, <2>3
<1>2. CASE q # r
  <2>1. answers'[q] = answers[q]
    BY <1>2
  <2>2. /\ Loose(q) => answers[q] = 0
        /\ \A b \in Box : q \in requests[b] => answers[q] = IF b \in cut THEN 1 ELSE 0
        /\ answers[q] \in 0..2
        /\ answers[q] = 2 => cut # {}
        /\ answers[q] # 0 => q \in invoked
    BY DEF Counted
  <2> QED
    BY <1>2, <2>1, <2>2
<1> QED
  BY <1>1, <1>2

LEMMA CountSend ==
  ASSUME TypeOK, Counted, SentOnce, CutGone, ~ Traced,
         NEW r \in Req, NEW s \in Server, Send(r, s),
         answers[r] = 0, ~ Sent(r), r \in invoked, UNCHANGED <<cut, invoked>>,
         ~ Loose(r)', \A q \in Req : Loose(q)' => Loose(q)
  PROVE  Counted'
<1>1. CASE Answer({r}, FailureAnswers) /\ requests' = requests
  BY <1>1, AnswerNothing, CountKept
<1>2. CASE AnswerSendError({r}) /\ requests' = requests
  <2>1. \A b \in Box : requests'[b] \subseteq requests[b] \ {r}
    BY <1>2 DEF Sent
  <2> QED
    BY <1>2, <2>1, AnswerOnce, CountOne
<1>3. CASE /\ mailboxes[s] \in connected \ closed /\ Transmit(r, mailboxes[s])
           /\ UNCHANGED answers
  <2> DEFINE b == mailboxes[s]
  <2>1. b \in Box /\ b \notin cut
    BY <1>3, CreatedType DEF TypeOK, CutGone
  <2>2. requests' = [requests EXCEPT ![b] = @ \cup {r}]
    BY <1>3 DEF Transmit
  <2>3. \A c \in Box : requests'[c] = IF c = b THEN requests[c] \cup {r}
                                               ELSE requests[c]
    BY <2>1, <2>2 DEF TypeOK
  <2> HIDE DEF b
  <2>4. ASSUME NEW q \in Req
        PROVE  /\ Loose(q)' => answers'[q] = 0
               /\ \A c \in Box : q \in requests'[c] =>
                    answers'[q] = IF c \in cut' THEN 1 ELSE 0
               /\ answers'[q] \in 0..2
               /\ answers'[q] = 2 => cut' # {}
               /\ answers'[q] # 0 => q \in invoked'
    <3>1. /\ Loose(q) => answers[q] = 0
          /\ \A c \in Box : q \in requests[c] => answers[q] = IF c \in cut THEN 1 ELSE 0
          /\ answers[q] \in 0..2
          /\ answers[q] = 2 => cut # {}
          /\ answers[q] # 0 => q \in invoked
      BY DEF Counted
    <3>2. answers'[q] = answers[q]
      BY <1>3
    <3>3. ASSUME NEW c \in Box, q \in requests'[c]
          PROVE  answers[q] = IF c \in cut THEN 1 ELSE 0
      <4>1. CASE q \in requests[c]
        BY <3>1, <4>1
      <4>2. CASE q \notin requests[c]
        <5>1. q = r /\ c = b
          BY <2>3, <3>3, <4>2
        <5> QED
          BY <2>1, <5>1
      <4> QED
        BY <4>1, <4>2
    <3> QED
      BY <3>1, <3>2, <3>3
  <2> QED
    BY <2>4 DEF Counted
<1> QED
  BY <1>1, <1>2, <1>3 DEF Send

\* A flush calls only for requests that were parked.
LEMMA FlushCalled ==
  ASSUME CopyInv, Idle, NEW s \in Server, agenda' = FlushCalls(s)
  PROVE  \A q \in Req : Called(q)' => Parked(q)
<1> SUFFICES ASSUME NEW q \in Req, Called(q)' PROVE Parked(q)
  OBVIOUS
<1>0. /\ Len(pendings[s]) \in Nat /\ Len(agenda') = Len(pendings[s]) + 1
      /\ \A i \in 1..Len(pendings[s]) :
           agenda'[i] = [op |-> "dispatch", req |-> pendings[s][i], srv |-> s]
      /\ agenda'[Len(pendings[s]) + 1] = Clear(s)
  BY FlushAgenda DEF CopyInv
<1>1. PICK i \in 1..(Len(pendings[s]) + 1) : agenda'[i].req = q
  BY <1>0 DEF Called
<1>2. Clear(s).req = NoReq
  BY DEF Clear
<1>3. i # Len(pendings[s]) + 1
  BY <1>0, <1>1, <1>2, ConstantsAssumption
<1>4. i \in 1..Len(pendings[s])
  BY <1>0, <1>3
<1>5. agenda'[i] = [op |-> "dispatch", req |-> pendings[s][i], srv |-> s]
  BY <1>0, <1>4
<1>6. pendings[s][i] = q
  BY <1>1, <1>5
<1>7. ~ Owed(s)
  BY IdleCallsNothing
<1> QED
  BY <1>4, <1>6, <1>7 DEF Parked

LEMMA CountTurn == CountInv /\ ~ Traced /\ Turn => Counted'
<1> SUFFICES ASSUME CopyInv, CutGone, Counted, ~ Traced, Turn PROVE Counted'
  BY DEF CountInv
<1>t. TypeOK /\ TypeOK' /\ SentOnce /\ ParkedOnce /\ CalledOnce
  BY TypeTurn DEF CopyInv
<1>1. ASSUME NEW s \in Server, ClearPending(s)
      PROVE  Counted'
  <2>1. /\ ~ Idle /\ agenda' = Tail(agenda) /\ Head(agenda) = Clear(s)
        /\ pendings' = [pendings EXCEPT ![s] = <<>>]
        /\ UNCHANGED <<filtering, requests, cut, answers, invoked>>
    BY <1>1 DEF ClearPending, Clear, traffic, links
  <2>2. \A q : Called(q)' => Called(q)
    BY <1>t, <2>1, CalledTail
  <2>3. ASSUME NEW q \in Req, Parked(q)'
        PROVE  Parked(q)
    <3>1. PICK t \in Server : /\ ~ Owed(t)'
                              /\ \E j \in 1..Len(pendings'[t]) : pendings'[t][j] = q
      BY <2>3 DEF Parked
    <3>2. t # s
      <4>1. pendings'[s] = <<>>
        BY <1>t, <2>1 DEF TypeOK
      <4>2. Len(pendings'[s]) = 0
        BY <4>1
      <4> QED
        BY <3>1, <4>2
    <3>3. Clear(t).srv = t /\ Clear(s).srv = s
      BY DEF Clear
    <3>4. ~ Owed(t)
      BY <1>t, <2>1, <3>1, <3>2, <3>3, OwedTail
    <3>5. pendings'[t] = pendings[t]
      BY <1>t, <2>1, <3>2 DEF TypeOK
    <3> QED
      BY <3>1, <3>4, <3>5 DEF Parked
  <2>4. \A q \in Req : Loose(q)' => Loose(q)
    BY <2>1, <2>2, <2>3 DEF Loose, Sifted
  <2> QED
    BY <2>1, <2>4, CountKept
<1>2. ASSUME NEW r \in Req, NEW s \in Server, Dispatching(r, s),
             Park(r, s) \/ UNCHANGED pendings,
             UNCHANGED <<filtering, requests, cut, invoked>>,
             UNCHANGED answers \/ Answer({r}, FailureAnswers)
      PROVE  Counted'
  <2>1. /\ Called(r) /\ ~ Parked(r)
        /\ \A q : Called(q)' => Called(q)
        /\ \A t \in Server : Owed(t) <=> Owed(t)'
    BY <1>2, DispatchFinds
  <2>2. \A q : Parked(q)' /\ q # r => Parked(q)
    BY <1>t, <1>2, <2>1, ParkPlaces, ParkedKept
  <2>3. \A q \in Req : Loose(q)' => Loose(q)
    BY <1>2, <2>1, <2>2 DEF Loose, Sifted
  <2>4. \A q \in Req : answers'[q] = answers[q]
    BY <1>t, <1>2, AnswerNothing
  <2> QED
    BY <1>2, <2>3, <2>4, CountKept
<1>3. ASSUME NEW r \in Req, NEW s \in Server, DispatchSend(r, s)
      PROVE  Counted'
  <2>0. Dispatching(r, s) /\ UNCHANGED <<pendings, cut, invoked>>
    BY <1>3 DEF DispatchSend, routing, links
  <2>1. /\ Called(r) /\ ~ Parked(r) /\ ~ Sifted(r) /\ ~ Sent(r) /\ r \in invoked
        /\ ~ Called(r)'
        /\ \A q : Called(q)' => Called(q)
        /\ \A t \in Server : Owed(t) <=> Owed(t)'
    BY <2>0, DispatchFinds
  <2>2. \A q : Parked(q)' => Parked(q)
    BY <2>0, <2>1, ParkedKept
  <2>3. CASE Filtered
    <3>1. /\ filtering' = filtering \cup {<<r, s>>}
          /\ UNCHANGED <<requests, answers>>
      BY <1>3, <2>3 DEF DispatchSend
    <3>2. \A q \in Req : Loose(q)' => Loose(q)
      BY <2>1, <2>2, <3>1 DEF Loose, Sifted
    <3> QED
      BY <2>0, <3>1, <3>2, CountKept
  <2>4. CASE ~ Filtered
    <3>1. Send(r, s) /\ filtering' = filtering
      BY <1>3, <2>4 DEF DispatchSend
    <3>2. \A q : Sifted(q)' <=> Sifted(q)
      BY <3>1 DEF Sifted
    <3>3. ~ Loose(r)' /\ \A q \in Req : Loose(q)' => Loose(q)
      BY <2>1, <2>2, <3>2 DEF Loose
    <3>4. answers[r] = 0
      BY <2>1 DEF Counted, Loose
    <3> QED
      BY <1>t, <2>0, <2>1, <3>1, <3>3, <3>4, CountSend
  <2> QED
    BY <2>3, <2>4
<1>4. ASSUME NEW r \in Req, NEW s \in Server,
             \/ DispatchNotStarted(r, s)
             \/ DispatchNoTarget(r, s)
             \/ DispatchLazyConnect(r, s)
             \/ DispatchConnecting(r, s)
      PROVE  Counted'
  BY <1>2, <1>4
     DEF DispatchNotStarted, DispatchNoTarget, DispatchLazyConnect,
         DispatchConnecting, traffic, links, routing
<1> QED
  BY <1>1, <1>3, <1>4 DEF Turn

LEMMA CountCalls == CountInv /\ ~ Traced /\ Calls => Counted'
<1> SUFFICES ASSUME CopyInv, CutGone, Counted, ~ Traced, Calls PROVE Counted'
  BY DEF CountInv
<1>t. TypeOK /\ TypeOK' /\ SentOnce /\ SiftedOnce
  BY TypeCalls DEF CopyInv
<1>1. ASSUME NEW r \in Req, NEW s \in Server, Invoke(r, s)
      PROVE  Counted'
  <2>1. /\ Idle /\ r \notin invoked /\ invoked' = invoked \cup {r}
        /\ UNCHANGED <<pendings, filtering, requests, cut>>
    BY <1>1 DEF Invoke, routing, traffic, links
  <2>2. ~ Parked(r) /\ ~ Sifted(r) /\ ~ Sent(r) /\ \A q : ~ Called(q)
    BY <2>1, IdleCallsNothing DEF CopyInv, Apart
  <2>3. \A q : Parked(q)' => Parked(q)
    BY <2>1, IdleCallsNothing, ParkedKept
  <2>4. CASE state = "started"
    <3>1. /\ agenda' = <<[op |-> "dispatch", req |-> r, srv |-> s]>>
          /\ answers' = answers
      BY <1>1, <2>4 DEF Invoke
    <3>2. \A q : Called(q)' => q = r
      <4>1. Len(agenda') = 1 /\ agenda'[1].req = r
        BY <3>1
      <4>2. \A i \in 1..Len(agenda') : i = 1
        BY <4>1
      <4> QED
        BY <4>1, <4>2 DEF Called
    <3>3. \A q \in Req : Loose(q)' => Loose(q) \/ q \notin invoked
      BY <2>1, <2>3, <3>2 DEF Loose, Sifted
    <3> QED
      BY <2>1, <3>1, <3>3, CountKept
  <2>5. CASE state # "started"
    <3>1. agenda' = agenda /\ Answer({r}, 1)
      BY <1>1, <2>5 DEF Invoke
    <3>2. \A q : Called(q)' <=> Called(q)
      BY <3>1 DEF Called
    <3>3. ~ Loose(r)' /\ \A q \in Req : Loose(q)' => Loose(q)
      BY <2>1, <2>2, <2>3, <3>2 DEF Loose, Sifted
    <3>4. \A q \in Req : answers'[q] = IF q \in {r} THEN answers[q] + 1 ELSE answers[q]
      BY <3>1, AnswerCounts
    <3>5. answers[r] = 0
      BY <2>1 DEF Counted
    <3>6. \A b \in Box : requests'[b] \subseteq requests[b] \ {r}
      BY <2>1, <2>2 DEF Sent
    <3> QED
      BY <1>t, <2>1, <3>3, <3>4, <3>5, <3>6, CountOne
  <2> QED
    BY <2>4, <2>5
<1>2. ASSUME NEW r \in Req, NEW s \in Server,
             \/ BeforeFilterFails(r, s)
             \/ \E t \in Server : BeforeFilterPasses(r, s, t)
      PROVE  Counted'
  <2>1. /\ Idle /\ <<r, s>> \in filtering /\ filtering' = filtering \ {<<r, s>>}
        /\ UNCHANGED <<agenda, pendings, invoked, cut>>
    BY <1>2 DEF BeforeFilterFails, BeforeFilterPasses, routing, links
  <2>2. /\ ~ Called(r) /\ ~ Parked(r) /\ ~ Sent(r) /\ ~ Sifted(r)'
        /\ r \in invoked
        /\ \A q : Sifted(q)' => Sifted(q)
    BY <2>1, FilterFinds
  <2>3. \A q : Called(q)' <=> Called(q)
    BY <2>1 DEF Called
  <2>4. \A q : Parked(q)' => Parked(q)
    BY <2>1, IdleCallsNothing, ParkedKept
  <2>5. ~ Loose(r)' /\ \A q \in Req : Loose(q)' => Loose(q)
    BY <2>2, <2>3, <2>4 DEF Loose
  <2>6. CASE BeforeFilterFails(r, s)
    <3>1. requests' = requests /\ Answer({r}, FailureAnswers)
      BY <2>6 DEF BeforeFilterFails
    <3> QED
      BY <1>t, <2>1, <2>5, <3>1, AnswerNothing, CountKept
  <2>7. ASSUME NEW t \in Server, BeforeFilterPasses(r, s, t)
        PROVE  Counted'
    <3>1. answers[r] = 0
      BY <2>1 DEF Counted, Loose, Sifted
    <3>2. Send(r, t)
      BY <2>7 DEF BeforeFilterPasses
    <3> QED
      BY <1>t, <2>1, <2>2, <2>5, <3>1, <3>2, CountSend
  <2> QED
    BY <1>2, <2>6, <2>7
<1> QED
  BY <1>1, <1>2 DEF Calls

\* A DISCONNECT packet answers, once more, exactly the requests of its mailbox.
LEMMA CountDisconnect ==
  ASSUME CopyInv, CutGone, Counted, ~ Traced, NEW b \in Box, Disconnect(b)
  PROVE  Counted'
<1>1. /\ cut' = cut \cup {b} /\ b \notin cut /\ AnswerSendError(requests[b])
      /\ UNCHANGED <<agenda, pendings, filtering, requests, invoked>>
  BY DEF Disconnect, CutGone, traffic
<1>2. TypeOK
  BY DEF CopyInv
<1>3. \A q \in Req : answers'[q] = IF q \in requests[b] THEN answers[q] + 1
                                                        ELSE answers[q]
  BY <1>1, <1>2, AnswerOnce
<1>4. \A q : Loose(q)' <=> Loose(q)
  BY <1>1 DEF Loose, Called, Parked, Sifted, Owed, Clear
<1> SUFFICES ASSUME NEW q \in Req
             PROVE  /\ Loose(q)' => answers'[q] = 0
                    /\ \A c \in Box : q \in requests'[c] =>
                         answers'[q] = IF c \in cut' THEN 1 ELSE 0
                    /\ answers'[q] \in 0..2
                    /\ answers'[q] = 2 => cut' # {}
                    /\ answers'[q] # 0 => q \in invoked'
  BY DEF Counted
<1>5. /\ Loose(q) => answers[q] = 0
      /\ \A c \in Box : q \in requests[c] => answers[q] = IF c \in cut THEN 1 ELSE 0
      /\ answers[q] \in 0..2
      /\ answers[q] # 0 => q \in invoked
  BY DEF Counted
<1>6. CASE q \in requests[b]
  <2>1. ~ Loose(q) /\ q \in invoked
    BY <1>6 DEF CopyInv, Apart, Loose, Sent
  <2>2. answers[q] = 0 /\ answers'[q] = 1
    BY <1>1, <1>3, <1>5, <1>6
  <2>3. \A c \in Box : q \in requests[c] => c = b
    BY <1>6 DEF CopyInv, SentOnce
  <2> QED
    BY <1>1, <1>4, <2>1, <2>2, <2>3
<1>7. CASE q \notin requests[b]
  <2>1. answers'[q] = answers[q]
    BY <1>3, <1>7
  <2>2. \A c \in Box : q \in requests'[c] => (c \in cut' <=> c \in cut)
    BY <1>1, <1>7
  <2> QED
    BY <1>1, <1>4, <1>5, <2>1, <2>2
<1> QED
  BY <1>6, <1>7

LEMMA CountStep == CountInv /\ [Next]_vars => CountInv'
<1> SUFFICES ASSUME CountInv, [Next]_vars, ~ Traced PROVE Counted'
  BY CopyStep, LinkStep, CutGoneStep DEF CountInv, LinkInv
<1>t. TypeOK /\ CopyInv /\ CutGone /\ Counted /\ SentOnce
  BY DEF CountInv, LinkInv, CopyInv
<1> USE DEF station, routing, links, traffic
<1>1. ASSUME UNCHANGED <<agenda, pendings, filtering>>
      PROVE  \A q : Loose(q)' <=> Loose(q)
  BY <1>1 DEF Loose, Called, Parked, Sifted, Owed, Clear
<1>2. ASSUME UNCHANGED <<agenda, pendings, filtering, requests, cut, invoked>>,
             UNCHANGED answers
      PROVE  Counted'
  BY <1>t, <1>1, <1>2, CountKept
<1>3. CASE UNCHANGED vars
  BY <1>2, <1>3 DEF vars
<1>4. CASE Lifecycle \/ Membership
  BY <1>2, <1>4
     DEF Lifecycle, Start, Stop, GraceExpires, Membership, AddServer,
         RemoveServer, ReplaceServers
<1>5. CASE Turn
  BY <1>5, CountTurn
<1>6. CASE Calls
  BY <1>6, CountCalls
<1>7. CASE LinkEvent
  <2> SUFFICES ASSUME NEW b \in Box,
                      \/ ConnectSucceeds(b)
                      \/ ConnectFails(b)
                      \/ ConnectLost(b)
                      \/ LinkFails(b)
                      \/ Disconnect(b)
                      \/ FlushQueue(b)
               PROVE  Counted'
    BY <1>7 DEF LinkEvent
  <2>1. CASE ConnectSucceeds(b)
    <3>1. owner[b] \in Server
      BY <1>t, <2>1 DEF ConnectSucceeds, TypeOK, Created
    <3>2. Idle /\ UNCHANGED <<pendings, filtering, requests, cut, invoked, answers>>
      BY <2>1 DEF ConnectSucceeds
    <3>3. agenda' = agenda \/ agenda' = FlushCalls(owner[b])
      BY <2>1 DEF ConnectSucceeds, Idle
    <3>4. CASE agenda' = agenda
      BY <1>2, <3>2, <3>4
    <3>5. CASE agenda' = FlushCalls(owner[b])
      <4>1. \A q \in Req : Called(q)' => Parked(q)
        BY <1>t, <3>1, <3>2, <3>5, FlushCalled
      <4>2. \A q : Parked(q)' => Parked(q)
        BY <3>2, IdleCallsNothing, ParkedKept
      <4>3. \A q \in Req : Loose(q)' => Loose(q)
        BY <3>2, <4>1, <4>2 DEF Loose, Sifted
      <4> QED
        BY <1>t, <3>2, <4>3, CountKept
    <3> QED
      BY <3>3, <3>4, <3>5
  <2>2. CASE ConnectFails(b)
    <3>1. /\ Answer({opener[b]}, FailureAnswers)
          /\ UNCHANGED <<agenda, pendings, filtering, requests, cut, invoked>>
      BY <2>2 DEF ConnectFails
    <3>2. \A q \in Req : answers'[q] = answers[q]
      BY <1>t, <3>1, AnswerNothing
    <3> QED
      BY <1>t, <1>1, <3>1, <3>2, CountKept
  <2>3. CASE ConnectLost(b) \/ LinkFails(b) \/ FlushQueue(b)
    BY <1>2, <2>3 DEF ConnectLost, LinkFails, FlushQueue
  <2>4. CASE Disconnect(b)
    BY <1>t, <2>4, CountDisconnect
  <2> QED
    BY <2>1, <2>2, <2>3, <2>4
<1>8. CASE Answering
  <2> SUFFICES ASSUME NEW b \in Box, NEW r \in Req,
                      Reply(b, r) \/ CallbackTimeout(b, r)
               PROVE  Counted'
    BY <1>8 DEF Answering
  <2>1. UNCHANGED <<agenda, pendings, filtering, invoked, cut>>
    BY DEF Reply, CallbackTimeout
  <2>2. \A q : Loose(q)' <=> Loose(q)
    BY <1>1, <2>1
  <2>3. CASE r \notin requests[b]
    <3>1. requests' = requests /\ answers' = answers
      BY <2>3 DEF Reply, CallbackTimeout
    <3> QED
      BY <1>2, <2>1, <3>1
  <2>4. CASE r \in requests[b]
    <3>1. requests' = [requests EXCEPT ![b] = @ \ {r}]
      BY <2>4 DEF Reply, CallbackTimeout
    <3>2. \A c \in Box : r \in requests[c] => c = b
      BY <1>t, <2>4 DEF SentOnce
    <3>3. \A c \in Box : requests'[c] \subseteq requests[c] \ {r}
      BY <1>t, <3>1, <3>2 DEF TypeOK
    <3>4. \A q \in Req : answers'[q] = IF q \in {r} THEN answers[q] + 1 ELSE answers[q]
      <4>1. CASE Reply(b, r)
        <5>1. Answer({r}, 1)
          BY <2>4, <4>1 DEF Reply
        <5> QED
          BY <5>1, AnswerCounts
      <4>2. CASE CallbackTimeout(b, r)
        <5>1. AnswerSendError({r})
          BY <4>2 DEF CallbackTimeout
        <5> QED
          BY <1>t, <5>1, AnswerOnce
      <4> QED
        BY <4>1, <4>2
    <3>5. ~ Loose(r) /\ r \in invoked
      BY <1>t, <2>4 DEF CopyInv, Apart, Loose, Sent
    <3>6. answers[r] = 0 \/ (answers[r] = 1 /\ cut # {})
      <4>1. answers[r] = IF b \in cut THEN 1 ELSE 0
        BY <1>t, <2>4 DEF Counted
      <4> QED
        BY <4>1
    <3> QED
      BY <1>t, <2>1, <2>2, <3>3, <3>4, <3>5, <3>6, CountOne
  <2> QED
    BY <2>3, <2>4
<1> QED
  BY <1>3, <1>4, <1>5, <1>6, <1>7, <1>8 DEF Next

LEMMA CountInit == Init => CountInv
<1> SUFFICES ASSUME Init PROVE CutGone /\ Counted
  BY CopyInit, LinkInit DEF CountInv
<1>1. CutGone
  BY DEF Init, CutGone
<1>2. \A r \in Req : answers[r] = 0
  BY DEF Init
<1>3. \A b \in Box : requests[b] = {}
  BY DEF Init
<1> QED
  BY <1>1, <1>2, <1>3 DEF Counted

LEMMA CountOnce == CountInv => CallbackOnce
<1> SUFFICES ASSUME CountInv, Idle, ~ Traced, NEW r \in Req
             PROVE  \/ answers[r] = 0
                    \/ answers[r] = 1 /\ Places(r) = {}
                    \/ \E b \in cut : r \in requests[b] \/ answers[r] = 2
  BY DEF CallbackOnce
<1>1. /\ TypeOK /\ CopyInv
      /\ Loose(r) => answers[r] = 0
      /\ \A b \in Box : r \in requests[b] => answers[r] = IF b \in cut THEN 1 ELSE 0
      /\ answers[r] \in 0..2
      /\ answers[r] = 2 => cut # {}
  BY DEF CountInv, Counted, CopyInv
<1>2. CASE answers[r] = 0 \/ answers[r] = 2
  BY <1>1, <1>2
<1>3. CASE answers[r] = 1 /\ \A b \in cut : r \notin requests[b]
  <2>1. ~ Loose(r) /\ \A b \in Box : r \notin requests[b]
    BY <1>1, <1>3
  <2>2. \A s \in Server : ~ Owed(s)
    BY IdleCallsNothing
  <2>3. ASSUME NEW p \in Places(r) PROVE FALSE
    BY <1>1, <2>1, <2>2, PlacesAre DEF Loose, Parked, Sifted
  <2> QED
    BY <1>3, <2>3
<1> QED
  BY <1>1, <1>2, <1>3

\* A request is in one place, and its callback is called once; only a DISCONNECT
\* packet makes exceptions (dispatch, flushPending, mqtt-mailbox.js, setCbTimeout).
THEOREM HeldOnceCorrect == Spec => []HeldOnce
<1>1. CountInv => HeldOnce
  BY CopyOne, CountOnce DEF CountInv, CopyInv, HeldOnce
<1> QED
  BY CountInit, CountStep, <1>1, PTL DEF Spec

-----------------------------------------------------------------------------
(***************************************************************************)
(* What a flush does with a list.  Until the clear is made, each request   *)
(* still in the list is on the agenda, or has got what it will get; the    *)
(* clear is the last call of its turn.                                     *)
(***************************************************************************)
Served(r, s) ==
  \/ state # "started"
  \/ ~ Reachable(s)
  \/ s \in connecting
  \/ answers[r] > 0
  \/ Sifted(r)
  \/ Sent(r)

Listed(r, s) == \E i \in 1..Len(pendings[s]) : pendings[s][i] = r

FlushInv ==
  \A s \in Server : Owed(s) =>
    /\ agenda[Len(agenda)] = Clear(s)
    /\ \A i \in 1..Len(agenda) : agenda[i].srv = s
    /\ \A r \in Req : Listed(r, s) => Called(r) \/ Served(r, s)

\* What is left of the agenda of a flush is an agenda of that flush.
LEMMA FlushTail ==
  ASSUME TypeOK, CalledOnce, FlushInv, ~ Idle, agenda' = Tail(agenda),
         NEW s \in Server, Owed(s)'
  PROVE  /\ Owed(s) /\ Head(agenda).srv = s /\ Head(agenda).op # "clear"
         /\ agenda'[Len(agenda')] = Clear(s)
         /\ \A i \in 1..Len(agenda') : agenda'[i].srv = s
         /\ \A q : Called(q) /\ q # Head(agenda).req => Called(q)'
<1>0. /\ Len(agenda) \in Nat /\ Len(agenda') = Len(agenda) - 1
      /\ 1 \in 1..Len(agenda) /\ Head(agenda) = agenda[1]
      /\ \A i \in 1..Len(agenda') :
           /\ i + 1 \in 1..Len(agenda) /\ i + 1 # 1
           /\ agenda'[i] = agenda[i + 1]
  BY AgendaTail
<1>1. PICK i \in 1..Len(agenda') : agenda'[i] = Clear(s)
  BY DEF Owed, Clear
<1>2. i + 1 \in 1..Len(agenda) /\ i + 1 # 1 /\ agenda[i + 1] = Clear(s)
  BY <1>0, <1>1
<1>3. Owed(s)
  BY <1>2 DEF Owed
<1>4. /\ agenda[Len(agenda)] = Clear(s)
      /\ \A j \in 1..Len(agenda) : agenda[j].srv = s
  BY <1>3 DEF FlushInv
<1>5. Len(agenda') \in 1..Len(agenda') /\ Len(agenda') + 1 = Len(agenda)
  BY <1>0, <1>1
<1>6. agenda'[Len(agenda')] = Clear(s)
  BY <1>0, <1>4, <1>5
<1>7. \A j \in 1..Len(agenda') : agenda'[j].srv = s
  BY <1>0, <1>4
<1>8. Head(agenda).op # "clear"
  <2>1. SUFFICES ASSUME Head(agenda).op = "clear" PROVE FALSE
    OBVIOUS
  <2>2. Head(agenda) \in Call
    BY <1>0 DEF TypeOK
  <2>3. Head(agenda).req = NoReq
    BY <2>1, <2>2 DEF Call
  <2>4. Clear(s).req = NoReq
    BY DEF Clear
  <2>5. agenda[i + 1].req = agenda[1].req
    BY <1>0, <1>2, <2>3, <2>4
  <2> QED
    BY <1>0, <1>2, <2>5 DEF CalledOnce
<1>9. ASSUME NEW q, Called(q), q # Head(agenda).req
      PROVE  Called(q)'
  <2>1. PICK j \in 1..Len(agenda) : agenda[j].req = q
    BY <1>9 DEF Called
  <2>2. j # 1
    BY <1>0, <1>9, <2>1
  <2>3. j - 1 \in 1..Len(agenda') /\ (j - 1) + 1 = j
    BY <1>0, <2>2
  <2>4. agenda'[j - 1].req = q
    BY <1>0, <2>1, <2>3
  <2> QED
    BY <2>3, <2>4 DEF Called
<1> QED
  BY <1>0, <1>3, <1>4, <1>6, <1>7, <1>8, <1>9

LEMMA FlushTurn == CopyInv /\ FlushInv /\ Turn => FlushInv'
<1> SUFFICES ASSUME CopyInv, FlushInv, Turn, NEW s \in Server, Owed(s)'
             PROVE  /\ agenda'[Len(agenda')] = Clear(s)
                    /\ \A i \in 1..Len(agenda') : agenda'[i].srv = s
                    /\ \A q \in Req : Listed(q, s)' => Called(q)' \/ Served(q, s)'
  BY DEF FlushInv, Clear
<1>t. TypeOK /\ TypeOK' /\ CalledOnce
  BY TypeTurn DEF CopyInv
<1>1. ~ Idle /\ agenda' = Tail(agenda)
  BY DEF Turn, ClearPending, DispatchNotStarted, DispatchNoTarget,
         DispatchLazyConnect, DispatchConnecting, DispatchSend, Dispatching
<1>2. /\ Owed(s) /\ Head(agenda).srv = s /\ Head(agenda).op # "clear"
      /\ agenda'[Len(agenda')] = Clear(s)
      /\ \A i \in 1..Len(agenda') : agenda'[i].srv = s
      /\ \A q : Called(q) /\ q # Head(agenda).req => Called(q)'
  BY <1>t, <1>1, FlushTail
<1>3. \A q \in Req : Listed(q, s) => Called(q) \/ Served(q, s)
  BY <1>2 DEF FlushInv
<1>4. ASSUME state' # "started" \/ ~ Reachable(s)' \/ s \in connecting'
      PROVE  \A q : Served(q, s)'
  BY <1>4 DEF Served
<1>5. ASSUME NEW r \in Req, NEW u \in Server, Dispatching(r, u)
      PROVE  u = s /\ Head(agenda).req = r
  BY <1>2, <1>5 DEF Dispatching
<1>6. ASSUME NEW r \in Req, NEW u \in Server,
             \/ DispatchNotStarted(r, u)
             \/ DispatchNoTarget(r, u)
             \/ DispatchLazyConnect(r, u)
             \/ DispatchConnecting(r, u)
      PROVE  state' # "started" \/ ~ Reachable(s)' \/ s \in connecting'
  <2>1. u = s
    BY <1>5, <1>6 DEF DispatchNotStarted, DispatchNoTarget,
                      DispatchLazyConnect, DispatchConnecting
  <2> QED
    BY <1>6, <2>1
       DEF DispatchNotStarted, DispatchNoTarget, DispatchLazyConnect,
           DispatchConnecting, station, Reachable
<1>7. ASSUME NEW r \in Req, DispatchSend(r, s)
      PROVE  \A q \in Req : Listed(q, s)' => Called(q)' \/ Served(q, s)'
  <2>1. /\ Dispatching(r, s) /\ state = "started" /\ mailboxes[s] # NoBox
        /\ UNCHANGED <<pendings, state, servers, onlines, connecting>>
    BY <1>7 DEF DispatchSend, routing, station
  <2>2. Head(agenda).req = r /\ \A q : Listed(q, s)' <=> Listed(q, s)
    BY <1>5, <2>1 DEF Listed
  <2>3. CASE Filtered
    <3>1. /\ filtering' = filtering \cup {<<r, s>>}
          /\ UNCHANGED <<requests, answers>>
      BY <1>7, <2>3 DEF DispatchSend
    <3>2. Served(r, s)'
      BY <3>1 DEF Served, Sifted
    <3>3. \A q : Served(q, s) => Served(q, s)'
      BY <2>1, <3>1 DEF Served, Sifted, Sent, Reachable
    <3> QED
      BY <1>2, <1>3, <2>2, <3>2, <3>3
  <2>4. CASE ~ Filtered
    <3>1. Send(r, s) /\ filtering' = filtering
      BY <1>7, <2>4 DEF DispatchSend
    <3>2. CASE AnswerSendError({r}) /\ requests' = requests
      <4>1. Answer({r}, FailureAnswers + 1)
        BY <3>2 DEF AnswerSendError
      <4>2. FailureAnswers + 1 \in Nat /\ FailureAnswers + 1 > 0
        BY FailureAnswersType
      <4>3. \A q \in Req : answers'[q] = IF q \in {r}
                                           THEN answers[q] + (FailureAnswers + 1)
                                           ELSE answers[q]
        BY <4>1, AnswerCounts
      <4>4. \A q \in Req : answers[q] \in Nat
        BY <1>t DEF TypeOK
      <4>5. answers'[r] > 0
        BY <4>2, <4>3, <4>4
      <4>6. \A q \in Req : answers[q] > 0 => answers'[q] > 0
        BY <4>2, <4>3, <4>4
      <4>7. Served(r, s)'
        BY <4>5 DEF Served
      <4>8. \A q \in Req : Served(q, s) => Served(q, s)'
        BY <2>1, <3>1, <3>2, <4>6 DEF Served, Sifted, Sent, Reachable
      <4> QED
        BY <1>2, <1>3, <2>2, <4>7, <4>8
    <3>3. CASE /\ mailboxes[s] \in connected \ closed
               /\ Transmit(r, mailboxes[s]) /\ answers' = answers
      <4>1. mailboxes[s] \in Box
        BY <1>t, <3>3, CreatedType DEF TypeOK
      <4>2. /\ r \in requests'[mailboxes[s]]
            /\ \A c \in Box : requests[c] \subseteq requests'[c]
        BY <1>t, <3>3, <4>1 DEF Transmit, TypeOK
      <4>3. Served(r, s)'
        BY <4>1, <4>2 DEF Served, Sent
      <4>4. \A q : Served(q, s) => Served(q, s)'
        BY <2>1, <3>1, <3>3, <4>2 DEF Served, Sifted, Sent, Reachable
      <4> QED
        BY <1>2, <1>3, <2>2, <4>3, <4>4
    <3> QED
      BY <2>1, <3>1, <3>2, <3>3 DEF Send
  <2> QED
    BY <2>3, <2>4
<1>8. ASSUME NEW u \in Server
      PROVE  ~ ClearPending(u)
  BY <1>2 DEF ClearPending
<1>9. \/ \E r \in Req, u \in Server : \/ DispatchNotStarted(r, u)
                                      \/ DispatchNoTarget(r, u)
                                      \/ DispatchLazyConnect(r, u)
                                      \/ DispatchConnecting(r, u)
      \/ \E r \in Req : DispatchSend(r, s)
  <2>1. ASSUME NEW r \in Req, NEW u \in Server, DispatchSend(r, u)
        PROVE  u = s
    BY <1>5, <2>1 DEF DispatchSend
  <2> QED
    BY <1>8, <2>1 DEF Turn
<1> QED
  BY <1>2, <1>4, <1>6, <1>7, <1>9

LEMMA FlushBegins ==
  ASSUME CopyInv, NEW s \in Server, agenda' = FlushCalls(s), UNCHANGED pendings
  PROVE  FlushInv'
<1> DEFINE n == Len(pendings[s])
<1>1. /\ n \in Nat /\ Len(agenda') = n + 1
      /\ \A i \in 1..n :
           agenda'[i] = [op |-> "dispatch", req |-> pendings[s][i], srv |-> s]
      /\ agenda'[n + 1] = Clear(s)
  BY FlushAgenda DEF CopyInv
<1>2. \A t \in Server : Clear(t).srv = t
  BY DEF Clear
<1>3. ASSUME NEW i \in 1..n
      PROVE  agenda'[i].srv = s /\ agenda'[i].req = pendings[s][i]
  <2>1. agenda'[i] = [op |-> "dispatch", req |-> pendings[s][i], srv |-> s]
    BY <1>1
  <2> QED
    BY <2>1
<1>4. \A i \in 1..Len(agenda') : agenda'[i].srv = s
  BY <1>1, <1>2, <1>3
<1>5. ASSUME NEW q \in Req, Listed(q, s)'
      PROVE  Called(q)'
  <2>1. PICK i \in 1..n : pendings[s][i] = q
    BY <1>5 DEF Listed
  <2>2. i \in 1..Len(agenda') /\ agenda'[i].req = q
    BY <1>1, <1>3, <2>1
  <2> QED
    BY <2>2 DEF Called
<1>6. ASSUME NEW t \in Server, Owed(t)'
      PROVE  t = s
  <2>1. PICK i \in 1..Len(agenda') : agenda'[i] = Clear(t)
    BY <1>6 DEF Owed, Clear
  <2> QED
    BY <1>2, <1>4, <2>1
<1>7. agenda'[Len(agenda')] = Clear(s)
  BY <1>1
<1>8. ASSUME NEW t \in Server, Owed(t)'
      PROVE  /\ agenda'[Len(agenda')] = Clear(t)
             /\ \A i \in 1..Len(agenda') : agenda'[i].srv = t
             /\ \A q \in Req : Listed(q, t)' => Called(q)'
  BY <1>4, <1>5, <1>6, <1>7, <1>8
<1> QED
  BY <1>8 DEF FlushInv, Clear

LEMMA FlushStep == CopyInv /\ FlushInv /\ [Next]_vars => FlushInv'
<1> SUFFICES ASSUME CopyInv, FlushInv, [Next]_vars PROVE FlushInv'
  OBVIOUS
<1>t. TypeOK
  BY DEF CopyInv
<1> USE DEF station, routing, links, traffic
<1>1. ASSUME Idle, agenda' = agenda
      PROVE  FlushInv'
  BY <1>1, IdleCallsNothing DEF FlushInv, Owed, Clear
<1>2. CASE UNCHANGED vars
  BY <1>2
     DEF vars, FlushInv, Owed, Clear, Called, Listed, Served, Sifted, Sent,
         Reachable
<1>3. CASE Lifecycle \/ Membership \/ Answering
  BY <1>1, <1>3
     DEF Lifecycle, Start, Stop, GraceExpires, Membership, AddServer,
         RemoveServer, ReplaceServers, Answering, Reply, CallbackTimeout
<1>4. CASE Turn
  BY <1>4, FlushTurn
<1>5. CASE Calls
  <2>1. ASSUME NEW r \in Req, NEW s \in Server, Invoke(r, s)
        PROVE  FlushInv'
    <3>1. CASE agenda' = <<[op |-> "dispatch", req |-> r, srv |-> s]>>
      <4>1. Len(agenda') = 1 /\ agenda'[1].op = "dispatch"
        BY <3>1
      <4>2. \A t \in Server : Clear(t).op = "clear"
        BY DEF Clear
      <4>3. \A t \in Server : ~ Owed(t)'
        BY <4>1, <4>2 DEF Owed, Clear
      <4> QED
        BY <4>3 DEF FlushInv
    <3> QED
      BY <1>1, <2>1, <3>1 DEF Invoke
  <2> QED
    BY <1>1, <1>5, <2>1 DEF Calls, BeforeFilterFails, BeforeFilterPasses
<1>6. CASE LinkEvent
  <2> SUFFICES ASSUME NEW b \in Box,
                      \/ ConnectSucceeds(b)
                      \/ ConnectFails(b)
                      \/ ConnectLost(b)
                      \/ LinkFails(b)
                      \/ Disconnect(b)
                      \/ FlushQueue(b)
               PROVE  FlushInv'
    BY <1>6 DEF LinkEvent
  <2>1. CASE ConnectSucceeds(b)
    <3>1. owner[b] \in Server
      BY <1>t, <2>1 DEF ConnectSucceeds, TypeOK, Created
    <3>2. Idle /\ pendings' = pendings
      BY <2>1 DEF ConnectSucceeds
    <3>3. agenda' = agenda \/ agenda' = FlushCalls(owner[b])
      BY <2>1 DEF ConnectSucceeds, Idle
    <3>4. CASE agenda' = FlushCalls(owner[b])
      BY <3>1, <3>2, <3>4, FlushBegins
    <3> QED
      BY <1>1, <3>2, <3>3, <3>4
  <2>2. CASE ~ ConnectSucceeds(b)
    BY <1>1, <2>2
       DEF ConnectFails, ConnectLost, LinkFails, Disconnect, FlushQueue
  <2> QED
    BY <2>1, <2>2
<1> QED
  BY <1>2, <1>3, <1>4, <1>5, <1>6 DEF Next

\* A request that sits in a filter or in a mailbox has a place that is no list.
LEMMA PlaceOf ==
  ASSUME NEW r \in Req, Sifted(r) \/ Sent(r)
  PROVE  \E p \in Places(r) : p[1] # "parked"
<1> DEFINE inLists == UNION {{<<"parked", s, i>> : i \in {j \in DOMAIN pendings[s] :
                                 pendings[s][j] = r}} : s \in Server}
           inFilters == {<<"filter", s, 0>> : s \in {t \in Server :
                                 <<r, t>> \in filtering}}
           inBoxes == {<<"sent", b, 0>> : b \in {c \in Box : r \in requests[c]}}
<1>1. Places(r) = inLists \cup inFilters \cup inBoxes
  BY DEF Places
<1>2. Sifted(r) => \E s \in Server : <<"filter", s, 0>> \in inFilters
  BY DEF Sifted
<1>3. Sent(r) => \E b \in Box : <<"sent", b, 0>> \in inBoxes
  BY DEF Sent
<1> HIDE DEF inLists, inFilters, inBoxes
<1>4. CASE Sifted(r)
  <2>1. PICK s \in Server : <<"filter", s, 0>> \in Places(r)
    BY <1>1, <1>2, <1>4
  <2>2. <<"filter", s, 0>>[1] # "parked"
    OBVIOUS
  <2> QED
    BY <2>1, <2>2
<1>5. CASE Sent(r)
  <2>1. PICK b \in Box : <<"sent", b, 0>> \in Places(r)
    BY <1>1, <1>3, <1>5
  <2>2. <<"sent", b, 0>>[1] # "parked"
    OBVIOUS
  <2> QED
    BY <2>1, <2>2
<1> QED
  BY <1>4, <1>5

LEMMA FlushDelivers ==
  ASSUME CopyInv, FlushInv, NEW s \in Server, ClearPending(s),
         state = "started", Reachable(s), s \notin connecting
  PROVE  \A i \in DOMAIN pendings[s] :
           \/ answers[pendings[s][i]] > 0
           \/ \E p \in Places(pendings[s][i]) : p[1] # "parked"
<1>1. TypeOK /\ ~ Idle /\ Head(agenda) = Clear(s) /\ agenda' = Tail(agenda)
  BY DEF CopyInv, ClearPending, Clear
<1>2. /\ Len(agenda) \in Nat /\ 1 \in 1..Len(agenda) /\ agenda[1] = Clear(s)
  BY <1>1, AgendaTail
<1>3. Owed(s)
  BY <1>2 DEF Owed
<1>4. agenda[Len(agenda)] = Clear(s)
  BY <1>3 DEF FlushInv
<1>5. Len(agenda) = 1
  <2>1. Len(agenda) \in 1..Len(agenda)
    BY <1>2
  <2>2. agenda[1].req = agenda[Len(agenda)].req
    BY <1>2, <1>4
  <2>3. CalledOnce
    BY DEF CopyInv
  <2> QED
    BY <1>2, <2>1, <2>2, <2>3 DEF CalledOnce
<1>6. Clear(s).req = NoReq
  BY DEF Clear
<1>7. \A q \in Req : ~ Called(q)
  BY <1>2, <1>5, <1>6, ConstantsAssumption DEF Called
<1> SUFFICES ASSUME NEW i \in DOMAIN pendings[s]
             PROVE  \/ answers[pendings[s][i]] > 0
                    \/ \E p \in Places(pendings[s][i]) : p[1] # "parked"
  OBVIOUS
<1>8. pendings[s][i] \in Req /\ Listed(pendings[s][i], s)
  BY <1>1 DEF TypeOK, Listed
<1>9. Served(pendings[s][i], s)
  BY <1>3, <1>7, <1>8 DEF FlushInv
<1>10. answers[pendings[s][i]] > 0 \/ Sifted(pendings[s][i]) \/ Sent(pendings[s][i])
  BY <1>9 DEF Served
<1> QED
  BY <1>8, <1>10, PlaceOf

\* When a flush deletes the pending list of a server, each request in it has been
\* passed on or answered, unless the station stopped, or the server is out of reach,
\* or the flush had to connect again (flushPending, dispatch).
THEOREM FlushCorrect == Spec => FlushLosesNothing
<1>1. CopyInv /\ FlushInv /\ [Next]_vars =>
        [\A s \in Server : ClearPending(s) =>
           \/ state # "started"
           \/ ~ Reachable(s)
           \/ s \in connecting
           \/ \A i \in DOMAIN pendings[s] :
                \/ answers[pendings[s][i]] > 0
                \/ \E p \in Places(pendings[s][i]) : p[1] # "parked"]_vars
  BY FlushDelivers
<1>2. Init => FlushInv
  BY IdleCallsNothing DEF Init, Idle, FlushInv
<1> QED
  BY CopyInit, CopyStep, <1>1, <1>2, FlushStep, PTL DEF Spec, FlushLosesNothing
=============================================================================
