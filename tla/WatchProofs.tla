---------------------------- MODULE WatchProofs ----------------------------
(***************************************************************************)
(* The invariants of the watch of a cluster, for every number of servers   *)
(* and of faults.                                                          *)
(***************************************************************************)
EXTENDS Watch, FiniteSetTheorems, TLAPS

-----------------------------------------------------------------------------
(* Typing.                                                                 *)

LEMMA ConnType == MaxConn \in Nat /\ Cardinality(Server) \in Nat /\ MaxFault \in Nat
<1>1. Cardinality(Server) \in Nat
  BY ConstantsAssumption, FS_CardinalityType
<1>2. MaxFault \in Nat
  BY ConstantsAssumption DEF MaxFault
<1> QED
  BY <1>1, <1>2 DEF MaxConn

\* A request sent to a server.
LEMMA PacketsType ==
  ASSUME NEW rs \in Seq(Entry), NEW known \in SUBSET Server
  PROVE  Packets(rs, known) \in Seq(ToMonitor)
<1>1. \A r \in Entry : Packet(r, known) \in ToMonitor
  BY DEF Packet, ToMonitor, Entry, Action
<1>2. \A i \in DOMAIN rs : rs[i] \in Entry
  OBVIOUS
<1> QED
  BY <1>1, <1>2 DEF Packets

LEMMA NoticeType ==
  ASSUME NEW ids \in SUBSET Server, NEW r \in Entry
  PROVE  Notice(ids, r) \in [Server -> Seq(Entry)]
BY DEF Notice

LEMMA AddressedType ==
  ASSUME NEW d, NEW news \in [Server -> Seq(Entry)], NEW to, NEW known \in SUBSET Server
  PROVE  Addressed(d, news, to, known) \in Seq(ToMonitor)
<1>1. CASE \E s \in Server : to[s] = d
  <2> DEFINE t == CHOOSE s \in Server : to[s] = d
  <2>1. t \in Server
    BY <1>1
  <2>2. news[t] \in Seq(Entry)
    BY <2>1
  <2>3. Packets(news[t], known) \in Seq(ToMonitor)
    BY <2>2, PacketsType
  <2> QED
    BY <1>1, <2>3 DEF Addressed
<1>2. CASE ~ \E s \in Server : to[s] = d
  BY <1>2 DEF Addressed
<1> QED
  BY <1>1, <1>2

LEMMA ArriveType ==
  ASSUME TypeOK, NEW d \in Conn, NEW msgs \in Seq(ToMonitor)
  PROVE  Arrive(d, msgs) \in Seq(ToMonitor)
<1>1. toMonitor[d] \in Seq(ToMonitor)
  BY DEF TypeOK
<1>2. toMonitor[d] \o msgs \in Seq(ToMonitor)
  BY <1>1
<1> QED
  BY <1>1, <1>2 DEF Arrive

\* Requests numbered up to m are kept.
LEMMA PostType ==
  ASSUME TypeOK, NEW news \in [Server -> Seq(Entry)], Post(news),
         NEW m \in Nat, Len(latches) <= m,
         \A s \in Server : \A i \in DOMAIN news[s] : news[s][i].id \in 1 .. m
  PROVE  /\ msgMap' \in [Server -> Seq(Entry)]
         /\ callbacks' \in [Server -> SUBSET (1 .. m)]
<1>1. msgMap' \in [Server -> Seq(Entry)]
  <2>1. \A s \in Server : msgMap[s] \o news[s] \in Seq(Entry)
    <3>1. \A s \in Server : msgMap[s] \in Seq(Entry) /\ news[s] \in Seq(Entry)
      BY DEF TypeOK
    <3> QED
      BY <3>1
  <2> QED
    BY <2>1 DEF Post
<1>2. callbacks' \in [Server -> SUBSET (1 .. m)]
  <2>1. Len(latches) \in Nat
    BY DEF TypeOK
  <2>2. \A s \in Server : callbacks[s] \subseteq 1 .. m
    BY <2>1 DEF TypeOK
  <2>3. \A s \in Server : {news[s][i].id : i \in DOMAIN news[s]} \subseteq 1 .. m
    OBVIOUS
  <2> QED
    BY <2>2, <2>3 DEF Post
<1> QED
  BY <1>1, <1>2

LEMMA LatchForType ==
  ASSUME NEW ids \in SUBSET Server, NEW to
  PROVE  LatchFor(ids, to) \in Nat
<1>1. IsFiniteSet({s \in ids : to[s] # NoConn})
  BY ConstantsAssumption, FS_Subset
<1> QED
  BY <1>1, FS_CardinalityType DEF LatchFor

LEMMA LatchedType ==
  ASSUME NEW ls \in Seq(Nat \union {NoLatch}), NEW ids \in SUBSET Server, NEW to
  PROVE  /\ Latched(ls, ids, to) \in Seq(Nat \union {NoLatch})
         /\ Len(Latched(ls, ids, to)) = IF ids = {} THEN Len(ls) ELSE Len(ls) + 1
<1>1. LatchFor(ids, to) \in Nat
  BY LatchForType
<1> QED
  BY <1>1 DEF Latched

LEMMA NumberType == ASSUME TypeOK PROVE Number \in Nat \ {0} /\ Len(latches) \in Nat
BY DEF TypeOK, Number

\* One notice more.
LEMMA NoticePosted ==
  ASSUME TypeOK, NEW ids \in SUBSET Server, NEW action \in Action, NEW about \in Server,
         NEW to, Post(Notice(ids, Request(Number, action, about))),
         latches' = Latched(latches, ids, to)
  PROVE  /\ msgMap' \in [Server -> Seq(Entry)]
         /\ callbacks' \in [Server -> SUBSET (1 .. Len(latches'))]
         /\ latches' \in Seq(Nat \union {NoLatch})
<1> DEFINE news == Notice(ids, Request(Number, action, about))
<1>1. Number \in Nat \ {0} /\ Len(latches) \in Nat /\ latches \in Seq(Nat \union {NoLatch})
  BY NumberType DEF TypeOK
<1>2. Request(Number, action, about) \in Entry /\ Request(Number, action, about).id = Number
  BY <1>1 DEF Request, Entry
<1>3. news \in [Server -> Seq(Entry)]
  BY <1>2, NoticeType
<1>4. /\ latches' \in Seq(Nat \union {NoLatch})
      /\ Len(latches') = IF ids = {} THEN Len(latches) ELSE Len(latches) + 1
  BY <1>1, LatchedType
<1>5. Len(latches') \in Nat /\ Len(latches) <= Len(latches')
  BY <1>1, <1>4
<1>6. \A s \in Server : \A i \in DOMAIN news[s] : news[s][i].id \in 1 .. Len(latches')
  BY <1>1, <1>2, <1>4 DEF Notice, Number
<1> HIDE DEF news
<1>7. Post(news)
  BY DEF news
<1> QED
  BY <1>3, <1>4, <1>5, <1>6, <1>7, PostType

\* TypeOK in the groups of variables that the actions change together.
ProcessOK ==
  /\ phase \in [Server -> {"idle"} \union Up \union Ended]
  /\ agent \in [Server -> {"inited", "connected", "registered"}]
  /\ link \in [Server -> 0 .. MaxConn + 1]
  /\ table \in [Server -> SUBSET Server]
NetworkOK ==
  /\ owner \in [Conn -> Server \union {NoServer}]
  /\ socket \in [Conn -> {"unused", "open", "registered", "closed"}]
  /\ toMaster \in [Conn -> Seq(ToMaster)]
  /\ toMonitor \in [Conn -> Seq(ToMonitor)]
AgentOK ==
  /\ idMap \in [Server -> 0 .. MaxConn]
  /\ slaves \in [Server -> SUBSET Conn]
  /\ msgMap \in [Server -> Seq(Entry)]
  /\ callbacks \in [Server -> SUBSET (1 .. Len(latches))]
  /\ latches \in Seq(Nat \union {NoLatch})
  /\ threw \in BOOLEAN
WatchdogOK ==
  /\ servers \subseteq Server
  /\ listeners \subseteq Server
  /\ count \in Int
  /\ isStarted \in BOOLEAN

LEMMA TypeGroups ==
  TypeOK <=> ProcessOK /\ NetworkOK /\ AgentOK /\ WatchdogOK /\ faults \in 0 .. MaxFault
BY DEF TypeOK, ProcessOK, NetworkOK, AgentOK, WatchdogOK

LEMMA TypeGroupsPrime ==
  ASSUME ProcessOK', NetworkOK', AgentOK', WatchdogOK', faults' \in 0 .. MaxFault
  PROVE  TypeOK'
BY DEF TypeOK, ProcessOK, NetworkOK, AgentOK, WatchdogOK

LEMMA ProcessKept == ASSUME ProcessOK, UNCHANGED process PROVE ProcessOK'
BY DEF ProcessOK, process
LEMMA AgentKept == ASSUME AgentOK, UNCHANGED masterAgent PROVE AgentOK'
BY DEF AgentOK, masterAgent
LEMMA WatchdogKept == ASSUME WatchdogOK, UNCHANGED watchdog PROVE WatchdogOK'
BY DEF WatchdogOK, watchdog

LEMMA FaultType ==
  ASSUME faults \in 0 .. MaxFault, NEW kind, Fault(kind) \/ UNCHANGED faults
  PROVE  faults' \in 0 .. MaxFault
BY ConnType DEF Fault

LEMMA TypeInit == Init => TypeOK
<1> SUFFICES ASSUME Init PROVE TypeOK
  OBVIOUS
<1>1. MaxConn \in Nat /\ Cardinality(Server) \in Nat
  BY ConnType
<1>2. ProcessOK
  <2>1. Lost \in 0 .. MaxConn + 1
    BY <1>1 DEF Lost
  <2>2. /\ phase = [s \in Server |-> "idle"]
        /\ agent = [s \in Server |-> "inited"]
        /\ link = [s \in Server |-> Lost]
        /\ table = [s \in Server |-> {}]
    BY DEF Init
  <2> QED
    BY <2>1, <2>2 DEF ProcessOK
<1>3. NetworkOK
  <2>1. /\ owner = [c \in Conn |-> NoServer]
        /\ socket = [c \in Conn |-> "unused"]
        /\ toMaster = [c \in Conn |-> <<>>]
        /\ toMonitor = [c \in Conn |-> <<>>]
    BY DEF Init
  <2>2. <<>> \in Seq(ToMaster) /\ <<>> \in Seq(ToMonitor)
    OBVIOUS
  <2> QED
    BY <2>1, <2>2 DEF NetworkOK
<1>4. AgentOK
  <2>1. /\ idMap = [s \in Server |-> NoConn]
        /\ slaves = [s \in Server |-> {}]
        /\ msgMap = [s \in Server |-> <<>>]
        /\ callbacks = [s \in Server |-> {}]
        /\ latches = <<>>
        /\ threw = FALSE
    BY DEF Init
  <2>2. NoConn \in 0 .. MaxConn /\ <<>> \in Seq(Entry) /\ <<>> \in Seq(Nat \union {NoLatch})
    BY <1>1 DEF NoConn
  <2> QED
    BY <2>1, <2>2 DEF AgentOK
<1>5. WatchdogOK
  <2>1. servers = {} /\ listeners = {} /\ count = Cardinality(Server) - 1 /\ isStarted = FALSE
    BY DEF Init
  <2>2. servers \subseteq Server /\ listeners \subseteq Server
    BY <2>1
  <2>3. count \in Int
    BY <1>1, <2>1
  <2>4. isStarted \in BOOLEAN
    BY <2>1
  <2> QED
    BY <2>2, <2>3, <2>4 DEF WatchdogOK
<1>6. faults \in 0 .. MaxFault
  <2>1. 0 \in 0 .. MaxFault
    BY ConnType
  <2> QED
    BY <2>1 DEF Init
<1> QED
  BY <1>1, <1>2, <1>3, <1>4, <1>5, <1>6, TypeGroups

-----------------------------------------------------------------------------
(* Typing of the steps.                                                    *)

LEMMA ConnectType ==
  ASSUME TypeOK, NEW s \in Server, NEW c \in Conn, NEW msg \in {"register", "reconnect"},
         Connect(s, c, msg)
  PROVE  /\ link' \in [Server -> 0 .. MaxConn + 1]
         /\ agent' \in [Server -> {"inited", "connected", "registered"}]
         /\ NetworkOK' /\ AgentOK' /\ WatchdogOK' /\ faults' \in 0 .. MaxFault
<1> USE DEF TypeOK
<1>1. link' \in [Server -> 0 .. MaxConn + 1]
  BY ConnType DEF Connect, Conn
<1>2. agent' \in [Server -> {"inited", "connected", "registered"}]
  BY DEF Connect
<1>3. owner' \in [Conn -> Server \union {NoServer}]
  BY DEF Connect
<1>4. socket' \in [Conn -> {"unused", "open", "registered", "closed"}]
  BY DEF Connect
<1>5. toMaster' \in [Conn -> Seq(ToMaster)]
  <2>1. <<[type |-> msg]>> \in Seq(ToMaster)
    BY DEF ToMaster
  <2> QED
    BY <2>1 DEF Connect
<1>6. UNCHANGED <<toMonitor, masterAgent, watchdog, faults>>
  BY DEF Connect
<1>7. AgentOK' /\ WatchdogOK'
  BY <1>6, AgentKept, WatchdogKept, TypeGroups
<1> QED
  BY <1>1, <1>2, <1>3, <1>4, <1>5, <1>6, <1>7 DEF NetworkOK

LEMMA UnplugType ==
  ASSUME TypeOK, NEW s \in Server, NEW to \in {Lost, GivenUp}, Unplug(s, to)
  PROVE  /\ link' \in [Server -> 0 .. MaxConn + 1]
         /\ toMonitor' \in [Conn -> Seq(ToMonitor)]
<1>1. to \in 0 .. MaxConn + 1
  BY ConnType DEF Lost, GivenUp
<1> QED
  BY <1>1 DEF Unplug, TypeOK

LEMMA ReceiveType ==
  ASSUME TypeOK, NEW c \in Conn, NEW type, Receive(c, type)
  PROVE  toMaster' \in [Conn -> Seq(ToMaster)] /\ Head(toMaster[c]) \in ToMaster
<1>1. toMaster[c] \in Seq(ToMaster) /\ toMaster[c] # <<>>
  BY DEF TypeOK, Receive
<1>2. Tail(toMaster[c]) \in Seq(ToMaster) /\ Head(toMaster[c]) \in ToMaster
  BY <1>1
<1> QED
  BY <1>2 DEF Receive, TypeOK

LEMMA ReadType ==
  ASSUME TypeOK, NEW s \in Server, NEW type, Read(s, type)
  PROVE  /\ link[s] \in Conn
         /\ toMonitor' \in [Conn -> Seq(ToMonitor)]
         /\ Head(toMonitor[link[s]]) \in ToMonitor
         /\ Head(toMonitor[link[s]]).type = type
<1>1. link[s] \in Conn /\ toMonitor[link[s]] \in Seq(ToMonitor) /\ toMonitor[link[s]] # <<>>
  BY DEF TypeOK, Read
<1>2. /\ Tail(toMonitor[link[s]]) \in Seq(ToMonitor)
      /\ Head(toMonitor[link[s]]) \in ToMonitor
  BY <1>1
<1> QED
  BY <1>1, <1>2 DEF Read, TypeOK

LEMMA SayType ==
  ASSUME TypeOK, NEW s \in Server, NEW msg \in ToMaster, Say(s, msg)
  PROVE  toMaster' \in [Conn -> Seq(ToMaster)]
<1>1. CASE Live(link[s])
  <2>1. toMaster' = [toMaster EXCEPT ![link[s]] = Append(@, msg)]
    BY <1>1 DEF Say
  <2>2. \A c \in Conn : Append(toMaster[c], msg) \in Seq(ToMaster)
    <3>1. \A c \in Conn : toMaster[c] \in Seq(ToMaster)
      BY DEF TypeOK
    <3> QED
      BY <3>1
  <2> QED
    BY <2>1, <2>2 DEF TypeOK
<1>2. CASE ~ Live(link[s])
  BY <1>2 DEF Say, TypeOK
<1> QED
  BY <1>1, <1>2

-----------------------------------------------------------------------------
(* The type invariant.                                                     *)

\* A connection that was made has an owner.
Owned == \A c \in Conn : socket[c] # "unused" => owner[c] \in Server

TInv == TypeOK /\ Owned

LEMMA ReceivedOwned ==
  ASSUME TInv, NEW c \in Conn, Live(c)
  PROVE  owner[c] \in Server
BY DEF TInv, Owned, Live, Accepted

LEMMA OwnedKept == ASSUME Owned, UNCHANGED <<owner, socket>> PROVE Owned'
BY DEF Owned

LEMMA WelcomeType ==
  ASSUME TInv, NEW c \in Conn, owner[c] \in Server, NEW answer \in ToMonitor,
         NEW news \in [Server -> Seq(Entry)],
         NEW to, NEW known \in SUBSET Server, Welcome(c, answer, news, to, known)
  PROVE  toMonitor' \in [Conn -> Seq(ToMonitor)]
<1> DEFINE A(d) == IF d = c THEN <<answer>> ELSE <<>>
           K(d) == IF d = c THEN Packets(msgMap[owner[c]] \o news[owner[c]], known) ELSE <<>>
           M(d) == A(d) \o Addressed(d, news, to, known) \o K(d)
<1>1. Packets(msgMap[owner[c]] \o news[owner[c]], known) \in Seq(ToMonitor)
  <2>1. msgMap[owner[c]] \in Seq(Entry) /\ news[owner[c]] \in Seq(Entry)
    BY DEF TInv, TypeOK
  <2>2. msgMap[owner[c]] \o news[owner[c]] \in Seq(Entry)
    BY <2>1
  <2> QED
    BY <2>2, PacketsType
<1>2. ASSUME NEW d \in Conn PROVE M(d) \in Seq(ToMonitor)
  <2>1. A(d) \in Seq(ToMonitor)
    OBVIOUS
  <2>2. K(d) \in Seq(ToMonitor)
    BY <1>1
  <2>3. Addressed(d, news, to, known) \in Seq(ToMonitor)
    BY AddressedType
  <2> HIDE DEF A, K
  <2> QED
    BY <2>1, <2>2, <2>3
<1>3. toMonitor' = [d \in Conn |-> Arrive(d, M(d))]
  BY DEF Welcome
<1> HIDE DEF M
<1>4. \A d \in Conn : Arrive(d, M(d)) \in Seq(ToMonitor)
  BY <1>2, ArriveType DEF TInv
<1> QED
  BY <1>3, <1>4

LEMMA ReplyType ==
  ASSUME TInv, NEW c \in Conn, NEW answer \in ToMonitor, Reply(c, answer)
  PROVE  toMonitor' \in [Conn -> Seq(ToMonitor)]
<1> DEFINE A(d) == IF d = c THEN <<answer>> ELSE <<>>
<1>1. \A d \in Conn : A(d) \in Seq(ToMonitor)
  OBVIOUS
<1>2. toMonitor' = [d \in Conn |-> Arrive(d, A(d))]
  BY DEF Reply
<1> HIDE DEF A
<1>3. \A d \in Conn : Arrive(d, A(d)) \in Seq(ToMonitor)
  BY <1>1, ArriveType DEF TInv
<1> QED
  BY <1>2, <1>3

LEMMA TellType ==
  ASSUME TInv, NEW news \in [Server -> Seq(Entry)], NEW to, NEW known \in SUBSET Server,
         toMonitor' = [d \in Conn |-> Arrive(d, Addressed(d, news, to, known))]
  PROVE  toMonitor' \in [Conn -> Seq(ToMonitor)]
<1>1. \A d \in Conn : Arrive(d, Addressed(d, news, to, known)) \in Seq(ToMonitor)
  BY ArriveType, AddressedType DEF TInv
<1> QED
  BY <1>1

LEMMA AddConnectionType ==
  ASSUME TInv, NEW c \in Conn PROVE AddConnection(c) \in [Server -> 0 .. MaxConn]
<1>1. c \in 0 .. MaxConn /\ idMap \in [Server -> 0 .. MaxConn]
  BY ConnType DEF TInv, TypeOK, Conn
<1>2. [idMap EXCEPT ![owner[c]] = c] \in [Server -> 0 .. MaxConn]
  BY <1>1
<1> QED
  BY <1>1, <1>2 DEF AddConnection

LEMMA RemoveConnectionType ==
  ASSUME TInv, NEW s \in Server PROVE RemoveConnection(s) \in [Server -> 0 .. MaxConn]
BY ConnType DEF TInv, TypeOK, RemoveConnection, NoConn

LEMMA OneNoticeType ==
  ASSUME TypeOK, NEW ids \in SUBSET Server, NEW action \in Action, NEW about \in Server
  PROVE  Notice(ids, Request(Number, action, about)) \in [Server -> Seq(Entry)]
<1>1. Request(Number, action, about) \in Entry
  BY NumberType DEF Request, Entry
<1> QED
  BY <1>1, NoticeType

-----------------------------------------------------------------------------
(* The steps of the master.                                                *)

LEMMA TypeRegister ==
  ASSUME TInv, NEW c \in Conn, OnRegister(c) PROVE TInv'
<1> DEFINE s == owner[c]
           to == AddConnection(c)
           known == servers \union {s}
           news == Notice(listeners, Request(Number, "addServer", s))
<1>1. Receive(c, "register") /\ Live(c)
  BY DEF OnRegister, Receive
<1>2. s \in Server
  BY <1>1, ReceivedOwned
<1>3. /\ idMap' = to
      /\ slaves' = IF idMap[s] = NoConn THEN slaves ELSE [slaves EXCEPT ![s] = @ \union {c}]
      /\ servers' = known
      /\ Post(news)
      /\ latches' = Latched(latches, listeners, to)
      /\ Welcome(c, [type |-> "registered"], news, to, known)
      /\ socket' = [socket EXCEPT ![c] = "registered"]
      /\ UNCHANGED <<process, owner, threw, listeners, count, isStarted, faults>>
  BY DEF OnRegister
<1>4. listeners \in SUBSET Server /\ known \in SUBSET Server /\ "addServer" \in Action
  BY <1>2 DEF TInv, TypeOK, Action
<1>5. news \in [Server -> Seq(Entry)]
  BY <1>2, <1>4, OneNoticeType DEF TInv
<1>6. /\ msgMap' \in [Server -> Seq(Entry)]
      /\ callbacks' \in [Server -> SUBSET (1 .. Len(latches'))]
      /\ latches' \in Seq(Nat \union {NoLatch})
  BY <1>2, <1>3, <1>4, NoticePosted DEF TInv
<1>7. to \in [Server -> 0 .. MaxConn]
  BY AddConnectionType
<1>8. [type |-> "registered"] \in ToMonitor
  BY DEF ToMonitor
<1> HIDE DEF to, known, news
<1>9. toMonitor' \in [Conn -> Seq(ToMonitor)]
  BY <1>2, <1>3, <1>4, <1>5, <1>8, WelcomeType
<1>10. ProcessOK'
  BY <1>3, ProcessKept, TypeGroups DEF TInv
<1>11. NetworkOK'
  BY <1>1, <1>3, <1>9, ReceiveType DEF TInv, TypeOK, NetworkOK
<1>12. AgentOK'
  BY <1>2, <1>3, <1>6, <1>7 DEF TInv, TypeOK, AgentOK
<1>13. WatchdogOK'
  BY <1>3, <1>4 DEF TInv, TypeOK, WatchdogOK
<1>14. Owned'
  BY <1>2, <1>3 DEF TInv, Owned, TypeOK
<1>15. faults' \in 0 .. MaxFault
  BY <1>3 DEF TInv, TypeOK
<1> QED
  BY <1>10, <1>11, <1>12, <1>13, <1>14, <1>15, TypeGroupsPrime DEF TInv

LEMMA TypeRefuse ==
  ASSUME TInv, NEW c \in Conn, RefuseReconnect(c) PROVE TInv'
<1>1. /\ Receive(c, "reconnect")
      /\ Reply(c, [type |-> "reconnected", ok |-> FALSE])
      /\ UNCHANGED <<process, owner, socket, masterAgent, watchdog, faults>>
  BY DEF RefuseReconnect
<1>2. [type |-> "reconnected", ok |-> FALSE] \in ToMonitor
  BY DEF ToMonitor
<1>3. toMonitor' \in [Conn -> Seq(ToMonitor)] /\ toMaster' \in [Conn -> Seq(ToMaster)]
  BY <1>1, <1>2, ReplyType, ReceiveType DEF TInv
<1>4. NetworkOK'
  BY <1>1, <1>3 DEF TInv, TypeOK, NetworkOK
<1>5. ProcessOK' /\ AgentOK' /\ WatchdogOK'
  BY <1>1, ProcessKept, AgentKept, WatchdogKept, TypeGroups DEF TInv
<1>6. Owned' /\ faults' \in 0 .. MaxFault
  BY <1>1, OwnedKept DEF TInv, TypeOK
<1> QED
  BY <1>4, <1>5, <1>6, TypeGroupsPrime DEF TInv

LEMMA ConcatType ==
  ASSUME NEW S, NEW p \in Seq(S), NEW q \in Seq(S) PROVE p \o q \in Seq(S)
OBVIOUS

\* The numbers of two series of requests.
LEMMA ConcatIds ==
  ASSUME NEW p \in Seq(Entry), NEW q \in Seq(Entry), NEW I,
         \A i \in DOMAIN p : p[i].id \in I, \A i \in DOMAIN q : q[i].id \in I
  PROVE  \A i \in DOMAIN (p \o q) : (p \o q)[i].id \in I
<1> SUFFICES ASSUME NEW i \in DOMAIN (p \o q) PROVE (p \o q)[i].id \in I
  OBVIOUS
<1>1. CASE i \in DOMAIN p
  <2>1. (p \o q)[i] = p[i]
    BY <1>1
  <2> QED
    BY <1>1, <2>1
<1>2. CASE i \notin DOMAIN p
  <2>1. (p \o q)[i] = q[i - Len(p)] /\ i - Len(p) \in DOMAIN q
    BY <1>2
  <2> QED
    BY <2>1
<1> QED
  BY <1>1, <1>2

LEMMA NoticeIds ==
  ASSUME NEW ids, NEW r, NEW t \in Server, NEW I, t \in ids => r.id \in I
  PROVE  \A i \in DOMAIN Notice(ids, r)[t] : Notice(ids, r)[t][i].id \in I
<1>1. CASE t \in ids
  <2>1. Notice(ids, r)[t] = <<r>>
    BY <1>1 DEF Notice
  <2> QED
    BY <1>1, <2>1
<1>2. CASE t \notin ids
  <2>1. Notice(ids, r)[t] = <<>>
    BY <1>2 DEF Notice
  <2> QED
    BY <2>1
<1> QED
  BY <1>1, <1>2

\* What a reconnected server and the others are sent.
LEMMA ReconnectPosted ==
  ASSUME TypeOK, NEW s \in Server, NEW to,
         NEW news, news = [t \in Server |->
           Notice({s}, Request(Number, "replaceServer", s))[t]
             \o Notice(listeners, Request(Number + 1, "addServer", s))[t]],
         Post(news), latches' = Latched(Append(latches, NoLatch), listeners, to)
  PROVE  /\ news \in [Server -> Seq(Entry)]
         /\ msgMap' \in [Server -> Seq(Entry)]
         /\ callbacks' \in [Server -> SUBSET (1 .. Len(latches'))]
         /\ latches' \in Seq(Nat \union {NoLatch})
<1> DEFINE replace == Request(Number, "replaceServer", s)
           add == Request(Number + 1, "addServer", s)
<1>1. /\ Number \in Nat \ {0} /\ Len(latches) \in Nat /\ latches \in Seq(Nat \union {NoLatch})
      /\ listeners \in SUBSET Server
  BY NumberType DEF TypeOK
<1>2. /\ replace \in Entry /\ replace.id = Len(latches) + 1
      /\ add \in Entry /\ add.id = Len(latches) + 2
  BY <1>1 DEF Request, Entry, Action, Number
<1> HIDE DEF replace, add
<1>3. \A t \in Server : news[t] = Notice({s}, replace)[t] \o Notice(listeners, add)[t]
  BY DEF replace, add
<1>4. \A t \in Server : /\ Notice({s}, replace)[t] \in Seq(Entry)
                        /\ Notice(listeners, add)[t] \in Seq(Entry)
  BY <1>1, <1>2, NoticeType
<1>5. news \in [Server -> Seq(Entry)]
  <2>1. \A t \in Server : Notice({s}, replace)[t] \o Notice(listeners, add)[t] \in Seq(Entry)
    BY <1>4, ConcatType
  <2>2. news = [t \in Server |-> Notice({s}, replace)[t] \o Notice(listeners, add)[t]]
    BY DEF replace, add
  <2> QED
    BY <2>1, <2>2
<1>6. /\ Append(latches, NoLatch) \in Seq(Nat \union {NoLatch})
      /\ Len(Append(latches, NoLatch)) = Len(latches) + 1
  BY <1>1
<1>7. /\ latches' \in Seq(Nat \union {NoLatch})
      /\ listeners = {} => Len(latches') = Len(latches) + 1
      /\ listeners # {} => Len(latches') = Len(latches) + 2
  <2> DEFINE ls == Append(latches, NoLatch)
  <2> HIDE DEF ls
  <2>1. ls \in Seq(Nat \union {NoLatch}) /\ Len(ls) = Len(latches) + 1
    BY <1>6 DEF ls
  <2>2. latches' = Latched(ls, listeners, to)
    BY DEF ls
  <2>3. /\ latches' \in Seq(Nat \union {NoLatch})
        /\ Len(latches') = IF listeners = {} THEN Len(ls) ELSE Len(ls) + 1
    BY <1>1, <2>1, <2>2, LatchedType
  <2> QED
    BY <1>1, <2>1, <2>3
<1>8. \A t \in Server : \A i \in DOMAIN news[t] : news[t][i].id \in 1 .. Len(latches')
  <2> SUFFICES ASSUME NEW t \in Server
               PROVE  \A i \in DOMAIN news[t] : news[t][i].id \in 1 .. Len(latches')
    OBVIOUS
  <2>1. \A i \in DOMAIN Notice({s}, replace)[t] :
          Notice({s}, replace)[t][i].id \in 1 .. Len(latches')
    <3>1. Len(latches) + 1 \in 1 .. Len(latches')
      BY <1>1, <1>7
    <3>2. replace.id \in 1 .. Len(latches')
      BY <1>2, <3>1
    <3> QED
      BY <3>2, NoticeIds
  <2>2. \A i \in DOMAIN Notice(listeners, add)[t] :
          Notice(listeners, add)[t][i].id \in 1 .. Len(latches')
    <3>1. CASE t \in listeners
      <4>1. Len(latches') = Len(latches) + 2
        BY <1>7, <3>1
      <4>2. Len(latches) + 2 \in 1 .. Len(latches')
        BY <1>1, <4>1
      <4>3. add.id \in 1 .. Len(latches')
        BY <1>2, <4>2
      <4> QED
        BY <4>3, NoticeIds
    <3>2. CASE t \notin listeners
      BY <3>2, NoticeIds
    <3> QED
      BY <3>1, <3>2
  <2>3. Notice({s}, replace)[t] \in Seq(Entry) /\ Notice(listeners, add)[t] \in Seq(Entry)
    BY <1>4
  <2> QED
    BY <1>3, <2>1, <2>2, <2>3, ConcatIds
<1>9. Len(latches') \in Nat /\ Len(latches) <= Len(latches')
  BY <1>1, <1>7
<1> QED
  BY <1>5, <1>7, <1>8, <1>9, PostType

LEMMA TypeReconnect ==
  ASSUME TInv, NEW c \in Conn, OnReconnect(c) PROVE TInv'
<1> DEFINE s == owner[c]
           to == AddConnection(c)
           known == servers \union {s}
           news == [t \in Server |->
             Notice({s}, Request(Number, "replaceServer", s))[t]
               \o Notice(listeners, Request(Number + 1, "addServer", s))[t]]
<1>1. Receive(c, "reconnect") /\ Live(c)
  BY DEF OnReconnect, Receive
<1>2. s \in Server
  BY <1>1, ReceivedOwned
<1>3. /\ idMap' = to
      /\ servers' = known
      /\ Post(news)
      /\ latches' = Latched(Append(latches, NoLatch), listeners, to)
      /\ listeners' = Subscribe(s)
      /\ Welcome(c, [type |-> "reconnected", ok |-> TRUE], news, to, known)
      /\ socket' = [socket EXCEPT ![c] = "registered"]
      /\ UNCHANGED <<process, owner, slaves, threw, count, isStarted, faults>>
  BY DEF OnReconnect
<1>4. known \in SUBSET Server /\ Subscribe(s) \in SUBSET Server
  BY <1>2 DEF TInv, TypeOK, Subscribe
<1>5. /\ news \in [Server -> Seq(Entry)]
      /\ msgMap' \in [Server -> Seq(Entry)]
      /\ callbacks' \in [Server -> SUBSET (1 .. Len(latches'))]
      /\ latches' \in Seq(Nat \union {NoLatch})
  BY <1>2, <1>3, ReconnectPosted DEF TInv
<1>6. to \in [Server -> 0 .. MaxConn]
  BY AddConnectionType
<1>7. [type |-> "reconnected", ok |-> TRUE] \in ToMonitor
  BY DEF ToMonitor
<1> HIDE DEF to, known, news
<1>8. toMonitor' \in [Conn -> Seq(ToMonitor)]
  BY <1>2, <1>3, <1>4, <1>5, <1>7, WelcomeType
<1>9. ProcessOK'
  BY <1>3, ProcessKept, TypeGroups DEF TInv
<1>10. NetworkOK'
  BY <1>1, <1>3, <1>8, ReceiveType DEF TInv, TypeOK, NetworkOK
<1>11. AgentOK'
  BY <1>2, <1>3, <1>5, <1>6 DEF TInv, TypeOK, AgentOK
<1>12. WatchdogOK'
  BY <1>3, <1>4 DEF TInv, TypeOK, WatchdogOK
<1>13. Owned' /\ faults' \in 0 .. MaxFault
  BY <1>2, <1>3 DEF TInv, Owned, TypeOK
<1> QED
  BY <1>9, <1>10, <1>11, <1>12, <1>13, TypeGroupsPrime DEF TInv

LEMMA TypeSubscribe ==
  ASSUME TInv, NEW c \in Conn, OnSubscribe(c) PROVE TInv'
<1>1. /\ Receive(c, "subscribe") /\ Live(c)
      /\ listeners' = Subscribe(owner[c])
      /\ Reply(c, [type |-> "servers", servers |-> servers])
      /\ UNCHANGED <<process, owner, socket, masterAgent, servers, count, isStarted, faults>>
  BY DEF OnSubscribe, Receive
<1>2. [type |-> "servers", servers |-> servers] \in ToMonitor
  BY DEF TInv, TypeOK, ToMonitor
<1>3. toMonitor' \in [Conn -> Seq(ToMonitor)] /\ toMaster' \in [Conn -> Seq(ToMaster)]
  BY <1>1, <1>2, ReplyType, ReceiveType DEF TInv
<1>4. NetworkOK'
  BY <1>1, <1>3 DEF TInv, TypeOK, NetworkOK
<1>5. ProcessOK' /\ AgentOK'
  BY <1>1, ProcessKept, AgentKept, TypeGroups DEF TInv
<1>6. WatchdogOK'
  <2>1. owner[c] \in Server
    BY <1>1, ReceivedOwned
  <2> QED
    BY <1>1, <2>1 DEF TInv, TypeOK, WatchdogOK, Subscribe
<1>7. Owned' /\ faults' \in 0 .. MaxFault
  BY <1>1, OwnedKept DEF TInv, TypeOK
<1> QED
  BY <1>4, <1>5, <1>6, <1>7, TypeGroupsPrime DEF TInv

LEMMA TypeRecord ==
  ASSUME TInv, NEW c \in Conn, OnRecord(c) PROVE TInv'
<1> DEFINE told == IF isStarted' /\ ~isStarted THEN listeners ELSE {}
           news == Notice(told, Request(Number, "startOver", owner[c]))
<1>1. /\ Receive(c, "record") /\ Live(c)
      /\ count' = IF isStarted THEN count ELSE count - 1
      /\ isStarted' = Over(count')
      /\ Post(news)
      /\ latches' = Latched(latches, told, idMap)
      /\ toMonitor' = [d \in Conn |-> Arrive(d, Addressed(d, news, idMap, servers))]
      /\ UNCHANGED <<process, owner, socket, idMap, slaves, threw, servers, listeners, faults>>
  BY DEF OnRecord, Receive
<1>2. owner[c] \in Server
  BY <1>1, ReceivedOwned
<1>3. told \in SUBSET Server /\ "startOver" \in Action /\ servers \in SUBSET Server
  BY DEF TInv, TypeOK, Action
<1>4. news \in [Server -> Seq(Entry)]
  BY <1>2, <1>3, OneNoticeType DEF TInv
<1>5. /\ msgMap' \in [Server -> Seq(Entry)]
      /\ callbacks' \in [Server -> SUBSET (1 .. Len(latches'))]
      /\ latches' \in Seq(Nat \union {NoLatch})
  BY <1>1, <1>2, <1>3, NoticePosted DEF TInv
<1> HIDE DEF told, news
<1>6. toMonitor' \in [Conn -> Seq(ToMonitor)] /\ toMaster' \in [Conn -> Seq(ToMaster)]
  BY <1>1, <1>3, <1>4, TellType, ReceiveType DEF TInv
<1>7. NetworkOK'
  BY <1>1, <1>6 DEF TInv, TypeOK, NetworkOK
<1>8. ProcessOK'
  BY <1>1, ProcessKept, TypeGroups DEF TInv
<1>9. AgentOK'
  BY <1>1, <1>5 DEF TInv, TypeOK, AgentOK
<1>10. WatchdogOK'
  <2>1. count' \in Int
    BY <1>1 DEF TInv, TypeOK
  <2>2. isStarted' \in BOOLEAN
    BY <1>1 DEF Over
  <2> QED
    BY <1>1, <2>1, <2>2 DEF TInv, TypeOK, WatchdogOK
<1>11. Owned' /\ faults' \in 0 .. MaxFault
  BY <1>1, OwnedKept DEF TInv, TypeOK
<1> QED
  BY <1>7, <1>8, <1>9, <1>10, <1>11, TypeGroupsPrime DEF TInv

LEMMA WithoutType ==
  ASSUME NEW q \in Seq(Entry), NEW n PROVE Without(q, n) \in Seq(Entry)
<1>1. CASE \E i \in DOMAIN q : q[i].id = n
  <2> DEFINE i == CHOOSE i \in DOMAIN q : q[i].id = n
  <2>1. i \in 1 .. Len(q)
    BY <1>1
  <2> HIDE DEF i
  <2>2. SubSeq(q, 1, i - 1) \in Seq(Entry) /\ SubSeq(q, i + 1, Len(q)) \in Seq(Entry)
    BY <2>1
  <2>3. SubSeq(q, 1, i - 1) \o SubSeq(q, i + 1, Len(q)) \in Seq(Entry)
    BY <2>2, ConcatType
  <2> QED
    BY <1>1, <2>3 DEF Without, i
<1>2. CASE ~ \E i \in DOMAIN q : q[i].id = n
  BY <1>2 DEF Without
<1> QED
  BY <1>1, <1>2

LEMMA TypeResponse ==
  ASSUME TInv, NEW c \in Conn, OnResponse(c) PROVE TInv'
<1> DEFINE s == owner[c]
           n == Head(toMaster[c]).id
<1>1. Receive(c, "response") /\ Live(c)
  BY DEF OnResponse, Receive
<1>2. s \in Server
  BY <1>1, ReceivedOwned
<1>3. UNCHANGED <<process, owner, socket, toMonitor, idMap, slaves, watchdog, faults>>
  BY DEF OnResponse
<1>4. toMaster' \in [Conn -> Seq(ToMaster)]
  BY <1>1, ReceiveType DEF TInv
<1>5. NetworkOK'
  BY <1>3, <1>4 DEF TInv, TypeOK, NetworkOK
<1>6. ProcessOK' /\ WatchdogOK'
  BY <1>3, ProcessKept, WatchdogKept, TypeGroups DEF TInv
<1>7. Owned' /\ faults' \in 0 .. MaxFault
  BY <1>3, OwnedKept DEF TInv, TypeOK
<1>8. AgentOK'
  <2>1. CASE n \in callbacks[s]
    <3>1. /\ callbacks' = Forget(s, n)
          /\ msgMap' = [msgMap EXCEPT ![s] = Without(@, n)]
          /\ latches' = IF latches[n] > 0 THEN [latches EXCEPT ![n] = @ - 1] ELSE latches
          /\ threw' = (latches[n] = 0)
      BY <2>1 DEF OnResponse
    <3>2. n \in 1 .. Len(latches) /\ Len(latches) \in Nat /\ latches \in Seq(Nat \union {NoLatch})
      BY <1>2, <2>1, NumberType DEF TInv, TypeOK
    <3> HIDE DEF n
    <3>3. latches' \in Seq(Nat \union {NoLatch}) /\ Len(latches') = Len(latches)
      <4>1. CASE latches[n] > 0
        <5>1. latches' = [latches EXCEPT ![n] = latches[n] - 1]
          BY <3>1, <4>1
        <5>2. latches[n] \in Nat \union {NoLatch}
          BY <3>2
        <5>3. latches[n] - 1 \in Nat
          BY <4>1, <5>2 DEF NoLatch
        <5> QED
          BY <3>2, <5>1, <5>3
      <4>2. CASE ~(latches[n] > 0)
        BY <3>1, <3>2, <4>2
      <4> QED
        BY <4>1, <4>2
    <3>4. msgMap' \in [Server -> Seq(Entry)]
      <4>1. msgMap[s] \in Seq(Entry)
        BY <1>2 DEF TInv, TypeOK
      <4>2. Without(msgMap[s], n) \in Seq(Entry)
        BY <4>1, WithoutType
      <4> QED
        BY <3>1, <4>2 DEF TInv, TypeOK
    <3>5. callbacks' \in [Server -> SUBSET (1 .. Len(latches'))]
      <4>1. callbacks \in [Server -> SUBSET (1 .. Len(latches'))]
        BY <3>3 DEF TInv, TypeOK
      <4>2. callbacks' = [callbacks EXCEPT ![s] = callbacks[s] \ {n}]
        BY <3>1 DEF Forget
      <4> QED
        BY <1>2, <4>1, <4>2
    <3>6. threw' \in BOOLEAN
      BY <3>1
    <3> QED
      BY <1>3, <3>3, <3>4, <3>5, <3>6 DEF TInv, TypeOK, AgentOK
  <2>2. CASE n \notin callbacks[s]
    <3>1. UNCHANGED <<callbacks, msgMap, latches, threw>>
      BY <2>2 DEF OnResponse
    <3> QED
      BY <1>3, <3>1 DEF TInv, TypeOK, AgentOK
  <2> QED
    BY <2>1, <2>2
<1> QED
  BY <1>5, <1>6, <1>7, <1>8, TypeGroupsPrime DEF TInv

LEMMA OwnedUsed ==
  ASSUME TInv, UNCHANGED owner,
         \A c \in Conn : socket'[c] # "unused" => socket[c] # "unused"
  PROVE  Owned'
BY DEF TInv, Owned

LEMMA TypeDisconnect ==
  ASSUME TInv, NEW c \in Conn, OnDisconnect(c) PROVE TInv'
<1> DEFINE s == owner[c]
           to == RemoveConnection(s)
           rest == Unsubscribe(s)
           news == Notice(rest, Request(Number, "removeServer", s))
<1>1. /\ Live(c)
      /\ Fault("break") \/ UNCHANGED faults
      /\ socket' = [socket EXCEPT ![c] = "closed"]
      /\ toMaster' = [toMaster EXCEPT ![c] = <<>>]
      /\ UNCHANGED <<process, owner, slaves, threw, count, isStarted>>
  BY DEF OnDisconnect
<1>2. s \in Server
  BY <1>1, ReceivedOwned
<1>3. ProcessOK'
  BY <1>1, ProcessKept, TypeGroups DEF TInv
<1>4. Owned'
  <2>1. socket[c] # "unused"
    BY <1>1 DEF Live, Accepted
  <2>2. \A d \in Conn : socket'[d] # "unused" => socket[d] # "unused"
    BY <1>1, <2>1 DEF TInv, TypeOK
  <2> QED
    BY <1>1, <2>2, OwnedUsed
<1>5. faults' \in 0 .. MaxFault
  BY <1>1, FaultType DEF TInv, TypeOK
<1>6. toMaster' \in [Conn -> Seq(ToMaster)]
  <2>1. <<>> \in Seq(ToMaster)
    OBVIOUS
  <2> QED
    BY <1>1, <2>1 DEF TInv, TypeOK
<1>7. socket' \in [Conn -> {"unused", "open", "registered", "closed"}]
  BY <1>1 DEF TInv, TypeOK
<1>8. CASE socket[c] = "registered"
  <2>1. /\ idMap' = to
        /\ servers' = servers \ {s}
        /\ listeners' = rest
        /\ Post(news)
        /\ latches' = Latched(latches, rest, to)
        /\ toMonitor' = [d \in Conn |-> Arrive(d, Addressed(d, news, to, {}))]
    BY <1>8 DEF OnDisconnect
  <2>2. rest \in SUBSET Server /\ "removeServer" \in Action /\ {} \in SUBSET Server
    BY DEF TInv, TypeOK, Action, Unsubscribe
  <2>3. news \in [Server -> Seq(Entry)]
    BY <1>2, <2>2, OneNoticeType DEF TInv
  <2>4. /\ msgMap' \in [Server -> Seq(Entry)]
        /\ callbacks' \in [Server -> SUBSET (1 .. Len(latches'))]
        /\ latches' \in Seq(Nat \union {NoLatch})
    BY <1>2, <2>1, <2>2, NoticePosted DEF TInv
  <2>5. to \in [Server -> 0 .. MaxConn]
    BY <1>2, RemoveConnectionType
  <2> HIDE DEF rest, news, to
  <2>6. toMonitor' \in [Conn -> Seq(ToMonitor)]
    BY <2>1, <2>2, <2>3, TellType
  <2>7. NetworkOK'
    BY <1>1, <1>6, <1>7, <2>6 DEF TInv, TypeOK, NetworkOK
  <2>8. AgentOK'
    BY <1>1, <2>1, <2>4, <2>5 DEF TInv, TypeOK, AgentOK
  <2>9. WatchdogOK'
    BY <1>1, <2>1, <2>2 DEF TInv, TypeOK, WatchdogOK
  <2> QED
    BY <1>3, <1>4, <1>5, <2>7, <2>8, <2>9, TypeGroupsPrime DEF TInv
<1>9. CASE socket[c] # "registered"
  <2>1. UNCHANGED <<idMap, servers, listeners, msgMap, callbacks, latches, toMonitor>>
    BY <1>9 DEF OnDisconnect
  <2>2. NetworkOK'
    BY <1>1, <1>6, <1>7, <2>1 DEF TInv, TypeOK, NetworkOK
  <2>3. AgentOK'
    BY <1>1, <2>1 DEF TInv, TypeOK, AgentOK
  <2>4. WatchdogOK'
    BY <1>1, <2>1 DEF TInv, TypeOK, WatchdogOK
  <2> QED
    BY <1>3, <1>4, <1>5, <2>2, <2>3, <2>4, TypeGroupsPrime DEF TInv
<1> QED
  BY <1>8, <1>9

LEMMA ExitType ==
  ASSUME TypeOK, NEW s \in Server, NEW how \in {"idle"} \union Ended, Exit(s, how),
         UNCHANGED table
  PROVE  ProcessOK' /\ toMonitor' \in [Conn -> Seq(ToMonitor)]
<1>1. /\ phase' = [phase EXCEPT ![s] = how]
      /\ agent' = [agent EXCEPT ![s] = "inited"]
      /\ Unplug(s, Lost)
  BY DEF Exit
<1>2. phase' \in [Server -> {"idle"} \union Up \union Ended]
  BY <1>1 DEF TypeOK
<1>3. agent' \in [Server -> {"inited", "connected", "registered"}]
  BY <1>1 DEF TypeOK
<1>4. link' \in [Server -> 0 .. MaxConn + 1] /\ toMonitor' \in [Conn -> Seq(ToMonitor)]
  BY <1>1, UnplugType
<1> QED
  BY <1>2, <1>3, <1>4 DEF TypeOK, ProcessOK

LEMMA TypeRestart == ASSUME TInv, RestartMaster PROVE TInv'
<1>1. /\ Fault("restart") /\ Exit(Master, "idle") /\ UNCHANGED <<table, owner>>
      /\ socket' = [c \in Conn |-> IF Accepted(c) THEN "closed" ELSE socket[c]]
      /\ toMaster' = [c \in Conn |-> <<>>]
  BY DEF RestartMaster
<1>2. /\ idMap' = [s \in Server |-> NoConn]
      /\ slaves' = [s \in Server |-> {}]
      /\ msgMap' = [s \in Server |-> <<>>]
      /\ callbacks' = [s \in Server |-> {}]
      /\ latches' = <<>>
      /\ threw' = FALSE
  BY DEF RestartMaster
<1>3. /\ servers' = {} /\ listeners' = {}
      /\ count' = Cardinality(Server) - 1
      /\ isStarted' = FALSE
  BY DEF RestartMaster
<1>4. ProcessOK' /\ toMonitor' \in [Conn -> Seq(ToMonitor)]
  BY <1>1, ExitType, ConstantsAssumption DEF TInv
<1>5. socket' \in [Conn -> {"unused", "open", "registered", "closed"}]
  BY <1>1 DEF TInv, TypeOK
<1>6. toMaster' \in [Conn -> Seq(ToMaster)]
  <2>1. <<>> \in Seq(ToMaster)
    OBVIOUS
  <2> QED
    BY <1>1, <2>1
<1>7. NetworkOK'
  BY <1>1, <1>4, <1>5, <1>6 DEF TInv, TypeOK, NetworkOK
<1>8. AgentOK'
  <2>1. NoConn \in 0 .. MaxConn /\ <<>> \in Seq(Entry) /\ <<>> \in Seq(Nat \union {NoLatch})
    BY ConnType DEF NoConn
  <2> QED
    BY <1>2, <2>1 DEF AgentOK
<1>9. WatchdogOK'
  <2>1. servers' \subseteq Server /\ listeners' \subseteq Server
    BY <1>3
  <2>2. count' \in Int
    BY <1>3, ConnType
  <2>3. isStarted' \in BOOLEAN
    BY <1>3
  <2> QED
    BY <2>1, <2>2, <2>3 DEF WatchdogOK
<1>10. Owned'
  <2>1. \A c \in Conn : socket'[c] # "unused" => socket[c] # "unused"
    BY <1>1 DEF Accepted
  <2> QED
    BY <1>1, <2>1, OwnedUsed
<1>11. faults' \in 0 .. MaxFault
  BY <1>1, FaultType DEF TInv, TypeOK
<1> QED
  BY <1>4, <1>7, <1>8, <1>9, <1>10, <1>11, TypeGroupsPrime DEF TInv

-----------------------------------------------------------------------------
(* The steps of a server process.                                          *)

\* What a step of a server leaves alone keeps its type.
LEMMA ServerStep ==
  ASSUME TInv, ProcessOK', UNCHANGED <<owner, socket, masterAgent, watchdog>>,
         toMaster' \in [Conn -> Seq(ToMaster)], toMonitor' \in [Conn -> Seq(ToMonitor)],
         faults' \in 0 .. MaxFault
  PROVE  TInv'
<1>1. NetworkOK'
  BY DEF TInv, TypeOK, NetworkOK
<1>2. AgentOK' /\ WatchdogOK'
  BY AgentKept, WatchdogKept, TypeGroups DEF TInv
<1>3. Owned'
  BY OwnedKept DEF TInv
<1> QED
  BY <1>1, <1>2, <1>3, TypeGroupsPrime DEF TInv

LEMMA ConnectOwned ==
  ASSUME TInv, NEW s \in Server, NEW c \in Conn, NEW msg, Connect(s, c, msg) PROVE Owned'
<1>1. owner' = [owner EXCEPT ![c] = s] /\ socket' = [socket EXCEPT ![c] = "open"]
  BY DEF Connect
<1>2. owner \in [Conn -> Server \union {NoServer}]
      /\ socket \in [Conn -> {"unused", "open", "registered", "closed"}]
  BY DEF TInv, TypeOK
<1> QED
  BY <1>1, <1>2 DEF TInv, Owned

LEMMA TypeBoot == ASSUME TInv, NEW s \in Server, Boot(s) PROVE TInv'
<1>1. PICK c \in Conn : Connect(s, c, "register")
  BY DEF Boot
<1>2. /\ phase' = [phase EXCEPT ![s] = "registering"]
      /\ table' = [table EXCEPT ![s] = {}]
  BY DEF Boot
<1>3. /\ link' \in [Server -> 0 .. MaxConn + 1]
      /\ agent' \in [Server -> {"inited", "connected", "registered"}]
      /\ NetworkOK' /\ AgentOK' /\ WatchdogOK' /\ faults' \in 0 .. MaxFault
  BY <1>1, ConnectType DEF TInv
<1>4. phase' \in [Server -> {"idle"} \union Up \union Ended]
  BY <1>2 DEF TInv, TypeOK, Up
<1>5. table' \in [Server -> SUBSET Server]
  BY <1>2 DEF TInv, TypeOK
<1>6. ProcessOK'
  BY <1>3, <1>4, <1>5 DEF ProcessOK
<1>7. Owned'
  BY <1>1, ConnectOwned
<1> QED
  BY <1>3, <1>6, <1>7, TypeGroupsPrime DEF TInv

LEMMA TypeReconnects == ASSUME TInv, NEW s \in Server, Reconnect(s) PROVE TInv'
<1>1. PICK c \in Conn : Connect(s, c, "reconnect")
  BY DEF Reconnect
<1>2. UNCHANGED <<phase, table>>
  BY DEF Reconnect
<1>3. /\ link' \in [Server -> 0 .. MaxConn + 1]
      /\ agent' \in [Server -> {"inited", "connected", "registered"}]
      /\ NetworkOK' /\ AgentOK' /\ WatchdogOK' /\ faults' \in 0 .. MaxFault
  BY <1>1, ConnectType DEF TInv
<1>4. ProcessOK'
  BY <1>2, <1>3 DEF TInv, TypeOK, ProcessOK
<1>5. Owned'
  BY <1>1, ConnectOwned
<1> QED
  BY <1>3, <1>4, <1>5, TypeGroupsPrime DEF TInv

LEMMA TypeUnplugged ==
  ASSUME TInv, NEW s \in Server, NEW to \in {Lost, GivenUp}, NEW kind, Unplug(s, to),
         Fault(kind) \/ UNCHANGED faults,
         UNCHANGED <<phase, agent, table, owner, socket, toMaster, masterAgent, watchdog>>
  PROVE  TInv'
<1>1. /\ link' \in [Server -> 0 .. MaxConn + 1]
      /\ toMonitor' \in [Conn -> Seq(ToMonitor)]
  BY UnplugType DEF TInv
<1>2. faults' \in 0 .. MaxFault
  BY FaultType DEF TInv, TypeOK
<1>3. ProcessOK'
  BY <1>1 DEF TInv, TypeOK, ProcessOK
<1>4. toMaster' \in [Conn -> Seq(ToMaster)]
  BY DEF TInv, TypeOK
<1> QED
  BY <1>1, <1>2, <1>3, <1>4, ServerStep

LEMMA TypeSocketClose == ASSUME TInv, NEW s \in Server, OnSocketClose(s) PROVE TInv'
BY TypeUnplugged DEF OnSocketClose

LEMMA TypeKeepAlive == ASSUME TInv, NEW s \in Server, CheckKeepAlive(s) PROVE TInv'
BY TypeUnplugged DEF CheckKeepAlive

LEMMA TypeCrash == ASSUME TInv, NEW s \in Server, Crash(s) PROVE TInv'
<1>1. /\ Fault("crash") /\ Exit(s, "dead")
      /\ UNCHANGED <<table, owner, socket, toMaster, masterAgent, watchdog>>
  BY DEF Crash
<1>2. ProcessOK' /\ toMonitor' \in [Conn -> Seq(ToMonitor)]
  BY <1>1, ExitType DEF TInv, Ended
<1>3. faults' \in 0 .. MaxFault /\ toMaster' \in [Conn -> Seq(ToMaster)]
  BY <1>1, FaultType DEF TInv, TypeOK
<1> QED
  BY <1>1, <1>2, <1>3, ServerStep

LEMMA TypeThrows == ASSUME TInv, NEW s \in Server, FinishStartThrows(s) PROVE TInv'
<1>1. /\ Exit(s, "thrown")
      /\ UNCHANGED <<table, owner, socket, toMaster, masterAgent, watchdog, faults>>
  BY DEF FinishStartThrows
<1>2. ProcessOK' /\ toMonitor' \in [Conn -> Seq(ToMonitor)]
  BY <1>1, ExitType DEF TInv, Ended
<1>3. faults' \in 0 .. MaxFault /\ toMaster' \in [Conn -> Seq(ToMaster)]
  BY <1>1 DEF TInv, TypeOK
<1> QED
  BY <1>1, <1>2, <1>3, ServerStep

LEMMA TypeRegistered == ASSUME TInv, NEW s \in Server, OnRegistered(s) PROVE TInv'
<1>1. /\ Read(s, "registered")
      /\ agent' = [agent EXCEPT ![s] = "registered"]
      /\ phase' = [phase EXCEPT ![s] = "subscribing"]
      /\ Say(s, [type |-> "subscribe"])
      /\ UNCHANGED <<link, table, owner, socket, masterAgent, watchdog, faults>>
  BY DEF OnRegistered
<1>2. [type |-> "subscribe"] \in ToMaster
  BY DEF ToMaster
<1>3. toMonitor' \in [Conn -> Seq(ToMonitor)] /\ toMaster' \in [Conn -> Seq(ToMaster)]
  BY <1>1, <1>2, ReadType, SayType DEF TInv
<1>4. phase' \in [Server -> {"idle"} \union Up \union Ended]
  BY <1>1 DEF TInv, TypeOK, Up
<1>5. agent' \in [Server -> {"inited", "connected", "registered"}]
  BY <1>1 DEF TInv, TypeOK
<1>6. ProcessOK' /\ faults' \in 0 .. MaxFault
  BY <1>1, <1>4, <1>5 DEF TInv, TypeOK, ProcessOK
<1> QED
  BY <1>1, <1>3, <1>6, ServerStep

LEMMA TypeReconnected == ASSUME TInv, NEW s \in Server, OnReconnected(s) PROVE TInv'
<1>1. /\ Read(s, "reconnected")
      /\ agent' = [agent EXCEPT ![s] = "registered"] \/ agent' = agent
      /\ UNCHANGED <<phase, link, table, owner, socket, toMaster, masterAgent, watchdog, faults>>
  BY DEF OnReconnected
<1>2. toMonitor' \in [Conn -> Seq(ToMonitor)] /\ toMaster' \in [Conn -> Seq(ToMaster)]
  BY <1>1, ReadType DEF TInv, TypeOK
<1>3. agent' \in [Server -> {"inited", "connected", "registered"}]
  BY <1>1 DEF TInv, TypeOK
<1>4. ProcessOK' /\ faults' \in 0 .. MaxFault
  BY <1>1, <1>3 DEF TInv, TypeOK, ProcessOK
<1> QED
  BY <1>1, <1>2, <1>4, ServerStep

LEMMA TypeServers == ASSUME TInv, NEW s \in Server, OnServers(s) PROVE TInv'
<1> DEFINE m == Head(toMonitor[link[s]])
<1>1. /\ Read(s, "servers")
      /\ table' = [table EXCEPT ![s] = @ \union m.servers]
      /\ phase' = [phase EXCEPT ![s] = "starting"]
      /\ UNCHANGED <<agent, link, owner, socket, toMaster, masterAgent, watchdog, faults>>
  BY DEF OnServers
<1>2. m \in ToMonitor /\ m.type = "servers"
  BY <1>1, ReadType DEF TInv
<1>3. m.servers \in SUBSET Server
  <2> HIDE DEF m
  <2> QED
    BY <1>2 DEF ToMonitor
<1>4. toMonitor' \in [Conn -> Seq(ToMonitor)] /\ toMaster' \in [Conn -> Seq(ToMaster)]
  BY <1>1, ReadType DEF TInv, TypeOK
<1> HIDE DEF m
<1>5. table' \in [Server -> SUBSET Server]
  BY <1>1, <1>3 DEF TInv, TypeOK
<1>6. phase' \in [Server -> {"idle"} \union Up \union Ended]
  BY <1>1 DEF TInv, TypeOK, Up
<1>7. ProcessOK' /\ faults' \in 0 .. MaxFault
  BY <1>1, <1>5, <1>6 DEF TInv, TypeOK, ProcessOK
<1> QED
  BY <1>1, <1>4, <1>7, ServerStep

LEMMA ApplyType ==
  ASSUME NEW r \in ToMonitor, r.type = "request", NEW known \in SUBSET Server
  PROVE  Apply(r, known) \in SUBSET Server /\ r.id \in Nat \ {0}
<1>1. r \in [type : {"request"}, id : Nat \ {0}, action : Action, about : Server,
             servers : SUBSET Server]
  BY DEF ToMonitor
<1>2. r.action \in Action /\ r.about \in Server /\ r.servers \in SUBSET Server /\ r.id \in Nat \ {0}
  BY <1>1
<1>3. CASE r.action = "addServer"
  BY <1>2, <1>3 DEF Apply
<1>4. CASE r.action = "removeServer"
  BY <1>2, <1>4 DEF Apply
<1>5. CASE r.action = "replaceServer"
  BY <1>2, <1>5 DEF Apply
<1>6. CASE r.action = "startOver"
  BY <1>2, <1>6 DEF Apply
<1> QED
  BY <1>2, <1>3, <1>4, <1>5, <1>6 DEF Action

LEMMA TypeRequest == ASSUME TInv, NEW s \in Server, OnRequest(s) PROVE TInv'
<1> DEFINE m == Head(toMonitor[link[s]])
<1>1. /\ Read(s, "request")
      /\ table' = [table EXCEPT ![s] = Apply(m, @)]
      /\ Say(s, [type |-> "response", id |-> m.id])
      /\ UNCHANGED <<phase, agent, link, owner, socket, masterAgent, watchdog, faults>>
  BY DEF OnRequest
<1>2. m \in ToMonitor /\ m.type = "request"
  BY <1>1, ReadType DEF TInv
<1> HIDE DEF m
<1>3. table[s] \in SUBSET Server
  BY DEF TInv, TypeOK
<1>4. Apply(m, table[s]) \in SUBSET Server /\ m.id \in Nat \ {0}
  BY <1>2, <1>3, ApplyType
<1>5. [type |-> "response", id |-> m.id] \in ToMaster
  BY <1>4 DEF ToMaster
<1>6. toMonitor' \in [Conn -> Seq(ToMonitor)] /\ toMaster' \in [Conn -> Seq(ToMaster)]
  BY <1>1, <1>5, ReadType, SayType DEF TInv
<1>7. table' \in [Server -> SUBSET Server]
  BY <1>1, <1>4 DEF TInv, TypeOK
<1>8. ProcessOK' /\ faults' \in 0 .. MaxFault
  BY <1>1, <1>7 DEF TInv, TypeOK, ProcessOK
<1> QED
  BY <1>1, <1>6, <1>8, ServerStep

LEMMA TypeFinish == ASSUME TInv, NEW s \in Server, FinishStart(s) PROVE TInv'
<1>1. /\ phase' = [phase EXCEPT ![s] = "running"]
      /\ Say(s, [type |-> "record"]) \/ UNCHANGED toMaster
      /\ UNCHANGED <<agent, link, table, owner, socket, toMonitor, masterAgent, watchdog, faults>>
  BY DEF FinishStart
<1>2. [type |-> "record"] \in ToMaster
  BY DEF ToMaster
<1>3. toMaster' \in [Conn -> Seq(ToMaster)]
  <2>1. CASE Say(s, [type |-> "record"])
    BY <1>2, <2>1, SayType DEF TInv
  <2>2. CASE UNCHANGED toMaster
    BY <2>2 DEF TInv, TypeOK
  <2> QED
    BY <1>1, <2>1, <2>2
<1>4. phase' \in [Server -> {"idle"} \union Up \union Ended]
  BY <1>1 DEF TInv, TypeOK, Up
<1>5. ProcessOK' /\ faults' \in 0 .. MaxFault /\ toMonitor' \in [Conn -> Seq(ToMonitor)]
  BY <1>1, <1>4 DEF TInv, TypeOK, ProcessOK
<1> QED
  BY <1>1, <1>3, <1>5, ServerStep

LEMMA TInvInit == Init => TInv
<1>1. Init => Owned
  BY DEF Init, Owned
<1> QED
  BY <1>1, TypeInit DEF TInv

LEMMA TInvStep == TInv /\ [Next]_vars => TInv'
<1> SUFFICES ASSUME TInv, [Next]_vars PROVE TInv'
  OBVIOUS
<1>1. ASSUME NEW s \in Server,
             \/ Boot(s) \/ Reconnect(s) \/ OnSocketClose(s) \/ CheckKeepAlive(s) \/ Crash(s)
             \/ OnRegistered(s) \/ OnReconnected(s) \/ OnServers(s) \/ OnRequest(s)
             \/ FinishStart(s) \/ FinishStartThrows(s)
      PROVE  TInv'
  BY <1>1, TypeBoot, TypeReconnects, TypeSocketClose, TypeKeepAlive, TypeCrash,
     TypeRegistered, TypeReconnected, TypeServers, TypeRequest, TypeFinish, TypeThrows
<1>2. ASSUME NEW c \in Conn,
             \/ OnRegister(c) \/ RefuseReconnect(c) \/ OnReconnect(c)
             \/ OnSubscribe(c) \/ OnRecord(c) \/ OnResponse(c) \/ OnDisconnect(c)
      PROVE  TInv'
  BY <1>2, TypeRegister, TypeRefuse, TypeReconnect, TypeSubscribe, TypeRecord, TypeResponse,
     TypeDisconnect
<1>3. CASE RestartMaster
  BY <1>3, TypeRestart
<1>4. CASE UNCHANGED vars
  <2>1. UNCHANGED <<process, network, masterAgent, watchdog, faults>>
    BY <1>4 DEF vars
  <2>2. ProcessOK' /\ toMaster' \in [Conn -> Seq(ToMaster)]
        /\ toMonitor' \in [Conn -> Seq(ToMonitor)] /\ faults' \in 0 .. MaxFault
    BY <2>1, ProcessKept, TypeGroups DEF TInv, TypeOK, network
  <2>3. UNCHANGED <<owner, socket, masterAgent, watchdog>>
    BY <2>1 DEF network
  <2> QED
    BY <2>2, <2>3, ServerStep
<1> QED
  BY <1>1, <1>2, <1>3, <1>4 DEF Next

\* Every variable keeps its type whatever the faults, and every message comes
\* from a server that made the connection: what a callback, a latch or a kept
\* request is numbered by is a number the master has given (nothing of it is
\* left when it restarts).
THEOREM TypeCorrect == Spec => []TypeOK
<1>1. Init => TInv
  BY TInvInit
<1>2. TInv /\ [Next]_vars => TInv'
  BY TInvStep
<1>3. TInv => TypeOK
  BY DEF TInv
<1> QED
  BY <1>1, <1>2, <1>3, PTL DEF Spec

-----------------------------------------------------------------------------
(* The directory of the master: with the closes found in order, sockets,   *)
(* ids, servers and listeners agree.  It is kept because a server says     *)
(* nothing but what it connects with until the master has welcomed it.     *)

Names ==
  /\ listeners \subseteq servers
  /\ \A s \in Server : s \in servers <=> idMap[s] # NoConn
  /\ \A s \in Server :
       idMap[s] # NoConn => socket[idMap[s]] = "registered" /\ owner[idMap[s]] = s
  /\ \A c \in Conn : socket[c] = "registered" => idMap[owner[c]] = c

\* The master has not taken connection c on.
Unknown(c) == socket[c] \in {"unused", "open"}
Asks(q) == \A i \in DOMAIN q : q[i].type \in {"register", "reconnect"}
Refuses(q) == \A i \in DOMAIN q : q[i].type = "reconnected" /\ ~ q[i].ok

OnlyAsks == \A c \in Conn : Unknown(c) => Asks(toMaster[c])
OnlyRefused == \A c \in Conn : Unknown(c) => Refuses(toMonitor[c])
RegisteredOn == \A s \in Server :
  agent[s] = "registered" /\ link[s] \in Conn => ~ Unknown(link[s])

Directory == Names /\ OnlyAsks /\ OnlyRefused /\ RegisteredOn
DirInv == TInv /\ Directory

LEMMA DirectoryOfNames == Names => DirectoryAgrees
BY DEF Names, DirectoryAgrees

LEMMA NoSuchConn == Lost \notin Conn /\ GivenUp \notin Conn /\ NoConn \notin Conn
BY ConnType DEF Lost, GivenUp, NoConn, Conn

LEMMA IdMapConn == ASSUME TInv, NEW s \in Server, idMap[s] # NoConn PROVE idMap[s] \in Conn
<1>1. idMap[s] \in 0 .. MaxConn
  BY DEF TInv, TypeOK
<1> QED
  BY <1>1, ConnType DEF Conn, NoConn

LEMMA AsksTail ==
  ASSUME NEW q \in Seq(ToMaster), q # <<>>, Asks(q) PROVE Asks(Tail(q))
<1>1. \A i \in DOMAIN Tail(q) : i + 1 \in DOMAIN q /\ Tail(q)[i] = q[i + 1]
  OBVIOUS
<1> QED
  BY <1>1 DEF Asks

LEMMA RefusesTail ==
  ASSUME NEW q \in Seq(ToMonitor), q # <<>>, Refuses(q) PROVE Refuses(Tail(q))
<1>1. \A i \in DOMAIN Tail(q) : i + 1 \in DOMAIN q /\ Tail(q)[i] = q[i + 1]
  OBVIOUS
<1> QED
  BY <1>1 DEF Refuses

LEMMA RefusesArrive ==
  ASSUME TInv, NEW d \in Conn, Refuses(toMonitor[d]), NEW msgs \in Seq(ToMonitor), Refuses(msgs)
  PROVE  Refuses(Arrive(d, msgs))
<1>1. toMonitor[d] \in Seq(ToMonitor)
  BY DEF TInv, TypeOK
<1>2. \A i \in DOMAIN (toMonitor[d] \o msgs) :
        \/ i \in DOMAIN toMonitor[d] /\ (toMonitor[d] \o msgs)[i] = toMonitor[d][i]
        \/ i - Len(toMonitor[d]) \in DOMAIN msgs
             /\ (toMonitor[d] \o msgs)[i] = msgs[i - Len(toMonitor[d])]
  BY <1>1
<1>3. Refuses(toMonitor[d] \o msgs)
  BY <1>2 DEF Refuses
<1>4. Refuses(<<>>)
  BY DEF Refuses
<1> QED
  BY <1>3, <1>4 DEF Arrive

LEMMA NothingRefuses == Refuses(<<>>) /\ Asks(<<>>) /\ <<>> \in Seq(ToMonitor)
BY DEF Refuses, Asks

\* The queues after a master step that hears connection c and takes no other on.
LEMMA MasterAsks ==
  ASSUME TInv, OnlyAsks, NEW c \in Conn, NEW type, Receive(c, type),
         \A d \in Conn : Unknown(d)' => Unknown(d)
  PROVE  OnlyAsks'
<1>1. toMaster' = [toMaster EXCEPT ![c] = Tail(@)] /\ toMaster[c] # <<>>
      /\ toMaster \in [Conn -> Seq(ToMaster)]
  BY DEF Receive, TInv, TypeOK
<1> SUFFICES ASSUME NEW d \in Conn, Unknown(d)' PROVE Asks(toMaster'[d])
  BY DEF OnlyAsks, Asks
<1>2. Unknown(d) /\ Asks(toMaster[d])
  BY DEF OnlyAsks
<1>3. CASE d = c
  <2>1. toMaster'[d] = Tail(toMaster[d]) /\ toMaster[d] \in Seq(ToMaster)
    BY <1>1, <1>3
  <2> QED
    BY <1>1, <1>2, <1>3, <2>1, AsksTail
<1>4. CASE d # c
  BY <1>1, <1>2, <1>4
<1> QED
  BY <1>3, <1>4

\* Agents that do not move stay on the connections they registered on.
LEMMA AgentsStay ==
  ASSUME RegisteredOn, UNCHANGED <<agent, link>>,
         \A d \in Conn : Unknown(d)' => Unknown(d)
  PROVE  RegisteredOn'
BY DEF RegisteredOn, Unknown

LEMMA NobodyAddressed ==
  ASSUME NEW d, NEW news, NEW to, NEW known, \A s \in Server : to[s] # d
  PROVE  Addressed(d, news, to, known) = <<>>
BY DEF Addressed

\* The directory without d is not addressed at d.
LEMMA UnknownUnnamedPrime ==
  ASSUME Names', NEW d \in Conn, Unknown(d)' PROVE \A s \in Server : idMap'[s] # d
BY NoSuchConn DEF Names, Unknown

\* A welcome reaches no connection that stays unknown.
LEMMA WelcomeRefused ==
  ASSUME TInv, OnlyRefused, Names', NEW c \in Conn, ~ Unknown(c)', NEW answer, NEW news,
         NEW known, Welcome(c, answer, news, idMap', known),
         \A d \in Conn : Unknown(d)' => Unknown(d)
  PROVE  OnlyRefused'
<1> SUFFICES ASSUME NEW d \in Conn, Unknown(d)' PROVE Refuses(toMonitor'[d])
  BY DEF OnlyRefused, Refuses
<1>1. d # c /\ Refuses(toMonitor[d])
  BY DEF OnlyRefused
<1>2. Addressed(d, news, idMap', known) = <<>>
  BY UnknownUnnamedPrime, NobodyAddressed
<1>3. toMonitor'[d] = Arrive(d, (<<>> \o Addressed(d, news, idMap', known)) \o <<>>)
  BY <1>1 DEF Welcome
<1>4. <<>> \o <<>> \o <<>> = <<>>
  OBVIOUS
<1>5. toMonitor'[d] = Arrive(d, <<>>)
  BY <1>2, <1>3, <1>4
<1> QED
  BY <1>1, <1>5, RefusesArrive, NothingRefuses

\* Neither do the requests of a notification.
LEMMA TellRefused ==
  ASSUME TInv, OnlyRefused, Names', NEW news, NEW known,
         toMonitor' = [d \in Conn |-> Arrive(d, Addressed(d, news, idMap', known))],
         \A d \in Conn : Unknown(d)' => Unknown(d)
  PROVE  OnlyRefused'
<1> SUFFICES ASSUME NEW d \in Conn, Unknown(d)' PROVE Refuses(toMonitor'[d])
  BY DEF OnlyRefused, Refuses
<1>1. Refuses(toMonitor[d])
  BY DEF OnlyRefused
<1>2. Addressed(d, news, idMap', known) = <<>>
  BY UnknownUnnamedPrime, NobodyAddressed
<1>3. toMonitor'[d] = Arrive(d, <<>>)
  BY <1>2
<1> QED
  BY <1>1, <1>3, RefusesArrive, NothingRefuses

\* An answer to c: either c is known, or it is a refusal.
LEMMA ReplyRefused ==
  ASSUME TInv, OnlyRefused, UNCHANGED socket, NEW c \in Conn, NEW answer \in ToMonitor,
         Reply(c, answer), ~ Unknown(c) \/ Refuses(<<answer>>)
  PROVE  OnlyRefused'
<1> SUFFICES ASSUME NEW d \in Conn, Unknown(d)' PROVE Refuses(toMonitor'[d])
  BY DEF OnlyRefused, Refuses
<1>1. Unknown(d) /\ Refuses(toMonitor[d])
  BY DEF OnlyRefused, Unknown
<1>2. CASE d = c
  <2>1. toMonitor'[d] = Arrive(d, <<answer>>)
    BY <1>2 DEF Reply
  <2>2. Refuses(<<answer>>) /\ <<answer>> \in Seq(ToMonitor)
    BY <1>1, <1>2
  <2> QED
    BY <1>1, <2>1, <2>2, RefusesArrive
<1>3. CASE d # c
  <2>1. toMonitor'[d] = Arrive(d, <<>>)
    BY <1>3 DEF Reply
  <2> QED
    BY <1>1, <2>1, RefusesArrive, NothingRefuses
<1> QED
  BY <1>2, <1>3

-----------------------------------------------------------------------------
(* Steps of the master.                                                    *)

LEMMA NamesKept ==
  ASSUME Names, UNCHANGED <<servers, idMap, owner>>,
         listeners' \subseteq servers,
         \A c \in Conn : (socket'[c] = "registered") = (socket[c] = "registered"), TInv
  PROVE  Names'
<1>1. \A s \in Server : idMap[s] # NoConn => idMap[s] \in Conn
  BY IdMapConn
<1> QED
  BY <1>1 DEF Names

\* A connection is added to the directory when no other of its server is left.
LEMMA NamesAdded ==
  ASSUME TInv, Names, NEW c \in Conn, Live(c), Predecessors(c) = {},
         idMap' = AddConnection(c), servers' = servers \union {owner[c]},
         listeners' \subseteq listeners \union {owner[c]},
         socket' = [socket EXCEPT ![c] = "registered"], UNCHANGED owner
  PROVE  Names'
<1> DEFINE s == owner[c]
<1>1. s \in Server
  BY ReceivedOwned
<1>2. /\ socket \in [Conn -> {"unused", "open", "registered", "closed"}]
      /\ idMap \in [Server -> 0 .. MaxConn]
      /\ c # NoConn
  BY NoSuchConn DEF TInv, TypeOK
<1>3. \A d \in Conn : socket[d] = "registered" /\ owner[d] = s => d = c
  BY DEF Predecessors, Live, Accepted
<1>4. idMap[s] # NoConn => idMap[s] = c
  BY <1>1, <1>3, IdMapConn DEF Names
<1>5. idMap' = [idMap EXCEPT ![s] = c]
  BY <1>1, <1>2, <1>4 DEF AddConnection
<1> HIDE DEF s
<1>6. \A t \in Server : t # s => idMap'[t] = idMap[t]
  BY <1>1, <1>2, <1>5
<1>7. idMap'[s] = c /\ socket'[c] = "registered" /\ owner'[c] = s
  BY <1>1, <1>2, <1>5 DEF s
<1>8. \A d \in Conn : d # c => socket'[d] = socket[d]
  BY <1>2
<1>9. servers' = servers \union {s} /\ listeners' \subseteq listeners \union {s}
  BY DEF s
<1>10. listeners' \subseteq servers'
  BY <1>9 DEF Names
<1>11. ASSUME NEW t \in Server PROVE t \in servers' <=> idMap'[t] # NoConn
  BY <1>2, <1>6, <1>7, <1>9 DEF Names
<1>12. ASSUME NEW t \in Server, idMap'[t] # NoConn
       PROVE  socket'[idMap'[t]] = "registered" /\ owner'[idMap'[t]] = t
  <2>1. CASE t = s
    BY <1>7, <2>1
  <2>2. CASE t # s
    <3>1. idMap'[t] = idMap[t] /\ idMap[t] \in Conn
      BY <1>6, <1>12, <2>2, IdMapConn
    <3>2. socket[idMap[t]] = "registered" /\ owner[idMap[t]] = t
      BY <1>12, <3>1 DEF Names
    <3>3. idMap[t] # c
      BY <2>2, <3>2 DEF s
    <3> QED
      BY <1>8, <3>1, <3>2, <3>3
  <2> QED
    BY <2>1, <2>2
<1>13. ASSUME NEW d \in Conn, socket'[d] = "registered" PROVE idMap'[owner'[d]] = d
  <2>1. CASE d = c
    BY <1>7, <2>1
  <2>2. CASE d # c
    <3>1. socket[d] = "registered" /\ owner[d] # s
      BY <1>3, <1>8, <1>13, <2>2 DEF s
    <3>2. owner[d] \in Server
      BY <3>1 DEF TInv, Owned
    <3>3. idMap[owner[d]] = d
      BY <3>1 DEF Names
    <3> QED
      BY <1>6, <3>1, <3>2, <3>3
  <2> QED
    BY <2>1, <2>2
<1> QED
  BY <1>10, <1>11, <1>12, <1>13 DEF Names

\* Taking c on makes no connection unknown.
LEMMA TakenOn ==
  ASSUME TInv, NEW c \in Conn, NEW how \in {"registered", "closed"},
         socket' = [socket EXCEPT ![c] = how]
  PROVE  /\ ~ Unknown(c)'
         /\ \A d \in Conn : Unknown(d)' => Unknown(d)
BY DEF Unknown, TInv, TypeOK

LEMMA DirRegister ==
  ASSUME DirInv, ~ LateCloses, NEW c \in Conn, OnRegister(c) PROVE Directory'
<1> DEFINE s == owner[c]
           known == servers \union {s}
           news == Notice(listeners, Request(Number, "addServer", s))
<1>1. /\ Receive(c, "register") /\ Live(c) /\ InOrder(c)
      /\ idMap' = AddConnection(c)
      /\ servers' = servers \union {owner[c]}
      /\ Welcome(c, [type |-> "registered"], news, AddConnection(c), known)
      /\ socket' = [socket EXCEPT ![c] = "registered"]
      /\ UNCHANGED <<process, owner, listeners>>
  BY DEF OnRegister, Receive
<1>2. Predecessors(c) = {}
  BY <1>1 DEF InOrder
<1>3. listeners' \subseteq listeners \union {owner[c]} /\ UNCHANGED owner
  BY <1>1
<1>4. Names'
  BY <1>1, <1>2, <1>3, NamesAdded DEF DirInv, Directory
<1>5. ~ Unknown(c)' /\ \A d \in Conn : Unknown(d)' => Unknown(d)
  BY <1>1, TakenOn DEF DirInv
<1>6. OnlyAsks'
  BY <1>1, <1>5, MasterAsks DEF DirInv, Directory
<1> HIDE DEF known, news
<1>7. Welcome(c, [type |-> "registered"], news, idMap', known)
  BY <1>1
<1>8. OnlyRefused'
  BY <1>4, <1>5, <1>7, WelcomeRefused DEF DirInv, Directory
<1>9. RegisteredOn'
  BY <1>1, <1>5, AgentsStay DEF DirInv, Directory, process
<1> QED
  BY <1>4, <1>6, <1>8, <1>9 DEF Directory

LEMMA DirReconnect ==
  ASSUME DirInv, ~ LateCloses, NEW c \in Conn, OnReconnect(c) PROVE Directory'
<1> DEFINE s == owner[c]
           known == servers \union {s}
           news == [t \in Server |->
             Notice({s}, Request(Number, "replaceServer", s))[t]
               \o Notice(listeners, Request(Number + 1, "addServer", s))[t]]
<1>1. /\ Receive(c, "reconnect") /\ Live(c) /\ InOrder(c)
      /\ idMap' = AddConnection(c)
      /\ servers' = servers \union {owner[c]}
      /\ listeners' = Subscribe(owner[c])
      /\ Welcome(c, [type |-> "reconnected", ok |-> TRUE], news, AddConnection(c), known)
      /\ socket' = [socket EXCEPT ![c] = "registered"]
      /\ UNCHANGED <<process, owner>>
  BY DEF OnReconnect, Receive
<1>2. Predecessors(c) = {}
  BY <1>1 DEF InOrder
<1>3. listeners' \subseteq listeners \union {owner[c]} /\ UNCHANGED owner
  BY <1>1 DEF Subscribe
<1>4. Names'
  BY <1>1, <1>2, <1>3, NamesAdded DEF DirInv, Directory
<1>5. ~ Unknown(c)' /\ \A d \in Conn : Unknown(d)' => Unknown(d)
  BY <1>1, TakenOn DEF DirInv
<1>6. OnlyAsks'
  BY <1>1, <1>5, MasterAsks DEF DirInv, Directory
<1> HIDE DEF known, news
<1>7. Welcome(c, [type |-> "reconnected", ok |-> TRUE], news, idMap', known)
  BY <1>1
<1>8. OnlyRefused'
  BY <1>4, <1>5, <1>7, WelcomeRefused DEF DirInv, Directory
<1>9. RegisteredOn'
  BY <1>1, <1>5, AgentsStay DEF DirInv, Directory, process
<1> QED
  BY <1>4, <1>6, <1>8, <1>9 DEF Directory

\* The master steps that change no socket.
LEMMA DirHeard ==
  ASSUME DirInv, NEW c \in Conn, NEW type, Receive(c, type), OnlyRefused',
         listeners' \subseteq servers,
         UNCHANGED <<process, owner, socket, idMap, servers>>
  PROVE  Directory'
<1>1. \A d \in Conn : Unknown(d)' => Unknown(d)
  BY DEF Unknown
<1>2. Names'
  BY NamesKept DEF DirInv, Directory
<1>3. OnlyAsks'
  BY <1>1, MasterAsks DEF DirInv, Directory
<1>4. RegisteredOn'
  BY <1>1, AgentsStay DEF DirInv, Directory, process
<1> QED
  BY <1>2, <1>3, <1>4 DEF Directory

\* What only a known connection sends.
LEMMA HeardKnown ==
  ASSUME DirInv, NEW c \in Conn, NEW type, Receive(c, type), type \notin {"register", "reconnect"}
  PROVE  ~ Unknown(c) /\ socket[c] = "registered" /\ owner[c] \in servers
<1>1. /\ toMaster[c] \in Seq(ToMaster) /\ toMaster[c] # <<>>
      /\ Head(toMaster[c]).type = type /\ Live(c)
  BY DEF Receive, DirInv, TInv, TypeOK
<1>2. 1 \in DOMAIN toMaster[c] /\ toMaster[c][1].type = type
  BY <1>1
<1>3. ~ Unknown(c)
  BY <1>2 DEF DirInv, Directory, OnlyAsks, Asks
<1>4. socket[c] = "registered"
  BY <1>1, <1>3 DEF Unknown, Live, Accepted
<1>5. idMap[owner[c]] = c /\ c # NoConn /\ owner[c] \in Server
  BY <1>1, <1>4, NoSuchConn, ReceivedOwned DEF DirInv, Directory, Names
<1> QED
  BY <1>3, <1>4, <1>5 DEF DirInv, Directory, Names

LEMMA DirRefuse ==
  ASSUME DirInv, NEW c \in Conn, RefuseReconnect(c) PROVE Directory'
<1> DEFINE no == [type |-> "reconnected", ok |-> FALSE]
<1>1. /\ Receive(c, "reconnect")
      /\ Reply(c, no)
      /\ UNCHANGED <<process, owner, socket, masterAgent, watchdog, faults>>
  BY DEF RefuseReconnect
<1>2. no \in ToMonitor /\ no.type = "reconnected" /\ ~ no.ok
  BY DEF ToMonitor
<1> HIDE DEF no
<1>3. Refuses(<<no>>)
  BY <1>2 DEF Refuses
<1>4. OnlyRefused'
  BY <1>1, <1>2, <1>3, ReplyRefused DEF DirInv, Directory
<1>5. listeners' \subseteq servers /\ UNCHANGED <<process, owner, socket, idMap, servers>>
  BY <1>1 DEF DirInv, Directory, Names, masterAgent, watchdog
<1> QED
  BY <1>1, <1>4, <1>5, DirHeard

LEMMA DirSubscribe ==
  ASSUME DirInv, NEW c \in Conn, OnSubscribe(c) PROVE Directory'
<1>1. /\ Receive(c, "subscribe")
      /\ listeners' = Subscribe(owner[c])
      /\ Reply(c, [type |-> "servers", servers |-> servers])
      /\ UNCHANGED <<process, owner, socket, masterAgent, servers>>
  BY DEF OnSubscribe
<1>2. ~ Unknown(c) /\ owner[c] \in servers
  BY <1>1, HeardKnown
<1>3. [type |-> "servers", servers |-> servers] \in ToMonitor
  BY DEF DirInv, TInv, TypeOK, ToMonitor
<1>4. OnlyRefused'
  BY <1>1, <1>2, <1>3, ReplyRefused DEF DirInv, Directory
<1>5. listeners' \subseteq servers /\ UNCHANGED <<process, owner, socket, idMap, servers>>
  BY <1>1, <1>2 DEF DirInv, Directory, Names, masterAgent, Subscribe
<1> QED
  BY <1>1, <1>4, <1>5, DirHeard

LEMMA DirRecord ==
  ASSUME DirInv, NEW c \in Conn, OnRecord(c) PROVE Directory'
<1> DEFINE told == IF isStarted' /\ ~isStarted THEN listeners ELSE {}
           news == Notice(told, Request(Number, "startOver", owner[c]))
<1>1. /\ Receive(c, "record")
      /\ toMonitor' = [d \in Conn |-> Arrive(d, Addressed(d, news, idMap, servers))]
      /\ UNCHANGED <<process, owner, socket, idMap, servers, listeners>>
  BY DEF OnRecord
<1> HIDE DEF told, news
<1>2. listeners' \subseteq servers /\ \A d \in Conn : Unknown(d)' => Unknown(d)
  BY <1>1 DEF DirInv, Directory, Names, Unknown
<1>3. Names'
  BY <1>1, <1>2, NamesKept DEF DirInv, Directory
<1>4. toMonitor' = [d \in Conn |-> Arrive(d, Addressed(d, news, idMap', servers))]
  BY <1>1
<1>5. OnlyRefused'
  BY <1>2, <1>3, <1>4, TellRefused DEF DirInv, Directory
<1> QED
  BY <1>1, <1>2, <1>5, DirHeard

LEMMA DirResponse ==
  ASSUME DirInv, NEW c \in Conn, OnResponse(c) PROVE Directory'
<1>1. /\ Receive(c, "response")
      /\ UNCHANGED <<process, owner, socket, toMonitor, idMap, watchdog>>
  BY DEF OnResponse
<1>2. OnlyRefused'
  BY <1>1 DEF DirInv, Directory, OnlyRefused, Unknown, Refuses
<1>3. listeners' \subseteq servers /\ UNCHANGED <<process, owner, socket, idMap, servers>>
  BY <1>1 DEF DirInv, Directory, Names, watchdog
<1> QED
  BY <1>1, <1>2, <1>3, DirHeard

\* The directory without the server of a registered connection that closes.
LEMMA NamesRemoved ==
  ASSUME TInv, Names, NEW c \in Conn, socket[c] = "registered",
         idMap' = RemoveConnection(owner[c]), servers' = servers \ {owner[c]},
         listeners' = listeners \ {owner[c]},
         socket' = [socket EXCEPT ![c] = "closed"], UNCHANGED owner
  PROVE  Names'
<1> DEFINE s == owner[c]
<1>1. s \in Server /\ idMap[s] = c
  BY DEF TInv, Owned, Names
<1>2. /\ socket \in [Conn -> {"unused", "open", "registered", "closed"}]
      /\ idMap \in [Server -> 0 .. MaxConn]
  BY DEF TInv, TypeOK
<1>3. idMap' = [idMap EXCEPT ![s] = NoConn]
  BY DEF RemoveConnection
<1> HIDE DEF s
<1>4. idMap'[s] = NoConn /\ \A t \in Server : t # s => idMap'[t] = idMap[t]
  BY <1>1, <1>2, <1>3
<1>5. socket'[c] = "closed" /\ \A d \in Conn : d # c => socket'[d] = socket[d]
  BY <1>2
<1>6. servers' = servers \ {s} /\ listeners' = listeners \ {s}
  BY DEF s
<1>7. listeners' \subseteq servers'
  BY <1>6 DEF Names
<1>8. ASSUME NEW t \in Server PROVE t \in servers' <=> idMap'[t] # NoConn
  BY <1>4, <1>6 DEF Names
<1>9. ASSUME NEW t \in Server, idMap'[t] # NoConn
      PROVE  socket'[idMap'[t]] = "registered" /\ owner'[idMap'[t]] = t
  <2>1. t # s /\ idMap'[t] = idMap[t] /\ idMap[t] \in Conn
    BY <1>4, <1>9, IdMapConn
  <2>2. socket[idMap[t]] = "registered" /\ owner[idMap[t]] = t
    BY <1>9, <2>1 DEF Names
  <2>3. idMap[t] # c
    BY <2>1, <2>2 DEF s
  <2> QED
    BY <1>5, <2>1, <2>2, <2>3
<1>10. ASSUME NEW d \in Conn, socket'[d] = "registered" PROVE idMap'[owner'[d]] = d
  <2>1. d # c /\ socket[d] = "registered"
    BY <1>5, <1>10
  <2>2. owner[d] \in Server /\ idMap[owner[d]] = d
    BY <2>1 DEF TInv, Owned, Names
  <2>3. owner[d] # s
    BY <1>1, <2>1, <2>2
  <2> QED
    BY <1>4, <2>2, <2>3
<1> QED
  BY <1>7, <1>8, <1>9, <1>10 DEF Names

LEMMA DirDisconnect ==
  ASSUME DirInv, NEW c \in Conn, OnDisconnect(c) PROVE Directory'
<1> DEFINE s == owner[c]
           to == RemoveConnection(s)
           rest == Unsubscribe(s)
           news == Notice(rest, Request(Number, "removeServer", s))
<1>1. /\ socket' = [socket EXCEPT ![c] = "closed"]
      /\ toMaster' = [toMaster EXCEPT ![c] = <<>>]
      /\ UNCHANGED <<process, owner>>
  BY DEF OnDisconnect
<1>2. ~ Unknown(c)' /\ \A d \in Conn : Unknown(d)' => Unknown(d)
  BY <1>1, TakenOn DEF DirInv
<1>3. OnlyAsks'
  <2>1. toMaster \in [Conn -> Seq(ToMaster)]
    BY DEF DirInv, TInv, TypeOK
  <2>2. \A d \in Conn : Unknown(d)' => toMaster'[d] = toMaster[d] /\ Asks(toMaster[d])
    BY <1>1, <1>2, <2>1 DEF DirInv, Directory, OnlyAsks
  <2> QED
    BY <2>2 DEF OnlyAsks, Asks
<1>4. RegisteredOn'
  BY <1>1, <1>2, AgentsStay DEF DirInv, Directory, process
<1>5. CASE socket[c] = "registered"
  <2>1. /\ idMap' = to
        /\ servers' = servers \ {s}
        /\ listeners' = rest
        /\ toMonitor' = [d \in Conn |-> Arrive(d, Addressed(d, news, to, {}))]
    BY <1>5 DEF OnDisconnect
  <2>2. Names'
    BY <1>1, <1>5, <2>1, NamesRemoved DEF DirInv, Directory, Unsubscribe
  <2> HIDE DEF news, to
  <2>3. toMonitor' = [d \in Conn |-> Arrive(d, Addressed(d, news, idMap', {}))]
    BY <2>1
  <2>4. OnlyRefused'
    BY <1>2, <2>2, <2>3, TellRefused DEF DirInv, Directory
  <2> QED
    BY <1>3, <1>4, <2>2, <2>4 DEF Directory
<1>6. CASE socket[c] # "registered"
  <2>1. UNCHANGED <<idMap, servers, listeners, toMonitor>>
    BY <1>6 DEF OnDisconnect
  <2>2. \A d \in Conn : (socket'[d] = "registered") = (socket[d] = "registered")
    BY <1>1, <1>6 DEF DirInv, TInv, TypeOK
  <2>3. listeners' \subseteq servers
    BY <2>1 DEF DirInv, Directory, Names
  <2>4. Names'
    BY <1>1, <2>1, <2>2, <2>3, NamesKept DEF DirInv, Directory
  <2>5. OnlyRefused'
    BY <1>2, <2>1 DEF DirInv, Directory, OnlyRefused, Refuses
  <2> QED
    BY <1>3, <1>4, <2>4, <2>5 DEF Directory
<1> QED
  BY <1>5, <1>6

LEMMA UnplugRefused ==
  ASSUME OnlyRefused, NEW s, NEW to, Unplug(s, to),
         \A d \in Conn : Unknown(d)' => Unknown(d)
  PROVE  OnlyRefused'
<1>1. \A d \in Conn : toMonitor'[d] = <<>> \/ toMonitor'[d] = toMonitor[d]
  BY DEF Unplug
<1>2. \A d \in Conn : Unknown(d)' => Refuses(toMonitor'[d])
  BY <1>1, NothingRefuses DEF OnlyRefused
<1> QED
  BY <1>2 DEF OnlyRefused, Refuses

LEMMA UnplugRegistered ==
  ASSUME TInv, RegisteredOn, NEW s \in Server, NEW to \in {Lost, GivenUp}, Unplug(s, to),
         \A t \in Server : t # s => agent'[t] = agent[t],
         \A d \in Conn : Unknown(d)' => Unknown(d)
  PROVE  RegisteredOn'
<1>1. link' = [link EXCEPT ![s] = to] /\ link \in [Server -> 0 .. MaxConn + 1]
  BY DEF Unplug, TInv, TypeOK
<1>2. link'[s] \notin Conn /\ \A t \in Server : t # s => link'[t] = link[t]
  BY <1>1, NoSuchConn
<1> QED
  BY <1>2 DEF RegisteredOn, Unknown

LEMMA DirRestart == ASSUME DirInv, RestartMaster PROVE Directory'
<1>1. /\ Exit(Master, "idle") /\ UNCHANGED owner
      /\ socket' = [c \in Conn |-> IF Accepted(c) THEN "closed" ELSE socket[c]]
      /\ toMaster' = [c \in Conn |-> <<>>]
      /\ idMap' = [s \in Server |-> NoConn]
      /\ servers' = {} /\ listeners' = {}
  BY DEF RestartMaster
<1>2. \A d \in Conn : socket'[d] # "registered" /\ (Unknown(d)' => Unknown(d))
  BY <1>1 DEF Accepted, Unknown
<1>3. Names'
  BY <1>1, <1>2 DEF Names
<1>4. OnlyAsks'
  BY <1>1 DEF OnlyAsks, Asks
<1>5. Unplug(Master, Lost) /\ agent' = [agent EXCEPT ![Master] = "inited"]
  BY <1>1 DEF Exit
<1>6. OnlyRefused'
  BY <1>2, <1>5, UnplugRefused DEF DirInv, Directory
<1>7. \A t \in Server : t # Master => agent'[t] = agent[t]
  BY <1>5 DEF DirInv, TInv, TypeOK
<1>8. RegisteredOn'
  BY <1>2, <1>5, <1>7, UnplugRegistered, ConstantsAssumption DEF DirInv, Directory
<1> QED
  BY <1>3, <1>4, <1>6, <1>8 DEF Directory

-----------------------------------------------------------------------------
(* Steps of a server process.                                              *)

LEMMA NamesStay ==
  ASSUME DirInv, UNCHANGED <<owner, socket, idMap, servers, listeners>>
  PROVE  Names' /\ \A d \in Conn : Unknown(d)' = Unknown(d)
BY DEF DirInv, Directory, Names, Unknown

LEMMA DirConnect ==
  ASSUME DirInv, NEW s \in Server, NEW c \in Conn, NEW msg \in {"register", "reconnect"},
         Connect(s, c, msg)
  PROVE  Directory'
<1>1. /\ Fresh(c)
      /\ link' = [link EXCEPT ![s] = c]
      /\ agent' = [agent EXCEPT ![s] = "connected"]
      /\ owner' = [owner EXCEPT ![c] = s]
      /\ socket' = [socket EXCEPT ![c] = "open"]
      /\ toMaster' = [toMaster EXCEPT ![c] = <<[type |-> msg]>>]
      /\ UNCHANGED <<toMonitor, idMap, servers, listeners>>
  BY DEF Connect, masterAgent, watchdog
<1>2. /\ link \in [Server -> 0 .. MaxConn + 1]
      /\ agent \in [Server -> {"inited", "connected", "registered"}]
      /\ owner \in [Conn -> Server \union {NoServer}]
      /\ socket \in [Conn -> {"unused", "open", "registered", "closed"}]
      /\ toMaster \in [Conn -> Seq(ToMaster)]
  BY DEF DirInv, TInv, TypeOK
<1>3. /\ socket[c] = "unused" /\ socket'[c] = "open" /\ Unknown(c)
      /\ \A d \in Conn : d # c => socket'[d] = socket[d] /\ owner'[d] = owner[d]
  BY <1>1, <1>2 DEF Fresh, Unknown
<1>4. \A d \in Conn : Unknown(d)' <=> Unknown(d)
  BY <1>3 DEF Unknown
<1>5. Names'
  <2>1. listeners' \subseteq servers'
    BY <1>1 DEF DirInv, Directory, Names
  <2>2. ASSUME NEW t \in Server
        PROVE  t \in servers' <=> idMap'[t] # NoConn
    BY <1>1 DEF DirInv, Directory, Names
  <2>3. ASSUME NEW t \in Server, idMap'[t] # NoConn
        PROVE  socket'[idMap'[t]] = "registered" /\ owner'[idMap'[t]] = t
    <3>1. idMap'[t] = idMap[t] /\ idMap[t] \in Conn
      BY <1>1, <2>3, IdMapConn DEF DirInv
    <3>2. socket[idMap[t]] = "registered" /\ owner[idMap[t]] = t
      BY <2>3, <3>1 DEF DirInv, Directory, Names
    <3> QED
      BY <1>3, <3>1, <3>2
  <2>4. ASSUME NEW d \in Conn, socket'[d] = "registered"
        PROVE  idMap'[owner'[d]] = d
    <3>1. d # c
      BY <1>3, <2>4
    <3> QED
      BY <1>1, <1>3, <2>4, <3>1 DEF DirInv, Directory, Names
  <2> QED
    BY <2>1, <2>2, <2>3, <2>4 DEF Names
<1>6. OnlyAsks'
  <2>1. Asks(<<[type |-> msg]>>)
    BY DEF Asks
  <2>2. toMaster'[c] = <<[type |-> msg]>> /\ \A d \in Conn : d # c => toMaster'[d] = toMaster[d]
    BY <1>1, <1>2
  <2>3. \A d \in Conn : Unknown(d)' => Asks(toMaster'[d])
    BY <1>4, <2>1, <2>2 DEF DirInv, Directory, OnlyAsks
  <2> QED
    BY <2>3 DEF OnlyAsks, Asks
<1>7. OnlyRefused'
  <2>1. \A d \in Conn : Unknown(d)' => Refuses(toMonitor'[d])
    BY <1>1, <1>4 DEF DirInv, Directory, OnlyRefused
  <2> QED
    BY <2>1 DEF OnlyRefused, Refuses
<1>8. RegisteredOn'
  <2>1. agent'[s] # "registered"
    BY <1>1, <1>2
  <2>2. \A t \in Server : t # s => agent'[t] = agent[t] /\ link'[t] = link[t]
    BY <1>1, <1>2
  <2>3. \A t \in Server : agent'[t] = "registered" /\ link'[t] \in Conn
                            => socket'[link'[t]] \notin {"unused", "open"}
    <3> SUFFICES ASSUME NEW t \in Server, agent'[t] = "registered", link'[t] \in Conn
                 PROVE  socket'[link'[t]] \notin {"unused", "open"}
      OBVIOUS
    <3>1. agent[t] = "registered" /\ link'[t] = link[t]
      BY <2>1, <2>2
    <3>2. ~ Unknown(link[t])
      BY <3>1 DEF DirInv, Directory, RegisteredOn
    <3>3. link[t] # c
      BY <1>3, <3>2
    <3>4. socket'[link[t]] = socket[link[t]]
      BY <1>3, <3>1, <3>3
    <3> QED
      BY <3>1, <3>2, <3>4 DEF Unknown
  <2> QED
    BY <2>3 DEF RegisteredOn, Unknown
<1> QED
  BY <1>5, <1>6, <1>7, <1>8 DEF Directory

LEMMA DirUnplugged ==
  ASSUME DirInv, NEW s \in Server, NEW to \in {Lost, GivenUp}, Unplug(s, to),
         agent' = agent \/ agent' = [agent EXCEPT ![s] = "inited"],
         UNCHANGED <<owner, socket, toMaster, idMap, servers, listeners>>
  PROVE  Directory'
<1>1. Names' /\ \A d \in Conn : Unknown(d)' = Unknown(d)
  BY NamesStay
<1>2. OnlyAsks'
  BY DEF DirInv, Directory, OnlyAsks, Unknown, Asks
<1>3. OnlyRefused'
  BY <1>1, UnplugRefused DEF DirInv, Directory
<1>4. \A t \in Server : t # s => agent'[t] = agent[t]
  BY DEF DirInv, TInv, TypeOK
<1>5. RegisteredOn'
  BY <1>1, <1>4, UnplugRegistered DEF DirInv, Directory
<1> QED
  BY <1>1, <1>2, <1>3, <1>5 DEF Directory

LEMMA DirRead ==
  ASSUME DirInv, NEW s \in Server, NEW type, Read(s, type), UNCHANGED socket
  PROVE  /\ OnlyRefused'
         /\ type # "reconnected" => ~ Unknown(link[s])
         /\ type = "reconnected" /\ Head(toMonitor[link[s]]).ok => ~ Unknown(link[s])
<1> DEFINE c == link[s]
<1>1. /\ c \in Conn /\ toMonitor[c] \in Seq(ToMonitor) /\ toMonitor[c] # <<>>
      /\ Head(toMonitor[c]).type = type
      /\ toMonitor' = [toMonitor EXCEPT ![c] = Tail(@)]
      /\ toMonitor \in [Conn -> Seq(ToMonitor)]
  BY DEF Read, DirInv, TInv, TypeOK
<1> HIDE DEF c
<1>2. 1 \in DOMAIN toMonitor[c] /\ Head(toMonitor[c]) = toMonitor[c][1]
  BY <1>1
<1>3. Unknown(c) => type = "reconnected" /\ ~ Head(toMonitor[c]).ok
  BY <1>1, <1>2 DEF DirInv, Directory, OnlyRefused, Refuses
<1>4. \A d \in Conn : Unknown(d)' => Refuses(toMonitor'[d])
  <2> SUFFICES ASSUME NEW d \in Conn, Unknown(d)' PROVE Refuses(toMonitor'[d])
    OBVIOUS
  <2>1. Refuses(toMonitor[d])
    BY DEF Unknown, DirInv, Directory, OnlyRefused
  <2>2. CASE d = c
    <3>1. toMonitor'[d] = Tail(toMonitor[d])
      BY <1>1, <2>2
    <3> QED
      BY <1>1, <2>1, <2>2, <3>1, RefusesTail
  <2>3. CASE d # c
    BY <1>1, <2>1, <2>3
  <2> QED
    BY <2>2, <2>3
<1>5. OnlyRefused'
  BY <1>4 DEF OnlyRefused, Refuses
<1> QED
  BY <1>3, <1>5 DEF c

LEMMA DirSay ==
  ASSUME DirInv, NEW s \in Server, link[s] \in Conn, NEW msg, Say(s, msg),
         UNCHANGED socket, ~ Unknown(link[s])
  PROVE  OnlyAsks'
<1>1. \A d \in Conn : Unknown(d) => toMaster'[d] = toMaster[d]
  <2>1. toMaster \in [Conn -> Seq(ToMaster)]
    BY DEF DirInv, TInv, TypeOK
  <2>2. toMaster' = [toMaster EXCEPT ![link[s]] = Append(@, msg)] \/ toMaster' = toMaster
    BY DEF Say
  <2> QED
    BY <2>1, <2>2
<1>2. \A d \in Conn : Unknown(d)' => Asks(toMaster'[d])
  BY <1>1 DEF DirInv, Directory, OnlyAsks, Unknown
<1> QED
  BY <1>2 DEF OnlyAsks, Asks

LEMMA AsksStay ==
  ASSUME OnlyAsks, UNCHANGED <<socket, toMaster>> PROVE OnlyAsks'
BY DEF OnlyAsks, Unknown, Asks

LEMMA RefusedStay ==
  ASSUME OnlyRefused, UNCHANGED <<socket, toMonitor>> PROVE OnlyRefused'
BY DEF OnlyRefused, Unknown, Refuses

\* An agent that becomes registered does so on a known connection.
LEMMA AgentRegistered ==
  ASSUME DirInv, NEW s \in Server, UNCHANGED <<socket, link>>,
         agent' = agent \/ (agent' = [agent EXCEPT ![s] = "registered"] /\ ~ Unknown(link[s]))
  PROVE  RegisteredOn'
<1>1. \A t \in Server : t # s => agent'[t] = agent[t]
  BY DEF DirInv, TInv, TypeOK
<1>2. \A t \in Server : agent'[t] = "registered" /\ link[t] \in Conn => ~ Unknown(link[t])
  BY <1>1 DEF DirInv, Directory, RegisteredOn
<1> QED
  BY <1>2 DEF RegisteredOn, Unknown

LEMMA DirRegistered == ASSUME DirInv, NEW s \in Server, OnRegistered(s) PROVE Directory'
<1>1. /\ Read(s, "registered") /\ link[s] \in Conn
      /\ agent' = [agent EXCEPT ![s] = "registered"]
      /\ Say(s, [type |-> "subscribe"])
      /\ UNCHANGED <<link, owner, socket, idMap, servers, listeners>>
  BY DEF OnRegistered, Read, masterAgent, watchdog
<1>2. OnlyRefused' /\ ~ Unknown(link[s])
  BY <1>1, DirRead
<1>3. OnlyAsks'
  BY <1>1, <1>2, DirSay
<1>4. RegisteredOn'
  BY <1>1, <1>2, AgentRegistered
<1> QED
  BY <1>1, <1>2, <1>3, <1>4, NamesStay DEF Directory

LEMMA DirReconnected == ASSUME DirInv, NEW s \in Server, OnReconnected(s) PROVE Directory'
<1>1. /\ Read(s, "reconnected")
      /\ agent' = IF Head(toMonitor[link[s]]).ok THEN [agent EXCEPT ![s] = "registered"] ELSE agent
      /\ UNCHANGED <<link, owner, socket, toMaster, idMap, servers, listeners>>
  BY DEF OnReconnected, masterAgent, watchdog
<1>2. OnlyRefused' /\ (Head(toMonitor[link[s]]).ok => ~ Unknown(link[s]))
  BY <1>1, DirRead
<1>3. agent' = agent \/ (agent' = [agent EXCEPT ![s] = "registered"] /\ ~ Unknown(link[s]))
  BY <1>1, <1>2
<1>4. RegisteredOn'
  BY <1>1, <1>3, AgentRegistered
<1>5. OnlyAsks'
  BY <1>1, AsksStay DEF DirInv, Directory
<1> QED
  BY <1>1, <1>2, <1>4, <1>5, NamesStay DEF Directory

LEMMA DirServers == ASSUME DirInv, NEW s \in Server, OnServers(s) PROVE Directory'
<1>1. /\ Read(s, "servers")
      /\ UNCHANGED <<agent, link, owner, socket, toMaster, idMap, servers, listeners>>
  BY DEF OnServers, masterAgent, watchdog
<1>2. OnlyRefused'
  BY <1>1, DirRead
<1>3. RegisteredOn'
  BY <1>1, AgentRegistered
<1>4. OnlyAsks'
  BY <1>1, AsksStay DEF DirInv, Directory
<1> QED
  BY <1>1, <1>2, <1>3, <1>4, NamesStay DEF Directory

LEMMA DirRequest == ASSUME DirInv, NEW s \in Server, OnRequest(s) PROVE Directory'
<1> DEFINE m == Head(toMonitor[link[s]])
<1>1. /\ Read(s, "request") /\ link[s] \in Conn
      /\ Say(s, [type |-> "response", id |-> m.id])
      /\ UNCHANGED <<agent, link, owner, socket, idMap, servers, listeners>>
  BY DEF OnRequest, Read, masterAgent, watchdog
<1> HIDE DEF m
<1>2. OnlyRefused' /\ ~ Unknown(link[s])
  BY <1>1, DirRead
<1>3. OnlyAsks'
  BY <1>1, <1>2, DirSay
<1>4. RegisteredOn'
  BY <1>1, AgentRegistered
<1> QED
  BY <1>1, <1>2, <1>3, <1>4, NamesStay DEF Directory

LEMMA DirFinish == ASSUME DirInv, NEW s \in Server, FinishStart(s) PROVE Directory'
<1>1. /\ agent[s] = "registered" => link[s] \in Conn
      /\ IF agent[s] = "registered" THEN Say(s, [type |-> "record"]) ELSE UNCHANGED toMaster
      /\ UNCHANGED <<agent, link, owner, socket, toMonitor, idMap, servers, listeners>>
  BY DEF FinishStart, masterAgent, watchdog
<1>2. OnlyAsks'
  <2>1. CASE agent[s] = "registered"
    <3>1. link[s] \in Conn /\ ~ Unknown(link[s])
      BY <1>1, <2>1 DEF DirInv, Directory, RegisteredOn
    <3>2. Say(s, [type |-> "record"])
      BY <1>1, <2>1
    <3> QED
      BY <1>1, <3>1, <3>2, DirSay
  <2>2. CASE agent[s] # "registered"
    BY <1>1, <2>2, AsksStay DEF DirInv, Directory
  <2> QED
    BY <2>1, <2>2
<1>3. OnlyRefused'
  BY <1>1, RefusedStay DEF DirInv, Directory
<1>4. RegisteredOn'
  BY <1>1, AgentRegistered
<1> QED
  BY <1>1, <1>2, <1>3, <1>4, NamesStay DEF Directory

LEMMA DirInit == Init => DirInv
<1> SUFFICES ASSUME Init PROVE DirInv
  OBVIOUS
<1>1. TInv
  BY TInvInit
<1>2. Names
  BY DEF Init, Names
<1>3. OnlyAsks /\ OnlyRefused /\ RegisteredOn
  BY NothingRefuses DEF Init, OnlyAsks, OnlyRefused, RegisteredOn
<1> QED
  BY <1>1, <1>2, <1>3 DEF DirInv, Directory

LEMMA DirStep == ASSUME ~ LateCloses PROVE DirInv /\ [Next]_vars => DirInv'
<1> SUFFICES ASSUME DirInv, [Next]_vars PROVE Directory'
  BY TInvStep DEF DirInv
<1>1. ASSUME NEW s \in Server,
             \/ Boot(s) \/ Reconnect(s) \/ OnSocketClose(s) \/ CheckKeepAlive(s) \/ Crash(s)
             \/ OnRegistered(s) \/ OnReconnected(s) \/ OnServers(s) \/ OnRequest(s)
             \/ FinishStart(s) \/ FinishStartThrows(s)
      PROVE  Directory'
  <2>1. CASE Boot(s) \/ Reconnect(s)
    BY <2>1, DirConnect DEF Boot, Reconnect
  <2>2. CASE OnSocketClose(s) \/ CheckKeepAlive(s)
    BY <2>2, DirUnplugged DEF OnSocketClose, CheckKeepAlive, masterAgent, watchdog
  <2>3. CASE Crash(s) \/ FinishStartThrows(s)
    <3>1. /\ Unplug(s, Lost) /\ agent' = [agent EXCEPT ![s] = "inited"]
          /\ UNCHANGED <<owner, socket, toMaster, idMap, servers, listeners>>
      BY <2>3 DEF Crash, FinishStartThrows, Exit, masterAgent, watchdog
    <3> QED
      BY <3>1, DirUnplugged
  <2> QED
    BY <1>1, <2>1, <2>2, <2>3, DirRegistered, DirReconnected, DirServers, DirRequest, DirFinish
<1>2. ASSUME NEW c \in Conn,
             \/ OnRegister(c) \/ RefuseReconnect(c) \/ OnReconnect(c)
             \/ OnSubscribe(c) \/ OnRecord(c) \/ OnResponse(c) \/ OnDisconnect(c)
      PROVE  Directory'
  BY <1>2, DirRegister, DirRefuse, DirReconnect, DirSubscribe, DirRecord, DirResponse,
     DirDisconnect
<1>3. CASE RestartMaster
  BY <1>3, DirRestart
<1>4. CASE UNCHANGED vars
  <2>1. /\ UNCHANGED <<owner, socket, idMap, servers, listeners>>
        /\ UNCHANGED <<toMaster, toMonitor, agent, link>>
    BY <1>4 DEF vars, process, network, masterAgent, watchdog
  <2>2. OnlyAsks' /\ OnlyRefused' /\ RegisteredOn'
    BY <2>1, AsksStay, RefusedStay DEF DirInv, Directory, RegisteredOn, Unknown
  <2> QED
    BY <2>1, <2>2, NamesStay DEF Directory
<1> QED
  BY <1>1, <1>2, <1>3, <1>4 DEF Next

\* Whatever the crashes, restarts, broken connections and reconnects, when the
\* closes are found in order the servers of the watchdog are those with a
\* registered connection, which is theirs and open, and only they listen.
THEOREM DirectoryCorrect == Spec => []DirectoryAgrees
<1> DEFINE Inv == LateCloses \/ DirInv
<1>1. Init => Inv
  BY DirInit
<1>2. Inv /\ [Next]_vars => Inv'
  BY DirStep
<1>3. Inv => DirectoryAgrees
  BY DirectoryOfNames DEF DirInv, Directory, DirectoryAgrees
<1> QED
  BY <1>1, <1>2, <1>3, PTL DEF Spec

-----------------------------------------------------------------------------
(* The latches.  A listener has a connection, so that a latch waits for    *)
(* each of the requests sent with its number.                              *)

Waiting(n) == {s \in Server : n \in callbacks[s]}
Counted == \A n \in DOMAIN latches : latches[n] # NoLatch => latches[n] = Cardinality(Waiting(n))

LatchInv == DirInv /\ ~ threw /\ Counted

Ids(q) == {q[i].id : i \in DOMAIN q}

LEMMA IdsConcat ==
  ASSUME NEW p \in Seq(Entry), NEW q \in Seq(Entry) PROVE Ids(p \o q) = Ids(p) \union Ids(q)
<1>1. ASSUME NEW x \in Ids(p \o q) PROVE x \in Ids(p) \union Ids(q)
  <2>1. PICK i \in DOMAIN (p \o q) : x = (p \o q)[i].id
    BY DEF Ids
  <2>2. \/ i \in DOMAIN p /\ (p \o q)[i] = p[i]
        \/ i - Len(p) \in DOMAIN q /\ (p \o q)[i] = q[i - Len(p)]
    OBVIOUS
  <2> QED
    BY <2>1, <2>2 DEF Ids
<1>2. ASSUME NEW x \in Ids(p) PROVE x \in Ids(p \o q)
  <2>1. PICK i \in DOMAIN p : x = p[i].id
    BY <1>2 DEF Ids
  <2>2. i \in DOMAIN (p \o q) /\ (p \o q)[i] = p[i]
    OBVIOUS
  <2> QED
    BY <2>1, <2>2 DEF Ids
<1>3. ASSUME NEW x \in Ids(q) PROVE x \in Ids(p \o q)
  <2>1. PICK i \in DOMAIN q : x = q[i].id
    BY <1>3 DEF Ids
  <2>2. i + Len(p) \in DOMAIN (p \o q) /\ (p \o q)[i + Len(p)] = q[i]
    OBVIOUS
  <2> QED
    BY <2>1, <2>2 DEF Ids
<1> QED
  BY <1>1, <1>2, <1>3

LEMMA IdsNotice ==
  ASSUME NEW ids, NEW r, NEW t \in Server, NEW n
  PROVE  n \in Ids(Notice(ids, r)[t]) <=> t \in ids /\ n = r.id
<1>1. CASE t \in ids
  <2>1. Notice(ids, r)[t] = <<r>>
    BY <1>1 DEF Notice
  <2>2. Ids(<<r>>) = {r.id}
    BY DEF Ids
  <2> QED
    BY <1>1, <2>1, <2>2
<1>2. CASE t \notin ids
  <2>1. Notice(ids, r)[t] = <<>>
    BY <1>2 DEF Notice
  <2>2. Ids(<<>>) = {}
    BY DEF Ids
  <2> QED
    BY <1>2, <2>1, <2>2
<1> QED
  BY <1>1, <1>2

LEMMA PostedIds ==
  ASSUME NEW news, Post(news)
  PROVE  \A s \in Server : callbacks'[s] = callbacks[s] \union Ids(news[s])
BY DEF Post, Ids

\* New numbers leave the latches of the old ones as they are.
LEMMA CountedMore ==
  ASSUME TypeOK, Counted, latches' \in Seq(Nat \union {NoLatch}),
         NEW news, Post(news),
         \A s \in Server : \A n \in Ids(news[s]) : n \notin DOMAIN latches,
         \A n \in DOMAIN latches : n \in DOMAIN latches' /\ latches'[n] = latches[n],
         \A n \in DOMAIN latches' \ DOMAIN latches :
           latches'[n] = NoLatch \/ latches'[n] = Cardinality({s \in Server : n \in Ids(news[s])})
  PROVE  Counted'
<1>1. \A s \in Server : callbacks'[s] = callbacks[s] \union Ids(news[s])
  BY PostedIds
<1>2. \A s \in Server : callbacks[s] \subseteq DOMAIN latches
  BY DEF TypeOK
<1>3. ASSUME NEW n \in DOMAIN latches' PROVE latches'[n] # NoLatch => latches'[n] = Cardinality(Waiting(n)')
  <2>1. CASE n \in DOMAIN latches
    <3>1. Waiting(n)' = Waiting(n)
      BY <1>1, <2>1 DEF Waiting
    <3> QED
      BY <2>1, <3>1 DEF Counted
  <2>2. CASE n \notin DOMAIN latches
    <3>1. Waiting(n)' = {s \in Server : n \in Ids(news[s])}
      BY <1>1, <1>2, <2>2 DEF Waiting
    <3> QED
      BY <2>2, <3>1
  <2> QED
    BY <2>1, <2>2
<1> QED
  BY <1>3 DEF Counted, Waiting

\* A notification of servers that all have a connection.
LEMMA CountedNotice ==
  ASSUME TypeOK, Counted, NEW ids \in SUBSET Server, NEW action \in Action, NEW about \in Server,
         NEW to, Post(Notice(ids, Request(Number, action, about))),
         latches' = Latched(latches, ids, to), \A s \in ids : to[s] # NoConn
  PROVE  Counted'
<1> DEFINE r == Request(Number, action, about)
           news == Notice(ids, r)
<1>1. latches \in Seq(Nat \union {NoLatch}) /\ Len(latches) \in Nat /\ Number = Len(latches) + 1
  BY NumberType DEF TypeOK, Number
<1>2. r.id = Len(latches) + 1
  BY <1>1 DEF Request
<1>3. latches' \in Seq(Nat \union {NoLatch})
  BY <1>1, LatchedType
<1> HIDE DEF r
<1>4. \A s \in Server : \A n : n \in Ids(news[s]) <=> s \in ids /\ n = r.id
  BY IdsNotice
<1> HIDE DEF news
<1>5. \A s \in Server : \A n \in Ids(news[s]) : n = Len(latches) + 1
  BY <1>2, <1>4
<1>6. \A s \in Server : \A n \in Ids(news[s]) : n \notin DOMAIN latches
  <2>1. Len(latches) + 1 \notin DOMAIN latches
    BY <1>1
  <2> QED
    BY <1>5, <2>1
<1>7. {s \in Server : Len(latches) + 1 \in Ids(news[s])} = ids
  <2>1. \A s \in Server : Len(latches) + 1 \in Ids(news[s]) <=> s \in ids
    BY <1>2, <1>4
  <2> QED
    BY <2>1
<1>8. CASE ids = {}
  <2>1. latches' = latches
    BY <1>8 DEF Latched
  <2> QED
    BY <1>3, <1>6, <2>1, CountedMore DEF news, r
<1>9. CASE ids # {}
  <2>1. {s \in ids : to[s] # NoConn} = ids
    OBVIOUS
  <2>2. latches' = Append(latches, Cardinality(ids))
    BY <1>9, <2>1 DEF Latched, LatchFor
  <2>3. \A n \in DOMAIN latches : n \in DOMAIN latches' /\ latches'[n] = latches[n]
    <3>1. Cardinality(ids) \in Nat
      BY ConstantsAssumption, FS_Subset, FS_CardinalityType
    <3> QED
      BY <1>1, <2>2, <3>1
  <2>4. \A n \in DOMAIN latches' \ DOMAIN latches :
          n = Len(latches) + 1 /\ latches'[n] = Cardinality(ids)
    BY <1>1, <2>2
  <2>5. \A n \in DOMAIN latches' \ DOMAIN latches :
          latches'[n] = Cardinality({s \in Server : n \in Ids(news[s])})
    BY <1>7, <2>4
  <2>6. Post(news)
    BY DEF news, r
  <2> QED
    BY <1>3, <1>6, <2>3, <2>5, <2>6, CountedMore
<1> QED
  BY <1>8, <1>9

\* Every listener has a connection.
LEMMA ListenersNamed == ASSUME DirInv PROVE \A s \in listeners : s \in Server /\ idMap[s] # NoConn
BY DEF DirInv, Directory, Names, TInv, TypeOK

LEMMA ListenersStayNamed ==
  ASSUME DirInv, NEW c \in Conn, owner[c] \in Server
  PROVE  \A s \in listeners : AddConnection(c)[s] # NoConn
<1>1. \A s \in listeners : s \in Server /\ idMap[s] # NoConn
  BY ListenersNamed
<1>2. idMap \in [Server -> 0 .. MaxConn] /\ c # NoConn
  BY NoSuchConn DEF DirInv, TInv, TypeOK
<1>3. CASE idMap[owner[c]] = NoConn
  <2>1. AddConnection(c) = [idMap EXCEPT ![owner[c]] = c]
    BY <1>3 DEF AddConnection
  <2> QED
    BY <1>1, <1>2, <2>1
<1>4. CASE idMap[owner[c]] # NoConn
  BY <1>1, <1>4 DEF AddConnection
<1> QED
  BY <1>3, <1>4

LEMMA CountRegister ==
  ASSUME LatchInv, NEW c \in Conn, OnRegister(c) PROVE Counted' /\ ~ threw'
<1>1. /\ Live(c) /\ ~ threw'
      /\ Post(Notice(listeners, Request(Number, "addServer", owner[c])))
      /\ latches' = Latched(latches, listeners, AddConnection(c))
  BY DEF OnRegister, Receive, LatchInv
<1>2. owner[c] \in Server
  BY <1>1, ReceivedOwned DEF LatchInv, DirInv
<1>3. /\ \A s \in listeners : AddConnection(c)[s] # NoConn
      /\ listeners \in SUBSET Server /\ "addServer" \in Action
  BY <1>2, ListenersStayNamed DEF LatchInv, DirInv, TInv, TypeOK, Action
<1>4. Counted'
  BY <1>1, <1>2, <1>3, CountedNotice DEF LatchInv, DirInv, TInv
<1> QED
  BY <1>1, <1>4

LEMMA CountReconnect ==
  ASSUME LatchInv, NEW c \in Conn, OnReconnect(c) PROVE Counted' /\ ~ threw'
<1> DEFINE s == owner[c]
           to == AddConnection(c)
           replace == Request(Number, "replaceServer", s)
           add == Request(Number + 1, "addServer", s)
           news == [t \in Server |-> Notice({s}, replace)[t] \o Notice(listeners, add)[t]]
           ls == Append(latches, NoLatch)
           N == Len(latches)
<1>1. /\ Live(c) /\ ~ threw'
      /\ Post(news)
      /\ latches' = Latched(ls, listeners, to)
  BY DEF OnReconnect, Receive, LatchInv
<1>2. s \in Server
  BY <1>1, ReceivedOwned DEF LatchInv, DirInv
<1>3. \A t \in listeners : to[t] # NoConn
  BY <1>2, ListenersStayNamed DEF LatchInv
<1>4. /\ latches \in Seq(Nat \union {NoLatch}) /\ N \in Nat /\ listeners \in SUBSET Server
      /\ Number = N + 1 /\ TypeOK /\ Counted
  BY NumberType DEF LatchInv, DirInv, TInv, TypeOK, Number
<1>5. replace \in Entry /\ replace.id = N + 1 /\ add \in Entry /\ add.id = N + 2
  BY <1>2, <1>4 DEF Request, Entry, Action
<1> HIDE DEF replace, add
<1>6. \A t \in Server : /\ Notice({s}, replace)[t] \in Seq(Entry)
                        /\ Notice(listeners, add)[t] \in Seq(Entry)
  BY <1>2, <1>4, <1>5, NoticeType
<1>7. \A t \in Server : \A n : n \in Ids(news[t]) <=> (t = s /\ n = N + 1) \/ (t \in listeners /\ n = N + 2)
  <2> SUFFICES ASSUME NEW t \in Server, NEW n
               PROVE  n \in Ids(news[t]) <=> (t = s /\ n = N + 1) \/ (t \in listeners /\ n = N + 2)
    OBVIOUS
  <2>1. news[t] = Notice({s}, replace)[t] \o Notice(listeners, add)[t]
    OBVIOUS
  <2> HIDE DEF news
  <2>2. Ids(news[t]) = Ids(Notice({s}, replace)[t]) \union Ids(Notice(listeners, add)[t])
    BY <1>6, <2>1, IdsConcat
  <2>3. n \in Ids(Notice({s}, replace)[t]) <=> t \in {s} /\ n = replace.id
    BY IdsNotice
  <2>4. n \in Ids(Notice(listeners, add)[t]) <=> t \in listeners /\ n = add.id
    BY IdsNotice
  <2> QED
    BY <1>5, <2>2, <2>3, <2>4
<1> HIDE DEF news
<1>8. \A t \in Server : \A n \in Ids(news[t]) : n \in {N + 1, N + 2}
  BY <1>7
<1>9. \A t \in Server : N + 2 \in Ids(news[t]) <=> t \in listeners
  BY <1>4, <1>7
<1> HIDE DEF news, to
<1>10. \A t \in Server : \A n \in Ids(news[t]) : n \notin DOMAIN latches
  <2>1. N + 1 \notin DOMAIN latches /\ N + 2 \notin DOMAIN latches
    BY <1>4
  <2> QED
    BY <1>8, <2>1
<1>11. ls \in Seq(Nat \union {NoLatch}) /\ Len(ls) = N + 1
  BY <1>4
<1>12. latches' \in Seq(Nat \union {NoLatch})
  BY <1>1, <1>4, <1>11, LatchedType
<1>13. \A n \in DOMAIN latches : n \in DOMAIN ls /\ ls[n] = latches[n]
  BY <1>4
<1>14. \A n \in DOMAIN ls \ DOMAIN latches : ls[n] = NoLatch
  BY <1>4
<1>15. CASE listeners = {}
  <2>1. latches' = ls
    BY <1>1, <1>15 DEF Latched
  <2>2. Counted'
    BY <1>1, <1>4, <1>10, <1>12, <1>13, <1>14, <2>1, CountedMore
  <2> QED
    BY <1>1, <2>2
<1>16. CASE listeners # {}
  <2> HIDE DEF ls
  <2>1. {t \in listeners : to[t] # NoConn} = listeners
    BY <1>3
  <2>2. latches' = Append(ls, Cardinality(listeners))
    BY <1>1, <1>16, <2>1 DEF Latched, LatchFor
  <2>3. \A n \in DOMAIN ls : n \in DOMAIN latches' /\ latches'[n] = ls[n]
    BY <1>11, <2>2
  <2>4. \A n \in DOMAIN latches' \ DOMAIN ls : n = N + 2 /\ latches'[n] = Cardinality(listeners)
    BY <1>4, <1>11, <2>2
  <2>5. {t \in Server : N + 2 \in Ids(news[t])} = listeners
    BY <1>4, <1>9
  <2>6. \A n \in DOMAIN latches' \ DOMAIN ls :
          latches'[n] = Cardinality({t \in Server : n \in Ids(news[t])})
    BY <2>4, <2>5
  <2>7. \A n \in DOMAIN latches : n \in DOMAIN latches' /\ latches'[n] = latches[n]
    BY <1>13, <2>3
  <2>8. \A n \in DOMAIN latches' \ DOMAIN latches :
          latches'[n] = NoLatch \/ latches'[n] = Cardinality({t \in Server : n \in Ids(news[t])})
    BY <1>14, <2>3, <2>6
  <2>9. Counted'
    BY <1>1, <1>4, <1>10, <1>12, <2>7, <2>8, CountedMore
  <2> QED
    BY <1>1, <2>9
<1> QED
  BY <1>15, <1>16

LEMMA CountRecord ==
  ASSUME LatchInv, NEW c \in Conn, OnRecord(c) PROVE Counted' /\ ~ threw'
<1> DEFINE told == IF isStarted' /\ ~isStarted THEN listeners ELSE {}
<1>1. /\ Live(c) /\ ~ threw'
      /\ Post(Notice(told, Request(Number, "startOver", owner[c])))
      /\ latches' = Latched(latches, told, idMap)
  BY DEF OnRecord, Receive, LatchInv
<1>2. owner[c] \in Server
  BY <1>1, ReceivedOwned DEF LatchInv, DirInv
<1>3. \A s \in told : s \in Server /\ idMap[s] # NoConn
  BY ListenersNamed DEF LatchInv
<1>4. told \in SUBSET Server /\ "startOver" \in Action /\ TypeOK /\ Counted
  BY <1>3 DEF Action, LatchInv, DirInv, TInv
<1> HIDE DEF told
<1>5. Counted'
  BY <1>1, <1>2, <1>3, <1>4, CountedNotice
<1> QED
  BY <1>1, <1>5

LEMMA CountDisconnect ==
  ASSUME LatchInv, NEW c \in Conn, OnDisconnect(c) PROVE Counted' /\ ~ threw'
<1>1. Live(c) /\ UNCHANGED threw
  BY DEF OnDisconnect
<1>3. CASE socket[c] = "registered"
  <2> DEFINE rest == Unsubscribe(owner[c])
             to == RemoveConnection(owner[c])
  <2>1. /\ Post(Notice(rest, Request(Number, "removeServer", owner[c])))
        /\ latches' = Latched(latches, rest, to)
    BY <1>3 DEF OnDisconnect
  <2>2. owner[c] \in Server
    BY <1>1, ReceivedOwned DEF LatchInv, DirInv
  <2>3. \A s \in rest : s \in Server /\ idMap[s] # NoConn /\ s # owner[c]
    BY ListenersNamed DEF LatchInv, Unsubscribe
  <2>4. \A s \in rest : to[s] # NoConn
    BY <2>3 DEF RemoveConnection, LatchInv, DirInv, TInv, TypeOK
  <2>5. rest \in SUBSET Server /\ "removeServer" \in Action /\ TypeOK /\ Counted
    BY <2>3 DEF Action, LatchInv, DirInv, TInv
  <2> HIDE DEF rest, to
  <2>6. Counted'
    BY <2>1, <2>2, <2>4, <2>5, CountedNotice
  <2> QED
    BY <1>1, <2>6 DEF LatchInv
<1>4. CASE socket[c] # "registered"
  BY <1>1, <1>4 DEF OnDisconnect, LatchInv, Counted, Waiting
<1> QED
  BY <1>3, <1>4

LEMMA CountResponse ==
  ASSUME LatchInv, NEW c \in Conn, OnResponse(c) PROVE Counted' /\ ~ threw'
<1> PICK s, n : s = owner[c] /\ n = Head(toMaster[c]).id
  OBVIOUS
<1>1. Live(c)
  BY DEF OnResponse, Receive
<1>2. s \in Server
  BY <1>1, ReceivedOwned DEF LatchInv, DirInv
<1>3. CASE n \in callbacks[s]
  <2>1. /\ callbacks' = Forget(s, n)
        /\ latches' = IF latches[n] > 0 THEN [latches EXCEPT ![n] = @ - 1] ELSE latches
        /\ threw' = (latches[n] = 0)
    BY <1>3 DEF OnResponse
  <2>2. /\ callbacks \in [Server -> SUBSET (1 .. Len(latches))]
        /\ latches \in Seq(Nat \union {NoLatch}) /\ Counted
    BY DEF LatchInv, DirInv, TInv, TypeOK
  <2>3. n \in DOMAIN latches /\ latches[n] \in Nat \union {NoLatch}
    BY <1>2, <1>3, <2>2
  <2>4. callbacks' = [callbacks EXCEPT ![s] = callbacks[s] \ {n}]
    BY <2>1 DEF Forget
  <2>5. \A m : m # n => Waiting(m)' = Waiting(m)
    BY <1>2, <2>2, <2>4 DEF Waiting
  <2>6. Waiting(n)' = Waiting(n) \ {s} /\ s \in Waiting(n)
    <3>1. callbacks'[s] = callbacks[s] \ {n}
      BY <1>2, <2>2, <2>4
    <3>2. \A t \in Server : t # s => callbacks'[t] = callbacks[t]
      BY <1>2, <2>2, <2>4
    <3>3. \A t \in Server : n \in callbacks'[t] <=> n \in callbacks[t] /\ t # s
      BY <3>1, <3>2
    <3>4. \A t : t \in Waiting(n)' <=> t \in Waiting(n) /\ t # s
      BY <3>3 DEF Waiting
    <3>5. s \in Waiting(n)
      BY <1>2, <1>3 DEF Waiting
    <3> QED
      BY <3>4, <3>5
  <2>7. IsFiniteSet(Waiting(n)) /\ Cardinality(Waiting(n)) \in Nat
    BY ConstantsAssumption, FS_Subset, FS_CardinalityType DEF Waiting
  <2>8. Cardinality(Waiting(n)') = Cardinality(Waiting(n)) - 1 /\ Cardinality(Waiting(n)') \in Nat
    <3>1. Cardinality(Waiting(n) \ {s}) = Cardinality(Waiting(n)) - 1
      BY <2>6, <2>7, FS_RemoveElement
    <3>2. IsFiniteSet(Waiting(n) \ {s})
      BY <2>7, FS_RemoveElement
    <3> QED
      BY <2>6, <3>1, <3>2, FS_CardinalityType
  <2>9. latches[n] # NoLatch => latches[n] > 0 /\ latches[n] = Cardinality(Waiting(n))
    BY <2>2, <2>3, <2>7, <2>8 DEF Counted
  <2>10. ~ threw'
    <3>1. latches[n] # 0
      BY <2>3, <2>9 DEF NoLatch
    <3> QED
      BY <2>1, <3>1
  <2>11. CASE latches[n] = NoLatch
    <3>1. latches' = latches
      BY <2>1, <2>11 DEF NoLatch
    <3> QED
      BY <2>2, <2>5, <2>10, <2>11, <3>1 DEF Counted
  <2>12. CASE latches[n] # NoLatch
    <3>1. latches' = [latches EXCEPT ![n] = latches[n] - 1]
      BY <2>1, <2>9, <2>12
    <3>2. latches'[n] = Cardinality(Waiting(n)')
      BY <2>2, <2>3, <2>8, <2>9, <2>12, <3>1
    <3>3. \A m \in DOMAIN latches' : m # n => m \in DOMAIN latches /\ latches'[m] = latches[m]
      BY <2>2, <2>3, <3>1
    <3>4. ASSUME NEW m \in DOMAIN latches', latches'[m] # NoLatch
          PROVE  latches'[m] = Cardinality(Waiting(m)')
      <4>1. CASE m = n
        BY <3>2, <4>1
      <4>2. CASE m # n
        <5>1. m \in DOMAIN latches /\ latches'[m] = latches[m] /\ Waiting(m)' = Waiting(m)
          BY <2>5, <3>3, <4>2
        <5>2. latches[m] = Cardinality(Waiting(m))
          BY <2>2, <3>4, <5>1 DEF Counted
        <5> QED
          BY <5>1, <5>2
      <4> QED
        BY <4>1, <4>2
    <3> QED
      BY <2>10, <3>4 DEF Counted, Waiting
  <2> QED
    BY <2>11, <2>12
<1>4. CASE n \notin callbacks[s]
  <2>1. UNCHANGED <<callbacks, latches, threw>>
    BY <1>4 DEF OnResponse
  <2> QED
    BY <2>1 DEF LatchInv, Counted, Waiting
<1> QED
  BY <1>3, <1>4

LEMMA CountStay ==
  ASSUME LatchInv, UNCHANGED <<callbacks, latches, threw>> PROVE Counted' /\ ~ threw'
BY DEF LatchInv, Counted, Waiting

LEMMA LatchStep == ASSUME ~ LateCloses PROVE LatchInv /\ [Next]_vars => LatchInv'
<1> SUFFICES ASSUME LatchInv, [Next]_vars PROVE Counted' /\ ~ threw'
  BY DirStep DEF LatchInv
<1>1. ASSUME NEW s \in Server,
             \/ Boot(s) \/ Reconnect(s) \/ OnSocketClose(s) \/ CheckKeepAlive(s) \/ Crash(s)
             \/ OnRegistered(s) \/ OnReconnected(s) \/ OnServers(s) \/ OnRequest(s)
             \/ FinishStart(s) \/ FinishStartThrows(s)
      PROVE  Counted' /\ ~ threw'
  <2>1. UNCHANGED masterAgent
    BY <1>1 DEF Boot, Reconnect, Connect, OnSocketClose, CheckKeepAlive, Crash, OnRegistered,
       OnReconnected, OnServers, OnRequest, FinishStart, FinishStartThrows
  <2> QED
    BY <2>1, CountStay DEF masterAgent
<1>2. ASSUME NEW c \in Conn,
             \/ OnRegister(c) \/ RefuseReconnect(c) \/ OnReconnect(c)
             \/ OnSubscribe(c) \/ OnRecord(c) \/ OnResponse(c) \/ OnDisconnect(c)
      PROVE  Counted' /\ ~ threw'
  <2>1. CASE RefuseReconnect(c) \/ OnSubscribe(c)
    BY <2>1, CountStay DEF RefuseReconnect, OnSubscribe, masterAgent
  <2> QED
    BY <1>2, <2>1, CountRegister, CountReconnect, CountRecord, CountResponse, CountDisconnect
<1>3. CASE RestartMaster
  <2>1. latches' = <<>> /\ threw' = FALSE
    BY <1>3 DEF RestartMaster
  <2> QED
    BY <2>1 DEF Counted
<1>4. CASE UNCHANGED vars
  BY <1>4, CountStay DEF vars, masterAgent
<1> QED
  BY <1>1, <1>2, <1>3, <1>4 DEF Next

\* Requests are kept, pushed again and answered twice, servers come and go
\* between a request and its answer: still a latch counts the callbacks kept
\* for it, so that CountDownLatch.done is never called on one that has fired,
\* which would end the master.
THEOREM LatchesCorrect == Spec => []LatchesCount
<1> DEFINE Inv == LateCloses \/ LatchInv
<1>1. Init => Inv
  <2>1. Init => Counted /\ ~ threw
    BY DEF Init, Counted
  <2> QED
    BY <2>1, DirInit DEF LatchInv
<1>2. Inv /\ [Next]_vars => Inv'
  BY LatchStep
<1>3. Inv => LatchesCount
  BY DEF LatchInv, Counted, Waiting, LatchesCount
<1> QED
  BY <1>1, <1>2, <1>3, PTL DEF Spec

-----------------------------------------------------------------------------
(* What a server will know.  Of the messages on their way to a server the  *)
(* last that is about x decides whether x will be in its table.            *)

Adds(m, x) ==
  \/ m.type = "servers" /\ x \in m.servers
  \/ m.type = "request" /\ m.action = "addServer" /\ m.about = x
  \/ m.type = "request" /\ m.action = "replaceServer" /\ x \in m.servers
Drops(m, x) ==
  \/ m.type = "request" /\ m.action = "removeServer" /\ m.about = x
  \/ m.type = "request" /\ m.action = "replaceServer" /\ x \notin m.servers

NoDrop(q, x) == \A i \in DOMAIN q : ~ Drops(q[i], x)
AddsLast(q, x) == \E i \in DOMAIN q : Adds(q[i], x) /\ \A j \in DOMAIN q : j > i => ~ Drops(q[j], x)
WillHave(q, known, x) == AddsLast(q, x) \/ (x \in known /\ NoDrop(q, x))

\* Server s will know x when it has read what is on its way.
Learns(s, x) == WillHave(toMonitor[link[s]], table[s], x)

\* The answer to subscribe is among the messages.
Told(q) == \E i \in DOMAIN q : q[i].type = "servers"

\* The connection of s is the one the master has registered for it.
Joined(s) == link[s] \in Conn /\ link[s] = idMap[s]

\* The first message of the process of s is still to be read.
Opens(c, type) == socket[c] = "open" /\ toMaster[c][1].type = type

\* A process that ended has no connection, and a connection has one owner.
Linked == \A s \in Server : link[s] \in Conn =>
  phase[s] \in Up /\ owner[link[s]] = s /\ socket[link[s]] # "unused"

\* What a connection opens with stays in its queue until it is registered, and is sent once.
OpensOnce ==
  \A c \in Conn :
    /\ socket[c] = "open" => Len(toMaster[c]) = 1
    /\ socket[c] = "registered" =>
         \A i \in DOMAIN toMaster[c] : toMaster[c][i].type \notin {"register", "reconnect"}

\* Only a listener has started, or is about to.
Starts == \A s \in Server : Joined(s) /\ phase[s] \in {"starting", "running"} => s \in listeners
Registering == \A s \in Server :
  link[s] \in Conn /\ Opens(link[s], "register") => phase[s] = "registering"
ToldListens == \A c \in Conn : Told(toMonitor[c]) /\ idMap[owner[c]] = c => owner[c] \in listeners
Subscribed == Starts /\ Registering /\ ToldListens

\* A listener will know the servers ...
LearnsAll == \A s \in listeners : Joined(s) => \A x \in servers : Learns(s, x)

\* ... and, when no process comes back, nothing else.
LearnsOnly == \A s \in listeners : Joined(s) => \A x \in Server : Learns(s, x) => x \in servers
LearnsNothing == \A s \in Server \ listeners :
  Joined(s) \/ (link[s] \in Conn /\ Opens(link[s], "register")) => \A x \in Server : ~ Learns(s, x)
NothingKept == \A c \in Conn : Opens(c, "register") =>
  idMap[owner[c]] = NoConn /\ msgMap[owner[c]] = <<>>
IdleIsUnknown == \A s \in Server : phase[s] = "idle" =>
  /\ msgMap[s] = <<>> /\ idMap[s] = NoConn
  /\ \A c \in Conn : owner[c] = s => ~ Accepted(c)
FirstLife == LearnsOnly /\ LearnsNothing /\ NothingKept /\ IdleIsUnknown

Knowledge == Linked /\ OpensOnce /\ Subscribed /\ LearnsAll
KnowInv == DirInv /\ Knowledge /\ (~ Respawn => FirstLife)

\* Appending to a queue, and reading its head.
LEMMA IndexConcat ==
  ASSUME NEW q \in Seq(ToMonitor), NEW r \in Seq(ToMonitor)
  PROVE  /\ q \o r \in Seq(ToMonitor) /\ Len(q \o r) = Len(q) + Len(r)
         /\ DOMAIN q = 1 .. Len(q) /\ DOMAIN r = 1 .. Len(r) /\ Len(q) \in Nat /\ Len(r) \in Nat
         /\ DOMAIN (q \o r) = 1 .. Len(q) + Len(r)
         /\ \A i \in 1 .. Len(q) : (q \o r)[i] = q[i]
         /\ \A i \in 1 .. Len(r) : (q \o r)[Len(q) + i] = r[i]
OBVIOUS

LEMMA NoDropConcat ==
  ASSUME NEW q \in Seq(ToMonitor), NEW r \in Seq(ToMonitor), NEW x
  PROVE  NoDrop(q \o r, x) <=> NoDrop(q, x) /\ NoDrop(r, x)
<1> DEFINE n == Len(q)
           m == Len(r)
           p == q \o r
<1>1. /\ DOMAIN q = 1 .. n /\ DOMAIN r = 1 .. m /\ n \in Nat /\ m \in Nat
      /\ DOMAIN p = 1 .. n + m
      /\ \A i \in 1 .. n : p[i] = q[i]
      /\ \A i \in 1 .. m : p[n + i] = r[i]
  BY IndexConcat
<1> HIDE DEF n, m, p
<1>2. ASSUME NoDrop(p, x) PROVE NoDrop(q, x) /\ NoDrop(r, x)
  <2>1. \A i \in 1 .. n : i \in 1 .. n + m
    BY <1>1
  <2>2. \A i \in 1 .. m : n + i \in 1 .. n + m
    BY <1>1
  <2>3. \A i \in DOMAIN q : ~ Drops(q[i], x)
    BY <1>1, <1>2, <2>1 DEF NoDrop
  <2>4. \A i \in DOMAIN r : ~ Drops(r[i], x)
    BY <1>1, <1>2, <2>2 DEF NoDrop
  <2> QED
    BY <2>3, <2>4 DEF NoDrop
<1>3. ASSUME NoDrop(q, x), NoDrop(r, x) PROVE NoDrop(p, x)
  <2> SUFFICES ASSUME NEW i \in 1 .. n + m PROVE ~ Drops(p[i], x)
    BY <1>1 DEF NoDrop
  <2>1. CASE i <= n
    <3>1. i \in 1 .. n
      BY <1>1, <2>1
    <3> QED
      BY <1>1, <1>3, <3>1 DEF NoDrop
  <2>2. CASE i > n
    <3>1. i - n \in 1 .. m /\ n + (i - n) = i
      BY <1>1, <2>2
    <3>2. p[i] = r[i - n]
      BY <1>1, <3>1
    <3> QED
      BY <1>1, <1>3, <3>1, <3>2 DEF NoDrop
  <2> QED
    BY <1>1, <2>1, <2>2
<1> QED
  BY <1>2, <1>3 DEF p

LEMMA AddsConcat ==
  ASSUME NEW q \in Seq(ToMonitor), NEW r \in Seq(ToMonitor), NEW x
  PROVE  AddsLast(q \o r, x) <=> AddsLast(r, x) \/ (AddsLast(q, x) /\ NoDrop(r, x))
<1> DEFINE n == Len(q)
           m == Len(r)
           p == q \o r
<1>1. /\ DOMAIN q = 1 .. n /\ DOMAIN r = 1 .. m /\ n \in Nat /\ m \in Nat
      /\ DOMAIN p = 1 .. n + m
      /\ \A i \in 1 .. n : p[i] = q[i]
      /\ \A i \in 1 .. m : p[n + i] = r[i]
  BY IndexConcat
<1> HIDE DEF n, m, p
<1>2. ASSUME AddsLast(p, x) PROVE AddsLast(r, x) \/ (AddsLast(q, x) /\ NoDrop(r, x))
  <2>1. PICK i \in 1 .. n + m : Adds(p[i], x) /\ \A j \in 1 .. n + m : j > i => ~ Drops(p[j], x)
    BY <1>1, <1>2 DEF AddsLast
  <2>2. CASE i <= n
    <3>1. i \in 1 .. n /\ p[i] = q[i]
      BY <1>1, <2>2
    <3>2. ASSUME NEW j \in 1 .. n, j > i PROVE ~ Drops(q[j], x)
      BY <1>1, <2>1, <3>2
    <3>3. ASSUME NEW j \in 1 .. m PROVE ~ Drops(r[j], x)
      <4>1. n + j \in 1 .. n + m /\ n + j > i /\ p[n + j] = r[j]
        BY <1>1, <2>2, <3>1
      <4> QED
        BY <2>1, <4>1
    <3>4. AddsLast(q, x)
      BY <1>1, <2>1, <3>1, <3>2 DEF AddsLast
    <3> QED
      BY <1>1, <3>3, <3>4 DEF NoDrop
  <2>3. CASE i > n
    <3>1. i - n \in 1 .. m /\ n + (i - n) = i
      BY <1>1, <2>3
    <3>2. Adds(r[i - n], x)
      BY <1>1, <2>1, <3>1
    <3>3. ASSUME NEW j \in 1 .. m, j > i - n PROVE ~ Drops(r[j], x)
      <4>1. n + j \in 1 .. n + m /\ n + j > i /\ p[n + j] = r[j]
        BY <1>1, <2>3, <3>1, <3>3
      <4> QED
        BY <2>1, <4>1
    <3> QED
      BY <1>1, <3>1, <3>2, <3>3 DEF AddsLast
  <2> QED
    BY <1>1, <2>2, <2>3
<1>3. ASSUME AddsLast(r, x) PROVE AddsLast(p, x)
  <2>1. PICK i \in 1 .. m : Adds(r[i], x) /\ \A j \in 1 .. m : j > i => ~ Drops(r[j], x)
    BY <1>1, <1>3 DEF AddsLast
  <2>2. n + i \in 1 .. n + m /\ Adds(p[n + i], x)
    BY <1>1, <2>1
  <2>3. ASSUME NEW j \in 1 .. n + m, j > n + i PROVE ~ Drops(p[j], x)
    <3>1. j - n \in 1 .. m /\ j - n > i /\ n + (j - n) = j
      BY <1>1, <2>3
    <3>2. p[j] = r[j - n]
      BY <1>1, <3>1
    <3> QED
      BY <2>1, <3>1, <3>2
  <2> QED
    BY <1>1, <2>2, <2>3 DEF AddsLast
<1>4. ASSUME AddsLast(q, x), NoDrop(r, x) PROVE AddsLast(p, x)
  <2>1. PICK i \in 1 .. n : Adds(q[i], x) /\ \A j \in 1 .. n : j > i => ~ Drops(q[j], x)
    BY <1>1, <1>4 DEF AddsLast
  <2>2. i \in 1 .. n + m /\ Adds(p[i], x)
    BY <1>1, <2>1
  <2>3. ASSUME NEW j \in 1 .. n + m, j > i PROVE ~ Drops(p[j], x)
    <3>1. CASE j <= n
      BY <1>1, <2>1, <2>3, <3>1
    <3>2. CASE j > n
      <4>1. j - n \in 1 .. m /\ n + (j - n) = j
        BY <1>1, <3>2
      <4>2. p[j] = r[j - n]
        BY <1>1, <4>1
      <4> QED
        BY <1>1, <1>4, <4>1, <4>2 DEF NoDrop
    <3> QED
      BY <1>1, <3>1, <3>2
  <2> QED
    BY <1>1, <2>2, <2>3 DEF AddsLast
<1> QED
  BY <1>2, <1>3, <1>4 DEF p

LEMMA HaveConcat ==
  ASSUME NEW q \in Seq(ToMonitor), NEW r \in Seq(ToMonitor), NEW known, NEW x
  PROVE  WillHave(q \o r, known, x) <=> AddsLast(r, x) \/ (WillHave(q, known, x) /\ NoDrop(r, x))
BY AddsConcat, NoDropConcat DEF WillHave

LEMMA ToldConcat ==
  ASSUME NEW q \in Seq(ToMonitor), NEW r \in Seq(ToMonitor), Told(q \o r)
  PROVE  Told(q) \/ Told(r)
<1>1. PICK i \in 1 .. Len(q) + Len(r) : (q \o r)[i].type = "servers"
  BY IndexConcat DEF Told
<1>2. CASE i <= Len(q)
  <2>1. i \in 1 .. Len(q)
    BY <1>2, IndexConcat
  <2> QED
    BY <1>1, <2>1, IndexConcat DEF Told
<1>3. CASE i > Len(q)
  <2>1. i - Len(q) \in 1 .. Len(r) /\ Len(q) + (i - Len(q)) = i
    BY <1>3, IndexConcat
  <2>2. (q \o r)[i] = r[i - Len(q)]
    BY <2>1, IndexConcat
  <2> QED
    BY <1>1, <2>1, <2>2, IndexConcat DEF Told
<1> QED
  BY <1>2, <1>3, IndexConcat

\* A queue is its head and the rest.
LEMMA HeadTail ==
  ASSUME NEW q \in Seq(ToMonitor), q # <<>>
  PROVE  /\ Tail(q) \in Seq(ToMonitor) /\ Head(q) \in ToMonitor /\ Head(q) = q[1]
         /\ <<Head(q)>> \in Seq(ToMonitor)
         /\ q = <<Head(q)>> \o Tail(q)
OBVIOUS

LEMMA OneMessage ==
  ASSUME NEW m, NEW x
  PROVE  /\ AddsLast(<<m>>, x) <=> Adds(m, x)
         /\ NoDrop(<<m>>, x) <=> ~ Drops(m, x)
         /\ Told(<<m>>) <=> m.type = "servers"
<1>1. DOMAIN <<m>> = {1} /\ <<m>>[1] = m /\ ~ (1 > 1)
  OBVIOUS
<1> QED
  BY <1>1 DEF AddsLast, NoDrop, Told

LEMMA NoMessage ==
  ASSUME NEW x
  PROVE  ~ AddsLast(<<>>, x) /\ NoDrop(<<>>, x) /\ ~ Told(<<>>) /\ <<>> \in Seq(ToMonitor)
BY DEF AddsLast, NoDrop, Told

\* Reading the head of its queue, a process comes to know what it was to know.
LEMMA HaveTail ==
  ASSUME NEW q \in Seq(ToMonitor), q # <<>>, NEW known, NEW after, NEW x,
         x \in after <=> Adds(Head(q), x) \/ (x \in known /\ ~ Drops(Head(q), x))
  PROVE  WillHave(Tail(q), after, x) <=> WillHave(q, known, x)
<1> DEFINE h == Head(q)
           t == Tail(q)
<1>1. t \in Seq(ToMonitor) /\ <<h>> \in Seq(ToMonitor) /\ q = <<h>> \o t
  BY HeadTail
<1>2. x \in after <=> Adds(h, x) \/ (x \in known /\ ~ Drops(h, x))
  OBVIOUS
<1> HIDE DEF h, t
<1>3. WillHave(q, known, x) <=> AddsLast(t, x) \/ (WillHave(<<h>>, known, x) /\ NoDrop(t, x))
  BY <1>1, HaveConcat
<1>4. WillHave(<<h>>, known, x) <=> Adds(h, x) \/ (x \in known /\ ~ Drops(h, x))
  BY OneMessage DEF WillHave
<1>5. WillHave(t, after, x) <=> WillHave(q, known, x)
  BY <1>2, <1>3, <1>4 DEF WillHave
<1> QED
  BY <1>5 DEF t

LEMMA ToldTail ==
  ASSUME NEW q \in Seq(ToMonitor), q # <<>>, Told(Tail(q)) PROVE Told(q)
<1>1. \A i \in DOMAIN Tail(q) : i + 1 \in DOMAIN q /\ Tail(q)[i] = q[i + 1]
  OBVIOUS
<1> QED
  BY <1>1 DEF Told

-----------------------------------------------------------------------------
(* What the master sends.                                                  *)

LEMMA LinkedHeard ==
  ASSUME Linked, NEW s \in Server, link[s] \in Conn PROVE Heard(link[s])
BY DEF Linked, Heard

\* What a server learns from the messages r.
LEMMA Hears ==
  ASSUME TInv, Linked, NEW s \in Server, link[s] \in Conn, UNCHANGED <<link, table>>,
         NEW r \in Seq(ToMonitor), toMonitor'[link[s]] = Arrive(link[s], r), NEW x
  PROVE  Learns(s, x)' <=> AddsLast(r, x) \/ (Learns(s, x) /\ NoDrop(r, x))
<1>1. toMonitor[link[s]] \in Seq(ToMonitor)
  BY DEF TInv, TypeOK
<1>2. toMonitor'[link'[s]] = toMonitor[link[s]] \o r
  BY LinkedHeard DEF Arrive
<1>3. WillHave(toMonitor[link[s]] \o r, table[s], x)
        <=> AddsLast(r, x) \/ (WillHave(toMonitor[link[s]], table[s], x) /\ NoDrop(r, x))
  BY <1>1, HaveConcat
<1> QED
  BY <1>2, <1>3 DEF Learns

LEMMA HearsNothing ==
  ASSUME TInv, Linked, NEW s \in Server, link[s] \in Conn, UNCHANGED <<link, table>>,
         toMonitor'[link[s]] = Arrive(link[s], <<>>), NEW x
  PROVE  Learns(s, x)' <=> Learns(s, x)
BY Hears, NoMessage

\* A registered server is addressed by its connection.
LEMMA AddressedNamed ==
  ASSUME Names', NEW s \in Server, idMap'[s] # NoConn, NEW news, NEW known
  PROVE  Addressed(idMap'[s], news, idMap', known) = Packets(news[s], known)
<1> DEFINE d == idMap'[s]
           t == CHOOSE t \in Server : idMap'[t] = d
<1>1. t \in Server /\ idMap'[t] = d
  OBVIOUS
<1>2. owner'[d] = s /\ owner'[d] = t
  BY <1>1 DEF Names
<1>3. Addressed(d, news, idMap', known) = Packets(news[t], known)
  BY <1>1 DEF Addressed
<1> QED
  BY <1>2, <1>3

LEMMA OneRequest ==
  ASSUME NEW r, NEW known
  PROVE  Packets(<<r>>, known) = <<Packet(r, known)>>
<1>1. DOMAIN <<r>> = {1} /\ <<r>>[1] = r
  OBVIOUS
<1>2. Packets(<<r>>, known) = [i \in {1} |-> Packet(r, known)]
  BY <1>1 DEF Packets
<1> QED
  BY <1>2

LEMMA NoPackets == ASSUME NEW known PROVE Packets(<<>>, known) = <<>>
BY DEF Packets

LEMMA PacketEffect ==
  ASSUME NEW n \in Nat \ {0}, NEW action \in Action, NEW about \in Server,
         NEW known \in SUBSET Server, NEW x
  PROVE  /\ Packet(Request(n, action, about), known) \in ToMonitor
         /\ Packet(Request(n, action, about), known).type = "request"
         /\ Adds(Packet(Request(n, action, about), known), x)
              <=> (action = "addServer" /\ x = about) \/ (action = "replaceServer" /\ x \in known)
         /\ Drops(Packet(Request(n, action, about), known), x)
              <=> (action = "removeServer" /\ x = about) \/ (action = "replaceServer" /\ x \notin known)
BY DEF Packet, Request, Adds, Drops, Action, ToMonitor

LEMMA PacketsNotTold ==
  ASSUME NEW rs, NEW known PROVE ~ Told(Packets(rs, known))
BY DEF Told, Packets, Packet

LEMMA AddressedNotTold ==
  ASSUME NEW d, NEW news, NEW to, NEW known PROVE ~ Told(Addressed(d, news, to, known))
BY PacketsNotTold, NoMessage DEF Addressed

LEMMA SameQueue ==
  ASSUME NEW q \in Seq(ToMonitor), NEW r \in Seq(ToMonitor), Len(q) = Len(r),
         \A i \in 1 .. Len(q) : q[i] = r[i]
  PROVE  q = r
OBVIOUS

LEMMA PacketsConcat ==
  ASSUME NEW a \in Seq(Entry), NEW b \in Seq(Entry), NEW known \in SUBSET Server
  PROVE  Packets(a \o b, known) = Packets(a, known) \o Packets(b, known)
<1> DEFINE pa == Packets(a, known)
           pb == Packets(b, known)
           pc == Packets(a \o b, known)
           n == Len(a)
           m == Len(b)
<1>1. a \o b \in Seq(Entry)
  OBVIOUS
<1>2. pa \in Seq(ToMonitor) /\ pb \in Seq(ToMonitor) /\ pc \in Seq(ToMonitor)
  BY <1>1, PacketsType
<1>3. n \in Nat /\ m \in Nat
  OBVIOUS
<1>4. DOMAIN a = 1 .. n /\ DOMAIN b = 1 .. m /\ DOMAIN (a \o b) = 1 .. n + m
  OBVIOUS
<1>5. /\ \A i \in 1 .. n : (a \o b)[i] = a[i]
      /\ \A i \in 1 .. n + m : i > n => (a \o b)[i] = b[i - n]
  OBVIOUS
<1>6. /\ DOMAIN pa = 1 .. n /\ \A i \in 1 .. n : pa[i] = Packet(a[i], known)
      /\ DOMAIN pb = 1 .. m /\ \A i \in 1 .. m : pb[i] = Packet(b[i], known)
      /\ DOMAIN pc = 1 .. n + m /\ \A i \in 1 .. n + m : pc[i] = Packet((a \o b)[i], known)
  BY <1>4 DEF Packets
<1> HIDE DEF pa, pb, pc, n, m
<1>7. Len(pa) = n /\ Len(pb) = m /\ Len(pc) = n + m
  BY <1>2, <1>3, <1>6
<1>8. /\ pa \o pb \in Seq(ToMonitor) /\ DOMAIN (pa \o pb) = 1 .. n + m
      /\ \A i \in 1 .. n : (pa \o pb)[i] = pa[i]
      /\ \A i \in 1 .. m : (pa \o pb)[n + i] = pb[i]
  BY <1>2, <1>7, IndexConcat
<1>9. ASSUME NEW i \in 1 .. n + m PROVE pc[i] = (pa \o pb)[i]
  <2>0. i \in Int
    BY <1>3
  <2>1. CASE i <= n
    <3>1. i \in 1 .. n
      BY <1>3, <2>1
    <3>2. (pa \o pb)[i] = pa[i]
      BY <1>8, <3>1
    <3> QED
      BY <1>5, <1>6, <3>1, <3>2
  <2>2. CASE i > n
    <3>1. i - n \in 1 .. m /\ n + (i - n) = i
      BY <1>3, <2>0, <2>2
    <3>2. (pa \o pb)[i] = pb[i - n]
      BY <1>8, <3>1
    <3> QED
      BY <1>5, <1>6, <2>2, <3>1, <3>2
  <2>3. i <= n \/ i > n
    BY <1>3, <2>0
  <2> QED
    BY <2>1, <2>2, <2>3
<1>10. pc = pa \o pb
  <2>1. Len(pa \o pb) = n + m
    BY <1>2, <1>7, IndexConcat
  <2>2. \A i \in 1 .. Len(pc) : pc[i] = (pa \o pb)[i]
    BY <1>7, <1>9
  <2> QED
    BY <1>2, <1>7, <1>8, <2>1, <2>2, SameQueue
<1> QED
  BY <1>10 DEF pa, pb, pc

\* What a server learns from one notice.
LEMMA NoticeHeard ==
  ASSUME TInv, Linked, NEW s \in Server, link[s] \in Conn, UNCHANGED <<link, table>>,
         NEW ids, NEW n \in Nat \ {0}, NEW action \in Action \ {"replaceServer"},
         NEW about \in Server, NEW known \in SUBSET Server, NEW x,
         toMonitor'[link[s]] =
           Arrive(link[s], Packets(Notice(ids, Request(n, action, about))[s], known))
  PROVE  Learns(s, x)' <=>
           \/ s \in ids /\ action = "addServer" /\ x = about
           \/ Learns(s, x) /\ ~ (s \in ids /\ action = "removeServer" /\ x = about)
<1> DEFINE p == Packet(Request(n, action, about), known)
<1>1. /\ p \in ToMonitor
      /\ Adds(p, x) <=> action = "addServer" /\ x = about
      /\ Drops(p, x) <=> action = "removeServer" /\ x = about
  BY PacketEffect
<1> HIDE DEF p
<1>2. CASE s \in ids
  <2>1. toMonitor'[link[s]] = Arrive(link[s], <<p>>) /\ <<p>> \in Seq(ToMonitor)
    BY <1>1, <1>2, OneRequest DEF Notice, p
  <2>2. Learns(s, x)' <=> AddsLast(<<p>>, x) \/ (Learns(s, x) /\ NoDrop(<<p>>, x))
    BY <2>1, Hears
  <2> QED
    BY <1>1, <1>2, <2>2, OneMessage
<1>3. CASE s \notin ids
  <2>1. toMonitor'[link[s]] = Arrive(link[s], <<>>)
    BY <1>3, NoPackets DEF Notice
  <2> QED
    BY <1>3, <2>1, HearsNothing
<1> QED
  BY <1>2, <1>3

LEMMA AddHeard ==
  ASSUME TInv, Linked, NEW s \in Server, link[s] \in Conn, UNCHANGED <<link, table>>,
         NEW ids, NEW n \in Nat \ {0}, NEW about \in Server, NEW known \in SUBSET Server, NEW x,
         toMonitor'[link[s]] =
           Arrive(link[s], Packets(Notice(ids, Request(n, "addServer", about))[s], known))
  PROVE  Learns(s, x)' <=> (s \in ids /\ x = about) \/ Learns(s, x)
<1>1. "addServer" \in Action \ {"replaceServer"} /\ "addServer" # "removeServer"
  BY DEF Action
<1> QED
  BY <1>1, NoticeHeard

\* Nothing is kept for a server that nothing is sent to.
LEMMA NotPosted ==
  ASSUME TInv, NEW news, Post(news), NEW t \in Server, news[t] = <<>>
  PROVE  msgMap'[t] = msgMap[t]
<1>1. msgMap[t] \in Seq(Entry)
  BY DEF TInv, TypeOK
<1>2. msgMap[t] \o <<>> = msgMap[t]
  BY <1>1
<1>3. msgMap'[t] = msgMap[t] \o news[t]
  BY DEF Post
<1> QED
  BY <1>2, <1>3

LEMMA NoticeNotPosted ==
  ASSUME TInv, NEW ids, NEW r, Post(Notice(ids, r)), NEW t \in Server, t \notin ids
  PROVE  msgMap'[t] = msgMap[t]
BY NotPosted DEF Notice

-----------------------------------------------------------------------------
(* The master takes a connection on.                                       *)

\* A connection that opens is the only one left of its server, which the master
\* does not have.
LEMMA Opened ==
  ASSUME DirInv, OpensOnce, ~ LateCloses, NEW c \in Conn,
         NEW type \in {"register", "reconnect"}, Receive(c, type), InOrder(c)
  PROVE  /\ socket[c] = "open" /\ Opens(c, type) /\ owner[c] \in Server
         /\ idMap[owner[c]] = NoConn /\ owner[c] \notin servers /\ owner[c] \notin listeners
         /\ AddConnection(c) = [idMap EXCEPT ![owner[c]] = c]
         /\ \A d \in Conn : d # c /\ owner[d] = owner[c] => ~ Accepted(d)
<1>1. /\ toMaster[c] \in Seq(ToMaster) /\ toMaster[c] # <<>>
      /\ Head(toMaster[c]).type = type /\ Live(c)
  BY DEF Receive, DirInv, TInv, TypeOK
<1>2. 1 \in DOMAIN toMaster[c] /\ toMaster[c][1].type = type
  BY <1>1
<1>3. socket[c] = "open"
  BY <1>1, <1>2 DEF OpensOnce, Live, Accepted
<1>4. owner[c] \in Server
  BY <1>1, ReceivedOwned DEF DirInv
<1>5. \A d \in Conn : d # c /\ owner[d] = owner[c] => ~ Accepted(d)
  BY <1>1 DEF InOrder, Predecessors, Live
<1>6. idMap[owner[c]] = NoConn
  <2> SUFFICES ASSUME idMap[owner[c]] # NoConn PROVE FALSE
    OBVIOUS
  <2>1. idMap[owner[c]] \in Conn
    BY <1>4, IdMapConn DEF DirInv
  <2>2. socket[idMap[owner[c]]] = "registered" /\ owner[idMap[owner[c]]] = owner[c]
    BY <1>4 DEF DirInv, Directory, Names
  <2> QED
    BY <1>3, <1>5, <2>1, <2>2 DEF Accepted
<1> QED
  BY <1>2, <1>3, <1>4, <1>5, <1>6 DEF Opens, DirInv, Directory, Names, AddConnection

\* A message for a server has arrived on a connection it has made.
LEMMA ToldOwned ==
  ASSUME DirInv, NEW d \in Conn, Told(toMonitor[d]) PROVE owner[d] \in Server
<1>1. ~ Refuses(toMonitor[d])
  BY DEF Told, Refuses
<1>2. socket[d] # "unused"
  BY <1>1 DEF DirInv, Directory, OnlyRefused, Unknown
<1> QED
  BY <1>2 DEF DirInv, TInv, Owned

LEMMA LinkedKept ==
  ASSUME Linked, UNCHANGED <<phase, link, owner>>,
         \A d \in Conn : socket'[d] = "unused" => socket[d] = "unused"
  PROVE  Linked'
BY DEF Linked

LEMMA RegisteringKept ==
  ASSUME Registering, UNCHANGED <<phase, link>>,
         \A d \in Conn : Opens(d, "register")' => Opens(d, "register")
  PROVE  Registering'
BY DEF Registering

\* The connections of the others when the one of s changes.
LEMMA OthersJoined ==
  ASSUME TInv, NEW s \in Server, NEW e, idMap' = [idMap EXCEPT ![s] = e], UNCHANGED link,
         NEW t \in Server, t # s
  PROVE  Joined(t)' = Joined(t) /\ idMap'[t] = idMap[t]
<1>1. idMap'[t] = idMap[t]
  BY DEF TInv, TypeOK
<1> QED
  BY <1>1 DEF Joined

LEMMA TakenQueues ==
  ASSUME TInv, OpensOnce, NEW c \in Conn, NEW type, Receive(c, type), socket[c] = "open",
         socket' = [socket EXCEPT ![c] = "registered"]
  PROVE  /\ OpensOnce'
         /\ \A d \in Conn : Opens(d, "register")' => d # c /\ Opens(d, "register")
         /\ \A d \in Conn : d # c => socket'[d] = socket[d] /\ toMaster'[d] = toMaster[d]
         /\ socket'[c] = "registered"
<1>1. /\ toMaster' = [toMaster EXCEPT ![c] = Tail(@)]
      /\ toMaster \in [Conn -> Seq(ToMaster)]
      /\ socket \in [Conn -> {"unused", "open", "registered", "closed"}]
  BY DEF Receive, TInv, TypeOK
<1>2. toMaster[c] \in Seq(ToMaster) /\ Len(toMaster[c]) = 1
  BY <1>1 DEF OpensOnce
<1>3. toMaster'[c] = Tail(toMaster[c]) /\ socket'[c] = "registered"
  BY <1>1
<1>4. DOMAIN toMaster'[c] = {}
  <2>1. Tail(toMaster[c]) \in Seq(ToMaster) /\ Len(Tail(toMaster[c])) = 0
    BY <1>2, SMTT(30)
  <2>2. \A q \in Seq(ToMaster) : DOMAIN q = 1 .. Len(q)
    OBVIOUS
  <2>3. DOMAIN Tail(toMaster[c]) = 1 .. 0
    BY <2>1, <2>2
  <2> QED
    BY <1>3, <2>3
<1>5. \A d \in Conn : d # c => socket'[d] = socket[d] /\ toMaster'[d] = toMaster[d]
  BY <1>1
<1>6. OpensOnce'
  BY <1>3, <1>4, <1>5 DEF OpensOnce
<1> QED
  BY <1>3, <1>5, <1>6 DEF Opens

\* What is common to a first and a later registration, but for what is learnt.
LEMMA TakenKnows ==
  ASSUME KnowInv, Names', ~ LateCloses, NEW c \in Conn,
         NEW type \in {"register", "reconnect"}, Receive(c, type), InOrder(c),
         idMap' = AddConnection(c), socket' = [socket EXCEPT ![c] = "registered"],
         UNCHANGED <<phase, link, owner>>,
         listeners \subseteq listeners', type = "register" \/ owner[c] \in listeners',
         \A t \in Server : t \notin listeners /\ t # owner[c] => msgMap'[t] = msgMap[t],
         \A d \in Conn : Told(toMonitor'[d]) => Told(toMonitor[d])
  PROVE  /\ Linked' /\ OpensOnce' /\ Subscribed'
         /\ ~ Respawn => NothingKept' /\ IdleIsUnknown'
<1> DEFINE s == owner[c]
<1>1. /\ socket[c] = "open" /\ Opens(c, type) /\ s \in Server
      /\ idMap[s] = NoConn /\ s \notin listeners
      /\ idMap' = [idMap EXCEPT ![s] = c]
      /\ \A d \in Conn : d # c /\ owner[d] = s => ~ Accepted(d)
  BY Opened DEF KnowInv, Knowledge
<1>2. /\ TInv /\ Linked /\ OpensOnce /\ Starts /\ Registering /\ ToldListens
      /\ idMap \in [Server -> 0 .. MaxConn]
      /\ s = owner[c]
  BY DEF KnowInv, Knowledge, Subscribed, DirInv, TInv, TypeOK
<1> HIDE DEF s
<1>3. /\ OpensOnce'
      /\ \A d \in Conn : Opens(d, "register")' => d # c /\ Opens(d, "register")
      /\ \A d \in Conn : d # c => socket'[d] = socket[d]
      /\ socket'[c] = "registered"
  BY <1>1, <1>2, TakenQueues
<1>4. Linked'
  BY <1>2, <1>3, LinkedKept
<1>5. Registering'
  BY <1>2, <1>3, RegisteringKept
<1>6. idMap'[s] = c /\ \A t \in Server : t # s => idMap'[t] = idMap[t]
  BY <1>1, <1>2
<1>7. Starts'
  <2> SUFFICES ASSUME NEW t \in Server, Joined(t)', phase'[t] \in {"starting", "running"}
               PROVE  t \in listeners'
    BY DEF Starts
  <2>1. CASE t = s
    <3>1. link[s] = c
      BY <1>6, <2>1 DEF Joined
    <3>2. type # "register"
      BY <1>1, <1>2, <2>1, <3>1 DEF Registering
    <3> QED
      BY <1>2, <2>1, <3>2
  <2>2. CASE t # s
    <3>1. Joined(t)
      BY <1>1, <1>2, <2>2, OthersJoined
    <3> QED
      BY <1>2, <3>1 DEF Starts
  <2> QED
    BY <2>1, <2>2
<1>8. ToldListens'
  <2> SUFFICES ASSUME NEW d \in Conn, Told(toMonitor'[d]), idMap'[owner[d]] = d
               PROVE  owner[d] \in listeners'
    BY DEF ToldListens
  <2>1. Told(toMonitor[d])
    OBVIOUS
  <2>2. d # c
    <3>1. Refuses(toMonitor[c])
      BY <1>1 DEF KnowInv, DirInv, Directory, OnlyRefused, Unknown
    <3>2. ~ Told(toMonitor[c])
      BY <3>1 DEF Told, Refuses
    <3> QED
      BY <2>1, <3>2
  <2>3. idMap[owner[d]] = d
    <3>1. owner[d] # s
      BY <1>6, <2>2
    <3>2. owner[d] \in Server
      BY <2>1, ToldOwned DEF KnowInv
    <3> QED
      BY <1>6, <3>1, <3>2
  <2> QED
    BY <1>2, <2>1, <2>3 DEF ToldListens
<1>9. ASSUME ~ Respawn PROVE NothingKept' /\ IdleIsUnknown'
  <2>1. NothingKept /\ IdleIsUnknown
    BY <1>9 DEF KnowInv, FirstLife
  <2>2. NothingKept'
    <3> SUFFICES ASSUME NEW d \in Conn, Opens(d, "register")'
                 PROVE  idMap'[owner[d]] = NoConn /\ msgMap'[owner[d]] = <<>>
      BY DEF NothingKept
    <3>1. d # c /\ Opens(d, "register")
      BY <1>3
    <3>2. idMap[owner[d]] = NoConn /\ msgMap[owner[d]] = <<>>
      BY <2>1, <3>1 DEF NothingKept
    <3>3. owner[d] # s
      BY <1>1, <3>1 DEF Opens, Accepted
    <3>4. owner[d] \in Server
      BY <1>2, <3>1 DEF TInv, Owned, Opens
    <3>5. owner[d] \notin listeners
      BY <3>2, <3>4 DEF KnowInv, DirInv, Directory, Names
    <3> QED
      BY <1>2, <1>6, <3>2, <3>3, <3>4, <3>5
  <2>3. IdleIsUnknown'
    <3> SUFFICES ASSUME NEW t \in Server, phase[t] = "idle"
                 PROVE  /\ msgMap'[t] = <<>> /\ idMap'[t] = NoConn
                        /\ \A d \in Conn : owner[d] = t => ~ Accepted(d)'
      BY DEF IdleIsUnknown
    <3>1. msgMap[t] = <<>> /\ idMap[t] = NoConn /\ \A d \in Conn : owner[d] = t => ~ Accepted(d)
      BY <2>1 DEF IdleIsUnknown
    <3>2. t # s
      BY <1>1, <1>2, <3>1 DEF Accepted
    <3>3. t \notin listeners
      BY <3>1 DEF KnowInv, DirInv, Directory, Names
    <3>4. \A d \in Conn : owner[d] = t => d # c /\ ~ Accepted(d)
      BY <1>2, <3>1, <3>2
    <3>5. \A d \in Conn : owner[d] = t => ~ Accepted(d)'
      BY <1>3, <3>4 DEF Accepted
    <3> QED
      BY <1>2, <1>6, <3>1, <3>2, <3>3, <3>5
  <2> QED
    BY <2>2, <2>3
<1> QED
  BY <1>4, <1>3, <1>5, <1>7, <1>8, <1>9 DEF Subscribed

\* A welcome on c is, for the others, a notice.
LEMMA WelcomeOther ==
  ASSUME NEW c \in Conn, NEW answer, NEW news \in [Server -> Seq(Entry)], NEW to,
         NEW known \in SUBSET Server, Welcome(c, answer, news, to, known),
         NEW d \in Conn, d # c
  PROVE  toMonitor'[d] = Arrive(d, Addressed(d, news, to, known))
<1>1. Addressed(d, news, to, known) \in Seq(ToMonitor)
  BY AddressedType
<1>2. <<>> \o Addressed(d, news, to, known) \o <<>> = Addressed(d, news, to, known)
  BY <1>1
<1>3. toMonitor'[d] = Arrive(d, <<>> \o Addressed(d, news, to, known) \o <<>>)
  BY DEF Welcome
<1> QED
  BY <1>2, <1>3

LEMMA ArriveTold ==
  ASSUME TInv, NEW d \in Conn, NEW r \in Seq(ToMonitor), ~ Told(r), Told(Arrive(d, r))
  PROVE  Told(toMonitor[d])
<1>1. toMonitor[d] \in Seq(ToMonitor)
  BY DEF TInv, TypeOK
<1> QED
  BY <1>1, ToldConcat, NoMessage DEF Arrive

\* The messages of a welcome on c.
LEMMA WelcomeOn ==
  ASSUME TInv, NEW c \in Conn, owner[c] \in Server, NEW answer \in ToMonitor,
         NEW news \in [Server -> Seq(Entry)], NEW to, NEW known \in SUBSET Server,
         Welcome(c, answer, news, to, known)
  PROVE  LET k == Packets(msgMap[owner[c]] \o news[owner[c]], known)
             a == Addressed(c, news, to, known)
         IN /\ toMonitor'[c] = Arrive(c, <<answer>> \o a \o k)
            /\ <<answer>> \in Seq(ToMonitor) /\ a \in Seq(ToMonitor) /\ k \in Seq(ToMonitor)
            /\ msgMap[owner[c]] \o news[owner[c]] \in Seq(Entry)
<1>1. msgMap[owner[c]] \in Seq(Entry) /\ news[owner[c]] \in Seq(Entry)
  BY DEF TInv, TypeOK
<1>2. msgMap[owner[c]] \o news[owner[c]] \in Seq(Entry)
  BY <1>1
<1>3. Packets(msgMap[owner[c]] \o news[owner[c]], known) \in Seq(ToMonitor)
  BY <1>2, PacketsType
<1>4. Addressed(c, news, to, known) \in Seq(ToMonitor)
  BY AddressedType
<1>5. toMonitor'[c] = Arrive(c, <<answer>> \o Addressed(c, news, to, known)
                                  \o Packets(msgMap[owner[c]] \o news[owner[c]], known))
  BY DEF Welcome
<1> QED
  BY <1>2, <1>3, <1>4, <1>5

LEMMA WelcomeTold ==
  ASSUME TInv, NEW c \in Conn, owner[c] \in Server, NEW answer \in ToMonitor,
         answer.type # "servers", NEW news \in [Server -> Seq(Entry)], NEW to,
         NEW known \in SUBSET Server, Welcome(c, answer, news, to, known),
         NEW d \in Conn, Told(toMonitor'[d])
  PROVE  Told(toMonitor[d])
<1> DEFINE k == Packets(msgMap[owner[c]] \o news[owner[c]], known)
           a == Addressed(d, news, to, known)
<1>1. ~ Told(k) /\ ~ Told(a) /\ ~ Told(<<answer>>)
  BY PacketsNotTold, AddressedNotTold, OneMessage
<1>2. a \in Seq(ToMonitor)
  BY AddressedType
<1>3. CASE d = c
  <2>1. /\ toMonitor'[c] = Arrive(c, <<answer>> \o a \o k)
        /\ <<answer>> \in Seq(ToMonitor) /\ k \in Seq(ToMonitor)
    BY <1>3, WelcomeOn, ZenonT(40)
  <2> HIDE DEF k, a
  <2>2. <<answer>> \o a \in Seq(ToMonitor) /\ <<answer>> \o a \o k \in Seq(ToMonitor)
    BY <1>2, <2>1, IndexConcat
  <2>3. ~ Told(<<answer>> \o a)
    BY <1>1, <1>2, <2>1, ToldConcat
  <2>4. ~ Told(<<answer>> \o a \o k)
    BY <1>1, <2>1, <2>2, <2>3, ToldConcat
  <2> QED
    BY <1>3, <2>1, <2>2, <2>4, ArriveTold
<1>4. CASE d # c
  <2>1. toMonitor'[d] = Arrive(d, a)
    BY <1>4, WelcomeOther
  <2> HIDE DEF a
  <2> QED
    BY <1>1, <1>2, <2>1, ArriveTold
<1> QED
  BY <1>3, <1>4

\* A server whose connection is not the master's for it is not addressed.
LEMMA UnknownLearns ==
  ASSUME TInv, Linked, Names', NEW t \in Server, link[t] \in Conn, Unknown(link[t])',
         UNCHANGED <<link, table>>, NEW news, NEW known,
         toMonitor'[link[t]] = Arrive(link[t], Addressed(link[t], news, idMap', known)), NEW x
  PROVE  Learns(t, x)' <=> Learns(t, x)
<1>1. Addressed(link[t], news, idMap', known) = <<>>
  BY UnknownUnnamedPrime, NobodyAddressed
<1> QED
  BY <1>1, HearsNothing

LEMMA KnowRegister ==
  ASSUME KnowInv, DirInv', ~ LateCloses, NEW c \in Conn, OnRegister(c)
  PROVE  Knowledge' /\ (~ Respawn => FirstLife')
<1> DEFINE s == owner[c]
           known == servers \union {s}
           req == Request(Number, "addServer", s)
           news == Notice(listeners, req)
           answer == [type |-> "registered"]
<1>1. /\ Receive(c, "register") /\ InOrder(c)
      /\ idMap' = AddConnection(c) /\ servers' = known
      /\ Post(news)
      /\ Welcome(c, answer, news, idMap', known)
      /\ socket' = [socket EXCEPT ![c] = "registered"]
      /\ UNCHANGED <<phase, agent, link, table, owner, listeners>>
  BY DEF OnRegister, process
<1>2. /\ TInv /\ Linked /\ OpensOnce /\ Names' /\ Names
  BY DEF KnowInv, Knowledge, DirInv, Directory
<1>3. /\ socket[c] = "open" /\ Opens(c, "register") /\ s \in Server
      /\ idMap[s] = NoConn /\ s \notin listeners
      /\ idMap' = [idMap EXCEPT ![s] = c]
  BY <1>1, <1>2, Opened DEF KnowInv
<1>4. /\ Number \in Nat \ {0} /\ known \in SUBSET Server /\ listeners \in SUBSET Server
      /\ news \in [Server -> Seq(Entry)] /\ answer \in ToMonitor /\ answer.type = "registered"
  BY <1>2, <1>3, NumberType, OneNoticeType DEF TInv, TypeOK, Action, ToMonitor
<1>5. \A t \in Server : t \notin listeners => msgMap'[t] = msgMap[t]
  BY <1>1, <1>2, NoticeNotPosted
<1>6. \A t \in Server : news[t] = Notice(listeners, req)[t]
  OBVIOUS
<1>8. s = owner[c] /\ req = Request(Number, "addServer", s) /\ known = servers \union {s}
  OBVIOUS
<1> HIDE DEF s, known, req, news, answer
<1>9. \A d \in Conn : Told(toMonitor'[d]) => Told(toMonitor[d])
  BY <1>1, <1>2, <1>3, <1>4, <1>8, WelcomeTold
<1>10. /\ Linked' /\ OpensOnce' /\ Subscribed'
       /\ ~ Respawn => NothingKept' /\ IdleIsUnknown'
  BY <1>1, <1>2, <1>5, <1>9, TakenKnows
<1>11. \A d \in Conn : Opens(d, "register")' => d # c /\ Opens(d, "register")
  BY <1>1, <1>2, <1>3, TakenQueues
<1>12. ASSUME NEW t \in Server, t # s, Joined(t)', NEW x
       PROVE  /\ Joined(t)
              /\ Learns(t, x)' <=> (t \in listeners /\ x = s) \/ Learns(t, x)
  <2>1. Joined(t) /\ idMap'[t] = idMap[t]
    BY <1>1, <1>2, <1>3, <1>12, OthersJoined
  <2>2. link[t] \in Conn /\ link[t] # c /\ idMap'[t] = link[t] /\ idMap'[t] # NoConn
    BY <1>2, <1>8, <1>12, <2>1, NoSuchConn DEF Joined, Linked
  <2>3. toMonitor'[link[t]] = Arrive(link[t], Packets(news[t], known))
    <3>1. toMonitor'[link[t]] = Arrive(link[t], Addressed(link[t], news, idMap', known))
      BY <1>1, <1>4, <2>2, WelcomeOther
    <3>2. Addressed(idMap'[t], news, idMap', known) = Packets(news[t], known)
      BY <1>2, <2>2, AddressedNamed
    <3> QED
      BY <2>2, <3>1, <3>2
  <2>4. toMonitor'[link[t]]
          = Arrive(link[t], Packets(Notice(listeners, Request(Number, "addServer", s))[t], known))
    BY <1>6, <1>8, <2>3
  <2>5. /\ TInv /\ Linked /\ UNCHANGED <<link, table>>
        /\ Number \in Nat \ {0} /\ s \in Server /\ known \in SUBSET Server
    BY <1>1, <1>2, <1>3, <1>4
  <2>6. link[t] \in Conn
    BY <2>2
  <2>7. Learns(t, x)' <=> (t \in listeners /\ x = s) \/ Learns(t, x)
    BY <2>4, <2>5, <2>6, AddHeard
  <2> QED
    BY <2>1, <2>7
<1>13. LearnsAll'
  <2> SUFFICES ASSUME NEW t \in listeners, Joined(t)', NEW x \in known PROVE Learns(t, x)'
    BY <1>1 DEF LearnsAll
  <2>1. t \in Server /\ t # s
    BY <1>3, <1>4
  <2>2. Joined(t) /\ (Learns(t, x)' <=> x = s \/ Learns(t, x))
    BY <1>12, <2>1
  <2> QED
    BY <1>8, <2>2 DEF KnowInv, Knowledge, LearnsAll
<1>14. ASSUME ~ Respawn PROVE LearnsOnly' /\ LearnsNothing'
  <2>1. LearnsOnly /\ LearnsNothing /\ NothingKept
    BY <1>14 DEF KnowInv, FirstLife
  <2>2. LearnsOnly'
    <3> SUFFICES ASSUME NEW t \in listeners, Joined(t)', NEW x \in Server, Learns(t, x)'
                 PROVE  x \in known
      BY <1>1 DEF LearnsOnly
    <3>1. t \in Server /\ t # s
      BY <1>3, <1>4
    <3>2. Joined(t) /\ (x = s \/ Learns(t, x))
      BY <1>12, <3>1
    <3> QED
      BY <1>8, <2>1, <3>2 DEF LearnsOnly
  <2>3. ASSUME NEW t \in Server \ listeners, Joined(t)', NEW x \in Server PROVE ~ Learns(t, x)'
    <3>1. CASE t # s
      BY <1>12, <2>1, <2>3, <3>1 DEF LearnsNothing
    <3>2. CASE t = s
      <4>1. link[s] = c
        BY <1>1, <1>2, <1>3, <2>3, <3>2 DEF Joined, TInv, TypeOK
      <4>2. ~ Learns(s, x)
        BY <1>3, <2>1, <2>3, <3>2, <4>1 DEF LearnsNothing
      <4>3. news[s] = <<>> /\ msgMap[s] = <<>>
        BY <1>3, <1>6, <1>8, <2>1 DEF Notice, NothingKept
      <4>4. Packets(news[s], known) = <<>> /\ Packets(msgMap[s] \o news[s], known) = <<>>
        <5>1. <<>> \o <<>> = <<>>
          OBVIOUS
        <5> QED
          BY <4>3, <5>1, NoPackets
      <4>5. Addressed(c, news, idMap', known) = <<>>
        <5>1. idMap'[s] = c /\ c # NoConn
          BY <1>2, <1>3, NoSuchConn DEF TInv, TypeOK
        <5>2. Addressed(idMap'[s], news, idMap', known) = Packets(news[s], known)
          BY <1>2, <1>3, <5>1, AddressedNamed
        <5> QED
          BY <4>4, <5>1, <5>2
      <4>6. toMonitor'[c] = Arrive(c, <<answer>> \o <<>> \o <<>>)
        <5>1. toMonitor'[c] = Arrive(c, <<answer>> \o Addressed(c, news, idMap', known)
                                          \o Packets(msgMap[s] \o news[s], known))
          BY <1>1, <1>8 DEF Welcome
        <5> QED
          BY <4>4, <4>5, <5>1
      <4>7. toMonitor'[link[s]] = Arrive(link[s], <<answer>>) /\ <<answer>> \in Seq(ToMonitor)
        BY <1>4, <4>1, <4>6
      <4>8. ~ AddsLast(<<answer>>, x)
        BY <1>4, OneMessage DEF Adds
      <4> QED
        BY <1>1, <1>2, <1>3, <3>2, <4>1, <4>2, <4>7, <4>8, Hears
    <3> QED
      BY <3>1, <3>2
  <2>4. ASSUME NEW t \in Server \ listeners, link[t] \in Conn, Opens(link[t], "register")',
               NEW x \in Server
        PROVE  ~ Learns(t, x)'
    <3>1. link[t] # c /\ Opens(link[t], "register") /\ Unknown(link[t])'
      <4>1. link'[t] = link[t]
        BY <1>1
      <4>2. Opens(link[t], "register")' => link[t] # c /\ Opens(link[t], "register")
        BY <1>11, <2>4, <4>1
      <4> QED
        BY <2>4, <4>1, <4>2 DEF Opens, Unknown
    <3>2. ~ Learns(t, x)
      BY <2>1, <2>4, <3>1 DEF LearnsNothing
    <3>3. toMonitor'[link[t]] = Arrive(link[t], Addressed(link[t], news, idMap', known))
      BY <1>1, <1>4, <2>4, <3>1, WelcomeOther
    <3> QED
      BY <1>1, <1>2, <2>4, <3>1, <3>2, <3>3, UnknownLearns
  <2>5. LearnsNothing'
    BY <1>1, <2>3, <2>4 DEF LearnsNothing
  <2> QED
    BY <2>2, <2>5
<1> QED
  BY <1>10, <1>13, <1>14 DEF Knowledge, FirstLife

\* A replaceServer decides alone what a server learns.
LEMMA ReplaceLast ==
  ASSUME NEW r \in Seq(ToMonitor), NEW n \in Nat \ {0}, NEW about \in Server,
         NEW known \in SUBSET Server, NEW k,
         k = r \o <<Packet(Request(n, "replaceServer", about), known)>>, NEW x
  PROVE  /\ k \in Seq(ToMonitor)
         /\ AddsLast(k, x) <=> x \in known
         /\ NoDrop(k, x) => x \in known
<1> DEFINE p == Packet(Request(n, "replaceServer", about), known)
<1>1. /\ p \in ToMonitor
      /\ Adds(p, x) <=> x \in known
      /\ Drops(p, x) <=> x \notin known
  BY PacketEffect DEF Action
<1>2. k = r \o <<p>>
  OBVIOUS
<1> HIDE DEF p
<1>3. <<p>> \in Seq(ToMonitor)
  BY <1>1
<1>4. AddsLast(<<p>>, x) <=> x \in known
  BY <1>1, OneMessage
<1>5. NoDrop(<<p>>, x) <=> x \in known
  BY <1>1, OneMessage
<1> QED
  BY <1>2, <1>3, <1>4, <1>5, AddsConcat, NoDropConcat, ConcatType

LEMMA ReplaceHeard ==
  ASSUME TInv, Linked, NEW s \in Server, link[s] \in Conn, UNCHANGED <<link, table>>,
         NEW a \in Seq(ToMonitor), NEW k \in Seq(ToMonitor), NEW x, NEW known,
         AddsLast(k, x) <=> x \in known, NoDrop(k, x) => x \in known,
         toMonitor'[link[s]] = Arrive(link[s], a \o k)
  PROVE  Learns(s, x)' <=> x \in known
<1>1. a \o k \in Seq(ToMonitor)
  BY ConcatType
<1>2. AddsLast(a \o k, x) <=> x \in known
  BY AddsConcat
<1>3. NoDrop(a \o k, x) => x \in known
  BY NoDropConcat
<1>4. Learns(s, x)' <=> AddsLast(a \o k, x) \/ (Learns(s, x) /\ NoDrop(a \o k, x))
  BY <1>1, Hears
<1> QED
  BY <1>2, <1>3, <1>4

LEMMA KnowReconnect ==
  ASSUME KnowInv, DirInv', ~ LateCloses, NEW c \in Conn, OnReconnect(c)
  PROVE  Knowledge' /\ (~ Respawn => FirstLife')
<1> DEFINE s == owner[c]
           known == servers \union {s}
           replace == Request(Number, "replaceServer", s)
           next == Number + 1
           add == Request(next, "addServer", s)
           news == [t \in Server |-> Notice({s}, replace)[t] \o Notice(listeners, add)[t]]
           answer == [type |-> "reconnected", ok |-> TRUE]
<1>1. /\ Receive(c, "reconnect") /\ InOrder(c)
      /\ idMap' = AddConnection(c) /\ servers' = known
      /\ Post(news)
      /\ latches' = Latched(Append(latches, NoLatch), listeners, AddConnection(c))
      /\ listeners' = listeners \union {s}
      /\ Welcome(c, answer, news, idMap', known)
      /\ socket' = [socket EXCEPT ![c] = "registered"]
      /\ UNCHANGED <<phase, agent, link, table, owner>>
  BY DEF OnReconnect, process, Subscribe
<1>2. /\ TInv /\ Linked /\ OpensOnce /\ Names' /\ Names
  BY DEF KnowInv, Knowledge, DirInv, Directory
<1>3. /\ socket[c] = "open" /\ Opens(c, "reconnect") /\ s \in Server
      /\ idMap[s] = NoConn /\ s \notin listeners
      /\ idMap' = [idMap EXCEPT ![s] = c]
  BY <1>1, <1>2, Opened DEF KnowInv
<1>4. /\ Number \in Nat \ {0} /\ known \in SUBSET Server /\ listeners \in SUBSET Server
      /\ answer \in ToMonitor /\ answer.type = "reconnected"
      /\ replace \in Entry /\ add \in Entry /\ next \in Nat \ {0}
  BY <1>2, <1>3, NumberType DEF TInv, TypeOK, Action, ToMonitor, Entry, Request
<1>5. /\ news \in [Server -> Seq(Entry)]
      /\ news[s] = <<replace>>
      /\ \A t \in Server : t # s => news[t] = Notice(listeners, add)[t]
  <2>1. \A t \in Server : /\ Notice({s}, replace)[t] = IF t = s THEN <<replace>> ELSE <<>>
                          /\ Notice(listeners, add)[t] = IF t \in listeners THEN <<add>> ELSE <<>>
    BY DEF Notice
  <2>2. \A t \in Server : /\ Notice({s}, replace)[t] \in Seq(Entry)
                          /\ Notice(listeners, add)[t] \in Seq(Entry)
    BY <1>4, NoticeType
  <2>3. \A q \in Seq(Entry) : <<>> \o q = q /\ q \o <<>> = q
    OBVIOUS
  <2> HIDE DEF replace, add, s
  <2>4. \A t \in Server : news[t] = Notice({s}, replace)[t] \o Notice(listeners, add)[t]
    OBVIOUS
  <2>5. news \in [Server -> Seq(Entry)]
    <3>1. \A t \in Server : Notice({s}, replace)[t] \o Notice(listeners, add)[t] \in Seq(Entry)
      BY <2>2, ConcatType
    <3> QED
      BY <3>1
  <2>6. news[s] = <<replace>>
    <3>1. Notice({s}, replace)[s] = <<replace>> /\ Notice(listeners, add)[s] = <<>>
      BY <1>3, <2>1
    <3> QED
      BY <1>3, <2>2, <2>3, <2>4, <3>1
  <2>7. ASSUME NEW t \in Server, t # s PROVE news[t] = Notice(listeners, add)[t]
    <3>1. Notice({s}, replace)[t] = <<>>
      BY <2>1, <2>7
    <3> QED
      BY <2>2, <2>3, <2>4, <3>1
  <2> QED
    BY <2>5, <2>6, <2>7
<1>6. s = owner[c] /\ known = servers \union {s} /\ replace = Request(Number, "replaceServer", s)
      /\ add = Request(next, "addServer", s)
  OBVIOUS
<1> HIDE DEF s, known, next, replace, add, news, answer
<1>7. \A t \in Server : t \notin listeners /\ t # s => msgMap'[t] = msgMap[t]
  <2>1. \A t \in Server : t \notin listeners /\ t # s => news[t] = <<>>
    BY <1>5 DEF Notice
  <2> QED
    BY <1>1, <1>2, <2>1, NotPosted
<1>8. \A d \in Conn : Told(toMonitor'[d]) => Told(toMonitor[d])
  BY <1>1, <1>2, <1>3, <1>4, <1>5, <1>6, WelcomeTold
<1>9. /\ Linked' /\ OpensOnce' /\ Subscribed'
      /\ ~ Respawn => NothingKept' /\ IdleIsUnknown'
  BY <1>1, <1>2, <1>6, <1>7, <1>8, TakenKnows
<1>10. \A d \in Conn : Opens(d, "register")' => d # c /\ Opens(d, "register")
  BY <1>1, <1>2, <1>3, TakenQueues
<1>11. ASSUME NEW t \in Server, t # s, Joined(t)', NEW x
       PROVE  /\ Joined(t)
              /\ Learns(t, x)' <=> (t \in listeners /\ x = s) \/ Learns(t, x)
  <2>1. Joined(t) /\ idMap'[t] = idMap[t]
    BY <1>1, <1>2, <1>3, <1>11, OthersJoined
  <2>2. link[t] \in Conn /\ link[t] # c /\ idMap'[t] = link[t] /\ idMap'[t] # NoConn
    BY <1>2, <1>6, <1>11, <2>1, NoSuchConn DEF Joined, Linked
  <2>3. toMonitor'[link[t]] = Arrive(link[t], Packets(news[t], known))
    <3>1. toMonitor'[link[t]] = Arrive(link[t], Addressed(link[t], news, idMap', known))
      BY <1>1, <1>4, <1>5, <2>2, WelcomeOther
    <3>2. Addressed(idMap'[t], news, idMap', known) = Packets(news[t], known)
      BY <1>2, <2>2, AddressedNamed
    <3> QED
      BY <2>2, <3>1, <3>2
  <2>4. toMonitor'[link[t]]
          = Arrive(link[t], Packets(Notice(listeners, Request(next, "addServer", s))[t], known))
    BY <1>5, <1>6, <1>11, <2>3
  <2>5. /\ TInv /\ Linked /\ UNCHANGED <<link, table>>
        /\ next \in Nat \ {0} /\ s \in Server /\ known \in SUBSET Server
    BY <1>1, <1>2, <1>3, <1>4
  <2>6. link[t] \in Conn
    BY <2>2
  <2>7. Learns(t, x)' <=> (t \in listeners /\ x = s) \/ Learns(t, x)
    BY <2>4, <2>5, <2>6, AddHeard
  <2> QED
    BY <2>1, <2>7
<1>12. ASSUME NEW t \in Server, t = s, Joined(t)', NEW x PROVE Learns(t, x)' <=> x \in known
  <2> DEFINE m == Packets(msgMap[s], known)
             p == Packet(replace, known)
             k == Packets(msgMap[s] \o news[s], known)
             a == Addressed(c, news, idMap', known)
  <2>1. link[t] = c
    <3>1. idMap'[t] = c
      BY <1>2, <1>3, <1>12 DEF TInv, TypeOK
    <3> QED
      BY <1>1, <1>12, <3>1 DEF Joined
  <2>2. msgMap[s] \in Seq(Entry) /\ <<replace>> \in Seq(Entry)
    BY <1>2, <1>3, <1>4 DEF TInv, TypeOK
  <2>3. m \in Seq(ToMonitor)
    BY <1>4, <2>2, PacketsType
  <2>4. k = m \o <<p>>
    <3>1. Packets(<<replace>>, known) = <<p>>
      BY OneRequest
    <3>2. known \in SUBSET Server /\ news[s] = <<replace>>
      BY <1>4, <1>5
    <3>3. Packets(msgMap[s] \o <<replace>>, known) = m \o Packets(<<replace>>, known)
      BY <2>2, <3>2, PacketsConcat
    <3> QED
      BY <3>1, <3>2, <3>3
  <2>5. /\ toMonitor'[c] = Arrive(c, <<answer>> \o a \o k)
        /\ <<answer>> \in Seq(ToMonitor) /\ a \in Seq(ToMonitor)
    <3>1. /\ Welcome(c, answer, news, idMap', known) /\ owner[c] \in Server /\ TInv
          /\ answer \in ToMonitor /\ news \in [Server -> Seq(Entry)] /\ known \in SUBSET Server
      BY <1>1, <1>2, <1>3, <1>4, <1>5, <1>6
    <3>2. k = Packets(msgMap[owner[c]] \o news[owner[c]], known)
      BY <1>6
    <3> QED
      BY <3>1, <3>2, WelcomeOn
  <2>6. p = Packet(Request(Number, "replaceServer", s), known)
    BY <1>6
  <2> HIDE DEF m, p, k, a
  <2>7. /\ k \in Seq(ToMonitor)
        /\ AddsLast(k, x) <=> x \in known
        /\ NoDrop(k, x) => x \in known
    BY <1>3, <1>4, <2>3, <2>4, <2>6, ReplaceLast
  <2>8. <<answer>> \o a \in Seq(ToMonitor)
    BY <2>5, ConcatType
  <2>9. /\ TInv /\ Linked /\ UNCHANGED <<link, table>> /\ link[t] \in Conn
        /\ toMonitor'[link[t]] = Arrive(link[t], <<answer>> \o a \o k)
    BY <1>1, <1>2, <2>1, <2>5
  <2>10. \A b \in Seq(ToMonitor) :
           toMonitor'[link[t]] = Arrive(link[t], b \o k) => (Learns(t, x)' <=> x \in known)
    BY <2>7, <2>9, ReplaceHeard
  <2> QED
    BY <2>8, <2>9, <2>10
<1>13. LearnsAll'
  <2> SUFFICES ASSUME NEW t \in listeners', Joined(t)', NEW x \in known PROVE Learns(t, x)'
    BY <1>1 DEF LearnsAll
  <2>1. t \in Server
    BY <1>1, <1>3, <1>4
  <2>2. CASE t = s
    BY <1>12, <2>1, <2>2
  <2>3. CASE t # s
    <3>1. t \in listeners /\ Joined(t) /\ (Learns(t, x)' <=> x = s \/ Learns(t, x))
      BY <1>1, <1>11, <2>1, <2>3
    <3> QED
      BY <1>6, <3>1 DEF KnowInv, Knowledge, LearnsAll
  <2> QED
    BY <2>2, <2>3
<1>14. ASSUME ~ Respawn PROVE LearnsOnly' /\ LearnsNothing'
  <2>1. LearnsOnly /\ LearnsNothing
    BY <1>14 DEF KnowInv, FirstLife
  <2>2. LearnsOnly'
    <3> SUFFICES ASSUME NEW t \in listeners', Joined(t)', NEW x \in Server, Learns(t, x)'
                 PROVE  x \in known
      BY <1>1 DEF LearnsOnly
    <3>1. t \in Server
      BY <1>1, <1>3, <1>4
    <3>2. CASE t = s
      BY <1>12, <3>1, <3>2
    <3>3. CASE t # s
      <4>1. t \in listeners /\ Joined(t) /\ (x = s \/ Learns(t, x))
        BY <1>1, <1>11, <3>1, <3>3
      <4> QED
        BY <1>6, <2>1, <4>1 DEF LearnsOnly
    <3> QED
      BY <3>2, <3>3
  <2>3. ASSUME NEW t \in Server \ listeners', Joined(t)', NEW x \in Server PROVE ~ Learns(t, x)'
    <3>1. t # s /\ t \notin listeners
      BY <1>1, <2>3
    <3> QED
      BY <1>11, <2>1, <2>3, <3>1 DEF LearnsNothing
  <2>4. ASSUME NEW t \in Server \ listeners', link[t] \in Conn, Opens(link[t], "register")',
               NEW x \in Server
        PROVE  ~ Learns(t, x)'
    <3>1. link[t] # c /\ Opens(link[t], "register") /\ Unknown(link[t])' /\ t \notin listeners
      <4>1. link'[t] = link[t]
        BY <1>1
      <4>2. Opens(link[t], "register")' => link[t] # c /\ Opens(link[t], "register")
        BY <1>10, <2>4, <4>1
      <4> QED
        BY <1>1, <2>4, <4>1, <4>2 DEF Opens, Unknown
    <3>2. ~ Learns(t, x)
      BY <2>1, <2>4, <3>1 DEF LearnsNothing
    <3>3. toMonitor'[link[t]] = Arrive(link[t], Addressed(link[t], news, idMap', known))
      BY <1>1, <1>4, <1>5, <2>4, <3>1, WelcomeOther
    <3> QED
      BY <1>1, <1>2, <2>4, <3>1, <3>2, <3>3, UnknownLearns
  <2>5. LearnsNothing'
    BY <1>1, <2>3, <2>4 DEF LearnsNothing
  <2> QED
    BY <2>2, <2>5
<1> QED
  BY <1>9, <1>13, <1>14 DEF Knowledge, FirstLife

-----------------------------------------------------------------------------
(* The master reads and closes connections.                                *)

\* A reconnecting server is one the master has no connection of.
LEMMA NeverRefused ==
  ASSUME DirInv, OpensOnce, ~ LateCloses, NEW c \in Conn PROVE ~ RefuseReconnect(c)
<1> SUFFICES ASSUME RefuseReconnect(c) PROVE FALSE
  OBVIOUS
<1>1. Receive(c, "reconnect") /\ InOrder(c) /\ idMap[owner[c]] # NoConn
  BY DEF RefuseReconnect
<1> QED
  BY <1>1, Opened

LEMMA HeardQueues ==
  ASSUME TInv, OpensOnce, NEW c \in Conn, NEW type, Receive(c, type),
         socket[c] = "registered", UNCHANGED socket
  PROVE  OpensOnce' /\ \A d \in Conn : Opens(d, "register")' => Opens(d, "register")
<1>1. /\ toMaster' = [toMaster EXCEPT ![c] = Tail(@)] /\ toMaster[c] # <<>>
      /\ toMaster \in [Conn -> Seq(ToMaster)] /\ toMaster[c] \in Seq(ToMaster)
  BY DEF Receive, TInv, TypeOK
<1>2. toMaster'[c] = Tail(toMaster[c]) /\ \A d \in Conn : d # c => toMaster'[d] = toMaster[d]
  BY <1>1
<1>3. \A i \in DOMAIN Tail(toMaster[c]) :
        i + 1 \in DOMAIN toMaster[c] /\ Tail(toMaster[c])[i] = toMaster[c][i + 1]
  BY <1>1
<1>4. \A i \in DOMAIN toMaster'[c] : toMaster'[c][i].type \notin {"register", "reconnect"}
  BY <1>2, <1>3 DEF OpensOnce
<1>5. OpensOnce'
  BY <1>2, <1>4 DEF OpensOnce
<1>6. \A d \in Conn : Opens(d, "register")' => Opens(d, "register")
  BY <1>2 DEF Opens
<1> QED
  BY <1>5, <1>6

LEMMA OpensStay ==
  ASSUME UNCHANGED link, \A d \in Conn : Opens(d, "register")' => Opens(d, "register"),
         NEW t \in Server, Joined(t)' <=> Joined(t),
         (Joined(t) \/ (link[t] \in Conn /\ Opens(link[t], "register")))'
  PROVE  link[t] \in Conn /\ (Joined(t) \/ Opens(link[t], "register"))
<1>1. CASE Joined(t)'
  BY <1>1 DEF Joined
<1>2. CASE (link[t] \in Conn /\ Opens(link[t], "register"))'
  <2>1. link[t] \in Conn /\ Opens(link[t], "register")'
    BY <1>2
  <2>2. link'[t] = link[t]
    OBVIOUS
  <2>3. \A d \in Conn : d = link'[t] /\ Opens(link[t], "register")' => Opens(d, "register")'
    BY DEF Opens
  <2> QED
    BY <2>1, <2>2, <2>3
<1> QED
  BY <1>1, <1>2

\* What is common to the steps that take no connection on, but for what is learnt.
LEMMA HeardKnows ==
  ASSUME KnowInv, UNCHANGED <<phase, link, owner>>,
         \A d \in Conn : Opens(d, "register")' => Opens(d, "register"),
         \A d \in Conn : (socket'[d] = "unused" => socket[d] = "unused")
                           /\ (Accepted(d)' => Accepted(d)),
         \A t \in Server : idMap'[t] = idMap[t] \/ idMap'[t] = NoConn,
         \A t \in listeners : idMap'[t] # NoConn => t \in listeners',
         \A t \in Server : idMap[t] = NoConn => msgMap'[t] = msgMap[t],
         \A d \in Conn : Told(toMonitor'[d]) /\ idMap'[owner[d]] = d
                           => Told(toMonitor[d]) \/ owner[d] \in listeners'
  PROVE  Linked' /\ Subscribed' /\ (~ Respawn => NothingKept' /\ IdleIsUnknown')
<1>1. Linked /\ Starts /\ Registering /\ ToldListens /\ DirInv /\ TInv
  BY DEF KnowInv, Knowledge, Subscribed, DirInv
<1>2. Linked' /\ Registering'
  BY <1>1, LinkedKept, RegisteringKept
<1>3. Starts'
  <2> SUFFICES ASSUME NEW t \in Server, Joined(t)', phase'[t] \in {"starting", "running"}
               PROVE  t \in listeners'
    BY DEF Starts
  <2>1. link[t] \in Conn /\ link[t] = idMap'[t] /\ idMap'[t] # NoConn
    BY NoSuchConn DEF Joined
  <2>2. Joined(t)
    BY <2>1 DEF Joined
  <2> QED
    BY <1>1, <2>1, <2>2 DEF Starts
<1>4. ToldListens'
  <2> SUFFICES ASSUME NEW d \in Conn, Told(toMonitor'[d]), idMap'[owner[d]] = d,
                      Told(toMonitor[d])
               PROVE  owner[d] \in listeners'
    BY DEF ToldListens
  <2>1. owner[d] \in Server /\ idMap'[owner[d]] # NoConn
    BY <1>1, ToldOwned, NoSuchConn
  <2>2. idMap[owner[d]] = d
    BY <2>1
  <2> QED
    BY <1>1, <2>1, <2>2 DEF ToldListens
<1>5. ASSUME ~ Respawn PROVE NothingKept' /\ IdleIsUnknown'
  <2>1. NothingKept /\ IdleIsUnknown
    BY <1>5 DEF KnowInv, FirstLife
  <2>2. NothingKept'
    <3> SUFFICES ASSUME NEW d \in Conn, Opens(d, "register")'
                 PROVE  idMap'[owner[d]] = NoConn /\ msgMap'[owner[d]] = <<>>
      BY DEF NothingKept
    <3>1. Opens(d, "register") /\ owner[d] \in Server
      BY <1>1 DEF TInv, Owned, Opens
    <3> QED
      BY <2>1, <3>1 DEF NothingKept
  <2>3. IdleIsUnknown'
    <3> SUFFICES ASSUME NEW t \in Server, phase[t] = "idle"
                 PROVE  /\ msgMap'[t] = <<>> /\ idMap'[t] = NoConn
                        /\ \A d \in Conn : owner[d] = t => ~ Accepted(d)'
      BY DEF IdleIsUnknown
    <3>1. msgMap[t] = <<>> /\ idMap[t] = NoConn /\ \A d \in Conn : owner[d] = t => ~ Accepted(d)
      BY <2>1 DEF IdleIsUnknown
    <3> QED
      BY <3>1
  <2> QED
    BY <2>2, <2>3
<1> QED
  BY <1>2, <1>3, <1>4, <1>5 DEF Subscribed

LEMMA KnowSubscribe ==
  ASSUME KnowInv, DirInv', NEW c \in Conn, OnSubscribe(c)
  PROVE  Knowledge' /\ (~ Respawn => FirstLife')
<1> DEFINE s == owner[c]
           answer == [type |-> "servers", servers |-> servers]
<1>1. /\ Receive(c, "subscribe") /\ listeners' = listeners \union {s}
      /\ \A d \in Conn : toMonitor'[d] = Arrive(d, IF d = c THEN <<answer>> ELSE <<>>)
      /\ UNCHANGED <<phase, link, table, owner, socket, idMap, msgMap, servers>>
  BY DEF OnSubscribe, Subscribe, Reply, process, masterAgent
<1>2. /\ TInv /\ DirInv /\ Linked /\ OpensOnce /\ LearnsAll /\ Names
  BY DEF KnowInv, Knowledge, DirInv, Directory
<1>3. socket[c] = "registered" /\ s \in Server /\ idMap[s] = c
  <2>1. socket[c] = "registered"
    BY <1>1, <1>2, HeardKnown
  <2> QED
    BY <1>2, <2>1 DEF Names, TInv, Owned
<1>4. answer \in ToMonitor /\ answer.type = "servers" /\ answer.servers = servers
  BY <1>2 DEF ToMonitor, TInv, TypeOK
<1>5. s = owner[c]
  OBVIOUS
<1> HIDE DEF s, answer
<1>6. <<answer>> \in Seq(ToMonitor)
  BY <1>4
<1>7. OpensOnce' /\ \A d \in Conn : Opens(d, "register")' => Opens(d, "register")
  BY <1>1, <1>2, <1>3, HeardQueues
<1>8. ASSUME NEW d \in Conn, Told(toMonitor'[d])
      PROVE  Told(toMonitor[d]) \/ owner[d] \in listeners'
  <2>1. CASE d = c
    BY <1>1, <1>5, <2>1
  <2>2. CASE d # c
    <3>1. toMonitor'[d] = Arrive(d, <<>>)
      BY <1>1, <2>2
    <3> QED
      BY <1>2, <1>8, <3>1, NoMessage, ArriveTold
  <2> QED
    BY <2>1, <2>2
<1>9. Linked' /\ Subscribed' /\ (~ Respawn => NothingKept' /\ IdleIsUnknown')
  <2>1. \A d \in Conn : (socket'[d] = "unused" => socket[d] = "unused")
                          /\ (Accepted(d)' => Accepted(d))
    BY <1>1 DEF Accepted
  <2> QED
    BY <1>1, <1>7, <1>8, <2>1, HeardKnows
<1>10. ASSUME NEW t \in Server, link[t] = c, NEW x \in Server
       PROVE  Learns(t, x)' <=> x \in servers \/ Learns(t, x)
  <2>1. toMonitor'[link[t]] = Arrive(link[t], <<answer>>) /\ link[t] \in Conn
    BY <1>1, <1>10
  <2>2. Learns(t, x)' <=> AddsLast(<<answer>>, x) \/ (Learns(t, x) /\ NoDrop(<<answer>>, x))
    BY <1>1, <1>2, <1>6, <2>1, Hears
  <2>3. (Adds(answer, x) <=> x \in servers) /\ ~ Drops(answer, x)
    BY <1>4 DEF Adds, Drops
  <2> QED
    BY <2>2, <2>3, OneMessage
<1>11. ASSUME NEW t \in Server, link[t] \in Conn, link[t] # c, NEW x
       PROVE  Learns(t, x)' <=> Learns(t, x)
  <2>1. toMonitor'[link[t]] = Arrive(link[t], <<>>)
    BY <1>1, <1>11
  <2> QED
    BY <1>1, <1>2, <1>11, <2>1, HearsNothing
<1>12. \A t \in Server : Joined(t)' <=> Joined(t)
  BY <1>1 DEF Joined
<1>13. \A t \in Server : Joined(t) /\ t # s => link[t] \in Conn /\ link[t] # c
  BY <1>2, <1>5 DEF Joined, Linked
<1>14. servers \subseteq Server /\ listeners \subseteq Server
  BY <1>2 DEF TInv, TypeOK
<1>15. LearnsAll'
  <2> SUFFICES ASSUME NEW t \in listeners', Joined(t)', NEW x \in servers PROVE Learns(t, x)'
    BY <1>1 DEF LearnsAll
  <2>1. t \in Server /\ x \in Server /\ Joined(t)
    BY <1>1, <1>3, <1>12, <1>14
  <2>2. CASE link[t] = c
    BY <1>10, <2>1, <2>2
  <2>3. CASE link[t] # c
    <3>1. t # s
      BY <1>3, <2>1, <2>3 DEF Joined
    <3>2. Learns(t, x)
      BY <1>1, <1>2, <2>1, <3>1 DEF LearnsAll
    <3> QED
      BY <1>11, <1>13, <2>1, <3>1, <3>2
  <2> QED
    BY <2>2, <2>3
<1>16. ASSUME ~ Respawn PROVE LearnsOnly' /\ LearnsNothing'
  <2>1. LearnsOnly /\ LearnsNothing
    BY <1>16 DEF KnowInv, FirstLife
  <2>2. LearnsOnly'
    <3> SUFFICES ASSUME NEW t \in listeners', Joined(t)', NEW x \in Server, Learns(t, x)'
                 PROVE  x \in servers
      BY <1>1 DEF LearnsOnly
    <3>1. t \in Server /\ Joined(t)
      BY <1>1, <1>3, <1>12, <1>14
    <3>2. CASE link[t] = c
      <4>1. x \in servers \/ Learns(t, x)
        BY <1>10, <3>1, <3>2
      <4> QED
        BY <2>1, <3>1, <4>1 DEF LearnsOnly, LearnsNothing
    <3>3. CASE link[t] # c
      <4>1. t # s
        BY <1>3, <3>1, <3>3 DEF Joined
      <4>2. Learns(t, x)
        BY <1>11, <1>13, <3>1, <4>1
      <4> QED
        BY <1>1, <2>1, <3>1, <4>1, <4>2 DEF LearnsOnly
    <3> QED
      BY <3>2, <3>3
  <2>3. LearnsNothing'
    <3> SUFFICES ASSUME NEW t \in Server \ listeners', NEW x \in Server,
                        (Joined(t) \/ (link[t] \in Conn /\ Opens(link[t], "register")))'
                 PROVE  ~ Learns(t, x)'
      BY DEF LearnsNothing
    <3>1. t # s /\ t \notin listeners
      BY <1>1
    <3>2. link[t] \in Conn /\ (Joined(t) \/ Opens(link[t], "register"))
      BY <1>1, <1>7, <1>12, OpensStay
    <3>3. link[t] \in Conn /\ link[t] # c
      BY <1>3, <1>13, <3>1, <3>2 DEF Opens
    <3>4. ~ Learns(t, x)
      BY <2>1, <3>1, <3>2 DEF LearnsNothing
    <3> QED
      BY <1>11, <3>3, <3>4
  <2> QED
    BY <2>2, <2>3
<1> QED
  BY <1>7, <1>9, <1>15, <1>16 DEF Knowledge, FirstLife

\* What a server learns of a notice to the listeners.
LEMMA TellHeard ==
  ASSUME TInv, Linked, Names', UNCHANGED <<link, table>>, NEW ids \in SUBSET Server,
         NEW n \in Nat \ {0}, NEW action \in Action \ {"replaceServer"}, NEW about \in Server,
         NEW known \in SUBSET Server,
         toMonitor' = [d \in Conn |->
           Arrive(d, Addressed(d, Notice(ids, Request(n, action, about)), idMap', known))],
         NEW t \in Server, NEW x
  PROVE  /\ Joined(t)' =>
              (Learns(t, x)' <=>
                 \/ t \in ids /\ action = "addServer" /\ x = about
                 \/ Learns(t, x) /\ ~ (t \in ids /\ action = "removeServer" /\ x = about))
         /\ link[t] \in Conn /\ Unknown(link[t])' => (Learns(t, x)' <=> Learns(t, x))
<1> DEFINE news == Notice(ids, Request(n, action, about))
<1>1. ASSUME Joined(t)'
      PROVE  Learns(t, x)' <=>
                 \/ t \in ids /\ action = "addServer" /\ x = about
                 \/ Learns(t, x) /\ ~ (t \in ids /\ action = "removeServer" /\ x = about)
  <2>1. link[t] \in Conn /\ idMap'[t] = link[t] /\ idMap'[t] # NoConn
    BY <1>1, NoSuchConn DEF Joined
  <2>2. Addressed(idMap'[t], news, idMap', known) = Packets(news[t], known)
    BY <2>1, AddressedNamed
  <2>3. toMonitor'[link[t]] = Arrive(link[t], Packets(news[t], known))
    BY <2>1, <2>2
  <2> QED
    BY <2>1, <2>3, NoticeHeard
<1>2. ASSUME link[t] \in Conn, Unknown(link[t])' PROVE Learns(t, x)' <=> Learns(t, x)
  <2>1. toMonitor'[link[t]] = Arrive(link[t], Addressed(link[t], news, idMap', known))
    BY <1>2
  <2> HIDE DEF news
  <2> QED
    BY <1>2, <2>1, UnknownLearns
<1> QED
  BY <1>1, <1>2

\* A notice is no answer to subscribe.
LEMMA TellTold ==
  ASSUME TInv, NEW news \in [Server -> Seq(Entry)], NEW to, NEW known \in SUBSET Server,
         toMonitor' = [d \in Conn |-> Arrive(d, Addressed(d, news, to, known))],
         NEW d \in Conn, Told(toMonitor'[d])
  PROVE  Told(toMonitor[d])
<1>1. toMonitor'[d] = Arrive(d, Addressed(d, news, to, known))
  OBVIOUS
<1>2. Addressed(d, news, to, known) \in Seq(ToMonitor)
  BY AddressedType
<1> QED
  BY <1>1, <1>2, AddressedNotTold, ArriveTold

\* Nothing that is sent changes what the servers will know.
LEMMA LearnsStay ==
  ASSUME LearnsAll, ~ Respawn => LearnsOnly /\ LearnsNothing,
         UNCHANGED <<link, servers, listeners>>,
         \A t \in Server : Joined(t)' <=> Joined(t),
         \A d \in Conn : Opens(d, "register")' => Opens(d, "register"),
         servers \subseteq Server, listeners \subseteq Server,
         \A t \in Server : \A x \in Server :
           link[t] \in Conn /\ (Joined(t) \/ Opens(link[t], "register"))
             => (Learns(t, x)' <=> Learns(t, x))
  PROVE  LearnsAll' /\ (~ Respawn => LearnsOnly' /\ LearnsNothing')
<1>1. ASSUME NEW t \in Server, Joined(t)', NEW x \in Server
      PROVE  Joined(t) /\ (Learns(t, x)' <=> Learns(t, x))
  BY <1>1 DEF Joined
<1>2. LearnsAll'
  BY <1>1 DEF LearnsAll
<1>3. ASSUME ~ Respawn PROVE LearnsOnly' /\ LearnsNothing'
  <2>1. LearnsOnly'
    BY <1>1, <1>3 DEF LearnsOnly
  <2>2. LearnsNothing'
    <3> SUFFICES ASSUME NEW t \in Server \ listeners, NEW x \in Server,
                        (Joined(t) \/ (link[t] \in Conn /\ Opens(link[t], "register")))'
                 PROVE  ~ Learns(t, x)'
      BY DEF LearnsNothing
    <3>1. link[t] \in Conn /\ (Joined(t) \/ Opens(link[t], "register"))
      BY OpensStay
    <3>2. ~ Learns(t, x)
      BY <1>3, <3>1 DEF LearnsNothing
    <3> QED
      BY <3>1, <3>2
  <2> QED
    BY <2>1, <2>2
<1> QED
  BY <1>2, <1>3

LEMMA KnowRecord ==
  ASSUME KnowInv, DirInv', NEW c \in Conn, OnRecord(c)
  PROVE  Knowledge' /\ (~ Respawn => FirstLife')
<1> DEFINE told == IF isStarted' /\ ~isStarted THEN listeners ELSE {}
           news == Notice(told, Request(Number, "startOver", owner[c]))
<1>1. /\ Receive(c, "record") /\ Post(news)
      /\ toMonitor' = [d \in Conn |-> Arrive(d, Addressed(d, news, idMap', servers))]
      /\ UNCHANGED <<phase, link, table, owner, socket, idMap, servers, listeners>>
  BY DEF OnRecord, process
<1>2. /\ TInv /\ DirInv /\ Linked /\ OpensOnce /\ LearnsAll /\ Names /\ Names'
      /\ TypeOK
  BY DEF KnowInv, Knowledge, DirInv, Directory, TInv
<1>3. socket[c] = "registered" /\ owner[c] \in Server
  BY <1>1, <1>2, HeardKnown DEF TInv, Owned
<1>4. told \subseteq listeners /\ told \in SUBSET Server /\ servers \in SUBSET Server
      /\ listeners \subseteq Server
  BY <1>2 DEF TypeOK
<1>5. /\ Number \in Nat \ {0} /\ "startOver" \in Action \ {"replaceServer"}
      /\ news \in [Server -> Seq(Entry)]
  BY <1>2, <1>3, <1>4, NumberType, OneNoticeType DEF Action
<1>6. OpensOnce' /\ \A d \in Conn : Opens(d, "register")' => Opens(d, "register")
  BY <1>1, <1>2, <1>3, HeardQueues
<1> HIDE DEF told
<1>7. ASSUME NEW t \in Server, NEW x \in Server, link[t] \in Conn,
             Joined(t) \/ Opens(link[t], "register")
      PROVE  Learns(t, x)' <=> Learns(t, x)
  <2>1. Joined(t)' \/ Unknown(link[t])'
    BY <1>1, <1>7 DEF Joined, Opens, Unknown
  <2>2. UNCHANGED <<link, table>>
    BY <1>1
  <2>3. /\ TInv /\ Linked /\ Names' /\ owner[c] \in Server
        /\ toMonitor' = [d \in Conn |-> Arrive(d, Addressed(d, news, idMap', servers))]
        /\ Number \in Nat \ {0} /\ "startOver" \in Action \ {"replaceServer"}
        /\ told \in SUBSET Server /\ servers \in SUBSET Server
    BY <1>1, <1>2, <1>3, <1>4, <1>5
  <2>4. /\ Joined(t)' =>
            (Learns(t, x)' <=>
               \/ t \in told /\ "startOver" = "addServer" /\ x = owner[c]
               \/ Learns(t, x) /\ ~ (t \in told /\ "startOver" = "removeServer" /\ x = owner[c]))
        /\ link[t] \in Conn /\ Unknown(link[t])' => (Learns(t, x)' <=> Learns(t, x))
    BY <2>2, <2>3, TellHeard
  <2>5. "startOver" # "addServer" /\ "startOver" # "removeServer"
    OBVIOUS
  <2> QED
    BY <1>7, <2>1, <2>4, <2>5
<1>8. LearnsAll' /\ (~ Respawn => LearnsOnly' /\ LearnsNothing')
  <2>1. \A t \in Server : Joined(t)' <=> Joined(t)
    BY <1>1 DEF Joined
  <2> QED
    BY <1>1, <1>2, <1>4, <1>6, <1>7, <2>1, LearnsStay DEF KnowInv, FirstLife
<1>9. Linked' /\ Subscribed' /\ (~ Respawn => NothingKept' /\ IdleIsUnknown')
  <2>1. \A d \in Conn : Told(toMonitor'[d]) => Told(toMonitor[d])
    <3> HIDE DEF news
    <3> QED
      BY <1>1, <1>2, <1>4, <1>5, TellTold
  <2>2. \A t \in Server : idMap[t] = NoConn => msgMap'[t] = msgMap[t]
    <3>1. \A t \in Server : idMap[t] = NoConn => t \notin told
      BY <1>2, <1>4 DEF Names
    <3> QED
      BY <1>1, <1>2, <3>1, NoticeNotPosted
  <2>3. \A d \in Conn : (socket'[d] = "unused" => socket[d] = "unused")
                          /\ (Accepted(d)' => Accepted(d))
    BY <1>1 DEF Accepted
  <2> QED
    BY <1>1, <1>6, <2>1, <2>2, <2>3, HeardKnows
<1> QED
  BY <1>6, <1>8, <1>9 DEF Knowledge, FirstLife

LEMMA KnowResponse ==
  ASSUME KnowInv, DirInv', NEW c \in Conn, OnResponse(c)
  PROVE  Knowledge' /\ (~ Respawn => FirstLife')
<1>1. /\ Receive(c, "response")
      /\ UNCHANGED <<phase, link, table, owner, socket, toMonitor, idMap, servers, listeners>>
  BY DEF OnResponse, process, watchdog
<1>2. /\ TInv /\ DirInv /\ Linked /\ OpensOnce /\ LearnsAll /\ Names
      /\ msgMap \in [Server -> Seq(Entry)]
      /\ servers \subseteq Server /\ listeners \subseteq Server
  BY DEF KnowInv, Knowledge, DirInv, Directory, TInv, TypeOK
<1>3. socket[c] = "registered" /\ idMap[owner[c]] = c
  BY <1>1, <1>2, HeardKnown DEF Names
<1>4. OpensOnce' /\ \A d \in Conn : Opens(d, "register")' => Opens(d, "register")
  BY <1>1, <1>2, <1>3, HeardQueues
<1>5. LearnsAll' /\ (~ Respawn => LearnsOnly' /\ LearnsNothing')
  <2>1. \A t \in Server : \A x \in Server : Learns(t, x)' <=> Learns(t, x)
    BY <1>1 DEF Learns
  <2>2. \A t \in Server : Joined(t)' <=> Joined(t)
    BY <1>1 DEF Joined
  <2> QED
    BY <1>1, <1>2, <1>4, <2>1, <2>2, LearnsStay DEF KnowInv, FirstLife
<1>6. Linked' /\ Subscribed' /\ (~ Respawn => NothingKept' /\ IdleIsUnknown')
  <2>1. \A t \in Server : idMap[t] = NoConn => msgMap'[t] = msgMap[t]
    <3>1. \/ msgMap' = msgMap
          \/ \E q : msgMap' = [msgMap EXCEPT ![owner[c]] = q]
      BY DEF OnResponse
    <3>2. \A t \in Server : idMap[t] = NoConn => t # owner[c]
      BY <1>3, NoSuchConn
    <3> QED
      BY <1>2, <3>1, <3>2
  <2>2. \A d \in Conn : (socket'[d] = "unused" => socket[d] = "unused")
                          /\ (Accepted(d)' => Accepted(d))
    BY <1>1 DEF Accepted
  <2> QED
    BY <1>1, <1>4, <2>1, <2>2, HeardKnows
<1> QED
  BY <1>4, <1>5, <1>6 DEF Knowledge, FirstLife

\* The queues when a connection closes.
LEMMA ClosedQueues ==
  ASSUME TInv, OpensOnce, NEW c \in Conn, socket' = [socket EXCEPT ![c] = "closed"],
         toMaster' = [toMaster EXCEPT ![c] = <<>>]
  PROVE  /\ OpensOnce'
         /\ \A d \in Conn : Opens(d, "register")' => Opens(d, "register")
         /\ \A d \in Conn : (socket'[d] = "unused" => socket[d] = "unused")
                              /\ (Accepted(d)' => Accepted(d))
<1>1. socket'[c] = "closed"
      /\ \A d \in Conn : d # c => socket'[d] = socket[d] /\ toMaster'[d] = toMaster[d]
  BY DEF TInv, TypeOK
<1>2. OpensOnce'
  BY <1>1 DEF OpensOnce
<1>3. \A d \in Conn : Opens(d, "register")' => Opens(d, "register")
  BY <1>1 DEF Opens
<1>4. \A d \in Conn : (socket'[d] = "unused" => socket[d] = "unused")
                        /\ (Accepted(d)' => Accepted(d))
  BY <1>1 DEF Accepted
<1> QED
  BY <1>2, <1>3, <1>4

\* A connection that was never registered closes.
LEMMA KnowDropped ==
  ASSUME KnowInv, NEW c \in Conn, OnDisconnect(c), socket[c] # "registered"
  PROVE  Knowledge' /\ (~ Respawn => FirstLife')
<1>1. /\ socket' = [socket EXCEPT ![c] = "closed"]
      /\ toMaster' = [toMaster EXCEPT ![c] = <<>>]
      /\ UNCHANGED <<phase, link, table, owner, toMonitor, idMap, msgMap, servers, listeners>>
  BY DEF OnDisconnect, process
<1>2. /\ TInv /\ Linked /\ OpensOnce /\ LearnsAll
      /\ servers \subseteq Server /\ listeners \subseteq Server
  BY DEF KnowInv, Knowledge, DirInv, TInv, TypeOK
<1>3. /\ OpensOnce' /\ \A d \in Conn : Opens(d, "register")' => Opens(d, "register")
      /\ \A d \in Conn : (socket'[d] = "unused" => socket[d] = "unused")
                           /\ (Accepted(d)' => Accepted(d))
  BY <1>1, <1>2, ClosedQueues
<1>4. Linked' /\ Subscribed' /\ (~ Respawn => NothingKept' /\ IdleIsUnknown')
  BY <1>1, <1>3, HeardKnows
<1>5. LearnsAll' /\ (~ Respawn => LearnsOnly' /\ LearnsNothing')
  <2>1. \A t \in Server : \A x \in Server : Learns(t, x)' <=> Learns(t, x)
    BY <1>1 DEF Learns
  <2>2. \A t \in Server : Joined(t)' <=> Joined(t)
    BY <1>1 DEF Joined
  <2> QED
    BY <1>1, <1>2, <1>3, <2>1, <2>2, LearnsStay DEF KnowInv, FirstLife
<1> QED
  BY <1>3, <1>4, <1>5 DEF Knowledge, FirstLife

LEMMA KnowRemoved ==
  ASSUME KnowInv, DirInv', NEW c \in Conn, OnDisconnect(c), socket[c] = "registered"
  PROVE  Knowledge' /\ (~ Respawn => FirstLife')
<1> DEFINE s == owner[c]
           rest == listeners \ {s}
           news == Notice(rest, Request(Number, "removeServer", s))
<1>1. /\ socket' = [socket EXCEPT ![c] = "closed"]
      /\ toMaster' = [toMaster EXCEPT ![c] = <<>>]
      /\ idMap' = [idMap EXCEPT ![s] = NoConn]
      /\ servers' = servers \ {s} /\ listeners' = rest
      /\ Post(news)
      /\ toMonitor' = [d \in Conn |-> Arrive(d, Addressed(d, news, idMap', {}))]
      /\ UNCHANGED <<phase, link, table, owner>>
  BY DEF OnDisconnect, process, RemoveConnection, Unsubscribe
<1>2. /\ TInv /\ DirInv /\ Linked /\ OpensOnce /\ LearnsAll /\ Names /\ Names'
      /\ TypeOK /\ servers \subseteq Server /\ listeners \subseteq Server
      /\ idMap \in [Server -> 0 .. MaxConn]
  BY DEF KnowInv, Knowledge, DirInv, Directory, TInv, TypeOK
<1>3. s \in Server /\ idMap[s] = c /\ idMap'[s] = NoConn
      /\ \A t \in Server : t # s => idMap'[t] = idMap[t]
  BY <1>1, <1>2 DEF Names, TInv, Owned
<1>4. /\ OpensOnce' /\ \A d \in Conn : Opens(d, "register")' => Opens(d, "register")
      /\ \A d \in Conn : (socket'[d] = "unused" => socket[d] = "unused")
                           /\ (Accepted(d)' => Accepted(d))
  BY <1>1, <1>2, ClosedQueues
<1>5. /\ Number \in Nat \ {0} /\ "removeServer" \in Action \ {"replaceServer"}
      /\ rest \in SUBSET Server /\ news \in [Server -> Seq(Entry)] /\ {} \in SUBSET Server
  BY <1>2, <1>3, NumberType, OneNoticeType DEF Action
<1>6. rest = listeners \ {s}
  OBVIOUS
<1>7. Linked' /\ Subscribed' /\ (~ Respawn => NothingKept' /\ IdleIsUnknown')
  <2>1. \A d \in Conn : Told(toMonitor'[d]) => Told(toMonitor[d])
    <3> HIDE DEF news
    <3> QED
      BY <1>1, <1>2, <1>5, TellTold
  <2>2. \A t \in Server : idMap[t] = NoConn => msgMap'[t] = msgMap[t]
    <3>1. \A t \in Server : idMap[t] = NoConn => t \notin rest
      BY <1>2 DEF Names
    <3> QED
      BY <1>1, <1>2, <3>1, NoticeNotPosted
  <2>3. \A t \in Server : idMap'[t] = idMap[t] \/ idMap'[t] = NoConn
    BY <1>3
  <2>4. \A t \in listeners : idMap'[t] # NoConn => t \in listeners'
    BY <1>1, <1>3
  <2> QED
    BY <1>1, <1>4, <2>1, <2>2, <2>3, <2>4, HeardKnows
<1> HIDE DEF s, rest
<1>8. ASSUME NEW t \in Server, NEW x \in Server
      PROVE  /\ Joined(t)' => (Learns(t, x)' <=> Learns(t, x) /\ ~ (t \in rest /\ x = s))
             /\ link[t] \in Conn /\ Unknown(link[t])' => (Learns(t, x)' <=> Learns(t, x))
  <2>1. /\ TInv /\ Linked /\ Names' /\ s \in Server /\ UNCHANGED <<link, table>>
        /\ toMonitor' = [d \in Conn |-> Arrive(d, Addressed(d, news, idMap', {}))]
        /\ Number \in Nat \ {0} /\ "removeServer" \in Action \ {"replaceServer"}
        /\ rest \in SUBSET Server /\ {} \in SUBSET Server
    BY <1>1, <1>2, <1>3, <1>5
  <2>2. /\ Joined(t)' =>
             (Learns(t, x)' <=>
                \/ t \in rest /\ "removeServer" = "addServer" /\ x = s
                \/ Learns(t, x) /\ ~ (t \in rest /\ "removeServer" = "removeServer" /\ x = s))
        /\ link[t] \in Conn /\ Unknown(link[t])' => (Learns(t, x)' <=> Learns(t, x))
    BY <2>1, TellHeard
  <2>3. "removeServer" # "addServer"
    OBVIOUS
  <2> QED
    BY <2>2, <2>3
<1>9. ASSUME NEW t \in Server, Joined(t)' PROVE t # s /\ Joined(t)
  <2>1. link[t] \in Conn /\ link[t] = idMap'[t]
    BY <1>1, <1>9 DEF Joined
  <2>2. t # s
    BY <1>3, <2>1, NoSuchConn
  <2> QED
    BY <1>3, <2>1, <2>2 DEF Joined
<1>10. LearnsAll'
  <2> SUFFICES ASSUME NEW t \in rest, Joined(t)', NEW x \in servers \ {s} PROVE Learns(t, x)'
    BY <1>1 DEF LearnsAll
  <2>1. t \in Server /\ t \in listeners /\ x \in Server
    BY <1>2, <1>6
  <2>2. Learns(t, x)
    BY <1>2, <1>9, <2>1 DEF LearnsAll
  <2> QED
    BY <1>8, <2>1, <2>2
<1>11. ASSUME ~ Respawn PROVE LearnsOnly' /\ LearnsNothing'
  <2>1. LearnsOnly /\ LearnsNothing /\ NothingKept
    BY <1>11 DEF KnowInv, FirstLife
  <2>2. LearnsOnly'
    <3> SUFFICES ASSUME NEW t \in rest, Joined(t)', NEW x \in Server, Learns(t, x)'
                 PROVE  x \in servers \ {s}
      BY <1>1 DEF LearnsOnly
    <3>1. t \in Server /\ t \in listeners
      BY <1>2, <1>6
    <3>2. Learns(t, x) /\ x # s /\ Joined(t)
      BY <1>8, <1>9, <3>1
    <3> QED
      BY <2>1, <3>1, <3>2 DEF LearnsOnly
  <2>3. ASSUME NEW t \in Server \ rest, Joined(t)', NEW x \in Server PROVE ~ Learns(t, x)'
    <3>1. t \notin listeners /\ Joined(t)
      BY <1>6, <1>9, <2>3
    <3>2. ~ Learns(t, x)
      BY <2>1, <2>3, <3>1 DEF LearnsNothing
    <3> QED
      BY <1>8, <2>3, <3>2
  <2>4. ASSUME NEW t \in Server \ rest, link[t] \in Conn, Opens(link[t], "register")',
               NEW x \in Server
        PROVE  ~ Learns(t, x)'
    <3>1. Opens(link[t], "register") /\ Unknown(link[t])'
      <4>1. link'[t] = link[t]
        BY <1>1
      <4>2. Opens(link[t], "register")' => Opens(link[t], "register")
        BY <1>4, <2>4, <4>1
      <4> QED
        BY <2>4, <4>1, <4>2 DEF Opens, Unknown
    <3>2. owner[link[t]] = t
      BY <1>2, <2>4 DEF Linked
    <3>3. t # s
      BY <1>3, <2>1, <2>4, <3>1, <3>2, NoSuchConn DEF NothingKept
    <3>4. ~ Learns(t, x)
      BY <1>6, <2>1, <2>4, <3>1, <3>3 DEF LearnsNothing
    <3> QED
      BY <1>8, <2>4, <3>1, <3>4
  <2>5. LearnsNothing'
    BY <1>1, <2>3, <2>4 DEF LearnsNothing
  <2> QED
    BY <2>2, <2>5
<1> QED
  BY <1>4, <1>7, <1>10, <1>11 DEF Knowledge, FirstLife

LEMMA KnowDisconnect ==
  ASSUME KnowInv, DirInv', NEW c \in Conn, OnDisconnect(c)
  PROVE  Knowledge' /\ (~ Respawn => FirstLife')
BY KnowDropped, KnowRemoved

LEMMA KnowRestart ==
  ASSUME KnowInv, RestartMaster PROVE Knowledge' /\ (~ Respawn => FirstLife')
<1>1. /\ phase' = [phase EXCEPT ![Master] = "idle"]
      /\ link' = [link EXCEPT ![Master] = Lost]
      /\ toMonitor' = [c \in Conn |-> IF c = link[Master] THEN <<>> ELSE toMonitor[c]]
      /\ socket' = [c \in Conn |-> IF Accepted(c) THEN "closed" ELSE socket[c]]
      /\ toMaster' = [c \in Conn |-> <<>>]
      /\ idMap' = [s \in Server |-> NoConn]
      /\ msgMap' = [s \in Server |-> <<>>]
      /\ servers' = {} /\ listeners' = {}
      /\ UNCHANGED <<table, owner>>
  BY DEF RestartMaster, Exit, Unplug
<1>2. TInv /\ DirInv /\ Linked /\ TypeOK
  BY DEF KnowInv, Knowledge, DirInv, TInv
<1>3. \A t \in Server : ~ Joined(t)'
  BY <1>1, NoSuchConn DEF Joined
<1>4. \A d \in Conn : /\ socket'[d] \notin {"open", "registered"}
                      /\ socket'[d] = "unused" => socket[d] = "unused"
  BY <1>1 DEF Accepted
<1>5. Linked'
  <2>1. link'[Master] \notin Conn
    BY <1>1, <1>2, NoSuchConn, ConstantsAssumption DEF TypeOK
  <2>2. \A t \in Server : t # Master => link'[t] = link[t] /\ phase'[t] = phase[t]
    BY <1>1, <1>2 DEF TypeOK
  <2>3. \A t \in Server : link'[t] \in Conn =>
          link'[t] = link[t] /\ phase'[t] = phase[t] /\ owner'[link'[t]] = owner[link[t]]
    BY <1>1, <2>1, <2>2
  <2> QED
    BY <1>2, <1>4, <2>3 DEF Linked
<1>6. OpensOnce' /\ \A d \in Conn : ~ Opens(d, "register")'
  BY <1>4 DEF OpensOnce, Opens
<1>7. Starts' /\ Registering' /\ LearnsAll' /\ LearnsOnly' /\ NothingKept'
  BY <1>1, <1>3, <1>6 DEF Starts, Registering, LearnsAll, LearnsOnly, NothingKept
<1>8. ToldListens'
  <2> SUFFICES ASSUME NEW d \in Conn, Told(toMonitor'[d]), idMap'[owner[d]] = d PROVE FALSE
    BY <1>1 DEF ToldListens
  <2>1. toMonitor'[d] = toMonitor[d] \/ toMonitor'[d] = <<>>
    BY <1>1
  <2>2. owner[d] \in Server
    BY <1>2, <2>1, NoMessage, ToldOwned
  <2> QED
    BY <1>1, <2>2, NoSuchConn
<1>9. LearnsNothing'
  <2>1. \A t \in Server : ~ (link[t] \in Conn /\ Opens(link[t], "register"))'
    BY <1>6
  <2> QED
    BY <1>3, <2>1 DEF LearnsNothing
<1>10. IdleIsUnknown'
  <2>1. \A d \in Conn : ~ Accepted(d)'
    BY <1>4 DEF Accepted
  <2> QED
    BY <1>1, <2>1 DEF IdleIsUnknown
<1> QED
  BY <1>5, <1>6, <1>7, <1>8, <1>9, <1>10 DEF Knowledge, Subscribed, FirstLife

-----------------------------------------------------------------------------
(* The processes connect and leave their connections.                      *)

\* Refusals tell a server nothing.
LEMMA RefusedLearns ==
  ASSUME NEW q, Refuses(q), NEW x PROVE ~ WillHave(q, {}, x) /\ ~ Told(q)
<1>1. \A i \in DOMAIN q : ~ Adds(q[i], x) /\ q[i].type # "servers"
  BY DEF Refuses, Adds
<1> QED
  BY <1>1 DEF WillHave, AddsLast, Told

LEMMA KnowConnect ==
  ASSUME KnowInv, NEW s \in Server, NEW c \in Conn, NEW msg \in {"register", "reconnect"},
         Connect(s, c, msg), phase'[s] \in Up,
         \A t \in Server : t # s => phase'[t] = phase[t] /\ table'[t] = table[t],
         msg = "register" => /\ phase'[s] = "registering" /\ table'[s] = {}
                             /\ ~ Respawn => phase[s] = "idle"
  PROVE  Knowledge' /\ (~ Respawn => FirstLife')
<1>1. /\ Fresh(c)
      /\ link' = [link EXCEPT ![s] = c]
      /\ owner' = [owner EXCEPT ![c] = s]
      /\ socket' = [socket EXCEPT ![c] = "open"]
      /\ toMaster' = [toMaster EXCEPT ![c] = <<[type |-> msg]>>]
      /\ UNCHANGED <<toMonitor, idMap, msgMap, servers, listeners>>
  BY DEF Connect, masterAgent, watchdog
<1>2. /\ TInv /\ DirInv /\ TypeOK /\ Names /\ Linked /\ OpensOnce /\ Starts /\ Registering
      /\ ToldListens /\ LearnsAll
      /\ servers \subseteq Server /\ listeners \subseteq Server
  BY DEF KnowInv, Knowledge, Subscribed, DirInv, Directory, TInv, TypeOK
<1>3. /\ link'[s] = c /\ \A t \in Server : t # s => link'[t] = link[t]
      /\ owner'[c] = s /\ socket'[c] = "open" /\ toMaster'[c] = <<[type |-> msg]>>
      /\ \A d \in Conn : d # c => /\ owner'[d] = owner[d] /\ socket'[d] = socket[d]
                                  /\ toMaster'[d] = toMaster[d]
  BY <1>1, <1>2 DEF TypeOK
<1>4. socket[c] = "unused" /\ Refuses(toMonitor[c])
  BY <1>1, <1>2 DEF Fresh, DirInv, Directory, OnlyRefused, Unknown
<1>5. \A t \in Server : link[t] \in Conn => link[t] # c
  BY <1>2, <1>4 DEF Linked
<1>6. ASSUME NEW t \in Server, Joined(t)'
      PROVE  t # s /\ Joined(t) /\ link[t] \in Conn /\ link[t] # c
  <2>1. link'[t] = idMap[t] /\ link'[t] \in Conn
    BY <1>1, <1>6 DEF Joined
  <2>2. socket[idMap[t]] = "registered"
    BY <1>2, <2>1, NoSuchConn DEF Names
  <2>3. t # s
    BY <1>3, <1>4, <2>1, <2>2
  <2> QED
    BY <1>3, <1>5, <2>1, <2>3 DEF Joined
<1>7. ASSUME NEW t \in Server, t # s, NEW x PROVE Learns(t, x)' <=> Learns(t, x)
  BY <1>1, <1>3, <1>7 DEF Learns
<1>8. \A d \in Conn : d # c => (Opens(d, "register")' <=> Opens(d, "register"))
  BY <1>3 DEF Opens
<1>9. Opens(c, "register")' => msg = "register"
  BY <1>3 DEF Opens
<1>10. Linked'
  <2> SUFFICES ASSUME NEW t \in Server, link'[t] \in Conn
               PROVE  phase'[t] \in Up /\ owner'[link'[t]] = t /\ socket'[link'[t]] # "unused"
    BY DEF Linked
  <2>1. CASE t = s
    BY <1>3, <2>1
  <2>2. CASE t # s
    BY <1>2, <1>3, <1>5, <2>2 DEF Linked
  <2> QED
    BY <2>1, <2>2
<1>11. OpensOnce'
  <2>1. Len(toMaster'[c]) = 1
    BY <1>3
  <2> QED
    BY <1>2, <1>3, <2>1 DEF OpensOnce
<1>12. Starts'
  <2> SUFFICES ASSUME NEW t \in Server, Joined(t)', phase'[t] \in {"starting", "running"}
               PROVE  t \in listeners
    BY <1>1 DEF Starts
  <2>1. t # s /\ Joined(t)
    BY <1>6
  <2> QED
    BY <1>2, <2>1 DEF Starts
<1>13. ASSUME NEW t \in Server, t # s, (link[t] \in Conn /\ Opens(link[t], "register"))'
       PROVE  link[t] \in Conn /\ Opens(link[t], "register")
  <2>1. link'[t] = link[t] /\ link[t] \in Conn /\ link[t] # c
    BY <1>3, <1>5, <1>13
  <2>2. \A d \in Conn : d = link'[t] => Opens(d, "register")'
    BY <1>13 DEF Opens
  <2> QED
    BY <1>8, <2>1, <2>2
<1>14. ASSUME (link[s] \in Conn /\ Opens(link[s], "register"))' PROVE msg = "register"
  <2>1. \A d \in Conn : d = link'[s] => Opens(d, "register")'
    BY <1>14 DEF Opens
  <2> QED
    BY <1>3, <1>9, <2>1
<1>15. Registering'
  <2> SUFFICES ASSUME NEW t \in Server, (link[t] \in Conn /\ Opens(link[t], "register"))'
               PROVE  phase'[t] = "registering"
    BY DEF Registering
  <2>1. CASE t = s
    BY <1>14, <2>1
  <2>2. CASE t # s
    BY <1>2, <1>13, <2>2 DEF Registering
  <2> QED
    BY <2>1, <2>2
<1>16. ToldListens'
  <2> SUFFICES ASSUME NEW d \in Conn, Told(toMonitor[d]), idMap[owner'[d]] = d
               PROVE  owner'[d] \in listeners
    BY <1>1 DEF ToldListens
  <2>1. d # c
    BY <1>4, RefusedLearns
  <2> QED
    BY <1>2, <1>3, <2>1 DEF ToldListens
<1>17. LearnsAll'
  <2> SUFFICES ASSUME NEW t \in listeners, Joined(t)', NEW x \in servers PROVE Learns(t, x)'
    BY <1>1 DEF LearnsAll
  <2>1. t \in Server /\ t # s /\ Joined(t)
    BY <1>2, <1>6
  <2> QED
    BY <1>2, <1>7, <2>1 DEF LearnsAll
<1>18. ASSUME ~ Respawn PROVE FirstLife'
  <2>1. LearnsOnly /\ LearnsNothing /\ NothingKept /\ IdleIsUnknown
    BY <1>18 DEF KnowInv, FirstLife
  <2>2. LearnsOnly'
    <3> SUFFICES ASSUME NEW t \in listeners, Joined(t)', NEW x \in Server, Learns(t, x)'
                 PROVE  x \in servers
      BY <1>1 DEF LearnsOnly
    <3>1. t \in Server /\ t # s /\ Joined(t)
      BY <1>2, <1>6
    <3> QED
      BY <1>7, <2>1, <3>1 DEF LearnsOnly
  <2>3. LearnsNothing'
    <3> SUFFICES ASSUME NEW t \in Server \ listeners, NEW x \in Server,
                        (Joined(t) \/ (link[t] \in Conn /\ Opens(link[t], "register")))'
                 PROVE  ~ Learns(t, x)'
      BY <1>1 DEF LearnsNothing
    <3>1. CASE t # s
      <4>1. Joined(t) \/ (link[t] \in Conn /\ Opens(link[t], "register"))
        BY <1>6, <1>13, <3>1
      <4> QED
        BY <1>7, <2>1, <3>1, <4>1 DEF LearnsNothing
    <3>2. CASE t = s
      <4>1. (link[s] \in Conn /\ Opens(link[s], "register"))'
        BY <1>6, <3>2
      <4>2. table'[s] = {}
        BY <1>14, <4>1
      <4>3. ~ WillHave(toMonitor[c], {}, x)
        BY <1>4, RefusedLearns
      <4>4. ~ Learns(s, x)'
        BY <1>1, <1>3, <4>2, <4>3 DEF Learns
      <4> QED
        BY <3>2, <4>4
    <3> QED
      BY <3>1, <3>2
  <2>4. NothingKept'
    <3> SUFFICES ASSUME NEW d \in Conn, Opens(d, "register")'
                 PROVE  idMap[owner'[d]] = NoConn /\ msgMap[owner'[d]] = <<>>
      BY <1>1 DEF NothingKept
    <3>1. CASE d = c
      <4>1. phase[s] = "idle"
        BY <1>9, <1>18, <3>1
      <4> QED
        BY <1>3, <2>1, <3>1, <4>1 DEF IdleIsUnknown
    <3>2. CASE d # c
      BY <1>3, <1>8, <2>1, <3>2 DEF NothingKept
    <3> QED
      BY <3>1, <3>2
  <2>5. IdleIsUnknown'
    <3> SUFFICES ASSUME NEW t \in Server, phase'[t] = "idle"
                 PROVE  /\ msgMap[t] = <<>> /\ idMap[t] = NoConn
                        /\ \A d \in Conn : owner'[d] = t => ~ Accepted(d)'
      BY <1>1 DEF IdleIsUnknown
    <3>1. t # s /\ phase[t] = "idle"
      BY DEF Up
    <3> QED
      BY <1>3, <2>1, <3>1 DEF IdleIsUnknown, Accepted
  <2> QED
    BY <2>2, <2>3, <2>4, <2>5 DEF FirstLife
<1> QED
  BY <1>10, <1>11, <1>12, <1>15, <1>16, <1>17, <1>18 DEF Knowledge, Subscribed

LEMMA KnowBoot ==
  ASSUME KnowInv, NEW s \in Server, Boot(s) PROVE Knowledge' /\ (~ Respawn => FirstLife')
<1>1. PICK c \in Conn : Connect(s, c, "register")
  BY DEF Boot
<1>2. /\ phase \in [Server -> {"idle"} \union Up \union Ended] /\ table \in [Server -> SUBSET Server]
      /\ phase' = [phase EXCEPT ![s] = "registering"] /\ table' = [table EXCEPT ![s] = {}]
      /\ ~ Respawn => phase[s] = "idle"
  BY DEF Boot, KnowInv, DirInv, TInv, TypeOK
<1>3. /\ phase'[s] = "registering" /\ table'[s] = {} /\ phase'[s] \in Up
      /\ \A t \in Server : t # s => phase'[t] = phase[t] /\ table'[t] = table[t]
  BY <1>2 DEF Up
<1> QED
  BY <1>1, <1>2, <1>3, KnowConnect

LEMMA KnowReconnects ==
  ASSUME KnowInv, NEW s \in Server, Reconnect(s) PROVE Knowledge' /\ (~ Respawn => FirstLife')
<1>1. PICK c \in Conn : Connect(s, c, "reconnect")
  BY DEF Reconnect
<1>2. /\ phase'[s] \in Up
      /\ \A t \in Server : t # s => phase'[t] = phase[t] /\ table'[t] = table[t]
  BY DEF Reconnect
<1> QED
  BY <1>1, <1>2, KnowConnect

LEMMA KnowUnplugged ==
  ASSUME KnowInv, NEW s \in Server, NEW to \in {Lost, GivenUp}, Unplug(s, to),
         \A t \in Server : t # s => phase'[t] = phase[t],
         phase'[s] = "idle" => phase[s] = "idle",
         UNCHANGED <<table, owner, socket, toMaster, idMap, msgMap, servers, listeners>>
  PROVE  Knowledge' /\ (~ Respawn => FirstLife')
<1>1. /\ link' = [link EXCEPT ![s] = to]
      /\ \A d \in Conn : toMonitor'[d] = IF d = link[s] THEN <<>> ELSE toMonitor[d]
  BY DEF Unplug
<1>2. /\ TypeOK /\ Linked /\ OpensOnce /\ Starts /\ Registering /\ ToldListens /\ LearnsAll
      /\ servers \subseteq Server /\ listeners \subseteq Server
  BY DEF KnowInv, Knowledge, Subscribed, DirInv, TInv, TypeOK
<1>3. link'[s] \notin Conn /\ \A t \in Server : t # s => link'[t] = link[t]
  BY <1>1, <1>2, NoSuchConn DEF TypeOK
<1>4. ASSUME NEW t \in Server, link'[t] \in Conn
      PROVE  /\ t # s /\ link'[t] = link[t] /\ phase'[t] = phase[t]
             /\ \A x : Learns(t, x)' <=> Learns(t, x)
             /\ Joined(t)' <=> Joined(t)
  <2>1. t # s /\ link'[t] = link[t]
    BY <1>3, <1>4
  <2>2. link[t] # link[s]
    BY <1>2, <1>4, <2>1 DEF Linked
  <2>3. toMonitor'[link'[t]] = toMonitor[link[t]]
    BY <1>1, <1>4, <2>1, <2>2
  <2> QED
    BY <2>1, <2>3 DEF Learns, Joined
<1>5. OpensOnce' /\ \A d \in Conn : Opens(d, "register")' <=> Opens(d, "register")
  BY <1>2 DEF OpensOnce, Opens
<1>6. Linked'
  BY <1>2, <1>4 DEF Linked
<1>7. \A t \in Server : Joined(t)' => link'[t] \in Conn
  BY DEF Joined
<1>8. Starts'
  BY <1>2, <1>4, <1>7 DEF Starts
<1>9. ASSUME NEW t \in Server, (link[t] \in Conn /\ Opens(link[t], "register"))'
      PROVE  link'[t] \in Conn /\ link[t] \in Conn /\ Opens(link[t], "register")
  <2>1. link'[t] = link[t] /\ link'[t] \in Conn
    BY <1>4, <1>9
  <2>2. \A d \in Conn : d = link'[t] => Opens(d, "register")'
    BY <1>9 DEF Opens
  <2> QED
    BY <1>5, <2>1, <2>2
<1>10. Registering'
  <2> SUFFICES ASSUME NEW t \in Server, (link[t] \in Conn /\ Opens(link[t], "register"))'
               PROVE  phase'[t] = "registering"
    BY DEF Registering
  <2> QED
    BY <1>2, <1>4, <1>9 DEF Registering
<1>11. ToldListens'
  <2>1. \A d \in Conn : Told(toMonitor'[d]) => Told(toMonitor[d])
    BY <1>1, NoMessage
  <2> QED
    BY <1>2, <2>1 DEF ToldListens
<1>12. LearnsAll'
  BY <1>2, <1>4, <1>7 DEF LearnsAll
<1>13. ASSUME ~ Respawn PROVE FirstLife'
  <2>1. LearnsOnly /\ LearnsNothing /\ NothingKept /\ IdleIsUnknown
    BY <1>13 DEF KnowInv, FirstLife
  <2>2. LearnsOnly'
    BY <1>2, <1>4, <1>7, <2>1 DEF LearnsOnly
  <2>3. LearnsNothing'
    <3> SUFFICES ASSUME NEW t \in Server \ listeners, NEW x \in Server,
                        (Joined(t) \/ (link[t] \in Conn /\ Opens(link[t], "register")))'
                 PROVE  ~ Learns(t, x)'
      BY DEF LearnsNothing
    <3>1. link'[t] \in Conn /\ (Joined(t) \/ (link[t] \in Conn /\ Opens(link[t], "register")))
      BY <1>4, <1>7, <1>9
    <3> QED
      BY <1>4, <2>1, <3>1 DEF LearnsNothing
  <2>4. NothingKept'
    BY <1>5, <2>1 DEF NothingKept
  <2>5. IdleIsUnknown'
    BY <2>1 DEF IdleIsUnknown, Accepted
  <2> QED
    BY <2>2, <2>3, <2>4, <2>5 DEF FirstLife
<1> QED
  BY <1>5, <1>6, <1>8, <1>10, <1>11, <1>12, <1>13 DEF Knowledge, Subscribed

-----------------------------------------------------------------------------
(* The processes read and answer.                                          *)

\* What a registered agent says opens no connection.
LEMMA SayQueues ==
  ASSUME TInv, OpensOnce, NEW s \in Server, link[s] \in Conn, ~ Unknown(link[s]),
         NEW msg \in ToMaster, msg.type \notin {"register", "reconnect"}, Say(s, msg),
         UNCHANGED socket
  PROVE  OpensOnce' /\ \A d \in Conn : Opens(d, "register")' => Opens(d, "register")
<1>1. CASE ~ Live(link[s])
  <2>1. toMaster' = toMaster
    BY <1>1 DEF Say
  <2> QED
    BY <2>1 DEF OpensOnce, Opens
<1>2. CASE Live(link[s])
  <2> DEFINE c == link[s]
  <2>1. /\ toMaster' = [toMaster EXCEPT ![c] = Append(@, msg)] /\ c \in Conn
        /\ toMaster \in [Conn -> Seq(ToMaster)] /\ toMaster[c] \in Seq(ToMaster)
        /\ socket[c] # "open"
    BY <1>2 DEF Say, TInv, TypeOK, Unknown
  <2> HIDE DEF c
  <2>2. toMaster'[c] = Append(toMaster[c], msg) /\ \A d \in Conn : d # c => toMaster'[d] = toMaster[d]
    BY <2>1
  <2>3. \A i \in DOMAIN Append(toMaster[c], msg) :
          \/ i \in DOMAIN toMaster[c] /\ Append(toMaster[c], msg)[i] = toMaster[c][i]
          \/ Append(toMaster[c], msg)[i] = msg
    BY <2>1
  <2>4. socket[c] = "registered" =>
          \A i \in DOMAIN toMaster'[c] : toMaster'[c][i].type \notin {"register", "reconnect"}
    BY <2>1, <2>2, <2>3 DEF OpensOnce
  <2>5. OpensOnce'
    BY <2>1, <2>2, <2>4 DEF OpensOnce
  <2>6. \A d \in Conn : Opens(d, "register")' => Opens(d, "register")
    BY <2>1, <2>2 DEF Opens
  <2> QED
    BY <2>5, <2>6
<1> QED
  BY <1>1, <1>2

LEMMA ReadKnows ==
  ASSUME KnowInv, NEW s \in Server, NEW type, Read(s, type), OpensOnce',
         \A d \in Conn : Opens(d, "register")' => Opens(d, "register"),
         UNCHANGED <<link, owner, socket, idMap, msgMap, servers, listeners>>,
         \A t \in Server : t # s => phase'[t] = phase[t] /\ table'[t] = table[t],
         phase'[s] \in Up,
         \A x \in Server : x \in table'[s] <=>
            \/ Adds(Head(toMonitor[link[s]]), x)
            \/ x \in table[s] /\ ~ Drops(Head(toMonitor[link[s]]), x),
         Joined(s) /\ phase'[s] \in {"starting", "running"} => s \in listeners,
         Opens(link[s], "register") => phase'[s] = "registering"
  PROVE  Knowledge' /\ (~ Respawn => FirstLife')
<1> DEFINE c == link[s]
<1>1. /\ c \in Conn /\ toMonitor[c] \in Seq(ToMonitor) /\ toMonitor[c] # <<>>
      /\ toMonitor'[c] = Tail(toMonitor[c])
      /\ \A d \in Conn : d # c => toMonitor'[d] = toMonitor[d]
  BY DEF Read, KnowInv, DirInv, TInv, TypeOK
<1>2. /\ TInv /\ Linked /\ OpensOnce /\ Starts /\ Registering /\ ToldListens /\ LearnsAll
      /\ servers \subseteq Server /\ listeners \subseteq Server
  BY DEF KnowInv, Knowledge, Subscribed, DirInv, TInv, TypeOK
<1>3. ASSUME NEW t \in Server, NEW x \in Server, link[t] \in Conn
      PROVE  Learns(t, x)' <=> Learns(t, x)
  <2>1. CASE t = s
    <3>1. WillHave(Tail(toMonitor[c]), table'[s], x) <=> WillHave(toMonitor[c], table[s], x)
      BY <1>1, HaveTail
    <3>2. Learns(t, x)' <=> WillHave(Tail(toMonitor[c]), table'[s], x)
      BY <1>1, <2>1 DEF Learns
    <3> QED
      BY <2>1, <3>1, <3>2 DEF Learns
  <2>2. CASE t # s
    <3>1. link[t] # c
      BY <1>1, <1>2, <1>3, <2>2 DEF Linked
    <3> QED
      BY <1>1, <1>3, <2>2, <3>1 DEF Learns
  <2> QED
    BY <2>1, <2>2
<1>4. \A t \in Server : Joined(t)' <=> Joined(t)
  BY DEF Joined
<1>5. Linked'
  BY <1>2 DEF Linked
<1>6. Starts'
  <2>1. \A t \in Server : Joined(t) /\ phase'[t] \in {"starting", "running"} => t \in listeners
    BY <1>2 DEF Starts
  <2> QED
    BY <1>4, <2>1 DEF Starts
<1>7. Registering'
  <2> SUFFICES ASSUME NEW t \in Server, (link[t] \in Conn /\ Opens(link[t], "register"))'
               PROVE  phase'[t] = "registering"
    BY DEF Registering
  <2>1. \A d \in Conn : d = link'[t] => Opens(d, "register")'
    BY DEF Opens
  <2>2. link[t] \in Conn /\ Opens(link[t], "register")
    BY <2>1
  <2> QED
    BY <1>2, <2>2 DEF Registering
<1>8. ToldListens'
  <2>1. \A d \in Conn : Told(toMonitor'[d]) => Told(toMonitor[d])
    BY <1>1, ToldTail
  <2> QED
    BY <1>2, <2>1 DEF ToldListens
<1>9. LearnsAll' /\ (~ Respawn => LearnsOnly' /\ LearnsNothing')
  BY <1>2, <1>3, <1>4, LearnsStay DEF KnowInv, FirstLife
<1>10. ASSUME ~ Respawn PROVE NothingKept' /\ IdleIsUnknown'
  <2>1. NothingKept /\ IdleIsUnknown
    BY <1>10 DEF KnowInv, FirstLife
  <2>2. \A t \in Server : phase'[t] = "idle" => phase[t] = "idle"
    BY DEF Up
  <2> QED
    BY <2>1, <2>2 DEF NothingKept, IdleIsUnknown, Accepted
<1> QED
  BY <1>5, <1>6, <1>7, <1>8, <1>9, <1>10 DEF Knowledge, Subscribed, FirstLife

\* The message at the head of a queue that is read.
LEMMA ReadHead ==
  ASSUME DirInv, NEW s \in Server, NEW type, Read(s, type)
  PROVE  /\ link[s] \in Conn /\ phase[s] \in Up
         /\ Head(toMonitor[link[s]]) \in ToMonitor /\ Head(toMonitor[link[s]]).type = type
         /\ type = "servers" => Told(toMonitor[link[s]])
<1>1. /\ link[s] \in Conn /\ phase[s] \in Up /\ toMonitor[link[s]] # <<>>
      /\ Head(toMonitor[link[s]]).type = type /\ toMonitor[link[s]] \in Seq(ToMonitor)
  BY DEF Read, DirInv, TInv, TypeOK
<1>2. Head(toMonitor[link[s]]) = toMonitor[link[s]][1] /\ 1 \in DOMAIN toMonitor[link[s]]
      /\ Head(toMonitor[link[s]]) \in ToMonitor
  BY <1>1
<1> QED
  BY <1>1, <1>2 DEF Told

LEMMA KnowRegistered ==
  ASSUME KnowInv, NEW s \in Server, OnRegistered(s)
  PROVE  Knowledge' /\ (~ Respawn => FirstLife')
<1>1. /\ Read(s, "registered") /\ phase' = [phase EXCEPT ![s] = "subscribing"]
      /\ Say(s, [type |-> "subscribe"])
      /\ UNCHANGED <<link, table, owner, socket, idMap, msgMap, servers, listeners>>
  BY DEF OnRegistered, masterAgent, watchdog
<1>2. /\ TInv /\ DirInv /\ OpensOnce
      /\ phase \in [Server -> {"idle"} \union Up \union Ended]
  BY DEF KnowInv, Knowledge, DirInv, TInv, TypeOK
<1>3. ~ Unknown(link[s]) /\ link[s] \in Conn /\ Head(toMonitor[link[s]]).type = "registered"
  BY <1>1, <1>2, DirRead, ReadHead
<1>4. [type |-> "subscribe"] \in ToMaster /\ [type |-> "subscribe"].type \notin {"register", "reconnect"}
  BY DEF ToMaster
<1>5. OpensOnce' /\ \A d \in Conn : Opens(d, "register")' => Opens(d, "register")
  BY <1>1, <1>2, <1>3, <1>4, SayQueues
<1>6. phase'[s] = "subscribing" /\ \A t \in Server : t # s => phase'[t] = phase[t]
  BY <1>1, <1>2
<1>7. phase'[s] \in Up
  BY <1>6 DEF Up
<1>8. \A x : ~ Adds(Head(toMonitor[link[s]]), x) /\ ~ Drops(Head(toMonitor[link[s]]), x)
  BY <1>3 DEF Adds, Drops
<1>9. ~ Opens(link[s], "register")
  BY <1>3 DEF Opens, Unknown
<1> QED
  BY <1>1, <1>5, <1>6, <1>7, <1>8, <1>9, ReadKnows

LEMMA KnowReconnected ==
  ASSUME KnowInv, NEW s \in Server, OnReconnected(s)
  PROVE  Knowledge' /\ (~ Respawn => FirstLife')
<1>1. /\ Read(s, "reconnected")
      /\ UNCHANGED <<phase, link, table, owner, socket, toMaster, idMap, msgMap, servers, listeners>>
  BY DEF OnReconnected, masterAgent, watchdog
<1>2. DirInv /\ OpensOnce /\ Starts /\ Registering
  BY DEF KnowInv, Knowledge, Subscribed
<1>3. link[s] \in Conn /\ phase[s] \in Up /\ Head(toMonitor[link[s]]).type = "reconnected"
  BY <1>1, <1>2, ReadHead
<1>4. OpensOnce' /\ \A d \in Conn : Opens(d, "register")' => Opens(d, "register")
  BY <1>1, <1>2 DEF OpensOnce, Opens
<1>5. \A x : ~ Adds(Head(toMonitor[link[s]]), x) /\ ~ Drops(Head(toMonitor[link[s]]), x)
  BY <1>3 DEF Adds, Drops
<1>6. /\ Joined(s) /\ phase'[s] \in {"starting", "running"} => s \in listeners
      /\ Opens(link[s], "register") => phase'[s] = "registering"
  BY <1>1, <1>2, <1>3 DEF Starts, Registering
<1> QED
  BY <1>1, <1>3, <1>4, <1>5, <1>6, ReadKnows

LEMMA KnowServers ==
  ASSUME KnowInv, NEW s \in Server, OnServers(s)
  PROVE  Knowledge' /\ (~ Respawn => FirstLife')
<1> DEFINE m == Head(toMonitor[link[s]])
<1>1. /\ Read(s, "servers") /\ phase' = [phase EXCEPT ![s] = "starting"]
      /\ table' = [table EXCEPT ![s] = @ \union m.servers]
      /\ UNCHANGED <<link, owner, socket, toMaster, idMap, msgMap, servers, listeners>>
  BY DEF OnServers, masterAgent, watchdog
<1>2. /\ DirInv /\ OpensOnce /\ Linked /\ ToldListens
      /\ phase \in [Server -> {"idle"} \union Up \union Ended] /\ table \in [Server -> SUBSET Server]
  BY DEF KnowInv, Knowledge, Subscribed, DirInv, TInv, TypeOK
<1>3. /\ link[s] \in Conn /\ m.type = "servers" /\ Told(toMonitor[link[s]])
      /\ ~ Unknown(link[s])
  BY <1>1, <1>2, ReadHead, DirRead
<1>4. OpensOnce' /\ \A d \in Conn : Opens(d, "register")' => Opens(d, "register")
  BY <1>1, <1>2 DEF OpensOnce, Opens
<1>5. \A x : (Adds(m, x) <=> x \in m.servers) /\ ~ Drops(m, x)
  BY <1>3 DEF Adds, Drops
<1> HIDE DEF m
<1>6. /\ phase'[s] = "starting" /\ table'[s] = table[s] \union m.servers
      /\ \A t \in Server : t # s => phase'[t] = phase[t] /\ table'[t] = table[t]
  BY <1>1, <1>2
<1>7. phase'[s] \in Up
  BY <1>6 DEF Up
<1>8. \A x \in Server : x \in table'[s] <=> Adds(m, x) \/ (x \in table[s] /\ ~ Drops(m, x))
  BY <1>5, <1>6
<1>9. Joined(s) => s \in listeners
  BY <1>2, <1>3 DEF Joined, Linked, ToldListens
<1>10. ~ Opens(link[s], "register")
  BY <1>3 DEF Opens, Unknown
<1> QED
  BY <1>1, <1>4, <1>6, <1>7, <1>8, <1>9, <1>10, ReadKnows DEF m

LEMMA KnowRequest ==
  ASSUME KnowInv, NEW s \in Server, OnRequest(s)
  PROVE  Knowledge' /\ (~ Respawn => FirstLife')
<1> DEFINE m == Head(toMonitor[link[s]])
<1>1. /\ Read(s, "request")
      /\ table' = [table EXCEPT ![s] = Apply(m, @)]
      /\ Say(s, [type |-> "response", id |-> m.id])
      /\ UNCHANGED <<phase, link, owner, socket, idMap, msgMap, servers, listeners>>
  BY DEF OnRequest, masterAgent, watchdog
<1>2. /\ TInv /\ DirInv /\ OpensOnce /\ Starts /\ table \in [Server -> SUBSET Server]
  BY DEF KnowInv, Knowledge, Subscribed, DirInv, TInv, TypeOK
<1>3. /\ link[s] \in Conn /\ phase[s] \in Up /\ m \in ToMonitor /\ m.type = "request"
      /\ ~ Unknown(link[s])
  BY <1>1, <1>2, ReadHead, DirRead
<1> HIDE DEF m
<1>4. m.action \in Action /\ m.id \in Nat \ {0}
  BY <1>3 DEF ToMonitor
<1>5. /\ [type |-> "response", id |-> m.id] \in ToMaster
      /\ [type |-> "response", id |-> m.id].type \notin {"register", "reconnect"}
  BY <1>4 DEF ToMaster
<1>6. OpensOnce' /\ \A d \in Conn : Opens(d, "register")' => Opens(d, "register")
  BY <1>1, <1>2, <1>3, <1>5, SayQueues
<1>7. /\ table'[s] = Apply(m, table[s])
      /\ \A t \in Server : t # s => table'[t] = table[t]
  BY <1>1, <1>2
<1>8. \A x \in Server : x \in Apply(m, table[s]) <=> Adds(m, x) \/ (x \in table[s] /\ ~ Drops(m, x))
  BY <1>3, <1>4 DEF Apply, Adds, Drops, Action
<1>9. ~ Opens(link[s], "register")
  BY <1>3 DEF Opens, Unknown
<1>10. Joined(s) /\ phase'[s] \in {"starting", "running"} => s \in listeners
  BY <1>1, <1>2 DEF Starts
<1> QED
  BY <1>1, <1>3, <1>6, <1>7, <1>8, <1>9, <1>10, ReadKnows DEF m

LEMMA KnowFinish ==
  ASSUME KnowInv, NEW s \in Server, FinishStart(s)
  PROVE  Knowledge' /\ (~ Respawn => FirstLife')
<1>1. /\ phase[s] = "starting" /\ (agent[s] = "registered" => link[s] \in Conn)
      /\ phase' = [phase EXCEPT ![s] = "running"]
      /\ IF agent[s] = "registered" THEN Say(s, [type |-> "record"]) ELSE UNCHANGED toMaster
      /\ UNCHANGED <<link, table, owner, socket, toMonitor, idMap, msgMap, servers, listeners>>
  BY DEF FinishStart, masterAgent, watchdog
<1>2. /\ TInv /\ DirInv /\ OpensOnce /\ Linked /\ Starts /\ Registering /\ ToldListens /\ LearnsAll
      /\ phase \in [Server -> {"idle"} \union Up \union Ended]
      /\ servers \subseteq Server /\ listeners \subseteq Server
  BY DEF KnowInv, Knowledge, Subscribed, DirInv, TInv, TypeOK
<1>3. OpensOnce' /\ \A d \in Conn : Opens(d, "register")' => Opens(d, "register")
  <2>1. CASE agent[s] = "registered"
    <3>1. link[s] \in Conn /\ ~ Unknown(link[s]) /\ Say(s, [type |-> "record"])
      BY <1>1, <1>2, <2>1 DEF DirInv, Directory, RegisteredOn
    <3>2. [type |-> "record"] \in ToMaster /\ [type |-> "record"].type \notin {"register", "reconnect"}
      BY DEF ToMaster
    <3> QED
      BY <1>1, <1>2, <3>1, <3>2, SayQueues
  <2>2. CASE agent[s] # "registered"
    BY <1>1, <1>2, <2>2 DEF OpensOnce, Opens
  <2> QED
    BY <2>1, <2>2
<1>4. phase'[s] = "running" /\ \A t \in Server : t # s => phase'[t] = phase[t]
  BY <1>1, <1>2
<1>5. Linked'
  BY <1>1, <1>2, <1>4 DEF Linked, Up
<1>6. \A t \in Server : Joined(t)' <=> Joined(t)
  BY <1>1 DEF Joined
<1>7. Starts'
  <2>1. \A t \in Server : Joined(t) /\ phase'[t] \in {"starting", "running"} => t \in listeners
    BY <1>1, <1>2, <1>4 DEF Starts
  <2> QED
    BY <1>1, <1>6, <2>1 DEF Starts
<1>8. Registering'
  <2> SUFFICES ASSUME NEW t \in Server, (link[t] \in Conn /\ Opens(link[t], "register"))'
               PROVE  phase'[t] = "registering"
    BY DEF Registering
  <2>1. \A d \in Conn : d = link'[t] => Opens(d, "register")'
    BY DEF Opens
  <2>2. link[t] \in Conn /\ Opens(link[t], "register")
    BY <1>1, <1>3, <2>1
  <2> QED
    BY <1>1, <1>2, <1>4, <2>2 DEF Registering
<1>9. ToldListens'
  BY <1>1, <1>2 DEF ToldListens, Told
<1>10. LearnsAll' /\ (~ Respawn => LearnsOnly' /\ LearnsNothing')
  <2>1. \A t \in Server : \A x \in Server : Learns(t, x)' <=> Learns(t, x)
    BY <1>1 DEF Learns
  <2> QED
    BY <1>1, <1>2, <1>3, <1>6, <2>1, LearnsStay DEF KnowInv, FirstLife
<1>11. ASSUME ~ Respawn PROVE NothingKept' /\ IdleIsUnknown'
  <2>1. NothingKept /\ IdleIsUnknown
    BY <1>11 DEF KnowInv, FirstLife
  <2>2. \A t \in Server : phase'[t] = "idle" => phase[t] = "idle"
    BY <1>4
  <2> QED
    BY <1>1, <1>3, <2>1, <2>2 DEF NothingKept, IdleIsUnknown, Accepted
<1> QED
  BY <1>3, <1>5, <1>7, <1>8, <1>9, <1>10, <1>11 DEF Knowledge, Subscribed, FirstLife

LEMMA KnowInit == Init => KnowInv
<1> SUFFICES ASSUME Init PROVE KnowInv
  OBVIOUS
<1>1. DirInv
  BY DirInit
<1>2. /\ \A s \in Server : link[s] \notin Conn /\ idMap[s] = NoConn /\ msgMap[s] = <<>>
      /\ \A c \in Conn : socket[c] = "unused" /\ toMonitor[c] = <<>>
      /\ listeners = {}
  BY NoSuchConn DEF Init
<1>3. \A c \in Conn : ~ Opens(c, "register") /\ ~ Accepted(c) /\ ~ Told(toMonitor[c])
  BY <1>2, NoMessage DEF Opens, Accepted
<1>4. \A s \in Server : ~ Joined(s)
  BY <1>2 DEF Joined
<1>5. Linked /\ OpensOnce
  BY <1>2 DEF Linked, OpensOnce
<1>6. Subscribed /\ LearnsAll
  BY <1>2, <1>3, <1>4 DEF Subscribed, Starts, Registering, ToldListens, LearnsAll
<1>7. FirstLife
  BY <1>2, <1>3, <1>4 DEF FirstLife, LearnsOnly, LearnsNothing, NothingKept, IdleIsUnknown
<1> QED
  BY <1>1, <1>5, <1>6, <1>7 DEF KnowInv, Knowledge

LEMMA KnowServerStep ==
  ASSUME KnowInv, NEW s \in Server,
         \/ Boot(s) \/ Reconnect(s) \/ OnSocketClose(s) \/ CheckKeepAlive(s) \/ Crash(s)
         \/ OnRegistered(s) \/ OnReconnected(s) \/ OnServers(s) \/ OnRequest(s)
         \/ FinishStart(s) \/ FinishStartThrows(s)
  PROVE  Knowledge' /\ (~ Respawn => FirstLife')
<1>1. CASE Boot(s) \/ Reconnect(s)
  BY <1>1, KnowBoot, KnowReconnects
<1>2. CASE OnSocketClose(s) \/ CheckKeepAlive(s)
  <2>1. /\ Unplug(s, Lost) \/ Unplug(s, GivenUp)
        /\ UNCHANGED <<phase, table, owner, socket, toMaster, idMap, msgMap, servers, listeners>>
    BY <1>2 DEF OnSocketClose, CheckKeepAlive, masterAgent, watchdog
  <2> QED
    BY <2>1, KnowUnplugged
<1>3. CASE Crash(s) \/ FinishStartThrows(s)
  <2>1. /\ Unplug(s, Lost)
        /\ phase' = [phase EXCEPT ![s] = "dead"] \/ phase' = [phase EXCEPT ![s] = "thrown"]
        /\ UNCHANGED <<table, owner, socket, toMaster, idMap, msgMap, servers, listeners>>
    BY <1>3 DEF Crash, FinishStartThrows, Exit, masterAgent, watchdog
  <2>2. phase \in [Server -> {"idle"} \union Up \union Ended]
    BY DEF KnowInv, DirInv, TInv, TypeOK
  <2>3. phase'[s] # "idle" /\ \A t \in Server : t # s => phase'[t] = phase[t]
    BY <2>1, <2>2
  <2> QED
    BY <2>1, <2>3, KnowUnplugged
<1>4. CASE OnRegistered(s) \/ OnReconnected(s) \/ OnServers(s) \/ OnRequest(s) \/ FinishStart(s)
  BY <1>4, KnowRegistered, KnowReconnected, KnowServers, KnowRequest, KnowFinish
<1> QED
  BY <1>1, <1>2, <1>3, <1>4

LEMMA KnowStutter == ASSUME KnowInv, UNCHANGED vars PROVE KnowInv'
<1>1. /\ UNCHANGED <<phase, agent, link, table, owner, socket, toMaster, toMonitor>>
      /\ UNCHANGED <<idMap, msgMap, servers, listeners>>
  BY DEF vars, process, network, masterAgent, watchdog
<1>2. DirInv'
  BY <1>1, DirStep, TInvStep, NamesStay, AsksStay, RefusedStay
     DEF KnowInv, DirInv, Directory, RegisteredOn, Unknown
<1>3. \A c \in Conn : /\ Opens(c, "register")' <=> Opens(c, "register")
                      /\ Accepted(c)' <=> Accepted(c)
                      /\ Told(toMonitor[c])' <=> Told(toMonitor[c])
  BY <1>1 DEF Opens, Accepted, Told
<1>4. \A s \in Server : /\ Joined(s)' <=> Joined(s)
                        /\ \A x \in Server : Learns(s, x)' <=> Learns(s, x)
  BY <1>1 DEF Joined, Learns
<1>5. Linked' /\ OpensOnce'
  BY <1>1 DEF KnowInv, Knowledge, Linked, OpensOnce
<1>6. Starts' /\ ToldListens'
  BY <1>1, <1>3, <1>4 DEF KnowInv, Knowledge, Subscribed, Starts, ToldListens
<1>7. Registering'
  BY <1>1, <1>3, RegisteringKept DEF KnowInv, Knowledge, Subscribed
<1>8. LearnsAll' /\ (~ Respawn => LearnsOnly' /\ LearnsNothing')
  BY <1>1, <1>3, <1>4, LearnsStay
     DEF KnowInv, Knowledge, FirstLife, DirInv, TInv, TypeOK
<1>9. ~ Respawn => NothingKept' /\ IdleIsUnknown'
  BY <1>1, <1>3 DEF KnowInv, FirstLife, NothingKept, IdleIsUnknown
<1> QED
  BY <1>2, <1>5, <1>6, <1>7, <1>8, <1>9 DEF KnowInv, Knowledge, Subscribed, FirstLife

LEMMA KnowStep == ASSUME ~ LateCloses PROVE KnowInv /\ [Next]_vars => KnowInv'
<1> SUFFICES ASSUME KnowInv, [Next]_vars PROVE KnowInv'
  OBVIOUS
<1>1. DirInv'
  BY DirStep DEF KnowInv
<1>2. CASE UNCHANGED vars
  BY <1>2, KnowStutter
<1>3. CASE Next
  <2>1. Knowledge' /\ (~ Respawn => FirstLife')
    <3>1. ASSUME NEW s \in Server,
                 \/ Boot(s) \/ Reconnect(s) \/ OnSocketClose(s) \/ CheckKeepAlive(s) \/ Crash(s)
                 \/ OnRegistered(s) \/ OnReconnected(s) \/ OnServers(s) \/ OnRequest(s)
                 \/ FinishStart(s) \/ FinishStartThrows(s)
          PROVE  Knowledge' /\ (~ Respawn => FirstLife')
      BY <3>1, KnowServerStep
    <3>2. ASSUME NEW c \in Conn,
                 \/ OnRegister(c) \/ RefuseReconnect(c) \/ OnReconnect(c)
                 \/ OnSubscribe(c) \/ OnRecord(c) \/ OnResponse(c) \/ OnDisconnect(c)
          PROVE  Knowledge' /\ (~ Respawn => FirstLife')
      <4>1. ~ RefuseReconnect(c)
        BY NeverRefused DEF KnowInv, Knowledge
      <4> QED
        BY <1>1, <3>2, <4>1, KnowRegister, KnowReconnect, KnowSubscribe, KnowRecord,
           KnowResponse, KnowDisconnect
    <3>3. CASE RestartMaster
      BY <3>3, KnowRestart
    <3> QED
      BY <1>3, <3>1, <3>2, <3>3 DEF Next
  <2> QED
    BY <1>1, <2>1 DEF KnowInv
<1> QED
  BY <1>2, <1>3

-----------------------------------------------------------------------------
(* When nothing is under way.                                              *)

\* The connections of the living are those the master has.
LEMMA QuietJoined ==
  ASSUME KnowInv, Quiet, NEW s \in Server
  PROVE  /\ phase[s] \in Up => Joined(s) /\ s \in servers /\ MasterRuns
         /\ MasterRuns /\ s \in servers => phase[s] \in Up
<1>1. DirInv /\ TInv /\ Names /\ Linked /\ OpensOnce
  BY DEF KnowInv, Knowledge, DirInv, Directory
<1>2. ASSUME phase[s] \in Up PROVE Joined(s) /\ s \in servers /\ MasterRuns
  <2> DEFINE c == link[s]
  <2>1. c \in Conn /\ owner[c] = s
    BY <1>1, <1>2 DEF Quiet, Alive, Linked
  <2>2. Live(c)
    BY <2>1 DEF Quiet, Heard
  <2>3. socket[c] # "open"
    BY <1>1, <2>1 DEF OpensOnce, Quiet
  <2>4. idMap[s] = c
    BY <1>1, <2>1, <2>2, <2>3 DEF Live, Accepted, Names
  <2>5. idMap[s] # NoConn
    BY <2>1, <2>4, NoSuchConn
  <2> QED
    BY <1>1, <2>1, <2>2, <2>4, <2>5 DEF Joined, Live, Names
<1>3. ASSUME MasterRuns, s \in servers PROVE phase[s] \in Up
  <2>1. idMap[s] # NoConn /\ idMap[s] \in Conn
    BY <1>1, <1>3, IdMapConn DEF Names
  <2>2. socket[idMap[s]] = "registered" /\ owner[idMap[s]] = s
    BY <1>1, <2>1 DEF Names
  <2>3. Heard(idMap[s])
    BY <1>3, <2>1, <2>2 DEF Quiet, Live, Accepted
  <2> QED
    BY <1>1, <2>1, <2>2, <2>3 DEF Heard, Linked
<1> QED
  BY <1>2, <1>3

LEMMA QuietLearns ==
  ASSUME KnowInv, Quiet, NEW s \in Server, link[s] \in Conn, NEW x
  PROVE  Learns(s, x) <=> x \in table[s]
<1>1. toMonitor[link[s]] = <<>>
  BY DEF Quiet
<1> QED
  BY <1>1, NoMessage DEF Learns, WillHave

LEMMA QuietListens ==
  ASSUME KnowInv, Quiet, NEW s \in Server, Attached(s)
  PROVE  Joined(s) /\ s \in listeners /\ link[s] \in Conn /\ MasterRuns
<1>1. phase[s] \in Up /\ phase[s] \in {"starting", "running"}
  BY DEF Attached, Up
<1>2. Joined(s) /\ MasterRuns
  BY <1>1, QuietJoined
<1> QED
  BY <1>1, <1>2 DEF KnowInv, Knowledge, Subscribed, Starts, Joined

LEMMA KnowLiving == KnowInv => KnowsTheLiving
<1> SUFFICES ASSUME KnowInv, Quiet, NEW s \in Server, Attached(s), NEW x \in Alive
             PROVE  x \in table[s]
  BY DEF KnowsTheLiving
<1>1. x \in Server /\ phase[x] \in Up
  BY DEF Alive
<1>2. x \in servers
  BY <1>1, QuietJoined
<1>3. Joined(s) /\ s \in listeners /\ link[s] \in Conn
  BY QuietListens
<1>4. Learns(s, x)
  BY <1>2, <1>3 DEF KnowInv, Knowledge, LearnsAll
<1> QED
  BY <1>3, <1>4, QuietLearns

LEMMA KnowDead == KnowInv /\ ~ Respawn => KnowsNoDead
<1> SUFFICES ASSUME KnowInv, ~ Respawn, Quiet, NEW s \in Server, Attached(s), NEW x \in table[s]
             PROVE  x \in Alive
  BY DEF KnowsNoDead
<1>1. x \in Server
  BY DEF KnowInv, DirInv, TInv, TypeOK
<1>2. Joined(s) /\ s \in listeners /\ link[s] \in Conn /\ MasterRuns
  BY QuietListens
<1>3. Learns(s, x)
  BY <1>2, QuietLearns
<1>4. x \in servers
  BY <1>1, <1>2, <1>3 DEF KnowInv, FirstLife, LearnsOnly
<1> QED
  BY <1>1, <1>2, <1>4, QuietJoined DEF Alive

-----------------------------------------------------------------------------
(* When all have started.                                                  *)

\* A message of the type is in the queue, and at most one.
Has(q, type) == \E i \in DOMAIN q : q[i].type = type
Single(q, type) == \A i, j \in DOMAIN q : q[i].type = type /\ q[j].type = type => i = j

\* A question of the start of a process, or its answer, is on its way while the
\* process waits for it, and only then.
Waits(asked, answered, p, ask, answer, waiting) ==
  /\ Single(asked, ask) /\ Single(answered, answer)
  /\ ~ (Has(asked, ask) /\ Has(answered, answer))
  /\ Has(asked, ask) \/ Has(answered, answer) => p = waiting
Staged(asked, answered, p) ==
  /\ Waits(asked, answered, p, "register", "registered", "registering")
  /\ Waits(asked, answered, p, "subscribe", "servers", "subscribing")
Stages == \A s \in Server :
  link[s] \in Conn => Staged(toMaster[link[s]], toMonitor[link[s]], phase[s])

\* Only a connection that is heard has messages for its server.
Mail == \A c \in Conn : toMonitor[c] # <<>> => Heard(c)

\* The connections with a record that the master has not counted.
Pending == {c \in Conn : Has(toMaster[c], "record")}
Recorded ==
  /\ \A c \in Pending : /\ owner[c] \in Server /\ phase[owner[c]] \in {"running", "dead"}
                        /\ Single(toMaster[c], "record")
  /\ \A c, d \in Pending : owner[c] = owner[d] => c = d

\* The servers that have started, or ended, of which no record will come.
Done == {s \in Server : phase[s] \in {"running", "dead"} /\ \A c \in Pending : owner[c] # s}
Enough ==
  /\ Cardinality(Server) - 1 - count <= Cardinality(Done)
  /\ isStarted => count < 0

StartInv == TInv /\ Linked /\ Mail /\ Stages /\ Recorded /\ Enough

\* Messages of a type, when a queue is read and when it grows.
LEMMA HasTail ==
  ASSUME NEW X, NEW q \in Seq(X), q # <<>>, NEW type
  PROVE  /\ Has(Tail(q), type) => Has(q, type)
         /\ Single(q, type) => Single(Tail(q), type)
         /\ Head(q).type = type => Has(q, type)
         /\ Single(q, type) /\ Head(q).type = type => ~ Has(Tail(q), type)
<1>1. \A i \in DOMAIN Tail(q) : i + 1 \in DOMAIN q /\ i + 1 # 1 /\ Tail(q)[i] = q[i + 1]
  OBVIOUS
<1>2. 1 \in DOMAIN q /\ Head(q) = q[1]
  OBVIOUS
<1>3. \A i, j \in DOMAIN Tail(q) : i + 1 = j + 1 => i = j
  OBVIOUS
<1>4. Has(Tail(q), type) => Has(q, type)
  BY <1>1 DEF Has
<1>5. Single(q, type) => Single(Tail(q), type)
  BY <1>1, <1>3 DEF Single
<1>6. Head(q).type = type => Has(q, type)
  BY <1>2 DEF Has
<1>7. Single(q, type) /\ Head(q).type = type => ~ Has(Tail(q), type)
  BY <1>1, <1>2 DEF Has, Single
<1> QED
  BY <1>4, <1>5, <1>6, <1>7

LEMMA HasConcat ==
  ASSUME NEW X, NEW q \in Seq(X), NEW r \in Seq(X), NEW type
  PROVE  /\ Has(q \o r, type) <=> Has(q, type) \/ Has(r, type)
         /\ Single(q, type) /\ ~ Has(r, type) => Single(q \o r, type)
         /\ Single(r, type) /\ ~ Has(q, type) => Single(q \o r, type)
<1>1. /\ \A i \in DOMAIN q : i \in DOMAIN (q \o r) /\ (q \o r)[i] = q[i]
      /\ \A i \in DOMAIN r : Len(q) + i \in DOMAIN (q \o r) /\ (q \o r)[Len(q) + i] = r[i]
  OBVIOUS
<1>2. \A i \in DOMAIN (q \o r) :
        \/ i \in DOMAIN q /\ (q \o r)[i] = q[i]
        \/ i - Len(q) \in DOMAIN r /\ (q \o r)[i] = r[i - Len(q)]
  OBVIOUS
<1>3. \A i, j \in DOMAIN (q \o r) : i - Len(q) = j - Len(q) => i = j
  OBVIOUS
<1>4. Has(q \o r, type) <=> Has(q, type) \/ Has(r, type)
  BY <1>1, <1>2, ZenonT(40) DEF Has
<1>5. Single(q, type) /\ ~ Has(r, type) => Single(q \o r, type)
  BY <1>2 DEF Has, Single
<1>6. Single(r, type) /\ ~ Has(q, type) => Single(q \o r, type)
  BY <1>2, <1>3 DEF Has, Single
<1> QED
  BY <1>4, <1>5, <1>6

LEMMA HasOne ==
  ASSUME NEW m, NEW type
  PROVE  /\ Has(<<m>>, type) <=> m.type = type
         /\ Single(<<m>>, type) /\ ~ Has(<<>>, type) /\ Single(<<>>, type)
<1>1. DOMAIN <<m>> = {1} /\ <<m>>[1] = m /\ DOMAIN <<>> = {}
  OBVIOUS
<1> QED
  BY <1>1 DEF Has, Single

LEMMA HasAppend ==
  ASSUME NEW X, NEW q \in Seq(X), NEW m \in X, NEW type
  PROVE  /\ Has(Append(q, m), type) <=> Has(q, type) \/ m.type = type
         /\ Single(q, type) /\ ~ (m.type = type /\ Has(q, type)) => Single(Append(q, m), type)
<1>1. Append(q, m) = q \o <<m>> /\ <<m>> \in Seq(X)
  OBVIOUS
<1>2. /\ Has(q \o <<m>>, type) <=> Has(q, type) \/ Has(<<m>>, type)
      /\ Single(q, type) /\ ~ Has(<<m>>, type) => Single(q \o <<m>>, type)
      /\ Single(<<m>>, type) /\ ~ Has(q, type) => Single(q \o <<m>>, type)
  BY <1>1, HasConcat
<1> QED
  BY <1>1, <1>2, HasOne

\* Requests ask nothing of the start and answer nothing.
LEMMA HasNoPacket ==
  ASSUME NEW d, NEW news, NEW to, NEW known, NEW rs, NEW type, type # "request"
  PROVE  ~ Has(Packets(rs, known), type) /\ ~ Has(Addressed(d, news, to, known), type)
<1>1. \A ms : ~ Has(Packets(ms, known), type)
  BY DEF Has, Packets, Packet
<1>2. ~ Has(<<>>, type)
  BY HasOne
<1> QED
  BY <1>1, <1>2 DEF Addressed

LEMMA SingleNone == ASSUME NEW q, NEW type, ~ Has(q, type) PROVE Single(q, type)
BY DEF Has, Single

\* The master takes the question away and answers it once.
LEMMA WaitsAnswered ==
  ASSUME NEW X, NEW asked, NEW left, NEW answered \in Seq(X), NEW r \in Seq(X), NEW p,
         NEW ask, NEW answer, NEW waiting, Waits(asked, answered, p, ask, answer, waiting),
         Has(left, ask) => Has(asked, ask), Single(left, ask),
         Single(r, answer), Has(r, answer) => Has(asked, ask) /\ ~ Has(left, ask)
  PROVE  Waits(left, answered \o r, p, ask, answer, waiting)
<1>1. /\ Has(answered \o r, answer) <=> Has(answered, answer) \/ Has(r, answer)
      /\ Single(answered, answer) /\ ~ Has(r, answer) => Single(answered \o r, answer)
      /\ Single(r, answer) /\ ~ Has(answered, answer) => Single(answered \o r, answer)
  BY HasConcat
<1> QED
  BY <1>1 DEF Waits

-----------------------------------------------------------------------------
(* The master and the start of the others.                                 *)

\* Queues of the master only lose messages.
Loses == \A d \in Conn : \A type \in {"register", "subscribe", "record"} :
  /\ Has(toMaster'[d], type) => Has(toMaster[d], type)
  /\ Single(toMaster[d], type) => Single(toMaster'[d], type)

\* The master takes one message of the type from c.
Takes(c, type) ==
  /\ Has(toMaster[c], type)
  /\ Single(toMaster[c], type) => ~ Has(toMaster'[c], type)

\* The master sends, and of the answers it is this one, once and on c.
Sends(c, answer) ==
  \E r \in [Conn -> Seq(ToMonitor)] : \A d \in Conn :
    /\ toMonitor'[d] = Arrive(d, r[d])
    /\ \A type \in {"registered", "servers"} :
         Single(r[d], type) /\ (Has(r[d], type) => d = c /\ answer = type)

LEMMA ReceiveLoses ==
  ASSUME TInv, NEW c \in Conn, NEW type, Receive(c, type)
  PROVE  Loses /\ Takes(c, type)
<1>1. /\ toMaster[c] \in Seq(ToMaster) /\ toMaster[c] # <<>> /\ Head(toMaster[c]).type = type
      /\ toMaster'[c] = Tail(toMaster[c])
      /\ \A d \in Conn : d # c => toMaster'[d] = toMaster[d]
  BY DEF Receive, TInv, TypeOK
<1>2. \A t : /\ Has(toMaster'[c], t) => Has(toMaster[c], t)
             /\ Single(toMaster[c], t) => Single(toMaster'[c], t)
  BY <1>1, HasTail
<1>3. Takes(c, type)
  BY <1>1, HasTail DEF Takes
<1>4. ASSUME NEW d \in Conn, NEW t
      PROVE  /\ Has(toMaster'[d], t) => Has(toMaster[d], t)
             /\ Single(toMaster[d], t) => Single(toMaster'[d], t)
  <2>1. CASE d = c
    BY <2>1, <1>2
  <2>2. CASE d # c
    BY <2>2, <1>1
  <2> QED
    BY <2>1, <2>2
<1> QED
  BY <1>3, <1>4 DEF Loses

LEMMA SendsReply ==
  ASSUME TInv, NEW c \in Conn, NEW m \in ToMonitor, Reply(c, m) PROVE Sends(c, m.type)
<1> DEFINE R == [d \in Conn |-> IF d = c THEN <<m>> ELSE <<>>]
<1>1. R \in [Conn -> Seq(ToMonitor)]
  OBVIOUS
<1>2. \A d \in Conn : toMonitor'[d] = Arrive(d, R[d])
  BY DEF Reply
<1>3. \A d \in Conn : \A type : Single(R[d], type) /\ (Has(R[d], type) => d = c /\ m.type = type)
  BY HasOne
<1> HIDE DEF R
<1> QED
  BY <1>1, <1>2, <1>3 DEF Sends

LEMMA SendsTold ==
  ASSUME TInv, NEW c, NEW answer, NEW news \in [Server -> Seq(Entry)], NEW to,
         NEW known \in SUBSET Server,
         toMonitor' = [d \in Conn |-> Arrive(d, Addressed(d, news, to, known))]
  PROVE  Sends(c, answer)
<1> DEFINE R == [d \in Conn |-> Addressed(d, news, to, known)]
<1>1. R \in [Conn -> Seq(ToMonitor)]
  BY AddressedType
<1>2. \A d \in Conn : toMonitor'[d] = Arrive(d, R[d])
  OBVIOUS
<1>3. \A d \in Conn, type \in {"registered", "servers"} : ~ Has(R[d], type)
  BY HasNoPacket
<1> HIDE DEF R
<1> QED
  BY <1>1, <1>2, <1>3, SingleNone DEF Sends

LEMMA SendsNothing ==
  ASSUME TInv, Mail, UNCHANGED toMonitor, NEW c, NEW answer PROVE Sends(c, answer)
<1> DEFINE R == [d \in Conn |-> <<>>]
<1>1. R \in [Conn -> Seq(ToMonitor)]
  OBVIOUS
<1>2. ASSUME NEW d \in Conn PROVE toMonitor'[d] = Arrive(d, <<>>)
  <2>1. toMonitor[d] \in Seq(ToMonitor)
    BY DEF TInv, TypeOK
  <2>2. toMonitor[d] \o <<>> = toMonitor[d]
    BY <2>1
  <2> QED
    BY <2>2 DEF Arrive, Mail
<1>3. \A d \in Conn : \A type : ~ Has(R[d], type) /\ Single(R[d], type)
  BY HasOne
<1>4. \A d \in Conn : R[d] = <<>>
  OBVIOUS
<1> HIDE DEF R
<1> QED
  BY <1>1, <1>2, <1>3, <1>4 DEF Sends

LEMMA SendsWelcome ==
  ASSUME TInv, NEW c \in Conn, owner[c] \in Server, NEW m \in ToMonitor,
         NEW news \in [Server -> Seq(Entry)],
         NEW to, NEW known \in SUBSET Server, Welcome(c, m, news, to, known)
  PROVE  Sends(c, m.type)
<1> DEFINE kept == Packets(msgMap[owner[c]] \o news[owner[c]], known)
           A(d) == IF d = c THEN <<m>> ELSE <<>>
           B(d) == Addressed(d, news, to, known)
           K(d) == IF d = c THEN kept ELSE <<>>
           R == [d \in Conn |-> A(d) \o B(d) \o K(d)]
<1>1. kept \in Seq(ToMonitor)
  <2>1. msgMap[owner[c]] \in Seq(Entry) /\ news[owner[c]] \in Seq(Entry)
    BY DEF TInv, TypeOK
  <2>2. msgMap[owner[c]] \o news[owner[c]] \in Seq(Entry)
    BY <2>1
  <2> QED
    BY <2>2, PacketsType
<1>2. \A d \in Conn : A(d) \in Seq(ToMonitor) /\ B(d) \in Seq(ToMonitor) /\ K(d) \in Seq(ToMonitor)
  BY <1>1, AddressedType
<1>3. \A d \in Conn : toMonitor'[d] = Arrive(d, R[d])
  BY DEF Welcome
<1>4. \A d \in Conn : \A type :
        Single(A(d), type) /\ (Has(A(d), type) => d = c /\ m.type = type)
  BY HasOne
<1>5. \A d \in Conn, type \in {"registered", "servers"} : ~ Has(B(d), type) /\ ~ Has(K(d), type)
  BY HasNoPacket, HasOne
<1>6. \A d \in Conn : R[d] = A(d) \o B(d) \o K(d)
  OBVIOUS
<1> HIDE DEF A, B, K
<1>7. R \in [Conn -> Seq(ToMonitor)]
  <2>1. \A d \in Conn : A(d) \o B(d) \o K(d) \in Seq(ToMonitor)
    BY <1>2
  <2> QED
    BY <2>1
<1> HIDE DEF R
<1>8. ASSUME NEW d \in Conn, NEW type \in {"registered", "servers"}
      PROVE  Single(R[d], type) /\ (Has(R[d], type) => d = c /\ m.type = type)
  <2>1. A(d) \o B(d) \in Seq(ToMonitor) /\ A(d) \in Seq(ToMonitor) /\ B(d) \in Seq(ToMonitor)
        /\ K(d) \in Seq(ToMonitor)
    BY <1>2
  <2>2. /\ Has(A(d) \o B(d), type) <=> Has(A(d), type) \/ Has(B(d), type)
        /\ Single(A(d), type) /\ ~ Has(B(d), type) => Single(A(d) \o B(d), type)
    BY <2>1, HasConcat
  <2>3. /\ Has((A(d) \o B(d)) \o K(d), type) <=> Has(A(d) \o B(d), type) \/ Has(K(d), type)
        /\ Single(A(d) \o B(d), type) /\ ~ Has(K(d), type)
             => Single((A(d) \o B(d)) \o K(d), type)
    BY <2>1, HasConcat
  <2> QED
    BY <2>2, <2>3, <1>4, <1>5, <1>6
<1> QED
  BY <1>3, <1>7, <1>8 DEF Sends

\* A step of the master keeps the stages of the others.
LEMMA StagesServed ==
  ASSUME TInv, Linked, Mail, Stages, UNCHANGED <<phase, link, owner>>,
         NEW c \in Conn, NEW answer, Sends(c, answer), Loses,
         answer = "registered" => Takes(c, "register"),
         answer = "servers" => Takes(c, "subscribe"),
         \A d \in Conn : socket[d] # "unused" => socket'[d] # "unused"
  PROVE  Linked' /\ Mail' /\ Stages'
<1>1. Linked'
  BY DEF Linked
<1>2. PICK r \in [Conn -> Seq(ToMonitor)] : \A d \in Conn :
        /\ toMonitor'[d] = Arrive(d, r[d])
        /\ \A type \in {"registered", "servers"} :
             Single(r[d], type) /\ (Has(r[d], type) => d = c /\ answer = type)
  BY DEF Sends
<1>3. Mail'
  BY <1>2 DEF Mail, Arrive, Heard
<1>4. ASSUME NEW s \in Server, link[s] \in Conn
      PROVE  Staged(toMaster'[link[s]], toMonitor'[link[s]], phase[s])
  <2> DEFINE d == link[s]
  <2>1. Staged(toMaster[d], toMonitor[d], phase[s]) /\ d \in Conn
    BY <1>4 DEF Stages
  <2>2. toMonitor'[d] = toMonitor[d] \o r[d]
    BY <1>2, <1>4, LinkedHeard DEF Arrive
  <2>3. toMonitor[d] \in Seq(ToMonitor) /\ r[d] \in Seq(ToMonitor)
    BY <2>1 DEF TInv, TypeOK
  <2> HIDE DEF d
  <2>4. Waits(toMaster'[d], toMonitor[d] \o r[d], phase[s], "register", "registered", "registering")
    <3>1. Waits(toMaster[d], toMonitor[d], phase[s], "register", "registered", "registering")
      BY <2>1 DEF Staged
    <3>2. /\ Has(toMaster'[d], "register") => Has(toMaster[d], "register")
          /\ Single(toMaster'[d], "register") /\ Single(toMaster[d], "register")
      BY <2>1, <3>1 DEF Loses, Waits
    <3>3. /\ Single(r[d], "registered")
          /\ Has(r[d], "registered") => Has(toMaster[d], "register") /\ ~ Has(toMaster'[d], "register")
      BY <1>2, <2>1, <3>2 DEF Takes
    <3> QED
      BY <2>3, <3>1, <3>2, <3>3, WaitsAnswered
  <2>5. Waits(toMaster'[d], toMonitor[d] \o r[d], phase[s], "subscribe", "servers", "subscribing")
    <3>1. Waits(toMaster[d], toMonitor[d], phase[s], "subscribe", "servers", "subscribing")
      BY <2>1 DEF Staged
    <3>2. /\ Has(toMaster'[d], "subscribe") => Has(toMaster[d], "subscribe")
          /\ Single(toMaster'[d], "subscribe") /\ Single(toMaster[d], "subscribe")
      BY <2>1, <3>1 DEF Loses, Waits
    <3>3. /\ Single(r[d], "servers")
          /\ Has(r[d], "servers") => Has(toMaster[d], "subscribe") /\ ~ Has(toMaster'[d], "subscribe")
      BY <1>2, <2>1, <3>2 DEF Takes
    <3> QED
      BY <2>3, <3>1, <3>2, <3>3, WaitsAnswered
  <2> QED
    BY <2>2, <2>4, <2>5 DEF Staged, d
<1>5. Stages'
  BY <1>4 DEF Stages
<1> QED
  BY <1>1, <1>3, <1>5

\* As long as no record is added, who is done stays so ...
LEMMA RecordedKept ==
  ASSUME Recorded,
         \A c \in Pending' : /\ c \in Pending /\ owner'[c] = owner[c]
                             /\ Single(toMaster[c], "record") => Single(toMaster'[c], "record"),
         \A s \in Server : phase[s] \in {"running", "dead"} => phase'[s] \in {"running", "dead"}
  PROVE  Recorded' /\ Done \subseteq Done'
<1>1. \A c \in Pending' : owner'[c] \in Server /\ phase'[owner'[c]] \in {"running", "dead"}
  BY DEF Recorded
<1>2. \A c \in Pending' : Single(toMaster'[c], "record")
  BY DEF Recorded
<1>3. \A c, d \in Pending' : owner'[c] = owner'[d] => c = d
  BY DEF Recorded
<1>4. Done \subseteq Done'
  BY DEF Done
<1> QED
  BY <1>1, <1>2, <1>3, <1>4 DEF Recorded

\* ... and as long as none is counted, they are enough.
LEMMA EnoughKept ==
  ASSUME TInv, Enough, UNCHANGED <<count, isStarted>>, Done \subseteq Done' PROVE Enough'
<1>1. Cardinality(Done) <= Cardinality(Done') /\ Cardinality(Done) \in Nat /\ Cardinality(Done') \in Nat
  <2>1. IsFiniteSet(Done')
    BY ConstantsAssumption, FS_Subset DEF Done
  <2> QED
    BY <2>1, FS_Subset, FS_CardinalityType
<1>2. count \in Int
  BY DEF TInv, TypeOK
<1> QED
  BY <1>1, <1>2, ConnType DEF Enough

LEMMA RecordsKept ==
  ASSUME TInv, Recorded, Enough, UNCHANGED <<count, isStarted>>,
         \A c \in Pending' : /\ c \in Pending /\ owner'[c] = owner[c]
                             /\ Single(toMaster[c], "record") => Single(toMaster'[c], "record"),
         \A s \in Server : phase[s] \in {"running", "dead"} => phase'[s] \in {"running", "dead"}
  PROVE  Recorded' /\ Enough'
BY RecordedKept, EnoughKept

LEMMA RecordsLost ==
  ASSUME TInv, Recorded, Enough, Loses, UNCHANGED <<phase, owner, count, isStarted>>
  PROVE  Recorded' /\ Enough'
<1>1. \A c \in Pending' : /\ c \in Pending
                          /\ Single(toMaster[c], "record") => Single(toMaster'[c], "record")
  BY DEF Loses, Pending
<1> QED
  BY <1>1, RecordsKept

\* A step of the master that counts no record.
LEMMA StartServed ==
  ASSUME StartInv, TInv', UNCHANGED <<phase, link, owner, count, isStarted>>,
         NEW c \in Conn, NEW answer, Sends(c, answer), Loses,
         answer = "registered" => Takes(c, "register"),
         answer = "servers" => Takes(c, "subscribe"),
         \A d \in Conn : socket[d] # "unused" => socket'[d] # "unused"
  PROVE  StartInv'
BY StagesServed, RecordsLost DEF StartInv

LEMMA SocketUsed ==
  ASSUME TInv, NEW c \in Conn, NEW state \in {"registered", "closed"},
         socket' = [socket EXCEPT ![c] = state]
  PROVE  \A d \in Conn : socket[d] # "unused" => socket'[d] # "unused"
BY DEF TInv, TypeOK

LEMMA StartRegister == ASSUME StartInv, NEW c \in Conn, OnRegister(c) PROVE StartInv'
<1> DEFINE s == owner[c]
           to == AddConnection(c)
           known == servers \union {s}
           news == Notice(listeners, Request(Number, "addServer", s))
<1> USE DEF StartInv
<1>1. Receive(c, "register") /\ Live(c)
  BY DEF OnRegister, Receive
<1>2. s \in Server
  BY <1>1, ReceivedOwned
<1>3. /\ Welcome(c, [type |-> "registered"], news, to, known)
      /\ socket' = [socket EXCEPT ![c] = "registered"]
      /\ UNCHANGED <<phase, link, owner, count, isStarted>>
  BY DEF OnRegister, process
<1>4. listeners \in SUBSET Server /\ known \in SUBSET Server /\ "addServer" \in Action
  BY <1>2 DEF TInv, TypeOK, Action
<1>5. news \in [Server -> Seq(Entry)]
  BY <1>2, <1>4, OneNoticeType DEF TInv
<1>6. [type |-> "registered"] \in ToMonitor
  BY DEF ToMonitor
<1> HIDE DEF to, known, news, StartInv
<1>7. Sends(c, "registered")
  <2> DEFINE m == [type |-> "registered"]
  <2>1. m \in ToMonitor /\ m.type = "registered" /\ Welcome(c, m, news, to, known)
    BY <1>3, <1>6
  <2> HIDE DEF m
  <2> QED
    BY <1>2, <1>4, <1>5, <2>1, SendsWelcome DEF StartInv
<1>8. Loses /\ Takes(c, "register")
  BY <1>1, ReceiveLoses DEF StartInv
<1>9. \A d \in Conn : socket[d] # "unused" => socket'[d] # "unused"
  BY <1>3, SocketUsed DEF StartInv
<1>10. TInv'
  BY TypeRegister DEF StartInv
<1> QED
  BY <1>3, <1>7, <1>8, <1>9, <1>10, StartServed

LEMMA StartReconnect == ASSUME StartInv, NEW c \in Conn, OnReconnect(c) PROVE StartInv'
<1> DEFINE s == owner[c]
           to == AddConnection(c)
           known == servers \union {s}
           news == [t \in Server |->
             Notice({s}, Request(Number, "replaceServer", s))[t]
               \o Notice(listeners, Request(Number + 1, "addServer", s))[t]]
<1>1. TInv /\ Receive(c, "reconnect") /\ Live(c)
  BY DEF StartInv, OnReconnect, Receive
<1>2. s \in Server
  BY <1>1, ReceivedOwned
<1>3. /\ Post(news)
      /\ latches' = Latched(Append(latches, NoLatch), listeners, to)
      /\ Welcome(c, [type |-> "reconnected", ok |-> TRUE], news, to, known)
      /\ socket' = [socket EXCEPT ![c] = "registered"]
      /\ UNCHANGED <<phase, link, owner, count, isStarted>>
  BY DEF OnReconnect, process
<1>4. known \in SUBSET Server
  BY <1>1, <1>2 DEF TInv, TypeOK
<1>5. news \in [Server -> Seq(Entry)]
  BY <1>1, <1>2, <1>3, ReconnectPosted DEF TInv
<1> HIDE DEF to, known, news
<1>6. Sends(c, "reconnected")
  <2> DEFINE m == [type |-> "reconnected", ok |-> TRUE]
  <2>1. m \in ToMonitor /\ m.type = "reconnected" /\ Welcome(c, m, news, to, known)
    BY <1>3 DEF ToMonitor
  <2> HIDE DEF m
  <2> QED
    BY <1>1, <1>2, <1>4, <1>5, <2>1, SendsWelcome
<1>7. Loses
  BY <1>1, ReceiveLoses
<1>8. \A d \in Conn : socket[d] # "unused" => socket'[d] # "unused"
  BY <1>1, <1>3, SocketUsed
<1>9. TInv'
  BY <1>1, TypeReconnect
<1> QED
  BY <1>3, <1>6, <1>7, <1>8, <1>9, StartServed

LEMMA StartRefuse == ASSUME StartInv, NEW c \in Conn, RefuseReconnect(c) PROVE StartInv'
<1>1. /\ Receive(c, "reconnect") /\ Reply(c, [type |-> "reconnected", ok |-> FALSE])
      /\ UNCHANGED <<phase, link, owner, socket, count, isStarted>>
  BY DEF RefuseReconnect, process, watchdog
<1>2. Sends(c, "reconnected")
  <2> DEFINE m == [type |-> "reconnected", ok |-> FALSE]
  <2>1. m \in ToMonitor /\ m.type = "reconnected" /\ Reply(c, m)
    BY <1>1 DEF ToMonitor
  <2> HIDE DEF m
  <2> QED
    BY <2>1, SendsReply DEF StartInv
<1>3. Loses
  BY <1>1, ReceiveLoses DEF StartInv
<1>4. TInv'
  BY TypeRefuse DEF StartInv
<1> QED
  BY <1>1, <1>2, <1>3, <1>4, StartServed

LEMMA StartSubscribe == ASSUME StartInv, NEW c \in Conn, OnSubscribe(c) PROVE StartInv'
<1>1. /\ Receive(c, "subscribe") /\ Reply(c, [type |-> "servers", servers |-> servers])
      /\ UNCHANGED <<phase, link, owner, socket, count, isStarted>>
  BY DEF OnSubscribe, process
<1>2. Sends(c, "servers")
  <2> DEFINE m == [type |-> "servers", servers |-> servers]
  <2>1. m \in ToMonitor /\ m.type = "servers" /\ Reply(c, m)
    BY <1>1 DEF ToMonitor, StartInv, TInv, TypeOK
  <2> HIDE DEF m
  <2> QED
    BY <2>1, SendsReply DEF StartInv
<1>3. Loses /\ Takes(c, "subscribe")
  BY <1>1, ReceiveLoses DEF StartInv
<1>4. TInv'
  BY TypeSubscribe DEF StartInv
<1> QED
  BY <1>1, <1>2, <1>3, <1>4, StartServed

LEMMA StartResponse == ASSUME StartInv, NEW c \in Conn, OnResponse(c) PROVE StartInv'
<1>1. /\ Receive(c, "response")
      /\ UNCHANGED <<phase, link, owner, socket, toMonitor, count, isStarted>>
  BY DEF OnResponse, process, watchdog
<1>2. Sends(c, "nothing") /\ Loses
  BY <1>1, SendsNothing, ReceiveLoses DEF StartInv
<1>3. TInv'
  BY TypeResponse DEF StartInv
<1> QED
  BY <1>1, <1>2, <1>3, StartServed

LEMMA StartDisconnect == ASSUME StartInv, NEW c \in Conn, OnDisconnect(c) PROVE StartInv'
<1> DEFINE s == owner[c]
           to == RemoveConnection(s)
           rest == Unsubscribe(s)
           news == Notice(rest, Request(Number, "removeServer", s))
<1>1. /\ Live(c) /\ TInv
      /\ socket' = [socket EXCEPT ![c] = "closed"]
      /\ toMaster' = [toMaster EXCEPT ![c] = <<>>]
      /\ UNCHANGED <<phase, link, owner, count, isStarted>>
  BY DEF OnDisconnect, StartInv, process
<1>2. s \in Server
  BY <1>1, ReceivedOwned
<1>3. Loses
  <2>1. toMaster'[c] = <<>> /\ \A d \in Conn : d # c => toMaster'[d] = toMaster[d]
    BY <1>1 DEF TInv, TypeOK
  <2> QED
    BY <2>1, HasOne DEF Loses
<1>4. Sends(c, "nothing")
  <2>1. CASE socket[c] = "registered"
    <3>1. toMonitor' = [d \in Conn |-> Arrive(d, Addressed(d, news, to, {}))]
      BY <2>1 DEF OnDisconnect
    <3>2. rest \in SUBSET Server /\ "removeServer" \in Action /\ {} \in SUBSET Server
      BY <1>1 DEF TInv, TypeOK, Action, Unsubscribe
    <3>3. news \in [Server -> Seq(Entry)]
      BY <1>1, <1>2, <3>2, OneNoticeType DEF TInv
    <3> HIDE DEF news, to
    <3> QED
      BY <1>1, <3>1, <3>2, <3>3, SendsTold
  <2>2. CASE socket[c] # "registered"
    <3>1. UNCHANGED toMonitor
      BY <2>2 DEF OnDisconnect
    <3> QED
      BY <1>1, <3>1, SendsNothing DEF StartInv
  <2> QED
    BY <2>1, <2>2
<1>5. \A d \in Conn : socket[d] # "unused" => socket'[d] # "unused"
  BY <1>1, SocketUsed
<1>6. TInv'
  BY <1>1, TypeDisconnect
<1> QED
  BY <1>1, <1>3, <1>4, <1>5, <1>6, StartServed

LEMMA StartRecord == ASSUME StartInv, NEW c \in Conn, OnRecord(c) PROVE StartInv'
<1> DEFINE told == IF isStarted' /\ ~isStarted THEN listeners ELSE {}
           news == Notice(told, Request(Number, "startOver", owner[c]))
           s == owner[c]
<1>1. /\ Receive(c, "record") /\ Live(c) /\ TInv /\ TInv'
      /\ count' = IF isStarted THEN count ELSE count - 1
      /\ isStarted' = Over(count')
      /\ toMonitor' = [d \in Conn |-> Arrive(d, Addressed(d, news, idMap, servers))]
      /\ UNCHANGED <<phase, link, owner, socket>>
  BY TypeRecord DEF OnRecord, Receive, StartInv, process
<1>2. owner[c] \in Server
  BY <1>1, ReceivedOwned
<1>3. told \in SUBSET Server /\ "startOver" \in Action /\ servers \in SUBSET Server
  BY <1>1 DEF TInv, TypeOK, Action
<1>4. news \in [Server -> Seq(Entry)]
  BY <1>1, <1>2, <1>3, OneNoticeType DEF TInv
<1> HIDE DEF told, news
<1>5. Sends(c, "nothing")
  BY <1>1, <1>3, <1>4, SendsTold
<1>6. Loses /\ Takes(c, "record")
  BY <1>1, ReceiveLoses
<1>7. Linked' /\ Mail' /\ Stages'
  BY <1>1, <1>5, <1>6, StagesServed DEF StartInv
<1>8. \A d \in Pending' : /\ d \in Pending /\ owner'[d] = owner[d]
                          /\ Single(toMaster[d], "record") => Single(toMaster'[d], "record")
  BY <1>1, <1>6 DEF Loses, Pending
<1>9. Recorded' /\ Done \subseteq Done'
  BY <1>1, <1>8, RecordedKept DEF StartInv
<1>10. s \in Done' \ Done
  <2>1. c \in Pending /\ c \notin Pending'
    BY <1>6 DEF Takes, Pending, StartInv, Recorded
  <2>2. \A d \in Pending' : owner[d] # s
    BY <1>8, <2>1 DEF StartInv, Recorded
  <2>3. phase[s] \in {"running", "dead"}
    BY <2>1 DEF StartInv, Recorded
  <2> QED
    BY <1>1, <1>2, <2>1, <2>2, <2>3 DEF Done
<1>11. /\ Cardinality(Done) \in Nat /\ Cardinality(Done') \in Nat
       /\ Cardinality(Done) + 1 <= Cardinality(Done')
  <2>1. IsFiniteSet(Done) /\ IsFiniteSet(Done')
    BY ConstantsAssumption, FS_Subset DEF Done
  <2>2. /\ IsFiniteSet(Done \union {s}) /\ Cardinality(Done \union {s}) = Cardinality(Done) + 1
    BY <1>10, <2>1, FS_AddElement
  <2>3. Done \union {s} \subseteq Done'
    BY <1>9, <1>10
  <2>4. Cardinality(Done \union {s}) <= Cardinality(Done')
    BY <2>1, <2>3, FS_Subset
  <2> QED
    BY <2>1, <2>2, <2>4, FS_CardinalityType
<1>12. Enough'
  <2>1. count \in Int /\ Enough
    BY <1>1 DEF TInv, TypeOK, StartInv
  <2> DEFINE m == Cardinality(Done)
             n == Cardinality(Done')
             all == Cardinality(Server)
  <2>2. m \in Nat /\ n \in Nat /\ m + 1 <= n /\ all \in Nat
    BY <1>11, ConnType
  <2>3. all - 1 - count <= m /\ (isStarted => count < 0)
    BY <2>1 DEF Enough
  <2>4. count' = (IF isStarted THEN count ELSE count - 1) /\ (isStarted' <=> count' < 0)
    BY <1>1 DEF Over
  <2> HIDE DEF m, n, all
  <2>5. all - 1 - count' <= n
    BY <2>1, <2>2, <2>3, <2>4
  <2> QED
    BY <2>4, <2>5 DEF Enough, n, all
<1> QED
  BY <1>1, <1>7, <1>9, <1>12 DEF StartInv

LEMMA StartRestart == ASSUME StartInv, RestartMaster PROVE StartInv'
<1>1. /\ TInv /\ TInv'
      /\ phase' = [phase EXCEPT ![Master] = "idle"]
      /\ link' = [link EXCEPT ![Master] = Lost]
      /\ toMonitor' = [c \in Conn |-> IF c = link[Master] THEN <<>> ELSE toMonitor[c]]
      /\ socket' = [c \in Conn |-> IF Accepted(c) THEN "closed" ELSE socket[c]]
      /\ toMaster' = [c \in Conn |-> <<>>]
      /\ count' = Cardinality(Server) - 1
      /\ isStarted' = FALSE
      /\ UNCHANGED owner
  BY TypeRestart DEF RestartMaster, Exit, Unplug, StartInv
<1>2. /\ phase \in [Server -> {"idle"} \union Up \union Ended]
      /\ link \in [Server -> 0 .. MaxConn + 1]
  BY <1>1 DEF TInv, TypeOK
<1>3. \A s \in Server : link'[s] \in Conn =>
        s # Master /\ link'[s] = link[s] /\ phase'[s] = phase[s]
  BY <1>1, <1>2, NoSuchConn
<1>4. Linked'
  BY <1>1, <1>3 DEF StartInv, Linked, Accepted
<1>5. Mail'
  <2>1. ASSUME NEW d \in Conn, toMonitor'[d] # <<>> PROVE Heard(d)'
    <3>1. d # link[Master] /\ toMonitor[d] # <<>>
      BY <1>1, <2>1
    <3>2. owner[d] \in Server /\ link[owner[d]] = d /\ owner[d] # Master
      BY <3>1 DEF StartInv, Mail, Heard
    <3> QED
      BY <1>1, <1>2, <3>2 DEF Heard
  <2> QED
    BY <2>1 DEF Mail
<1>6. Stages'
  <2>1. ASSUME NEW s \in Server, link'[s] \in Conn
        PROVE  Staged(toMaster'[link'[s]], toMonitor'[link'[s]], phase'[s])
    <3>1. /\ link'[s] = link[s] /\ link[s] \in Conn /\ phase'[s] = phase[s] /\ link[s] # link[Master]
      BY <1>3, <2>1, ConstantsAssumption DEF StartInv, Linked
    <3>2. toMaster'[link[s]] = <<>> /\ toMonitor'[link[s]] = toMonitor[link[s]]
      BY <1>1, <3>1
    <3>3. Staged(toMaster[link[s]], toMonitor[link[s]], phase[s])
      BY <3>1 DEF StartInv, Stages
    <3>4. \A type : ~ Has(<<>>, type) /\ Single(<<>>, type)
      BY HasOne
    <3> QED
      BY <3>1, <3>2, <3>3, <3>4 DEF Staged, Waits
  <2> QED
    BY <2>1 DEF Stages
<1>7. Recorded'
  <2>1. Pending' = {}
    BY <1>1, HasOne DEF Pending
  <2> QED
    BY <2>1 DEF Recorded
<1>8. Enough'
  <2>1. IsFiniteSet(Done')
    BY ConstantsAssumption, FS_Subset DEF Done
  <2>2. Cardinality(Done') \in Nat
    BY <2>1, FS_CardinalityType
  <2> QED
    BY <1>1, <2>2, ConnType DEF Enough
<1> QED
  BY <1>1, <1>4, <1>5, <1>6, <1>7, <1>8 DEF StartInv

-----------------------------------------------------------------------------
(* The servers and the start.                                              *)

\* Connections that the step of s does not concern.
LEMMA StagesOfOthers ==
  ASSUME Stages, NEW s \in Server,
         \A t \in Server : t # s =>
           /\ link'[t] = link[t] /\ phase'[t] = phase[t]
           /\ link[t] \in Conn => /\ toMaster'[link[t]] = toMaster[link[t]]
                                  /\ toMonitor'[link[t]] = toMonitor[link[t]],
         link'[s] \in Conn => Staged(toMaster'[link'[s]], toMonitor'[link'[s]], phase'[s])
  PROVE  Stages'
<1>1. ASSUME NEW t \in Server, link'[t] \in Conn
      PROVE  Staged(toMaster'[link'[t]], toMonitor'[link'[t]], phase'[t])
  <2>1. CASE t = s
    BY <1>1, <2>1
  <2>2. CASE t # s
    <3>1. Staged(toMaster[link[t]], toMonitor[link[t]], phase[t])
      BY <1>1, <2>2 DEF Stages
    <3> QED
      BY <1>1, <2>2, <3>1
  <2> QED
    BY <2>1, <2>2
<1> QED
  BY <1>1 DEF Stages

LEMMA StartUnplugged ==
  ASSUME StartInv, TInv', NEW s \in Server, NEW to \in {Lost, GivenUp}, Unplug(s, to),
         UNCHANGED <<owner, socket, toMaster, count, isStarted>>,
         \A t \in Server : t # s => phase'[t] = phase[t],
         phase[s] \in {"running", "dead"} => phase'[s] \in {"running", "dead"}
  PROVE  StartInv'
<1>1. /\ link' = [link EXCEPT ![s] = to] /\ to \notin Conn
      /\ toMonitor' = [c \in Conn |-> IF c = link[s] THEN <<>> ELSE toMonitor[c]]
      /\ link \in [Server -> 0 .. MaxConn + 1] /\ TInv
  BY NoSuchConn DEF Unplug, StartInv, TInv, TypeOK
<1>2. link'[s] = to /\ \A t \in Server : t # s => link'[t] = link[t]
  BY <1>1
<1>3. Linked'
  BY <1>1, <1>2 DEF StartInv, Linked
<1>4. Mail'
  <2>1. ASSUME NEW d \in Conn, toMonitor'[d] # <<>> PROVE Heard(d)'
    <3>1. d # link[s] /\ toMonitor[d] # <<>>
      BY <1>1, <2>1
    <3>2. owner[d] \in Server /\ link[owner[d]] = d /\ owner[d] # s
      BY <3>1 DEF StartInv, Mail, Heard
    <3> QED
      BY <1>2, <3>2 DEF Heard
  <2> QED
    BY <2>1 DEF Mail
<1>5. Stages'
  <2>1. \A t \in Server : t # s /\ link[t] \in Conn => link[t] # link[s]
    BY DEF StartInv, Linked
  <2>2. \A t \in Server : t # s /\ link[t] \in Conn => toMonitor'[link[t]] = toMonitor[link[t]]
    BY <1>1, <2>1
  <2> QED
    BY <1>1, <1>2, <2>2, StagesOfOthers DEF StartInv
<1>6. Recorded' /\ Enough'
  <2>1. \A c \in Pending' : /\ c \in Pending /\ owner'[c] = owner[c]
                            /\ Single(toMaster[c], "record") => Single(toMaster'[c], "record")
    BY DEF Pending
  <2>2. \A t \in Server : phase[t] \in {"running", "dead"} => phase'[t] \in {"running", "dead"}
    OBVIOUS
  <2> QED
    BY <1>1, <2>1, <2>2, RecordsKept DEF StartInv
<1> QED
  BY <1>1, <1>3, <1>4, <1>5, <1>6 DEF StartInv

LEMMA StartConnect ==
  ASSUME StartInv, TInv', NEW s \in Server, NEW c \in Conn, NEW msg \in {"register", "reconnect"},
         Connect(s, c, msg), link[s] \notin Conn,
         \A t \in Server : t # s => phase'[t] = phase[t], phase'[s] \in Up,
         phase[s] \in {"running", "dead"} => phase'[s] \in {"running", "dead"},
         msg = "register" => phase'[s] = "registering"
  PROVE  StartInv'
<1>1. /\ socket[c] = "unused" /\ TInv
      /\ link' = [link EXCEPT ![s] = c] /\ owner' = [owner EXCEPT ![c] = s]
      /\ socket' = [socket EXCEPT ![c] = "open"]
      /\ toMaster' = [toMaster EXCEPT ![c] = <<[type |-> msg]>>]
      /\ UNCHANGED <<toMonitor, count, isStarted>>
  BY DEF Connect, Fresh, StartInv, watchdog
<1>2. /\ link'[s] = c /\ \A t \in Server : t # s => link'[t] = link[t]
      /\ owner'[c] = s /\ \A d \in Conn : d # c => owner'[d] = owner[d]
      /\ socket'[c] = "open" /\ \A d \in Conn : d # c => socket'[d] = socket[d]
      /\ toMaster'[c] = <<[type |-> msg]>> /\ \A d \in Conn : d # c => toMaster'[d] = toMaster[d]
  BY <1>1 DEF TInv, TypeOK
<1>3. \A t \in Server : link[t] \in Conn => link[t] # c
  BY <1>1 DEF StartInv, Linked
<1>4. toMonitor[c] = <<>>
  BY <1>3 DEF StartInv, Mail, Heard
<1>5. Linked'
  <2>1. ASSUME NEW t \in Server, link'[t] \in Conn
        PROVE  phase'[t] \in Up /\ owner'[link'[t]] = t /\ socket'[link'[t]] # "unused"
    <3>1. CASE t = s
      BY <3>1, <1>2
    <3>2. CASE t # s
      BY <2>1, <3>2, <1>2, <1>3 DEF StartInv, Linked
    <3> QED
      BY <3>1, <3>2
  <2> QED
    BY <2>1 DEF Linked
<1>6. Mail'
  <2>1. ASSUME NEW d \in Conn, toMonitor'[d] # <<>> PROVE Heard(d)'
    <3>1. d # c /\ owner[d] \in Server /\ link[owner[d]] = d /\ owner[d] # s
      BY <1>1, <1>4, <2>1 DEF StartInv, Mail, Heard
    <3> QED
      BY <1>2, <3>1 DEF Heard
  <2> QED
    BY <2>1 DEF Mail
<1>7. Stages'
  <2>1. /\ \A type : Has(<<[type |-> msg]>>, type) <=> msg = type
        /\ \A type : Single(<<[type |-> msg]>>, type) /\ ~ Has(<<>>, type) /\ Single(<<>>, type)
    BY HasOne
  <2>2. Staged(<<[type |-> msg]>>, <<>>, phase'[s])
    BY <2>1 DEF Staged, Waits
  <2>3. Staged(toMaster'[link'[s]], toMonitor'[link'[s]], phase'[s])
    BY <1>1, <1>2, <1>4, <2>2
  <2> QED
    BY <1>1, <1>2, <1>3, <2>3, StagesOfOthers DEF StartInv
<1>8. Recorded' /\ Enough'
  <2>1. c \notin Pending'
    <3>1. ~ Has(<<[type |-> msg]>>, "record")
      BY HasOne
    <3> QED
      BY <1>2, <3>1 DEF Pending
  <2>2. \A d \in Pending' : /\ d \in Pending /\ owner'[d] = owner[d]
                            /\ Single(toMaster[d], "record") => Single(toMaster'[d], "record")
    BY <1>2, <2>1 DEF Pending
  <2>3. \A t \in Server : phase[t] \in {"running", "dead"} => phase'[t] \in {"running", "dead"}
    OBVIOUS
  <2> QED
    BY <1>1, <2>2, <2>3, RecordsKept DEF StartInv
<1> QED
  BY <1>5, <1>6, <1>7, <1>8 DEF StartInv

LEMMA StartBoot ==
  ASSUME StartInv, ~ Respawn, NEW s \in Server, Boot(s) PROVE StartInv'
<1>1. PICK c \in Conn : Connect(s, c, "register")
  BY DEF Boot
<1>2. phase[s] = "idle" /\ phase' = [phase EXCEPT ![s] = "registering"]
  BY DEF Boot
<1>3. link[s] \notin Conn
  BY <1>2 DEF StartInv, Linked, Up
<1>4. phase'[s] = "registering" /\ \A t \in Server : t # s => phase'[t] = phase[t]
  BY <1>2 DEF StartInv, TInv, TypeOK
<1>5. phase'[s] \in Up
  BY <1>4 DEF Up
<1>6. TInv'
  BY TypeBoot DEF StartInv
<1> QED
  BY <1>1, <1>2, <1>3, <1>4, <1>5, <1>6, StartConnect

LEMMA StartReconnects ==
  ASSUME StartInv, NEW s \in Server, Reconnect(s) PROVE StartInv'
<1>1. PICK c \in Conn : Connect(s, c, "reconnect")
  BY DEF Reconnect
<1>2. phase[s] \in Up /\ phase' = phase /\ link[s] \notin Conn
  BY NoSuchConn DEF Reconnect
<1>3. TInv'
  BY TypeReconnects DEF StartInv
<1> QED
  BY <1>1, <1>2, <1>3, StartConnect

\* A process reads a message, and answers it perhaps.
LEMMA StartRead ==
  ASSUME StartInv, TInv', NEW s \in Server, NEW type, Read(s, type),
         UNCHANGED <<owner, socket, link, count, isStarted>>,
         \A d \in Conn : d # link[s] => toMaster'[d] = toMaster[d],
         Has(toMaster'[link[s]], "record") => Has(toMaster[link[s]], "record"),
         Single(toMaster[link[s]], "record") => Single(toMaster'[link[s]], "record"),
         \A t \in Server : t # s => phase'[t] = phase[t], phase'[s] \in Up,
         phase[s] = "running" => phase'[s] = "running",
         Staged(toMaster'[link[s]], Tail(toMonitor[link[s]]), phase'[s])
  PROVE  StartInv'
<1>1. /\ link[s] \in Conn /\ phase[s] \in Up /\ TInv
      /\ toMonitor'[link[s]] = Tail(toMonitor[link[s]])
      /\ \A d \in Conn : d # link[s] => toMonitor'[d] = toMonitor[d]
  BY DEF Read, StartInv, TInv, TypeOK
<1>2. Linked'
  BY DEF StartInv, Linked
<1>3. Mail'
  <2>1. Heard(link[s])
    BY <1>1, LinkedHeard DEF StartInv
  <2> QED
    BY <1>1, <2>1 DEF StartInv, Mail, Heard
<1>4. Stages'
  <2>1. \A t \in Server : t # s /\ link[t] \in Conn => link[t] # link[s]
    BY DEF StartInv, Linked
  <2> QED
    BY <1>1, <2>1, StagesOfOthers DEF StartInv
<1>5. Recorded' /\ Enough'
  <2>1. \A c \in Pending' : /\ c \in Pending /\ owner'[c] = owner[c]
                            /\ Single(toMaster[c], "record") => Single(toMaster'[c], "record")
    BY DEF Pending
  <2>2. phase[s] # "dead"
    BY <1>1 DEF Up
  <2>3. \A t \in Server : phase[t] \in {"running", "dead"} => phase'[t] \in {"running", "dead"}
    BY <2>2
  <2> QED
    BY <1>1, <2>1, <2>3, RecordsKept DEF StartInv
<1> QED
  BY <1>2, <1>3, <1>4, <1>5 DEF StartInv

LEMMA SayHas ==
  ASSUME TInv, NEW s \in Server, link[s] \in Conn, NEW msg \in ToMaster, Say(s, msg)
  PROVE  /\ \A d \in Conn : d # link[s] => toMaster'[d] = toMaster[d]
         /\ \A type :
              /\ Has(toMaster'[link[s]], type) => Has(toMaster[link[s]], type) \/ msg.type = type
              /\ Single(toMaster[link[s]], type) /\ ~ (msg.type = type /\ Has(toMaster[link[s]], type))
                   => Single(toMaster'[link[s]], type)
<1>1. CASE ~ Live(link[s])
  BY <1>1 DEF Say
<1>2. CASE Live(link[s])
  <2> DEFINE c == link[s]
  <2>1. toMaster[c] \in Seq(ToMaster) /\ c \in Conn
    BY DEF TInv, TypeOK
  <2>2. toMaster'[c] = Append(toMaster[c], msg) /\ \A d \in Conn : d # c => toMaster'[d] = toMaster[d]
    BY <1>2, <2>1 DEF Say, TInv, TypeOK
  <2> HIDE DEF c
  <2>3. \A type :
          /\ Has(toMaster'[c], type) => Has(toMaster[c], type) \/ msg.type = type
          /\ Single(toMaster[c], type) /\ ~ (msg.type = type /\ Has(toMaster[c], type))
               => Single(toMaster'[c], type)
    BY <2>1, <2>2, HasAppend
  <2> QED
    BY <2>2, <2>3 DEF c
<1> QED
  BY <1>1, <1>2

\* A message read is at most the answer that was waited for.
LEMMA WaitsRead ==
  ASSUME NEW X, NEW asked, NEW left, NEW answered \in Seq(X), answered # <<>>, NEW p,
         NEW ask, NEW answer, NEW waiting, Waits(asked, answered, p, ask, answer, waiting),
         Has(left, ask) => Has(asked, ask), Single(left, ask)
  PROVE  Waits(left, Tail(answered), p, ask, answer, waiting)
<1>1. /\ Has(Tail(answered), answer) => Has(answered, answer)
      /\ Single(answered, answer) => Single(Tail(answered), answer)
  BY HasTail
<1> QED
  BY <1>1 DEF Waits

\* Nothing is waited for.
LEMMA WaitsOver ==
  ASSUME NEW asked, NEW answered, NEW p, NEW ask, NEW answer, NEW waiting,
         ~ Has(asked, ask), ~ Has(answered, answer)
  PROVE  Waits(asked, answered, p, ask, answer, waiting)
BY SingleNone DEF Waits

\* What a process that reads finds in its queues.
LEMMA ReadStage ==
  ASSUME StartInv, NEW s \in Server, NEW type, Read(s, type)
  PROVE  LET asked == toMaster[link[s]]
             q == toMonitor[link[s]]
         IN /\ TInv /\ link[s] \in Conn /\ phase[s] \in Up
            /\ q \in Seq(ToMonitor) /\ q # <<>> /\ Has(q, type) /\ Head(q).type = type
            /\ Waits(asked, q, phase[s], "register", "registered", "registering")
            /\ Waits(asked, q, phase[s], "subscribe", "servers", "subscribing")
<1>1. /\ TInv /\ link[s] \in Conn /\ phase[s] \in Up
      /\ toMonitor[link[s]] \in Seq(ToMonitor) /\ toMonitor[link[s]] # <<>>
      /\ Head(toMonitor[link[s]]).type = type
  BY DEF StartInv, TInv, TypeOK, Read
<1>2. Has(toMonitor[link[s]], type)
  BY <1>1, HasTail
<1>3. Staged(toMaster[link[s]], toMonitor[link[s]], phase[s])
  BY <1>1 DEF StartInv, Stages
<1> QED
  BY <1>1, <1>2, <1>3 DEF Staged

LEMMA StartRegistered == ASSUME StartInv, NEW s \in Server, OnRegistered(s) PROVE StartInv'
<1> DEFINE asked == toMaster[link[s]]
           left == toMaster'[link[s]]
           q == toMonitor[link[s]]
<1>1. /\ Read(s, "registered") /\ Say(s, [type |-> "subscribe"])
      /\ phase' = [phase EXCEPT ![s] = "subscribing"]
      /\ UNCHANGED <<owner, socket, link, count, isStarted>>
  BY DEF OnRegistered, watchdog
<1>2. /\ TInv /\ link[s] \in Conn /\ q \in Seq(ToMonitor) /\ q # <<>>
      /\ Has(q, "registered") /\ Head(q).type = "registered"
      /\ Waits(asked, q, phase[s], "register", "registered", "registering")
      /\ Waits(asked, q, phase[s], "subscribe", "servers", "subscribing")
  BY <1>1, ReadStage
<1>3. phase[s] = "registering" /\ ~ Has(asked, "register") /\ Single(q, "registered")
  BY <1>2 DEF Waits
<1>4. ~ Has(asked, "subscribe") /\ ~ Has(q, "servers") /\ Single(asked, "subscribe")
  BY <1>2, <1>3 DEF Waits
<1>5. ~ Has(Tail(q), "registered") /\ ~ Has(Tail(q), "servers")
  BY <1>2, <1>3, <1>4, HasTail
<1>6. /\ \A d \in Conn : d # link[s] => toMaster'[d] = toMaster[d]
      /\ \A type :
           /\ Has(left, type) => Has(asked, type) \/ "subscribe" = type
           /\ Single(asked, type) /\ ~ ("subscribe" = type /\ Has(asked, type)) => Single(left, type)
  <2> DEFINE m == [type |-> "subscribe"]
  <2>1. m \in ToMaster /\ Say(s, m) /\ m.type = "subscribe"
    BY <1>1 DEF ToMaster
  <2> HIDE DEF m
  <2> QED
    BY <1>2, <2>1, SayHas
<1>7. phase'[s] = "subscribing" /\ \A t \in Server : t # s => phase'[t] = phase[t]
  BY <1>1, <1>2 DEF TInv, TypeOK
<1>8. TInv'
  BY TypeRegistered DEF StartInv
<1> HIDE DEF asked, left, q
<1>9. Staged(left, Tail(q), phase'[s])
  <2>1. Waits(left, Tail(q), phase'[s], "register", "registered", "registering")
    BY <1>3, <1>5, <1>6, WaitsOver
  <2>2. Waits(left, Tail(q), phase'[s], "subscribe", "servers", "subscribing")
    BY <1>4, <1>5, <1>6, <1>7, SingleNone DEF Waits
  <2> QED
    BY <2>1, <2>2 DEF Staged
<1>10. /\ Has(toMaster'[link[s]], "record") => Has(toMaster[link[s]], "record")
       /\ Single(toMaster[link[s]], "record") => Single(toMaster'[link[s]], "record")
  BY <1>6 DEF asked, left
<1>11. Staged(toMaster'[link[s]], Tail(toMonitor[link[s]]), phase'[s])
  BY <1>9 DEF left, q
<1>12. phase'[s] \in Up /\ phase[s] # "running"
  BY <1>3, <1>7 DEF Up
<1> QED
  BY <1>1, <1>6, <1>7, <1>8, <1>10, <1>11, <1>12, StartRead

LEMMA StartServers == ASSUME StartInv, NEW s \in Server, OnServers(s) PROVE StartInv'
<1> DEFINE asked == toMaster[link[s]]
           q == toMonitor[link[s]]
<1>1. /\ Read(s, "servers")
      /\ phase' = [phase EXCEPT ![s] = "starting"]
      /\ UNCHANGED <<owner, socket, link, toMaster, count, isStarted>>
  BY DEF OnServers, watchdog
<1>2. /\ TInv /\ link[s] \in Conn /\ q \in Seq(ToMonitor) /\ q # <<>>
      /\ Has(q, "servers") /\ Head(q).type = "servers"
      /\ Waits(asked, q, phase[s], "register", "registered", "registering")
      /\ Waits(asked, q, phase[s], "subscribe", "servers", "subscribing")
  BY <1>1, ReadStage
<1>3. phase[s] = "subscribing" /\ ~ Has(asked, "subscribe") /\ Single(q, "servers")
  BY <1>2 DEF Waits
<1>4. ~ Has(asked, "register") /\ ~ Has(q, "registered")
  BY <1>2, <1>3 DEF Waits
<1>5. ~ Has(Tail(q), "registered") /\ ~ Has(Tail(q), "servers")
  BY <1>2, <1>3, <1>4, HasTail
<1>6. phase'[s] = "starting" /\ \A t \in Server : t # s => phase'[t] = phase[t]
  BY <1>1, <1>2 DEF TInv, TypeOK
<1>7. TInv'
  BY TypeServers DEF StartInv
<1>8. Staged(toMaster'[link[s]], Tail(toMonitor[link[s]]), phase'[s])
  <2> HIDE DEF asked, q
  <2>1. Staged(asked, Tail(q), phase'[s])
    BY <1>3, <1>4, <1>5, WaitsOver DEF Staged
  <2> QED
    BY <1>1, <2>1 DEF asked, q
<1>9. phase'[s] \in Up /\ phase[s] # "running"
  BY <1>3, <1>6 DEF Up
<1> HIDE DEF asked, q
<1> QED
  BY <1>1, <1>6, <1>7, <1>8, <1>9, StartRead

LEMMA StartReconnected == ASSUME StartInv, NEW s \in Server, OnReconnected(s) PROVE StartInv'
<1>1. /\ Read(s, "reconnected")
      /\ UNCHANGED <<phase, owner, socket, link, toMaster, count, isStarted>>
  BY DEF OnReconnected, watchdog
<1>2. /\ TInv /\ phase[s] \in Up
      /\ toMonitor[link[s]] \in Seq(ToMonitor) /\ toMonitor[link[s]] # <<>>
      /\ Waits(toMaster[link[s]], toMonitor[link[s]], phase[s], "register", "registered", "registering")
      /\ Waits(toMaster[link[s]], toMonitor[link[s]], phase[s], "subscribe", "servers", "subscribing")
  BY <1>1, ReadStage
<1>3. Single(toMaster[link[s]], "register") /\ Single(toMaster[link[s]], "subscribe")
  BY <1>2 DEF Waits
<1>4. Staged(toMaster[link[s]], Tail(toMonitor[link[s]]), phase[s])
  BY <1>2, <1>3, WaitsRead DEF Staged
<1>5. TInv'
  BY TypeReconnected DEF StartInv
<1> QED
  BY <1>1, <1>2, <1>4, <1>5, StartRead

LEMMA StartRequest == ASSUME StartInv, NEW s \in Server, OnRequest(s) PROVE StartInv'
<1> DEFINE asked == toMaster[link[s]]
           left == toMaster'[link[s]]
           q == toMonitor[link[s]]
           m == [type |-> "response", id |-> Head(q).id]
<1>1. /\ Read(s, "request") /\ Say(s, m)
      /\ UNCHANGED <<phase, owner, socket, link, count, isStarted>>
  BY DEF OnRequest, watchdog
<1>2. /\ TInv /\ phase[s] \in Up /\ link[s] \in Conn
      /\ q \in Seq(ToMonitor) /\ q # <<>> /\ Head(q).type = "request"
      /\ Waits(asked, q, phase[s], "register", "registered", "registering")
      /\ Waits(asked, q, phase[s], "subscribe", "servers", "subscribing")
  BY <1>1, ReadStage
<1>3. m \in ToMaster /\ m.type = "response"
  <2>1. Head(q) \in ToMonitor
    BY <1>2
  <2>2. Head(q).id \in Nat \ {0}
    BY <1>2, <2>1 DEF ToMonitor
  <2> QED
    BY <2>2 DEF ToMaster
<1> HIDE DEF m
<1>4. /\ \A d \in Conn : d # link[s] => toMaster'[d] = toMaster[d]
      /\ \A type :
           /\ Has(left, type) => Has(asked, type) \/ "response" = type
           /\ Single(asked, type) /\ ~ ("response" = type /\ Has(asked, type)) => Single(left, type)
  BY <1>1, <1>2, <1>3, SayHas
<1> HIDE DEF asked, left, q
<1>5. Staged(left, Tail(q), phase[s])
  <2>1. Single(asked, "register") /\ Single(asked, "subscribe")
    BY <1>2 DEF Waits
  <2>2. /\ Has(left, "register") => Has(asked, "register")
        /\ Has(left, "subscribe") => Has(asked, "subscribe")
        /\ Single(left, "register") /\ Single(left, "subscribe")
    BY <1>4, <2>1
  <2>3. Waits(left, Tail(q), phase[s], "register", "registered", "registering")
    BY <1>2, <2>2, WaitsRead
  <2>4. Waits(left, Tail(q), phase[s], "subscribe", "servers", "subscribing")
    BY <1>2, <2>2, WaitsRead
  <2> QED
    BY <2>3, <2>4 DEF Staged
<1>6. /\ Has(toMaster'[link[s]], "record") => Has(toMaster[link[s]], "record")
      /\ Single(toMaster[link[s]], "record") => Single(toMaster'[link[s]], "record")
  BY <1>4 DEF asked, left
<1>7. Staged(toMaster'[link[s]], Tail(toMonitor[link[s]]), phase'[s])
  BY <1>1, <1>5 DEF left, q
<1>8. TInv'
  BY TypeRequest DEF StartInv
<1> QED
  BY <1>1, <1>2, <1>4, <1>6, <1>7, <1>8, StartRead

\* The record of a process that has started is the only one of it.
LEMMA StartFinish == ASSUME StartInv, NEW s \in Server, FinishStart(s) PROVE StartInv'
<1>1. /\ phase[s] = "starting" /\ TInv /\ TInv'
      /\ agent[s] = "registered" => link[s] \in Conn
      /\ phase' = [phase EXCEPT ![s] = "running"]
      /\ IF agent[s] = "registered" THEN Say(s, [type |-> "record"]) ELSE UNCHANGED toMaster
      /\ UNCHANGED <<owner, socket, link, toMonitor, count, isStarted>>
  BY TypeFinish DEF FinishStart, StartInv, watchdog
<1>2. phase'[s] = "running" /\ \A t \in Server : t # s => phase'[t] = phase[t]
  BY <1>1 DEF TInv, TypeOK
<1>3. Linked' /\ Mail'
  BY <1>1, <1>2 DEF StartInv, Linked, Mail, Heard, Up
<1>4. /\ \A d \in Conn : d # link[s] => toMaster'[d] = toMaster[d]
      /\ link[s] \in Conn => \A type :
           /\ Has(toMaster'[link[s]], type) => Has(toMaster[link[s]], type) \/ "record" = type
           /\ Single(toMaster[link[s]], type) /\ ~ ("record" = type /\ Has(toMaster[link[s]], type))
                => Single(toMaster'[link[s]], type)
  <2>1. CASE agent[s] = "registered"
    <3> DEFINE m == [type |-> "record"]
    <3>1. m \in ToMaster /\ Say(s, m) /\ m.type = "record" /\ link[s] \in Conn
      BY <1>1, <2>1 DEF ToMaster
    <3> HIDE DEF m
    <3> QED
      BY <1>1, <3>1, SayHas
  <2>2. CASE agent[s] # "registered"
    BY <1>1, <2>2
  <2> QED
    BY <2>1, <2>2
<1>5. Stages'
  <2>1. link[s] \in Conn => Staged(toMaster'[link[s]], toMonitor[link[s]], phase'[s])
    <3> SUFFICES ASSUME link[s] \in Conn
                 PROVE  Staged(toMaster'[link[s]], toMonitor[link[s]], phase'[s])
      OBVIOUS
    <3> DEFINE asked == toMaster[link[s]]
               left == toMaster'[link[s]]
               q == toMonitor[link[s]]
    <3>1. /\ Waits(asked, q, phase[s], "register", "registered", "registering")
          /\ Waits(asked, q, phase[s], "subscribe", "servers", "subscribing")
      BY DEF StartInv, Stages, Staged
    <3>2. /\ ~ Has(asked, "register") /\ ~ Has(q, "registered")
          /\ ~ Has(asked, "subscribe") /\ ~ Has(q, "servers")
      BY <1>1, <3>1 DEF Waits
    <3>3. ~ Has(left, "register") /\ ~ Has(left, "subscribe")
      BY <1>4, <3>2
    <3> HIDE DEF asked, left, q
    <3>4. Staged(left, q, phase'[s])
      BY <3>2, <3>3, WaitsOver DEF Staged
    <3> QED
      BY <3>4 DEF left, q
  <2>2. \A t \in Server : t # s /\ link[t] \in Conn => link[t] # link[s]
    BY DEF StartInv, Linked
  <2>3. \A t \in Server : t # s =>
          /\ link'[t] = link[t] /\ phase'[t] = phase[t]
          /\ link[t] \in Conn => /\ toMaster'[link[t]] = toMaster[link[t]]
                                 /\ toMonitor'[link[t]] = toMonitor[link[t]]
    BY <1>1, <1>2, <1>4, <2>2
  <2>4. link'[s] \in Conn => Staged(toMaster'[link'[s]], toMonitor'[link'[s]], phase'[s])
    BY <1>1, <2>1
  <2> QED
    BY <2>3, <2>4, StagesOfOthers DEF StartInv
<1>6. \A d \in Pending : owner[d] \in Server /\ owner[d] # s /\ phase[owner[d]] \in {"running", "dead"}
                         /\ Single(toMaster[d], "record")
  BY <1>1 DEF StartInv, Recorded
<1>7. \A d \in Pending' : d \in Pending \/ (d = link[s] /\ link[s] \in Conn)
  BY <1>4 DEF Pending
<1>8. \A d \in Pending' : d = link[s] => owner[d] = s /\ d \notin Pending /\ Single(toMaster'[d], "record")
  <2>1. ASSUME link[s] \in Conn, link[s] \in Pending'
        PROVE  owner[link[s]] = s /\ link[s] \notin Pending /\ Single(toMaster'[link[s]], "record")
    <3>1. owner[link[s]] = s
      BY <2>1 DEF StartInv, Linked
    <3>2. link[s] \notin Pending
      BY <1>6, <3>1
    <3>3. ~ Has(toMaster[link[s]], "record")
      BY <2>1, <3>2 DEF Pending
    <3> QED
      BY <1>4, <2>1, <3>1, <3>2, <3>3, SingleNone
  <2> QED
    BY <2>1 DEF Pending
<1>9. Recorded'
  <2>1. ASSUME NEW d \in Pending'
        PROVE  owner'[d] \in Server /\ phase'[owner'[d]] \in {"running", "dead"}
               /\ Single(toMaster'[d], "record")
    <3>1. CASE d = link[s]
      BY <1>1, <1>2, <1>8, <2>1, <3>1
    <3>2. CASE d # link[s]
      <4>1. d \in Pending /\ d \in Conn
        BY <1>7, <2>1, <3>2 DEF Pending
      <4> QED
        BY <1>1, <1>2, <1>4, <1>6, <3>2, <4>1
    <3> QED
      BY <3>1, <3>2
  <2>2. ASSUME NEW d \in Pending', NEW e \in Pending', owner'[d] = owner'[e] PROVE d = e
    BY <1>1, <1>6, <1>7, <1>8, <2>2 DEF StartInv, Recorded
  <2> QED
    BY <2>1, <2>2 DEF Recorded
<1>10. Done \subseteq Done'
  <2>1. ASSUME NEW t \in Done PROVE t \in Done'
    <3>1. t \in Server /\ phase[t] \in {"running", "dead"} /\ t # s /\ \A d \in Pending : owner[d] # t
      BY <1>1, <2>1 DEF Done
    <3>2. \A d \in Pending' : owner'[d] # t
      BY <1>1, <1>7, <1>8, <3>1
    <3> QED
      BY <1>2, <3>1, <3>2 DEF Done
  <2> QED
    BY <2>1
<1>11. Enough'
  BY <1>1, <1>10, EnoughKept DEF StartInv
<1> QED
  BY <1>1, <1>3, <1>5, <1>9, <1>11 DEF StartInv

LEMMA StartInit == Init => StartInv
<1> SUFFICES ASSUME Init PROVE StartInv
  OBVIOUS
<1>1. TInv
  BY TInvInit
<1>2. /\ phase = [s \in Server |-> "idle"] /\ link = [s \in Server |-> Lost]
      /\ toMaster = [c \in Conn |-> <<>>] /\ toMonitor = [c \in Conn |-> <<>>]
      /\ count = Cardinality(Server) - 1 /\ isStarted = FALSE
  BY DEF Init
<1>3. Linked /\ Mail /\ Stages
  BY <1>2, NoSuchConn DEF Linked, Mail, Stages
<1>4. Pending = {}
  BY <1>2, HasOne DEF Pending
<1>5. Cardinality(Done) \in Nat
  <2>1. IsFiniteSet(Done)
    BY ConstantsAssumption, FS_Subset DEF Done
  <2> QED
    BY <2>1, FS_CardinalityType
<1>6. Recorded /\ Enough
  BY <1>2, <1>4, <1>5, ConnType DEF Recorded, Enough
<1> QED
  BY <1>1, <1>3, <1>6 DEF StartInv

LEMMA StartStep == ASSUME ~ Respawn PROVE StartInv /\ [Next]_vars => StartInv'
<1> SUFFICES ASSUME StartInv, [Next]_vars PROVE StartInv'
  OBVIOUS
<1>0. TInv'
  BY TInvStep DEF StartInv
<1>1. ASSUME NEW s \in Server,
             \/ Boot(s) \/ Reconnect(s) \/ OnSocketClose(s) \/ CheckKeepAlive(s) \/ Crash(s)
             \/ OnRegistered(s) \/ OnReconnected(s) \/ OnServers(s) \/ OnRequest(s)
             \/ FinishStart(s) \/ FinishStartThrows(s)
      PROVE  StartInv'
  <2>1. CASE OnSocketClose(s) \/ CheckKeepAlive(s)
    <3>1. /\ \E to \in {Lost, GivenUp} : Unplug(s, to)
          /\ UNCHANGED <<phase, owner, socket, toMaster, count, isStarted>>
      BY <2>1 DEF OnSocketClose, CheckKeepAlive, watchdog
    <3> QED
      BY <1>0, <3>1, StartUnplugged
  <2>2. CASE Crash(s) \/ FinishStartThrows(s)
    <3>1. /\ Unplug(s, Lost)
          /\ UNCHANGED <<owner, socket, toMaster, count, isStarted>>
      BY <2>2 DEF Crash, FinishStartThrows, Exit, watchdog
    <3>2. /\ \A t \in Server : t # s => phase'[t] = phase[t]
          /\ phase[s] \in {"running", "dead"} => phase'[s] \in {"running", "dead"}
      BY <2>2 DEF Crash, FinishStartThrows, Exit, StartInv, TInv, TypeOK
    <3> QED
      BY <1>0, <3>1, <3>2, StartUnplugged
  <2> QED
    BY <1>1, <2>1, <2>2, StartBoot, StartReconnects, StartRegistered, StartReconnected,
       StartServers, StartRequest, StartFinish
<1>2. ASSUME NEW c \in Conn,
             \/ OnRegister(c) \/ RefuseReconnect(c) \/ OnReconnect(c)
             \/ OnSubscribe(c) \/ OnRecord(c) \/ OnResponse(c) \/ OnDisconnect(c)
      PROVE  StartInv'
  BY <1>2, StartRegister, StartRefuse, StartReconnect, StartSubscribe, StartRecord, StartResponse,
     StartDisconnect
<1>3. CASE RestartMaster
  BY <1>3, StartRestart
<1>4. CASE UNCHANGED vars
  <2>1. UNCHANGED <<phase, link, owner, socket, toMaster, toMonitor, count, isStarted>>
    BY <1>4 DEF vars, process, network, watchdog
  <2>2. Linked' /\ Mail' /\ Stages'
    BY <2>1 DEF StartInv, Linked, Mail, Heard, Stages
  <2>3. Pending' = Pending /\ Done' = Done
    BY <2>1 DEF Pending, Done
  <2>4. Recorded' /\ Enough'
    BY <2>1, <2>3 DEF StartInv, Recorded, Enough
  <2> QED
    BY <1>0, <2>2, <2>4 DEF StartInv
<1> QED
  BY <1>1, <1>2, <1>3, <1>4 DEF Next

LEMMA StartTogether == StartInv => StartedTogether
<1> SUFFICES ASSUME StartInv, isStarted PROVE Done = Server
  BY DEF StartedTogether, Done
<1> DEFINE n == Cardinality(Done)
           all == Cardinality(Server)
<1>1. IsFiniteSet(Server) /\ Done \subseteq Server
  BY ConstantsAssumption DEF Done
<1>2. n <= all /\ n \in Nat /\ all \in Nat /\ IsFiniteSet(Done)
  BY <1>1, FS_Subset, FS_CardinalityType
<1>3. count \in Int /\ count < 0 /\ all - 1 - count <= n
  BY DEF StartInv, Enough, TInv, TypeOK
<1> HIDE DEF n, all
<1>4. n = all
  BY <1>2, <1>3
<1> QED
  BY <1>1, <1>4, FS_Subset DEF n, all

-----------------------------------------------------------------------------
(* What the tables of the servers have.                                    *)

\* Whatever servers crash, connections break and the master restarts, when the
\* closes are found in order and no server comes back under its name, started
\* servers know exactly those that live once nothing is under way, and the start
\* of all is announced only when all have started (watchdog.js, masterwatcher.js).
THEOREM KnowsAllCorrect == ASSUME ~ LateCloses, ~ Respawn PROVE Spec => []KnowsAll
<1> DEFINE Inv == KnowInv /\ StartInv
<1>1. Init => Inv
  BY KnowInit, StartInit
<1>2. Inv /\ [Next]_vars => Inv'
  BY KnowStep, StartStep
<1>3. Inv => KnowsAll
  BY KnowLiving, KnowDead, StartTogether DEF KnowsAll, StartInv, TInv
<1> QED
  BY <1>1, <1>2, <1>3, PTL DEF Spec

\* When servers come back under their names as well, the directory of the master
\* is still the connections that are open, no latch fires twice, and started
\* servers know all that live (masterAgent.js, countDownLatch.js).
THEOREM BackAgreesCorrect == ASSUME ~ LateCloses PROVE Spec => []BackAgrees
<1> DEFINE Inv == KnowInv /\ LatchInv
<1>1. Init => Inv
  <2>1. Init => Counted /\ ~ threw
    BY DEF Init, Counted
  <2> QED
    BY <2>1, KnowInit, DirInit DEF LatchInv
<1>2. Inv /\ [Next]_vars => Inv'
  BY KnowStep, LatchStep
<1>3. Inv => BackAgrees
  BY KnowLiving, DirectoryOfNames DEF BackAgrees, LatchInv, LatchesCount, Counted, Waiting, DirInv, Directory
<1> QED
  BY <1>1, <1>2, <1>3, PTL DEF Spec

\* In whatever order the closes are found, when no server comes back the start of
\* all is announced only when every server has started or ended: no record is
\* counted twice (Watchdog.record).
THEOREM StartedTogetherCorrect == ASSUME ~ Respawn PROVE Spec => []StartedTogether
<1>1. Init => StartInv
  BY StartInit
<1>2. StartInv /\ [Next]_vars => StartInv'
  BY StartStep
<1>3. StartInv => StartedTogether
  BY StartTogether
<1> QED
  BY <1>1, <1>2, <1>3, PTL DEF Spec
=============================================================================
