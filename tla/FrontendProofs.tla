--------------------------- MODULE FrontendProofs ---------------------------
(***************************************************************************)
(* What is proved of a frontend server and its clients, for any clients,   *)
(* connections, requests, routes, versions, servers, weights, jobs and     *)
(* bounds: no timer is left for a socket that is closed, a client gets one *)
(* response, what was written is read as it was written, each server has   *)
(* its turns, and jobs run when they are due.                              *)
(***************************************************************************)
EXTENDS Frontend, FiniteSetTheorems, SequenceTheorems, WellFoundedInduction, TLAPS

-----------------------------------------------------------------------------
(* The udp connector: udpconnector.js, udpsocket.js, heartbeat.js.         *)

\* The sockets made so far have the first numbers.
Numbered(n) ==
  /\ n \in Nat /\ DOMAIN peer = 1 .. n
  /\ \A i \in Udp!Id : i > n => state[i] = "unused"

UdpInv == Udp!TypeOK /\ Udp!PeersAgree /\ \E n \in Nat : Numbered(n)

UdpTypes ==
  /\ clients \in [Peer -> Udp!Id \union {0}]
  /\ \A i \in DOMAIN peer : i \in Udp!Id /\ peer[i] \in Peer
  /\ state \in [Udp!Id -> {"unused", "inited", "wait", "working", "closed"}]
  /\ answers \in [Udp!Id -> 0 .. MaxAnswers]
  /\ beats \subseteq Udp!Id /\ watched \subseteq Udp!Id /\ session \subseteq Udp!Id
  /\ refused \subseteq Udp!Id /\ heard \in 0 .. MaxHeard

UdpTables ==
  /\ \A p \in Peer : clients[p] = 0 \/ (clients[p] \in Udp!Open /\ peer[clients[p]] = p)
  /\ \A i \in Udp!Open : clients[peer[i]] = i
  /\ session = Udp!Open
  /\ \A i \in beats \union watched : state[i] = "working"

LEMMA UdpParts == Udp!TypeOK /\ Udp!PeersAgree <=> UdpTypes /\ UdpTables
<1>1. Udp!TypeOK <=> UdpTypes
  BY DEF Udp!TypeOK, UdpTypes, Udp!None
<1>2. ASSUME UdpTypes PROVE Udp!PeersAgree <=> UdpTables
  <2>1. beats \union watched \subseteq {i \in Udp!Id : state[i] = "working"}
          <=> \A i \in beats \union watched : state[i] = "working"
    BY <1>2 DEF UdpTypes
  <2> QED
    BY <2>1 DEF Udp!PeersAgree, UdpTables, Udp!None
<1> QED
  BY <1>1, <1>2

LEMMA UdpInit == Udp!Init => UdpInv
<1> SUFFICES ASSUME Udp!Init PROVE UdpInv
  OBVIOUS
<1>1. /\ clients = [p \in Peer |-> 0] /\ peer = <<>>
      /\ state = [i \in Udp!Id |-> "unused"] /\ answers = [i \in Udp!Id |-> 0]
      /\ beats = {} /\ watched = {} /\ session = {} /\ refused = {} /\ heard = 0
  BY DEF Udp!Init, Udp!NoClients, Udp!None
<1>2. MaxAnswers \in Nat /\ MaxHeard \in Nat
  BY UdpAssumption DEF Udp!UdpAssumption
<1>3. UdpTypes
  BY <1>1, <1>2 DEF UdpTypes
<1>4. Udp!Open = {}
  BY <1>1 DEF Udp!Open
<1>5. UdpTables
  BY <1>1, <1>4 DEF UdpTables
<1>6. DOMAIN peer = 1 .. 0
  BY <1>1
<1>7. Numbered(0)
  BY <1>1, <1>6 DEF Numbered, Udp!Id
<1> QED
  BY <1>3, <1>5, <1>7, UdpParts DEF UdpInv

LEMMA UdpDisconnects ==
  ASSUME UdpTypes, UdpTables, NEW n \in Nat, Numbered(n), NEW i \in Udp!Id, Udp!Disconnect(i),
         UNCHANGED peer, answers' \in [Udp!Id -> 0 .. MaxAnswers], refused' \subseteq Udp!Id,
         heard' \in 0 .. MaxHeard
  PROVE  UdpTypes' /\ UdpTables' /\ Numbered(n)'
<1>1. CASE i \notin Udp!Open
  <2>1. UNCHANGED <<clients, state, beats, watched, session>>
    BY <1>1 DEF Udp!Disconnect
  <2> QED
    BY <2>1 DEF UdpTypes, UdpTables, Numbered, Udp!Open
<1>2. CASE i \in Udp!Open
  <2>1. /\ state' = [state EXCEPT ![i] = "closed"]
        /\ beats' = beats \ {i} /\ watched' = watched \ {i}
        /\ clients' = [clients EXCEPT ![peer[i]] = 0]
        /\ session' = session \ {i}
    BY <1>2 DEF Udp!Disconnect, Udp!ClearTimers, Udp!Forgets, Udp!None
  <2>2. i \in DOMAIN peer /\ peer[i] \in Peer /\ clients[peer[i]] = i
    <3>1. state[i] # "unused"
      BY <1>2 DEF Udp!Open
    <3>2. i \in 1 .. n
      BY <3>1 DEF Numbered, Udp!Id
    <3> QED
      BY <1>2, <3>2 DEF Numbered, UdpTypes, UdpTables
  <2>3. UdpTypes'
    BY <2>1, <2>2 DEF UdpTypes
  <2>4. Udp!Open' = Udp!Open \ {i}
    BY <2>1 DEF Udp!Open, UdpTypes
  <2>5. UdpTables'
    <3>1. ASSUME NEW p \in Peer PROVE clients'[p] = 0 \/ (clients'[p] \in Udp!Open' /\ peer'[clients'[p]] = p)
      BY <2>1, <2>2, <2>4 DEF UdpTypes, UdpTables
    <3>2. ASSUME NEW j \in Udp!Open' PROVE clients'[peer'[j]] = j
      <4>1. j \in Udp!Open /\ j # i /\ clients[peer[j]] = j
        BY <2>4 DEF UdpTables
      <4>2. peer[j] # peer[i]
        BY <2>2, <4>1
      <4>3. peer[j] \in Peer
        BY <4>1 DEF UdpTypes, Numbered, Udp!Open, Udp!Id
      <4> QED
        BY <2>1, <4>1, <4>2, <4>3 DEF UdpTypes
    <3>3. \A j \in beats' \union watched' : state'[j] = "working"
      BY <2>1 DEF UdpTables, UdpTypes
    <3> QED
      BY <2>1, <2>4, <3>1, <3>2, <3>3 DEF UdpTables
  <2>6. Numbered(n)'
    BY <2>1, <2>2 DEF Numbered, UdpTypes
  <2> QED
    BY <2>3, <2>5, <2>6
<1> QED
  BY <1>1, <1>2

\* The packages a socket handles: it stays open, and a timer starts only with work.
LEMMA UdpHandles ==
  ASSUME UdpTypes, NEW i \in Udp!Id, NEW s \in {"inited", "wait", "working"}, NEW type \in Udp!Package,
         Udp!Handle(i, s, type), s # "inited" => state[i] = s
  PROVE  /\ \E t \in {"inited", "wait", "working"} :
              /\ state' = [state EXCEPT ![i] = t]
              /\ \/ UNCHANGED <<beats, watched>> /\ t = s
                 \/ t = "working" /\ beats' = beats \union {i} /\ watched' = watched \union {i}
         /\ answers' \in [Udp!Id -> 0 .. MaxAnswers]
<1> USE UdpAssumption DEF Udp!UdpAssumption
<1>1. CASE s = "inited" /\ type = "handshake"
  <2>1. /\ answers[i] < MaxAnswers /\ answers' = [answers EXCEPT ![i] = @ + 1]
        /\ state' = [state EXCEPT ![i] = s] /\ UNCHANGED <<beats, watched>>
    BY <1>1 DEF Udp!Handle
  <2>2. answers[i] + 1 \in 0 .. MaxAnswers
    BY <2>1 DEF UdpTypes
  <2> QED
    BY <2>1, <2>2 DEF UdpTypes
<1>2. CASE s = "wait" /\ type = "ack"
  BY <1>2 DEF Udp!Handle, Udp!Beat, Udp!Arms, UdpTypes
<1>3. CASE s = "working" /\ type = "heartbeat"
  <2>1. /\ state' = state /\ answers' = answers
        /\ beats' = beats \union {i} /\ watched' = watched \union {i}
    BY <1>3 DEF Udp!Handle, Udp!Beat, Udp!Arms
  <2>2. state' = [state EXCEPT ![i] = "working"]
    BY <1>3, <2>1 DEF UdpTypes
  <2> QED
    BY <2>1, <2>2 DEF UdpTypes
<1>4. CASE ~(s = "inited" /\ type = "handshake") /\ ~(s = "wait" /\ type = "ack")
           /\ ~(s = "working" /\ type = "heartbeat")
  BY <1>4 DEF Udp!Handle, UdpTypes
<1> QED
  BY <1>1, <1>2, <1>3, <1>4

\* A package for a socket that is open.
LEMMA UdpHandled ==
  ASSUME UdpTypes, UdpTables, NEW n \in Nat, Numbered(n), NEW i \in Udp!Open, NEW type \in Udp!Package,
         Udp!Handle(i, state[i], type), UNCHANGED <<clients, session, peer, refused>>,
         heard' \in 0 .. MaxHeard
  PROVE  UdpTypes' /\ UdpTables' /\ Numbered(n)'
<1>1. i \in Udp!Id /\ state[i] \in {"inited", "wait", "working"}
  BY DEF Udp!Open
<1>2. /\ answers' \in [Udp!Id -> 0 .. MaxAnswers]
      /\ \E t \in {"inited", "wait", "working"} :
              /\ state' = [state EXCEPT ![i] = t]
              /\ \/ UNCHANGED <<beats, watched>> /\ t = state[i]
                 \/ t = "working" /\ beats' = beats \union {i} /\ watched' = watched \union {i}
  BY <1>1, UdpHandles
<1>3. PICK t \in {"inited", "wait", "working"} :
              /\ state' = [state EXCEPT ![i] = t]
              /\ \/ UNCHANGED <<beats, watched>> /\ t = state[i]
                 \/ t = "working" /\ beats' = beats \union {i} /\ watched' = watched \union {i}
  BY <1>2
<1>4. UdpTypes'
  BY <1>1, <1>2, <1>3 DEF UdpTypes
<1>5. Udp!Open' = Udp!Open
  BY <1>1, <1>3 DEF UdpTypes, Udp!Open
<1>6. \A j \in beats' \union watched' : state'[j] = "working"
  BY <1>1, <1>3 DEF UdpTypes, UdpTables
<1>7. UdpTables'
  BY <1>5, <1>6 DEF UdpTables
<1>8. state[i] # "unused"
  BY <1>1
<1>9. Numbered(n)'
  BY <1>1, <1>3, <1>8 DEF Numbered, UdpTypes
<1> QED
  BY <1>4, <1>7, <1>9

\* The first datagram of an address makes a socket.
LEMMA UdpMakes ==
  ASSUME UdpTypes, UdpTables, NEW n \in Nat, Numbered(n), NEW p \in Peer, NEW type \in Udp!Package,
         NEW i, i = n + 1, i \in Udp!Id, clients[p] = 0,
         peer' = [j \in 1 .. i |-> IF j = i THEN p ELSE peer[j]],
         \/ /\ state' = [state EXCEPT ![i] = "closed"]
            /\ UNCHANGED <<clients, session, answers, beats, watched>>
         \/ /\ Udp!Handle(i, "inited", type)
            /\ clients' = [clients EXCEPT ![p] = i] /\ session' = session \union {i},
         UNCHANGED refused, heard' \in 0 .. MaxHeard
  PROVE  UdpTypes' /\ UdpTables' /\ Numbered(n + 1)'
<1>1. /\ state[i] = "unused" /\ i \notin Udp!Open /\ i \notin beats \union watched /\ i \notin DOMAIN peer
  BY DEF Numbered, Udp!Open, UdpTables
<1>2. /\ DOMAIN peer' = 1 .. n + 1 /\ peer'[i] = p
      /\ \A j \in 1 .. n : j # i /\ peer'[j] = peer[j]
  OBVIOUS
<1>3. ASSUME NEW j \in DOMAIN peer' PROVE j \in Udp!Id /\ peer'[j] \in Peer
  <2>1. CASE j = i
    BY <1>2, <2>1
  <2>2. CASE j # i
    <3>1. j \in 1 .. n /\ j \in DOMAIN peer
      BY <1>2, <2>2 DEF Numbered
    <3> QED
      BY <1>2, <3>1 DEF UdpTypes
  <2> QED
    BY <2>1, <2>2
<1>4. \A j \in Udp!Open : j \in 1 .. n /\ peer'[j] = peer[j] /\ peer[j] \in Peer
  BY <1>2 DEF UdpTypes, Numbered, Udp!Open, Udp!Id
<1>5. CASE /\ state' = [state EXCEPT ![i] = "closed"]
           /\ UNCHANGED <<clients, session, answers, beats, watched>>
  <2>1. UdpTypes'
    BY <1>3, <1>5 DEF UdpTypes
  <2>2. Udp!Open' = Udp!Open
    BY <1>1, <1>5 DEF Udp!Open, UdpTypes
  <2>3. \A j \in beats' \union watched' : state'[j] = "working"
    BY <1>1, <1>5 DEF UdpTables, UdpTypes
  <2>4. UdpTables'
    BY <1>4, <1>5, <2>2, <2>3 DEF UdpTables
  <2>5. Numbered(n + 1)'
    BY <1>2, <1>5 DEF Numbered, UdpTypes, Udp!Id
  <2> QED
    BY <2>1, <2>4, <2>5
<1>6. CASE /\ Udp!Handle(i, "inited", type)
           /\ clients' = [clients EXCEPT ![p] = i] /\ session' = session \union {i}
  <2>1. /\ answers' \in [Udp!Id -> 0 .. MaxAnswers]
        /\ state' = [state EXCEPT ![i] = "inited"] /\ UNCHANGED <<beats, watched>>
    <3>1. CASE type = "handshake"
      BY <1>6, <3>1, UdpHandles DEF Udp!Handle
    <3>2. CASE type # "handshake"
      BY <1>6, <3>2 DEF Udp!Handle, UdpTypes
    <3> QED
      BY <3>1, <3>2
  <2>2. UdpTypes'
    BY <1>3, <1>6, <2>1 DEF UdpTypes
  <2>3. Udp!Open' = Udp!Open \union {i}
    BY <1>1, <2>1 DEF Udp!Open, UdpTypes
  <2>4. \A j \in beats' \union watched' : state'[j] = "working"
    BY <1>1, <2>1 DEF UdpTables, UdpTypes
  <2>5. ASSUME NEW q \in Peer PROVE clients'[q] = 0 \/ (clients'[q] \in Udp!Open' /\ peer'[clients'[q]] = q)
    <3>1. CASE q = p
      BY <1>2, <1>6, <2>3, <3>1 DEF UdpTypes
    <3>2. CASE q # p
      <4>1. clients'[q] = clients[q]
        BY <1>6, <3>2 DEF UdpTypes
      <4> QED
        BY <1>4, <2>3, <4>1 DEF UdpTables
    <3> QED
      BY <3>1, <3>2
  <2>6. ASSUME NEW j \in Udp!Open' PROVE clients'[peer'[j]] = j
    <3>1. CASE j = i
      BY <1>2, <1>6, <3>1 DEF UdpTypes
    <3>2. CASE j # i
      <4>1. j \in Udp!Open /\ clients[peer[j]] = j /\ j # 0
        BY <2>3, <3>2 DEF UdpTables, Udp!Open, Udp!Id
      <4>2. peer[j] # p
        BY <4>1
      <4> QED
        BY <1>4, <1>6, <4>1, <4>2 DEF UdpTypes
    <3> QED
      BY <3>1, <3>2
  <2>7. UdpTables'
    BY <1>6, <2>3, <2>4, <2>5, <2>6 DEF UdpTables
  <2>8. Numbered(n + 1)'
    BY <1>2, <2>1 DEF Numbered, UdpTypes, Udp!Id
  <2> QED
    BY <2>2, <2>7, <2>8
<1> QED
  BY <1>5, <1>6

LEMMA UdpCount ==
  ASSUME NEW n \in Nat, DOMAIN peer = 1 .. n
  PROVE  Udp!Cardinality(DOMAIN peer) = n
<1>1. Udp!Cardinality(DOMAIN peer) = Cardinality(DOMAIN peer)
  BY Zenon DEF Udp!Cardinality, Cardinality
<1> QED
  BY <1>1, FS_Interval

LEMMA UdpInvStep == UdpInv /\ [Udp!Next]_udpVars => UdpInv'
<1> SUFFICES ASSUME UdpInv, [Udp!Next]_udpVars PROVE UdpInv'
  OBVIOUS
<1>1. UdpTypes /\ UdpTables
  BY UdpParts DEF UdpInv
<1>2. PICK n \in Nat : Numbered(n)
  BY DEF UdpInv
<1>3. UdpTypes' /\ UdpTables' /\ \E m \in Nat : Numbered(m)'
  <2>1. CASE UNCHANGED udpVars
    BY <1>1, <1>2, <2>1 DEF udpVars, UdpTypes, UdpTables, Numbered, Udp!Open
  <2>2. ASSUME NEW p \in Peer, NEW type \in Udp!Package, Udp!Datagram(p, type)
        PROVE  UdpTypes' /\ UdpTables' /\ \E m \in Nat : Numbered(m)'
    <3>1. heard' \in 0 .. MaxHeard /\ UNCHANGED refused /\ refused' \subseteq Udp!Id
      BY <1>1, <2>2, UdpAssumption DEF Udp!Datagram, UdpTypes, Udp!UdpAssumption
    <3>2. CASE clients[p] # 0
      <4> DEFINE i == clients[p]
      <4>1. i \in Udp!Open /\ i \in Udp!Id
        BY <1>1, <3>2 DEF UdpTables, Udp!Open
      <4>2. CASE type = "other"
        <5>1. Udp!Disconnect(i) /\ UNCHANGED <<answers, peer>>
          BY <2>2, <3>2, <4>2 DEF Udp!Datagram, Udp!None
        <5>2. answers' \in [Udp!Id -> 0 .. MaxAnswers]
          BY <1>1, <5>1 DEF UdpTypes
        <5> HIDE DEF i
        <5>3. UdpTypes' /\ UdpTables' /\ Numbered(n)'
          BY <1>1, <1>2, <3>1, <4>1, <5>1, <5>2, UdpDisconnects
        <5> QED
          BY <5>3
      <4>3. CASE type # "other"
        <5>1. Udp!Handle(i, state[i], type) /\ UNCHANGED <<clients, session, peer>>
          BY <2>2, <3>2, <4>3 DEF Udp!Datagram, Udp!None
        <5> HIDE DEF i
        <5>2. UdpTypes' /\ UdpTables' /\ Numbered(n)'
          BY <1>1, <1>2, <3>1, <4>1, <5>1, UdpHandled
        <5> QED
          BY <5>2
      <4> QED
        BY <4>2, <4>3
    <3>3. CASE clients[p] = 0
      <4> DEFINE i == n + 1
      <4>1. i = Udp!Cardinality(DOMAIN peer) + 1
        BY <1>2, UdpCount DEF Numbered
      <4>2. /\ i \in Udp!Id /\ peer' = [j \in 1 .. i |-> IF j = i THEN p ELSE peer[j]]
            /\ \/ /\ state' = [state EXCEPT ![i] = "closed"]
                  /\ UNCHANGED <<clients, session, answers, beats, watched>>
               \/ /\ Udp!Handle(i, "inited", type)
                  /\ clients' = [clients EXCEPT ![p] = i] /\ session' = session \union {i}
        BY <2>2, <3>3, <4>1, Zenon DEF Udp!Datagram, Udp!None
      <4>3. i = n + 1
        OBVIOUS
      <4> HIDE DEF i
      <4>4. UdpTypes' /\ UdpTables' /\ Numbered(n + 1)'
        BY <1>1, <1>2, <2>2, <3>1, <3>3, <4>2, <4>3, UdpMakes
      <4>5. n + 1 \in Nat
        OBVIOUS
      <4> QED
        BY <4>4, <4>5
    <3> QED
      BY <3>2, <3>3
  <2>3. ASSUME NEW i \in Udp!Id, Udp!Response(i)
        PROVE  UdpTypes' /\ UdpTables' /\ Numbered(n)'
    <3>1. /\ answers' = [answers EXCEPT ![i] = @ - 1] /\ answers[i] > 0
          /\ state' = [state EXCEPT ![i] = IF state[i] = "inited" THEN "wait" ELSE state[i]]
          /\ UNCHANGED <<clients, peer, beats, watched, session, refused, heard>>
      BY <2>3 DEF Udp!Response, Udp!Responded
    <3>2. answers[i] - 1 \in 0 .. MaxAnswers
      BY <1>1, <3>1, UdpAssumption DEF UdpTypes, Udp!UdpAssumption
    <3>3. UdpTypes'
      BY <1>1, <3>1, <3>2 DEF UdpTypes
    <3>4. Udp!Open' = Udp!Open
      BY <1>1, <3>1 DEF UdpTypes, Udp!Open
    <3>5. \A j \in beats' \union watched' : state'[j] = "working"
      BY <1>1, <3>1 DEF UdpTypes, UdpTables
    <3>6. UdpTables'
      BY <1>1, <3>1, <3>4, <3>5 DEF UdpTables
    <3>7. Numbered(n)'
      BY <1>1, <1>2, <3>1 DEF Numbered, UdpTypes
    <3> QED
      BY <3>3, <3>6, <3>7
  <2>4. ASSUME NEW i \in Udp!Id, Udp!ProcessError(i)
        PROVE  UdpTypes' /\ UdpTables' /\ Numbered(n)'
    <3>1. /\ answers' = [answers EXCEPT ![i] = @ - 1] /\ answers[i] > 0
          /\ refused' = refused \union {i}
          /\ UNCHANGED <<clients, peer, state, beats, watched, session, heard>>
      BY <2>4 DEF Udp!ProcessError
    <3>2. answers[i] - 1 \in 0 .. MaxAnswers
      BY <1>1, <3>1, UdpAssumption DEF UdpTypes, Udp!UdpAssumption
    <3>3. UdpTypes'
      BY <1>1, <3>1, <3>2 DEF UdpTypes
    <3> QED
      BY <1>1, <1>2, <3>1, <3>3 DEF UdpTables, Numbered, Udp!Open
  <2>5. ASSUME NEW i \in Udp!Id, Udp!DisconnectRefused(i) \/ Udp!TimeoutFires(i) \/ Udp!Kick(i)
        PROVE  UdpTypes' /\ UdpTables' /\ Numbered(n)'
    <3>1. /\ Udp!Disconnect(i) /\ UNCHANGED <<peer, answers, heard>>
          /\ refused' \subseteq refused
      BY <2>5 DEF Udp!DisconnectRefused, Udp!TimeoutFires, Udp!Kick
    <3>2. /\ answers' \in [Udp!Id -> 0 .. MaxAnswers] /\ refused' \subseteq Udp!Id
          /\ heard' \in 0 .. MaxHeard
      BY <1>1, <3>1 DEF UdpTypes
    <3> QED
      BY <1>1, <1>2, <3>1, <3>2, UdpDisconnects
  <2> QED
    BY <1>2, <2>1, <2>2, <2>3, <2>4, <2>5 DEF Udp!Next
<1> QED
  <2>1. Udp!TypeOK' /\ Udp!PeersAgree'
    BY <1>3, UdpParts, PTL
  <2> QED
    BY <1>3, <2>1 DEF UdpInv

\* The sockets of the udp connector, their timers and sessions.
LEMMA UdpInvInductive == Spec => []UdpInv
<1>1. Init => UdpInv
  BY UdpInit DEF Init
<1>2. UdpInv /\ [Next]_vars => UdpInv'
  <2> SUFFICES ASSUME UdpInv, [Next]_vars PROVE UdpInv'
    OBVIOUS
  <2>1. [Udp!Next]_udpVars
    BY Zenon DEF Next, vars
  <2> QED
    BY <2>1, UdpInvStep
<1> QED
  BY <1>1, <1>2, PTL DEF Spec

-----------------------------------------------------------------------------
(* The link of a client: jsclient.js, hybridsocket.js, heartbeat.js.       *)

ClientSet ==
  [socket : 0..MaxConn, count : 0..MaxConn, acked : 0..MaxConn,
   prevent : BOOLEAN, attempts : 0..MaxAttempts, retry : BOOLEAN,
   hb : BOOLEAN, hbTimeout : BOOLEAN, fresh : BOOLEAN]
Ends == {"none", "connecting", "open", "closing", "closed"}
Channel == [state : Ends, cut : BOOLEAN, up : Seq(Link!Packets), down : Seq(Link!Packets)]
Channels == [Link!Conn -> Channel]
States == {"none", "inited", "wait_ack", "working", "closed"}
SocketSet == [state : States, pending : BOOLEAN, asked : SUBSET Req, watched : BOOLEAN, timer : BOOLEAN]
Sockets == [Link!Conn -> SocketSet]
RequestSet == [Req -> [conn : 0..MaxConn, acked : BOOLEAN, done : BOOLEAN]]

\* A socket with a timer, or an entry, works.
Calm(s) == s.timer \/ s.watched => s.state = "working"
CalmSocket == {s \in SocketSet : Calm(s)}

LinkInv ==
  /\ client \in ClientSet /\ wire \in Channels /\ requests \in RequestSet
  /\ socket \in [Link!Conn -> CalmSocket]

LEMMA LinkSafe == LinkInv => Link!TypeOK /\ Link!NoTimerLeft
<1> SUFFICES ASSUME LinkInv PROVE Link!TypeOK /\ Link!NoTimerLeft
  OBVIOUS
<1>1. socket \in Sockets
  BY DEF LinkInv, CalmSocket, Sockets
<1>2. Link!TypeOK
  BY <1>1 DEF LinkInv, Link!TypeOK, ClientSet, Channels, Channel, Ends, Sockets, SocketSet, States, RequestSet
<1>3. Link!NoTimerLeft
  BY DEF LinkInv, CalmSocket, Calm, Link!NoTimerLeft
<1> QED
  BY <1>2, <1>3

LEMMA LinkPackets ==
  /\ \A t \in {"handshake", "refused", "ack", "heartbeat", "kick"} : Link!Packet(t) \in Link!Packets
  /\ \A r \in Req : Link!Data(r) \in Link!Packets
  /\ \A p \in Link!Packets : p.type = "data" => p.req \in Req
<1>1. \A t \in {"handshake", "refused", "ack", "heartbeat", "kick"} : Link!Packet(t) \in Link!Packets
  BY Zenon DEF Link!Packets
<1>2. \A r \in Req : Link!Data(r) \in Link!Packets
  BY Zenon DEF Link!Packets
<1>3. ASSUME NEW p \in Link!Packets, p.type = "data" PROVE p.req \in Req
  <2>1. CASE \E t \in {"handshake", "refused", "ack", "heartbeat", "kick"} : p = Link!Packet(t)
    BY <1>3, <2>1 DEF Link!Packet
  <2>2. CASE \E r \in Req : p = Link!Data(r)
    BY <2>2 DEF Link!Data
  <2> QED
    BY <2>1, <2>2, Zenon DEF Link!Packets
<1> QED
  BY <1>1, <1>2, <1>3

\* Changes of the variables of the client.
LEMMA ClientChanges ==
  ASSUME NEW k \in ClientSet
  PROVE  /\ \A n \in 0 .. MaxConn : /\ [k EXCEPT !.socket = n] \in ClientSet
                                  /\ [k EXCEPT !.count = n] \in ClientSet
                                  /\ [k EXCEPT !.acked = n] \in ClientSet
         /\ \A n \in 0 .. MaxAttempts : [k EXCEPT !.attempts = n] \in ClientSet
         /\ \A b \in BOOLEAN : /\ [k EXCEPT !.prevent = b] \in ClientSet
                              /\ [k EXCEPT !.retry = b] \in ClientSet
                              /\ [k EXCEPT !.hb = b] \in ClientSet
                              /\ [k EXCEPT !.hbTimeout = b] \in ClientSet
                              /\ [k EXCEPT !.fresh = b] \in ClientSet
BY DEF ClientSet

\* Several of them.
LEMMA ClientSteps ==
  ASSUME NEW k \in ClientSet
  PROVE  /\ [k EXCEPT !.socket = 0, !.hb = FALSE, !.hbTimeout = FALSE] \in ClientSet
         /\ [k EXCEPT !.prevent = FALSE, !.attempts = 0, !.retry = FALSE] \in ClientSet
         /\ [k EXCEPT !.hb = FALSE, !.hbTimeout = TRUE, !.fresh = FALSE] \in ClientSet
         /\ [k EXCEPT !.hb = TRUE, !.hbTimeout = FALSE, !.fresh = TRUE] \in ClientSet
         /\ \A n \in 0 .. MaxAttempts : [k EXCEPT !.attempts = n, !.retry = TRUE] \in ClientSet
         /\ \A n \in 0 .. MaxConn : /\ [k EXCEPT !.socket = n, !.count = n] \in ClientSet
                                  /\ [k EXCEPT !.socket = n, !.count = n, !.retry = FALSE] \in ClientSet
                                  /\ [k EXCEPT !.acked = n, !.fresh = TRUE] \in ClientSet
<1>0. 0 \in 0 .. MaxConn /\ 0 \in 0 .. MaxAttempts
  BY LinkAssumption DEF Link!LinkAssumption
<1>1. [[[k EXCEPT !.socket = 0] EXCEPT !.hb = FALSE] EXCEPT !.hbTimeout = FALSE] \in ClientSet
  BY <1>0, ClientChanges, Zenon
<1>2. [[[k EXCEPT !.prevent = FALSE] EXCEPT !.attempts = 0] EXCEPT !.retry = FALSE] \in ClientSet
  BY <1>0, ClientChanges, Zenon
<1>3. [[[k EXCEPT !.hb = FALSE] EXCEPT !.hbTimeout = TRUE] EXCEPT !.fresh = FALSE] \in ClientSet
  BY ClientChanges, Zenon
<1>4. [[[k EXCEPT !.hb = TRUE] EXCEPT !.hbTimeout = FALSE] EXCEPT !.fresh = TRUE] \in ClientSet
  BY ClientChanges, Zenon
<1>5. ASSUME NEW n \in 0 .. MaxAttempts PROVE [[k EXCEPT !.attempts = n] EXCEPT !.retry = TRUE] \in ClientSet
  BY ClientChanges, Zenon
<1>6. ASSUME NEW n \in 0 .. MaxConn
      PROVE  /\ [[k EXCEPT !.socket = n] EXCEPT !.count = n] \in ClientSet
             /\ [[[k EXCEPT !.socket = n] EXCEPT !.count = n] EXCEPT !.retry = FALSE] \in ClientSet
             /\ [[k EXCEPT !.acked = n] EXCEPT !.fresh = TRUE] \in ClientSet
  BY ClientChanges, Zenon
<1> QED
  BY <1>1, <1>2, <1>3, <1>4, <1>5, <1>6, Zenon

LEMMA LinkInit == Link!Init => LinkInv
<1> SUFFICES ASSUME Link!Init PROVE LinkInv
  OBVIOUS
<1>0. MaxConn \in Nat /\ MaxAttempts \in Nat
  BY LinkAssumption DEF Link!LinkAssumption
<1>1. client \in ClientSet
  BY <1>0 DEF Link!Init, ClientSet
<1>2. wire \in Channels
  BY DEF Link!Init, Channels, Channel, Ends
<1>3. requests \in RequestSet
  BY <1>0 DEF Link!Init, Link!Unsent, RequestSet
<1>4. [Link!NewSocket EXCEPT !.state = "none"] \in CalmSocket
  BY DEF Link!NewSocket, CalmSocket, SocketSet, States, Calm
<1>5. socket \in [Link!Conn -> CalmSocket]
  BY <1>4 DEF Link!Init
<1> QED
  BY <1>1, <1>2, <1>3, <1>5 DEF LinkInv

\* Changes of one channel.
LEMMA ChannelChanges ==
  ASSUME NEW w \in Channels, NEW c \in Link!Conn
  PROVE  /\ w[c].up \in Seq(Link!Packets) /\ w[c].down \in Seq(Link!Packets)
         /\ \A e \in Ends : [w EXCEPT ![c].state = e] \in Channels
         /\ \A b \in BOOLEAN : [w EXCEPT ![c].cut = b] \in Channels
         /\ \A q \in Seq(Link!Packets) : [w EXCEPT ![c].up = q] \in Channels /\ [w EXCEPT ![c].down = q] \in Channels
<1>1. w[c] \in Channel
  BY DEF Channels
<1>2. /\ \A e \in Ends : [w[c] EXCEPT !.state = e] \in Channel
      /\ \A b \in BOOLEAN : [w[c] EXCEPT !.cut = b] \in Channel
      /\ \A q \in Seq(Link!Packets) : [w[c] EXCEPT !.up = q] \in Channel /\ [w[c] EXCEPT !.down = q] \in Channel
  BY <1>1 DEF Channel
<1>3. \A x \in Channel : [w EXCEPT ![c] = x] \in Channels
  BY DEF Channels
<1>4. w[c].up \in Seq(Link!Packets) /\ w[c].down \in Seq(Link!Packets)
  BY <1>1 DEF Channel
<1>5. ASSUME NEW e \in Ends PROVE [w EXCEPT ![c].state = e] \in Channels
  BY <1>2, <1>3
<1>6. ASSUME NEW b \in BOOLEAN PROVE [w EXCEPT ![c].cut = b] \in Channels
  BY <1>2, <1>3
<1>7. ASSUME NEW q \in Seq(Link!Packets)
      PROVE  [w EXCEPT ![c].up = q] \in Channels /\ [w EXCEPT ![c].down = q] \in Channels
  BY <1>2, <1>3
<1> QED
  BY <1>4, <1>5, <1>6, <1>7

LEMMA LinkSends ==
  ASSUME wire \in Channels, NEW c \in Link!Conn, NEW p \in Link!Packets
  PROVE  /\ Link!Sent(c, p) \in Channels /\ Link!Reply(c, p) \in Channels
         /\ wire[c].down # <<>> => Link!Taken(c) \in Channels
         /\ wire[c].up # <<>> => Link!Read(c) \in Channels
<1>1. /\ wire[c].up \in Seq(Link!Packets) /\ wire[c].down \in Seq(Link!Packets)
      /\ \A q \in Seq(Link!Packets) : [wire EXCEPT ![c].up = q] \in Channels /\ [wire EXCEPT ![c].down = q] \in Channels
  BY ChannelChanges
<1>2. /\ Append(wire[c].up, p) \in Seq(Link!Packets) /\ Append(wire[c].down, p) \in Seq(Link!Packets)
      /\ wire[c].down # <<>> => Tail(wire[c].down) \in Seq(Link!Packets)
      /\ wire[c].up # <<>> => Tail(wire[c].up) \in Seq(Link!Packets)
  BY <1>1
<1> QED
  BY <1>1, <1>2 DEF Link!Sent, Link!Reply, Link!Taken, Link!Read

\* The steps of the client leave the sockets of the server alone, but for a new one.
LEMMA LinkClient ==
  ASSUME LinkInv,
         \/ Link!ClientInit \/ Link!RetryFires \/ Link!UserDisconnects \/ Link!PreventReconnect
         \/ Link!HeartbeatFires \/ Link!TimeoutFires
  PROVE  LinkInv'
<1>0. /\ MaxConn \in Nat /\ MaxAttempts \in Nat
      /\ client \in ClientSet /\ wire \in Channels /\ requests \in RequestSet
      /\ socket \in [Link!Conn -> CalmSocket]
  BY LinkAssumption DEF Link!LinkAssumption, LinkInv
<1>1. UNCHANGED <<socket, requests>>
  BY DEF Link!ClientInit, Link!RetryFires, Link!UserDisconnects, Link!PreventReconnect,
         Link!HeartbeatFires, Link!TimeoutFires
<1>2. wire' \in Channels
  <2>1. CASE Link!Connect
    <3>1. client.count + 1 \in Link!Conn
      BY <1>0, <2>1 DEF Link!Connect, ClientSet, Link!Conn
    <3>2. "connecting" \in Ends
      BY DEF Ends
    <3> QED
      BY <1>0, <2>1, <3>1, <3>2, ChannelChanges DEF Link!Connect
  <2>2. CASE wire' = Link!Closing
    <3>1. CASE wire' = wire
      BY <1>0, <3>1
    <3>2. CASE client.socket # 0 /\ wire' = [wire EXCEPT ![client.socket].state = "closing"]
      <4>1. client.socket \in Link!Conn
        BY <1>0, <3>2 DEF ClientSet, Link!Conn
      <4>2. "closing" \in Ends
        BY DEF Ends
      <4> QED
        BY <1>0, <3>2, <4>1, <4>2, ChannelChanges
    <3> QED
      BY <2>2, <3>1, <3>2 DEF Link!Closing
  <2>3. CASE wire' = Link!Send(Link!Packet("heartbeat"))
    <3>1. CASE wire' = wire
      BY <1>0, <3>1
    <3>2. CASE client.socket # 0 /\ wire' = Link!Sent(client.socket, Link!Packet("heartbeat"))
      <4>1. client.socket \in Link!Conn
        BY <1>0, <3>2 DEF ClientSet, Link!Conn
      <4>2. Link!Packet("heartbeat") \in Link!Packets
        BY LinkPackets
      <4> QED
        BY <1>0, <3>2, <4>1, <4>2, LinkSends
    <3> QED
      BY <2>3, <3>1, <3>2 DEF Link!Send
  <2>4. CASE wire' = wire
    BY <1>0, <2>4
  <2> QED
    BY <2>1, <2>2, <2>3, <2>4 DEF Link!ClientInit, Link!RetryFires, Link!UserDisconnects,
       Link!PreventReconnect, Link!HeartbeatFires, Link!TimeoutFires, Link!Disconnect
<1>3. client' \in ClientSet
  <2>1. CASE Link!ClientInit \/ Link!RetryFires
    <3>1. client.count + 1 \in 0 .. MaxConn
      BY <1>0, <2>1 DEF Link!ClientInit, Link!RetryFires, Link!Connect, ClientSet
    <3>2. \/ client' = [client EXCEPT !.socket = client.count + 1, !.count = @ + 1]
          \/ client' = [client EXCEPT !.socket = client.count + 1, !.count = @ + 1, !.retry = FALSE]
      BY <2>1 DEF Link!ClientInit, Link!RetryFires
    <3> DEFINE n == client.count + 1
    <3>3. n \in 0 .. MaxConn /\ (\/ client' = [client EXCEPT !.socket = n, !.count = n]
                                \/ client' = [client EXCEPT !.socket = n, !.count = n, !.retry = FALSE])
      BY <3>1, <3>2
    <3> HIDE DEF n
    <3> QED
      BY <1>0, <3>3, ClientSteps, Zenon
  <2>2. CASE client' = [client EXCEPT !.socket = 0, !.hb = FALSE, !.hbTimeout = FALSE]
    BY <1>0, <2>2, ClientSteps
  <2>3. CASE client' = [client EXCEPT !.prevent = TRUE] \/ client' = [client EXCEPT !.hb = FALSE]
             \/ client' = [client EXCEPT !.fresh = FALSE]
    BY <1>0, <2>3 DEF ClientSet
  <2>4. CASE client' = Link!Armed
    BY <1>0, <2>4, ClientSteps DEF Link!Armed
  <2> QED
    BY <2>1, <2>2, <2>3, <2>4 DEF Link!UserDisconnects,
       Link!PreventReconnect, Link!HeartbeatFires, Link!TimeoutFires, Link!Disconnect
<1> QED
  BY <1>0, <1>1, <1>2, <1>3 DEF LinkInv, RequestSet, ClientSet, Channels, Channel, CalmSocket, SocketSet, Calm

\* Connections open, close and are cut, and the client reads.
LEMMA LinkConnection ==
  ASSUME LinkInv, NEW c \in Link!Conn, Link!Opens(c) \/ Link!OnClose(c) \/ Link!ClientReceives(c) \/ Link!Cut(c)
  PROVE  LinkInv'
<1>0. /\ MaxConn \in Nat /\ MaxAttempts \in Nat
      /\ client \in ClientSet /\ wire \in Channels /\ requests \in RequestSet
      /\ socket \in [Link!Conn -> CalmSocket]
      /\ "open" \in Ends /\ "closed" \in Ends /\ <<>> \in Seq(Link!Packets)
  BY LinkAssumption DEF Link!LinkAssumption, LinkInv, Ends
<1>1. CASE Link!Opens(c)
  <2>1. <<Link!Packet("handshake")>> \in Seq(Link!Packets)
    BY LinkPackets
  <2>2. wire' = [wire EXCEPT ![c].state = "open", ![c].up = <<Link!Packet("handshake")>>]
    BY <1>1 DEF Link!Opens
  <2>3. [wire EXCEPT ![c].state = "open"] \in Channels
    BY <1>0, ChannelChanges
  <2> DEFINE q == <<Link!Packet("handshake")>>
             w == [wire EXCEPT ![c].state = "open"]
  <2>4. wire' = [w EXCEPT ![c].up = q]
    BY <2>2
  <2> HIDE DEF w, q
  <2>5. wire' \in Channels
    BY <2>1, <2>3, <2>4, ChannelChanges DEF w, q
  <2>6. client' \in ClientSet
    BY <1>0, <1>1, ClientSteps DEF Link!Opens
  <2>7. Link!NewSocket \in CalmSocket
    BY DEF Link!NewSocket, CalmSocket, SocketSet, States, Calm
  <2>8. socket' \in [Link!Conn -> CalmSocket] /\ requests' = requests
    BY <1>0, <1>1, <2>7 DEF Link!Opens, Link!Accepts
  <2> QED
    BY <1>0, <2>5, <2>6, <2>8 DEF LinkInv, RequestSet, ClientSet, Channels, Channel, CalmSocket, SocketSet, Calm
<1>2. CASE Link!OnClose(c)
  <2> DEFINE w == [wire EXCEPT ![c].state = "closed"]
  <2>1. wire' = [w EXCEPT ![c].down = <<>>] /\ w \in Channels
    BY <1>0, <1>2, ChannelChanges DEF Link!OnClose
  <2> HIDE DEF w
  <2>2. wire' \in Channels
    BY <1>0, <2>1, ChannelChanges
  <2>3. client' \in ClientSet
    <3>1. CASE client.attempts < MaxAttempts /\ client' = [client EXCEPT !.attempts = @ + 1, !.retry = TRUE]
      <4> DEFINE n == client.attempts + 1
      <4>1. n \in 0 .. MaxAttempts
        BY <1>0, <3>1 DEF ClientSet
      <4>2. client' = [client EXCEPT !.attempts = n, !.retry = TRUE]
        BY <3>1
      <4> HIDE DEF n
      <4> QED
        BY <1>0, <4>1, <4>2, ClientSteps, Zenon
    <3>2. CASE client' = client
      BY <1>0, <3>2
    <3> QED
      BY <1>2, <3>1, <3>2 DEF Link!OnClose
  <2>4. socket' = socket /\ requests' = requests
    BY <1>2 DEF Link!OnClose
  <2> QED
    BY <1>0, <2>2, <2>3, <2>4 DEF LinkInv, RequestSet, ClientSet, Channels, Channel, CalmSocket, SocketSet, Calm
<1>3. CASE Link!ClientReceives(c)
  <2>1. wire[c].down # <<>> /\ socket' = socket
    BY <1>3 DEF Link!ClientReceives, Link!ReceiveHandshake, Link!ReceiveHeartbeat, Link!ReceiveResponse,
                Link!ReceiveEvent, Link!Incoming
  <2>2. Link!Taken(c) \in Channels
    BY <1>0, <2>1, LinkPackets, LinkSends
  <2>3. Link!Acks(c) \in Channels
    <3> DEFINE w == Link!Sent(c, Link!Packet("ack"))
    <3>1. w \in Channels
      BY <1>0, LinkPackets, LinkSends
    <3>2. w[c].down = wire[c].down
      BY <1>0 DEF Link!Sent, Channels, Channel
    <3>3. Tail(w[c].down) \in Seq(Link!Packets)
      BY <2>1, <3>1, <3>2, ChannelChanges
    <3> HIDE DEF w
    <3>4. [w EXCEPT ![c].down = Tail(@)] \in Channels
      BY <3>1, <3>3, ChannelChanges
    <3> QED
      BY <3>4 DEF Link!Acks, w
  <2>4. wire' \in Channels
    BY <1>3, <2>2, <2>3 DEF Link!ClientReceives, Link!ReceiveHandshake, Link!ReceiveHeartbeat,
       Link!ReceiveResponse, Link!ReceiveEvent, Link!Acknowledged
  <2>5. client' \in ClientSet
    <3>1. c \in 0 .. MaxConn
      BY <1>0 DEF Link!Conn
    <3> QED
      BY <1>0, <1>3, <3>1 DEF Link!ClientReceives, Link!ReceiveHandshake, Link!ReceiveHeartbeat,
       Link!ReceiveResponse, Link!ReceiveEvent, ClientSet
  <2>6. requests' \in RequestSet
    <3>1. CASE requests' = requests
      BY <1>0, <3>1
    <3>2. CASE Link!ReceiveResponse(c)
      <4> DEFINE r == Head(wire[c].down).req
      <4>1. requests' = [requests EXCEPT ![r].done = TRUE]
        BY <3>2 DEF Link!ReceiveResponse
      <4> HIDE DEF r
      <4> QED
        BY <1>0, <4>1 DEF RequestSet
    <3> QED
      BY <1>3, <3>1, <3>2 DEF Link!ClientReceives, Link!ReceiveHandshake, Link!ReceiveHeartbeat, Link!ReceiveEvent
  <2> QED
    BY <1>0, <2>1, <2>4, <2>5, <2>6 DEF LinkInv, RequestSet, ClientSet, Channels, Channel, CalmSocket, SocketSet, Calm
<1>4. CASE Link!Cut(c)
  <2> DEFINE w == [wire EXCEPT ![c].cut = TRUE]
             v == [w EXCEPT ![c].up = <<>>]
  <2>1. wire' = [v EXCEPT ![c].down = <<>>] /\ w \in Channels
    BY <1>0, <1>4, ChannelChanges DEF Link!Cut
  <2> HIDE DEF w
  <2>2. v \in Channels
    BY <1>0, <2>1, ChannelChanges
  <2> HIDE DEF v
  <2>3. wire' \in Channels
    BY <1>0, <2>1, <2>2, ChannelChanges
  <2>4. socket' = socket /\ requests' = requests /\ client' = client
    BY <1>4 DEF Link!Cut
  <2> QED
    BY <1>0, <2>3, <2>4 DEF LinkInv, RequestSet, ClientSet, Channels, Channel, CalmSocket, SocketSet, Calm
<1> QED
  BY <1>1, <1>2, <1>3, <1>4

\* Changes of one socket of the server.
LEMMA SocketChanges ==
  ASSUME NEW x \in CalmSocket
  PROVE  /\ Link!Closed(x) \in CalmSocket
         /\ \A b \in BOOLEAN : [x EXCEPT !.pending = b] \in CalmSocket
         /\ x.state = "inited" => [x EXCEPT !.pending = FALSE, !.state = "wait_ack"] \in CalmSocket
         /\ \A q \in SUBSET Req : [x EXCEPT !.asked = q] \in CalmSocket
         /\ \A b \in BOOLEAN : [x EXCEPT !.state = "working", !.watched = TRUE, !.timer = b] \in CalmSocket
         /\ x.pending \in BOOLEAN /\ x.asked \in SUBSET Req
<1> USE DEF CalmSocket, SocketSet, States, Calm
<1>1. Link!Closed(x) \in CalmSocket
  BY DEF Link!Closed
<1>2. \A b \in BOOLEAN : [x EXCEPT !.pending = b] \in CalmSocket
  OBVIOUS
<1>3. x.state = "inited" => [x EXCEPT !.pending = FALSE, !.state = "wait_ack"] \in CalmSocket
  OBVIOUS
<1>4. \A q \in SUBSET Req : [x EXCEPT !.asked = q] \in CalmSocket
  OBVIOUS
<1>5. \A b \in BOOLEAN : [x EXCEPT !.state = "working", !.watched = TRUE, !.timer = b] \in CalmSocket
  OBVIOUS
<1> QED
  BY <1>1, <1>2, <1>3, <1>4, <1>5

LEMMA LinkServer ==
  ASSUME LinkInv, NEW c \in Link!Conn,
         \/ Link!ServerReads(c) \/ Link!HandshakeEnds(c) \/ Link!Kick(c) \/ Link!ServerDisconnects(c)
         \/ Link!BeatTimeout(c) \/ Link!CloseArrives(c)
         \/ \E r \in Req : Link!Respond(c, r)
  PROVE  LinkInv'
<1>0. /\ client \in ClientSet /\ wire \in Channels /\ requests \in RequestSet
      /\ socket \in [Link!Conn -> CalmSocket] /\ socket[c] \in CalmSocket
      /\ \A x \in CalmSocket : [socket EXCEPT ![c] = x] \in [Link!Conn -> CalmSocket]
      /\ <<>> \in Seq(Link!Packets)
  BY DEF LinkInv
<1>1. UNCHANGED <<client, requests>>
  BY DEF Link!ServerReads, Link!HandshakeEnds, Link!Kick, Link!ServerDisconnects, Link!BeatTimeout,
         Link!CloseArrives, Link!Respond, Link!HandleHandshake, Link!HandleAckOrHeartbeat,
         Link!HandleData, Link!HandleNothing, Link!HandshakeAnswered, Link!HandshakeRefused
<1>2. ASSUME NEW w \in Channels, Link!ServerCloses(c, w)
      PROVE  wire' \in Channels /\ socket' \in [Link!Conn -> CalmSocket]
  <2>1. wire' = [w EXCEPT ![c].up = <<>>] /\ socket' = [socket EXCEPT ![c] = Link!Closed(socket[c])]
    BY <1>2 DEF Link!ServerCloses
  <2>2. wire' \in Channels
    BY <1>0, <2>1, ChannelChanges
  <2>3. Link!Closed(socket[c]) \in CalmSocket
    BY <1>0, SocketChanges
  <2> QED
    BY <1>0, <2>1, <2>2, <2>3
<1>3. \A p \in Link!Packets : Link!Reply(c, p) \in Channels
  BY <1>0, LinkSends
<1>4. wire[c].up # <<>> => Link!Read(c) \in Channels
  BY <1>0, LinkPackets, LinkSends
<1>5. wire' \in Channels /\ socket' \in [Link!Conn -> CalmSocket]
  <2>1. CASE Link!Kick(c) \/ Link!ServerDisconnects(c) \/ Link!BeatTimeout(c)
             \/ Link!CloseArrives(c) \/ Link!HandshakeRefused(c)
    <3>1. \E w \in Channels : Link!ServerCloses(c, w)
      BY <1>0, <1>3, <2>1, LinkPackets DEF Link!Kick, Link!ServerDisconnects, Link!BeatTimeout,
         Link!CloseArrives, Link!HandshakeRefused
    <3> QED
      BY <1>2, <3>1
  <2>2. CASE Link!HandleHandshake(c)
    <3>1. /\ wire[c].up # <<>> /\ wire' = Link!Read(c)
          /\ socket' = [socket EXCEPT ![c] = [socket[c] EXCEPT !.pending = @ \/ socket[c].state = "inited"]]
      BY <2>2 DEF Link!HandleHandshake, Link!Arrives
    <3> DEFINE b == (socket[c].pending \/ socket[c].state = "inited")
    <3>2. b \in BOOLEAN
      OBVIOUS
    <3>3. socket' = [socket EXCEPT ![c] = [socket[c] EXCEPT !.pending = b]]
      BY <3>1
    <3> HIDE DEF b
    <3> QED
      BY <1>0, <1>4, <3>1, <3>2, <3>3, SocketChanges
  <2>3. CASE Link!HandshakeAnswered(c)
    <3>1. wire' \in Channels
      BY <1>0, <1>3, <2>3, LinkPackets DEF Link!HandshakeAnswered
    <3>2. CASE socket[c].state = "inited"
      <4>1. socket' = [socket EXCEPT ![c] = [socket[c] EXCEPT !.pending = FALSE, !.state = "wait_ack"]]
        BY <1>0, <2>3, <3>2 DEF Link!HandshakeAnswered, CalmSocket, SocketSet
      <4> QED
        BY <1>0, <3>1, <3>2, <4>1, SocketChanges
    <3>3. CASE socket[c].state # "inited"
      <4>1. socket' = [socket EXCEPT ![c] = [socket[c] EXCEPT !.pending = FALSE]]
        BY <1>0, <2>3, <3>3 DEF Link!HandshakeAnswered, CalmSocket, SocketSet
      <4> QED
        BY <1>0, <3>1, <4>1, SocketChanges
    <3> QED
      BY <3>2, <3>3
  <2>4. CASE Link!HandleAckOrHeartbeat(c)
    <3>1. /\ wire[c].up # <<>>
          /\ wire' = [Link!Read(c) EXCEPT ![c].down = Append(@, Link!Packet("heartbeat"))]
          /\ socket' = [socket EXCEPT ![c].state = "working", ![c].watched = TRUE,
                                      ![c].timer = DisconnectOnTimeout]
      BY <2>4 DEF Link!HandleAckOrHeartbeat, Link!Arrives, Link!Beat
    <3> DEFINE w == Link!Read(c)
    <3>2. w \in Channels
      BY <1>4, <3>1
    <3> HIDE DEF w
    <3>3. Append(w[c].down, Link!Packet("heartbeat")) \in Seq(Link!Packets)
      BY <3>2, ChannelChanges, LinkPackets
    <3>4. wire' \in Channels
      BY <3>1, <3>2, <3>3, ChannelChanges DEF w
    <3>5. socket' = [socket EXCEPT ![c] = [socket[c] EXCEPT !.state = "working", !.watched = TRUE,
                                                            !.timer = DisconnectOnTimeout]]
      BY <1>0, <3>1
    <3>6. DisconnectOnTimeout \in BOOLEAN
      BY LinkAssumption DEF Link!LinkAssumption
    <3>7. [socket[c] EXCEPT !.state = "working", !.watched = TRUE, !.timer = DisconnectOnTimeout] \in CalmSocket
      BY <1>0, <3>6, SocketChanges
    <3> QED
      BY <1>0, <3>4, <3>5, <3>7
  <2>5. CASE Link!HandleData(c)
    <3> DEFINE r == Head(wire[c].up).req
    <3>1. /\ wire[c].up # <<>> /\ wire' = Link!Read(c) /\ Head(wire[c].up).type = "data"
          /\ socket' = [socket EXCEPT ![c] = [socket[c] EXCEPT !.asked = @ \union {r}]]
      BY <2>5 DEF Link!HandleData, Link!Arrives
    <3>2. wire[c].up \in Seq(Link!Packets)
      BY <1>0, ChannelChanges
    <3>3. r \in Req
      BY <3>1, <3>2, LinkPackets
    <3> DEFINE q == socket[c].asked \union {r}
    <3> HIDE DEF r
    <3>4. q \in SUBSET Req
      BY <1>0, <3>3, SocketChanges
    <3>5. socket' = [socket EXCEPT ![c] = [socket[c] EXCEPT !.asked = q]]
      BY <3>1 DEF r
    <3> HIDE DEF q
    <3>6. [socket[c] EXCEPT !.asked = q] \in CalmSocket
      BY <1>0, <3>4, SocketChanges
    <3>7. socket' \in [Link!Conn -> CalmSocket]
      BY <1>0, <3>5, <3>6
    <3> QED
      BY <1>4, <3>1, <3>7
  <2>6. CASE Link!HandleNothing(c)
    BY <1>0, <1>4, <2>6 DEF Link!HandleNothing, Link!Arrives
  <2>7. CASE \E r \in Req : Link!Respond(c, r)
    <3>1. PICK r \in Req : Link!Respond(c, r)
      BY <2>7
    <3> DEFINE q == socket[c].asked \ {r}
    <3>2. q \in SUBSET Req
      BY <1>0, SocketChanges
    <3>3. /\ socket' = [socket EXCEPT ![c] = [socket[c] EXCEPT !.asked = q]]
          /\ wire' = Link!Reply(c, Link!Data(r))
      BY <3>1 DEF Link!Respond
    <3> HIDE DEF q
    <3> QED
      BY <1>0, <1>3, <3>2, <3>3, LinkPackets, SocketChanges
  <2> QED
    BY <2>1, <2>2, <2>3, <2>4, <2>5, <2>6, <2>7 DEF Link!ServerReads, Link!HandshakeEnds
<1> QED
  BY <1>0, <1>1, <1>5 DEF LinkInv, RequestSet, ClientSet

LEMMA LinkSet == /\ ClientSet' = ClientSet /\ Channels' = Channels /\ RequestSet' = RequestSet
                 /\ [Link!Conn -> CalmSocket]' = [Link!Conn -> CalmSocket]
BY DEF RequestSet, ClientSet, Channels, Channel, CalmSocket, SocketSet, Calm

LEMMA LinkInvStep == LinkInv /\ [Link!Next]_linkVars => LinkInv'
<1> SUFFICES ASSUME LinkInv, [Link!Next]_linkVars PROVE LinkInv'
  OBVIOUS
<1>1. CASE UNCHANGED linkVars
  BY <1>1, LinkSet DEF linkVars, LinkInv
<1>2. ASSUME NEW r \in Req, Link!Request(r) PROVE LinkInv'
  <2>0. /\ client \in ClientSet /\ wire \in Channels /\ requests \in RequestSet
        /\ socket \in [Link!Conn -> CalmSocket] /\ MaxConn \in Nat
    BY LinkAssumption DEF LinkInv, Link!LinkAssumption
  <2>1. /\ client.socket # 0 /\ wire' = Link!Send(Link!Data(r))
        /\ requests' = [requests EXCEPT ![r] = [conn |-> client.socket, done |-> FALSE,
                                                acked |-> client.acked = client.socket]]
        /\ UNCHANGED <<client, socket>>
    BY <1>2 DEF Link!Request
  <2>2. client.socket \in Link!Conn /\ client.socket \in 0 .. MaxConn
    BY <2>0, <2>1 DEF ClientSet, Link!Conn
  <2>3. wire' \in Channels
    BY <2>0, <2>1, <2>2, LinkPackets, LinkSends DEF Link!Send
  <2>4. requests' \in RequestSet
    BY <2>0, <2>1, <2>2 DEF RequestSet
  <2> QED
    BY <2>0, <2>1, <2>3, <2>4, LinkSet DEF LinkInv
<1>3. CASE \E c \in Link!Conn :
             \/ Link!Opens(c) \/ Link!OnClose(c) \/ Link!ClientReceives(c) \/ Link!Cut(c)
  BY <1>3, LinkConnection
<1>4. CASE \E c \in Link!Conn :
             \/ Link!ServerReads(c) \/ Link!HandshakeEnds(c) \/ Link!Kick(c) \/ Link!ServerDisconnects(c)
             \/ Link!BeatTimeout(c) \/ Link!CloseArrives(c)
             \/ \E r \in Req : Link!Respond(c, r)
  BY <1>4, LinkServer
<1> QED
  BY <1>1, <1>2, <1>3, <1>4, LinkClient DEF Link!Next

\* The variables of the client library, the channels, and the sockets of the server.
LEMMA LinkInvInductive == Spec => []LinkInv
<1>1. Init => LinkInv
  BY LinkInit DEF Init
<1>2. LinkInv /\ [Next]_vars => LinkInv'
  <2> SUFFICES ASSUME LinkInv, [Next]_vars PROVE LinkInv'
    OBVIOUS
  <2>1. [Link!Next]_linkVars
    BY Zenon DEF Next, vars
  <2> QED
    BY <2>1, LinkInvStep
<1> QED
  BY <1>1, <1>2, PTL DEF Spec

\* NoTimerLeft, for every number of connections, sockets and requests, every set of
\* addresses and whatever the bounds: a socket that is closed, by whomever and in
\* whatever state, emits the event that clears its timer (Socket.disconnect, Heartbeat);
\* the udp connector forgets an address with its socket, so that an address has one
\* open socket and one session (udpconnector, udpsocket).
THEOREM NoTimerLeftCorrect == Spec => []NoTimerLeft
<1>1. LinkInv /\ UdpInv => NoTimerLeft
  BY LinkSafe DEF NoTimerLeft, UdpInv
<1> QED
  BY <1>1, LinkInvInductive, UdpInvInductive, PTL

-----------------------------------------------------------------------------
(* Protos and dictionary of a connection: protobuf.js, dictionary.js,      *)
(* coder.js, handshake.js, jsclient.js.                                    *)

Known == Wire!Version \union {Wire!Unknown}
Msg == [kind : {"data"}, route : Route, by : 0 .. MaxVersion + 1, dict : 0 .. MaxStarts]

\* Messages that the other end reads as they were written: their abbreviations are of the
\* dictionary in use, and their bodies are made with the protos in use, unless those have
\* changed since the handshake.
Readable(q, routes, v) ==
  /\ q \in Seq(Msg)
  /\ \A i \in 1 .. Len(q) : /\ q[i].dict \in {0, life}
                            /\ fresh => q[i].by = Wire!Way(routes, v, q[i].route)

\* What the handshake says of the protos is enough for the client to have those of the
\* server once it has read it.
Told(p) == p \in Known /\ (fresh => p = protos \/ (p = Wire!Unknown /\ cprotos = protos))

WireTypes ==
  /\ file \in Wire!Version /\ protos \in Wire!Version
  /\ half \subseteq Wire!Which /\ reads \subseteq Wire!Which
  /\ life \in 1 .. MaxStarts /\ cdict \in 0 .. MaxStarts
  /\ conn \in {"closed", "opening", "shaking", "up"}
  /\ cprotos \in Known /\ storage \in Known
  /\ fresh \in BOOLEAN
  /\ Len(toServer) <= MaxWire /\ Len(toClient) <= MaxWire

Lines ==
  /\ conn = "closed" => toServer = <<>> /\ toClient = <<>>
  /\ conn = "opening" => /\ toServer \in {<<>>, <<[kind |-> "handshake", version |-> cprotos]>>}
                         /\ toClient = <<>>
  /\ conn = "shaking" => /\ toServer = <<>>
                         /\ \E p \in Known : /\ Told(p)
                                             /\ toClient = <<[kind |-> "handshake", dict |-> life, protos |-> p]>>
  /\ conn = "up" => /\ Readable(toServer, ClientProtos, protos["client"])
                    /\ Readable(toClient, ServerProtos, protos["server"])

WireInv == WireTypes /\ Wire!SameProtos /\ Wire!ReadAsWritten /\ Lines

LEMMA WireParts == Wire!TypeOK <=> WireTypes
BY DEF Wire!TypeOK, WireTypes, Known

LEMMA WireConstants ==
  /\ MaxVersion \in Nat /\ MaxStarts \in Nat \ {0} /\ MaxWire \in Nat \ {0}
  /\ ClientProtos \in [0 .. MaxVersion -> SUBSET Route]
  /\ ServerProtos \in [0 .. MaxVersion -> SUBSET Route]
  /\ Wire!Unknown \notin Wire!Version
  /\ \A w \in Wire!Which : w \in {"client", "server"}
<1>1. Wire!Unknown["client"] = -1 /\ \A v \in Wire!Version : v["client"] \in 0 .. MaxVersion
  BY DEF Wire!Unknown, Wire!Version, Wire!Which
<1> QED
  BY <1>1, WireAssumption DEF Wire!WireAssumption, Wire!Which

LEMMA WireWay ==
  ASSUME NEW routes \in [0 .. MaxVersion -> SUBSET Route], NEW v, NEW r
  PROVE  Wire!Way(routes, v, r) \in 0 .. MaxVersion + 1
BY WireConstants DEF Wire!Way

LEMMA WireInit == Wire!Init => WireInv
<1> SUFFICES ASSUME Wire!Init PROVE WireInv
  OBVIOUS
<1> USE WireConstants DEF Wire!Init
<1>0. file \in Wire!Version /\ Len(toServer) = 0 /\ Len(toClient) = 0
  BY DEF Wire!Version
<1>1. WireTypes
  BY <1>0 DEF WireTypes, Known
<1>2. Wire!SameProtos /\ Wire!ReadAsWritten /\ Lines
  BY DEF Wire!SameProtos, Wire!ReadAsWritten, Lines
<1> QED
  BY <1>1, <1>2 DEF WireInv

\* What is readable stays so while neither end changes, or once nothing is fresh.
LEMMA ReadableStays ==
  ASSUME life' = life, fresh' => fresh /\ protos' = protos
  PROVE  /\ toServer' = toServer /\ Readable(toServer, ClientProtos, protos["client"])
              => Readable(toServer, ClientProtos, protos["client"])'
         /\ toClient' = toClient /\ Readable(toClient, ServerProtos, protos["server"])
              => Readable(toClient, ServerProtos, protos["server"])'
<1>1. ASSUME toServer' = toServer, Readable(toServer, ClientProtos, protos["client"])
      PROVE  Readable(toServer, ClientProtos, protos["client"])'
  <2>1. CASE fresh'
    BY <1>1, <2>1 DEF Readable, Msg
  <2>2. CASE ~fresh'
    BY <1>1, <2>2 DEF Readable, Msg
  <2> QED
    BY <2>1, <2>2
<1>2. ASSUME toClient' = toClient, Readable(toClient, ServerProtos, protos["server"])
      PROVE  Readable(toClient, ServerProtos, protos["server"])'
  <2>1. CASE fresh'
    BY <1>2, <2>1 DEF Readable, Msg
  <2>2. CASE ~fresh'
    BY <1>2, <2>2 DEF Readable, Msg
  <2> QED
    BY <2>1, <2>2
<1> QED
  BY <1>1, <1>2

\* Writing and reading a proto file: what the two ends say stays, and nothing is fresh
\* once the protos have changed.
LEMMA WireFiles ==
  ASSUME WireInv, NEW w \in Wire!Which, Wire!FileChanges(w) \/ Wire!FileFinished(w) \/ Wire!OnUpdate(w)
  PROVE  WireInv'
<1>0. WireTypes /\ Lines /\ Wire!SameProtos /\ Wire!ReadAsWritten
  BY DEF WireInv
<1>1. UNCHANGED <<life, conn, cprotos, storage, cdict, toServer, toClient, handled, sentCount>>
  BY DEF Wire!FileChanges, Wire!FileFinished, Wire!OnUpdate, Wire!Write, Wire!clientVars, Wire!linesVars
<1>2. fresh' \in BOOLEAN /\ (fresh' => fresh /\ protos' = protos)
  <2>1. CASE fresh' = fresh /\ protos' = protos
    BY <1>0, <2>1 DEF WireTypes
  <2>2. CASE fresh' = (fresh /\ protos' = protos)
    BY <2>2, Zenon
  <2> QED
    BY <2>1, <2>2 DEF Wire!FileChanges, Wire!FileFinished, Wire!OnUpdate, Wire!Write
<1>3. /\ file' \in Wire!Version /\ protos' \in Wire!Version
      /\ half' \subseteq Wire!Which /\ reads' \subseteq Wire!Which
  <2>1. CASE Wire!FileChanges(w) \/ Wire!FileFinished(w)
    <3>1. PICK v \in 0 .. MaxVersion, u \in BOOLEAN : Wire!Write(w, v, u)
      <4>1. file[w] \in 0 .. MaxVersion /\ (file[w] < MaxVersion => file[w] + 1 \in 0 .. MaxVersion)
        BY <1>0, WireConstants DEF WireTypes, Wire!Version
      <4> QED
        BY <2>1, <4>1 DEF Wire!FileChanges, Wire!FileFinished
    <3> QED
      BY <1>0, <3>1 DEF Wire!Write, WireTypes, Wire!Version
  <2>2. CASE Wire!OnUpdate(w)
    <3>1. /\ reads' = reads \ {w} /\ file' = file /\ half' = half
          /\ protos' = protos \/ protos' = [protos EXCEPT ![w] = file[w]]
      BY <2>2 DEF Wire!OnUpdate
    <3> QED
      BY <1>0, <3>1 DEF WireTypes, Wire!Version
  <2> QED
    BY <2>1, <2>2
<1>4. WireTypes'
  BY <1>0, <1>1, <1>2, <1>3 DEF WireTypes, Known
<1>5. Wire!SameProtos' /\ Wire!ReadAsWritten'
  BY <1>0, <1>1, <1>2 DEF Wire!SameProtos, Wire!ReadAsWritten
<1>7. Lines'
  <2>1. CASE conn = "shaking"
    <3>1. PICK p \in Known : Told(p) /\ toClient = <<[kind |-> "handshake", dict |-> life, protos |-> p]>>
      BY <1>0, <2>1 DEF Lines
    <3>2. Told(p)'
      BY <1>1, <1>2, <3>1 DEF Told, Known
    <3>3. toServer = <<>>
      BY <1>0, <2>1 DEF Lines
    <3>4. \E x \in Known : Told(x)' /\ toClient' = <<[kind |-> "handshake", dict |-> life', protos |-> x]>>
      BY <1>1, <3>1, <3>2
    <3> QED
      BY <1>1, <2>1, <3>3, <3>4 DEF Lines, Known
  <2>2. CASE conn = "up"
    <3>1. Readable(toServer, ClientProtos, protos["client"])' /\ Readable(toClient, ServerProtos, protos["server"])'
      <4>1. Readable(toServer, ClientProtos, protos["client"]) /\ Readable(toClient, ServerProtos, protos["server"])
        BY <1>0, <2>2 DEF Lines
      <4>2. Readable(toServer, ClientProtos, protos["client"])'
        BY <1>1, <1>2, <4>1, ReadableStays
      <4>3. Readable(toClient, ServerProtos, protos["server"])'
        BY <1>1, <1>2, <4>1, ReadableStays
      <4> QED
        BY <4>2, <4>3
    <3> QED
      BY <1>1, <2>2, <3>1 DEF Lines
  <2>3. CASE conn \in {"closed", "opening"}
    BY <1>0, <1>1, <2>3 DEF Lines
  <2> QED
    BY <1>0, <2>1, <2>2, <2>3 DEF WireTypes
<1> QED
  BY <1>4, <1>5, <1>7 DEF WireInv

\* The server starts anew, the connection opens, or is lost.
LEMMA WireConnects ==
  ASSUME WireInv, Wire!Restart \/ Wire!Connect \/ Wire!Lost
  PROVE  WireInv'
<1>0. WireTypes /\ Lines /\ Wire!SameProtos /\ Wire!ReadAsWritten
  BY DEF WireInv
<1> USE WireConstants
<1>1. handled' = handled /\ conn' \in {"closed", "opening"}
  BY DEF Wire!Restart, Wire!Connect, Wire!Lost
<1>2. Wire!SameProtos' /\ Wire!ReadAsWritten'
  BY <1>0, <1>1 DEF Wire!SameProtos, Wire!ReadAsWritten
<1>3. CASE Wire!Restart \/ Wire!Lost
  <2>1. /\ conn' = "closed" /\ fresh' = FALSE /\ toServer' = <<>> /\ toClient' = <<>>
        /\ life' \in 1 .. MaxStarts
    BY <1>0, <1>3 DEF Wire!Restart, Wire!Lost, WireTypes
  <2>2. cprotos' \in Known /\ storage' \in Known /\ cdict' \in 0 .. MaxStarts
    BY <1>0, <1>3 DEF Wire!Restart, Wire!Lost, WireTypes, Known, Wire!clientVars
  <2>3. /\ file' \in Wire!Version /\ protos' \in Wire!Version
        /\ half' \subseteq Wire!Which /\ reads' \subseteq Wire!Which
    BY <1>0, <1>3 DEF Wire!Restart, Wire!Lost, WireTypes, Wire!fileVars
  <2>4. WireTypes'
    BY <2>1, <2>2, <2>3 DEF WireTypes, Known
  <2>5. Lines'
    BY <2>1 DEF Lines
  <2> QED
    BY <1>2, <2>4, <2>5 DEF WireInv
<1>4. CASE Wire!Connect
  <2>1. /\ conn' = "opening" /\ cprotos' \in {storage, cprotos}
        /\ toServer' = <<[kind |-> "handshake", version |-> cprotos']>> /\ toClient' = <<>>
        /\ UNCHANGED <<file, half, reads, protos, life, storage, cdict, fresh>>
    BY <1>4 DEF Wire!Connect, Wire!fileVars
  <2>2. Len(toServer') = 1 /\ Len(toClient') = 0
    BY <2>1
  <2>3. WireTypes'
    BY <1>0, <2>1, <2>2 DEF WireTypes, Known
  <2>4. Lines'
    BY <2>1 DEF Lines
  <2> QED
    BY <1>2, <2>3, <2>4 DEF WireInv
<1> QED
  BY <1>3, <1>4

\* The handshake: the server sends its protos unless the client has told their version.
LEMMA WireShakes ==
  ASSUME WireInv, Wire!Handshake
  PROVE  WireInv'
<1>0. WireTypes /\ Lines /\ Wire!SameProtos /\ Wire!ReadAsWritten
  BY DEF WireInv
<1> USE WireConstants
<1>a. PICK p \in Known : p = IF cprotos # protos THEN protos ELSE Wire!Unknown
  BY <1>0 DEF WireTypes, Known
<1>1. toServer = <<[kind |-> "handshake", version |-> cprotos]>>
  BY <1>0 DEF Wire!Handshake, Lines
<1>2. Head(toServer).version = cprotos /\ Tail(toServer) = <<>>
  BY <1>1
<1>3. /\ conn' = "shaking" /\ fresh' = TRUE /\ toServer' = <<>>
      /\ toClient' = <<[kind |-> "handshake", dict |-> life, protos |-> p]>>
      /\ UNCHANGED <<file, half, reads, protos, life, cprotos, storage, cdict, handled>>
  BY <1>a, <1>2 DEF Wire!Handshake, Wire!SendsProtos, Wire!GetProtos, Wire!fileVars, Wire!clientVars
<1>4. Len(toServer') = 0 /\ Len(toClient') = 1
  BY <1>3
<1>5. WireTypes'
  BY <1>0, <1>3, <1>4 DEF WireTypes, Known
<1>6. Told(p)'
  BY <1>0, <1>a, <1>3 DEF Told, WireTypes, Known
<1>7. Wire!SameProtos' /\ Wire!ReadAsWritten'
  BY <1>0, <1>3 DEF Wire!SameProtos, Wire!ReadAsWritten
<1>8. \E x \in Known : Told(x)' /\ toClient' = <<[kind |-> "handshake", dict |-> life', protos |-> x]>>
  BY <1>3, <1>6
<1>9. Lines'
  <2>1. conn' # "closed" /\ conn' # "opening" /\ conn' # "up" /\ toServer' = <<>>
    BY <1>3
  <2> QED
    BY <1>8, <2>1, Zenon DEF Lines, Known
<1> QED
  BY <1>5, <1>7, <1>9 DEF WireInv

\* The client takes the protos, and the dictionary.
LEMMA WireInits ==
  ASSUME WireInv, Wire!InitData
  PROVE  WireInv'
<1>0. WireTypes /\ Lines /\ Wire!SameProtos /\ Wire!ReadAsWritten
  BY DEF WireInv
<1> USE WireConstants
<1>1. /\ conn = "shaking" /\ toServer = <<>>
      /\ \E p \in Known : Told(p) /\ toClient = <<[kind |-> "handshake", dict |-> life, protos |-> p]>>
  BY <1>0 DEF Wire!InitData, Lines
<1>2. PICK p \in Known : Told(p) /\ toClient = <<[kind |-> "handshake", dict |-> life, protos |-> p]>>
  BY <1>1
<1>3. Head(toClient).dict = life /\ Head(toClient).protos = p /\ Tail(toClient) = <<>>
  BY <1>2
<1>4. /\ conn' = "up" /\ toClient' = <<>> /\ toServer' = <<>> /\ cdict' = life
      /\ IF p = Wire!Unknown THEN UNCHANGED <<cprotos, storage>> ELSE cprotos' = p /\ storage' = p
      /\ UNCHANGED <<file, half, reads, protos, life, fresh, handled>>
  BY <1>1, <1>3 DEF Wire!InitData, Wire!fileVars
<1>5. Len(toServer') = 0 /\ Len(toClient') = 0
  BY <1>4
<1>6. WireTypes'
  BY <1>0, <1>4, <1>5 DEF WireTypes, Known
<1>7. Wire!SameProtos'
  BY <1>0, <1>2, <1>4 DEF Wire!SameProtos, Told, WireTypes
<1>8. Wire!ReadAsWritten'
  BY <1>0, <1>4 DEF Wire!ReadAsWritten
<1>9. Lines'
  BY <1>4 DEF Lines, Readable
<1> QED
  BY <1>6, <1>7, <1>8, <1>9 DEF WireInv

\* One more message is readable if it is, and so are those after the first.
LEMMA ReadableAppend ==
  ASSUME NEW q, NEW routes \in [0 .. MaxVersion -> SUBSET Route], NEW v, Readable(q, routes, v), WireTypes,
         NEW r \in Route, NEW u, fresh => u = v, NEW d \in {0, life}
  PROVE  Readable(Append(q, Wire!Message(r, Wire!Way(routes, u, r), d)), routes, v)
<1> DEFINE m == Wire!Message(r, Wire!Way(routes, u, r), d)
<1>1. /\ m \in Msg /\ m.dict \in {0, life} /\ (fresh => m.by = Wire!Way(routes, v, m.route))
  <2>1. Wire!Way(routes, u, r) \in 0 .. MaxVersion + 1
    BY WireWay
  <2>2. d \in 0 .. MaxStarts /\ 0 \in 0 .. MaxStarts
    BY WireConstants DEF WireTypes
  <2>3. /\ m.kind = "data" /\ m.route = r /\ m.by = Wire!Way(routes, u, r)
        /\ m.dict = (IF r \in Wire!Dictionary(d) THEN d ELSE 0)
        /\ m = [kind |-> m.kind, route |-> m.route, by |-> m.by, dict |-> m.dict]
    BY DEF Wire!Message, Wire!Abbreviated
  <2> HIDE DEF m
  <2>4. m.dict \in {0, d}
    BY <2>3
  <2>5. m \in Msg
    BY <2>1, <2>2, <2>3, <2>4 DEF Msg
  <2> QED
    BY <2>3, <2>4, <2>5
<1> HIDE DEF m
<1>2. q \in Seq(Msg)
  BY DEF Readable
<1>3. /\ Append(q, m) \in Seq(Msg) /\ Len(Append(q, m)) = Len(q) + 1
      /\ \A i \in 1 .. Len(q) : Append(q, m)[i] = q[i]
      /\ Append(q, m)[Len(q) + 1] = m
  BY <1>1, <1>2
<1>4. ASSUME NEW i \in 1 .. Len(Append(q, m))
      PROVE  /\ Append(q, m)[i].dict \in {0, life}
             /\ fresh => Append(q, m)[i].by = Wire!Way(routes, v, Append(q, m)[i].route)
  <2>1. CASE i = Len(q) + 1
    BY <1>1, <1>3, <2>1
  <2>2. CASE i # Len(q) + 1
    <3>1. i \in 1 .. Len(q)
      BY <1>2, <1>3, <2>2
    <3> QED
      BY <1>3, <3>1 DEF Readable
  <2> QED
    BY <2>1, <2>2
<1> QED
  BY <1>3, <1>4 DEF Readable, m

LEMMA ReadableTail ==
  ASSUME NEW q, NEW routes, NEW v, Readable(q, routes, v), q # <<>>
  PROVE  /\ Readable(Tail(q), routes, v) /\ Len(Tail(q)) = Len(q) - 1
         /\ Head(q) \in Msg /\ Head(q).dict \in {0, life}
         /\ fresh => Head(q).by = Wire!Way(routes, v, Head(q).route)
<1>1. /\ q \in Seq(Msg) /\ Tail(q) \in Seq(Msg) /\ Len(Tail(q)) = Len(q) - 1 /\ Len(q) \in Nat
      /\ Head(q) = q[1] /\ 1 \in 1 .. Len(q) /\ q[1] \in Msg
      /\ \A i \in 1 .. Len(q) - 1 : Tail(q)[i] = q[i + 1] /\ i + 1 \in 1 .. Len(q)
  BY DEF Readable
<1>2. \A i \in 1 .. Len(Tail(q)) : /\ Tail(q)[i].dict \in {0, life}
                                   /\ fresh => Tail(q)[i].by = Wire!Way(routes, v, Tail(q)[i].route)
  BY <1>1 DEF Readable
<1> QED
  BY <1>1, <1>2 DEF Readable

\* A message written or read: only what is on the lines changes.
LEMMA WireLinesChange ==
  ASSUME WireInv, conn = "up",
         UNCHANGED <<file, half, reads, protos, life, conn, cprotos, storage, cdict, fresh>>,
         Readable(toServer', ClientProtos, protos["client"]), Len(toServer') <= MaxWire,
         Readable(toClient', ServerProtos, protos["server"]), Len(toClient') <= MaxWire,
         Wire!ReadAsWritten'
  PROVE  WireInv'
<1>1. WireTypes'
  BY DEF WireInv, WireTypes, Known
<1>2. Wire!SameProtos'
  BY DEF WireInv, Wire!SameProtos
<1>3. Lines'
  BY DEF Lines, Readable, Msg
<1> QED
  BY <1>1, <1>2, <1>3 DEF WireInv

LEMMA WireWrites ==
  ASSUME WireInv, NEW r \in Route, Wire!DefaultEncode(r) \/ Wire!ServerEncode(r)
  PROVE  WireInv'
<1>0. /\ WireTypes /\ conn = "up" /\ Wire!ReadAsWritten
      /\ Readable(toServer, ClientProtos, protos["client"])
      /\ Readable(toClient, ServerProtos, protos["server"])
      /\ cdict = life /\ (fresh => cprotos = protos)
      /\ toServer \in Seq(Msg) /\ toClient \in Seq(Msg)
      /\ Len(toServer) <= MaxWire /\ Len(toClient) <= MaxWire
  BY DEF WireInv, Wire!DefaultEncode, Wire!ServerEncode, Lines, Wire!SameProtos, Readable, WireTypes
<1>1. UNCHANGED <<file, half, reads, protos, life, conn, cprotos, storage, cdict, fresh, handled>>
  BY DEF Wire!DefaultEncode, Wire!ServerEncode, Wire!fileVars, Wire!clientVars
<1>2. Wire!ReadAsWritten'
  BY <1>0, <1>1 DEF Wire!ReadAsWritten
<1>3. CASE Wire!DefaultEncode(r)
  <2> DEFINE m == Wire!Message(r, Wire!Way(ClientProtos, cprotos["client"], r), cdict)
  <2>1. toServer' = Append(toServer, m) /\ toClient' = toClient /\ Len(toServer) < MaxWire
    BY <1>3 DEF Wire!DefaultEncode
  <2>2. Readable(Append(toServer, m), ClientProtos, protos["client"])
    BY <1>0, WireConstants, ReadableAppend
  <2> HIDE DEF m
  <2>3. Len(toServer') <= MaxWire
    BY <1>0, <2>1, WireConstants
  <2> QED
    BY <1>0, <1>1, <1>2, <2>1, <2>2, <2>3, WireLinesChange
<1>4. CASE Wire!ServerEncode(r)
  <2> DEFINE m == Wire!Message(r, Wire!Way(ServerProtos, protos["server"], r), life)
  <2>1. toClient' = Append(toClient, m) /\ toServer' = toServer /\ Len(toClient) < MaxWire
    BY <1>4 DEF Wire!ServerEncode
  <2>2. Readable(Append(toClient, m), ServerProtos, protos["server"])
    BY <1>0, WireConstants, ReadableAppend
  <2> HIDE DEF m
  <2>3. Len(toClient') <= MaxWire
    BY <1>0, <2>1, WireConstants
  <2> QED
    BY <1>0, <1>1, <1>2, <2>1, <2>2, <2>3, WireLinesChange
<1> QED
  BY <1>3, <1>4

LEMMA WireReads ==
  ASSUME WireInv, Wire!ServerDecode \/ Wire!DeCompose
  PROVE  WireInv'
<1>0. /\ WireTypes /\ conn = "up" /\ Wire!ReadAsWritten
      /\ Readable(toServer, ClientProtos, protos["client"])
      /\ Readable(toClient, ServerProtos, protos["server"])
      /\ cdict = life /\ (fresh => cprotos = protos)
      /\ toServer \in Seq(Msg) /\ toClient \in Seq(Msg)
      /\ Len(toServer) <= MaxWire /\ Len(toClient) <= MaxWire
  BY DEF WireInv, Wire!ServerDecode, Wire!DeCompose, Lines, Wire!SameProtos, Readable, WireTypes
<1>1. UNCHANGED <<file, half, reads, protos, life, conn, cprotos, storage, cdict, fresh>>
  BY DEF Wire!ServerDecode, Wire!DeCompose, Wire!fileVars, Wire!clientVars
<1>2. \A by : Wire!Readings(by, by) = {"right"}
  BY DEF Wire!Readings
<1>3. CASE Wire!ServerDecode
  <2> DEFINE m == Head(toServer)
             as == Wire!Way(ClientProtos, protos["client"], Wire!RouteOf(m, life))
  <2>1. toServer # <<>> /\ toServer' = Tail(toServer) /\ toClient' = toClient
    BY <1>3 DEF Wire!ServerDecode
  <2>2. PICK x \in Wire!Readings(m.by, as) :
          Wire!Took("server", m, Wire!RouteOf(m, life), IF x = "unparsed" THEN "empty" ELSE x)
    BY <1>3 DEF Wire!ServerDecode
  <2>3. /\ Readable(Tail(toServer), ClientProtos, protos["client"]) /\ Len(toServer') <= MaxWire
        /\ m.dict \in {0, life} /\ (fresh => m.by = Wire!Way(ClientProtos, protos["client"], m.route))
    <3>1. Readable(toServer, ClientProtos, protos["client"]) /\ Len(toServer) <= MaxWire
      BY <1>0
    <3>2. /\ Readable(Tail(toServer), ClientProtos, protos["client"]) /\ Len(Tail(toServer)) = Len(toServer) - 1
          /\ m.dict \in {0, life} /\ (fresh => m.by = Wire!Way(ClientProtos, protos["client"], m.route))
      BY <2>1, <3>1, ReadableTail
    <3>3. Len(toServer) \in Nat /\ MaxWire \in Nat
      BY <3>1, WireConstants DEF Readable
    <3> HIDE DEF m
    <3> QED
      BY <2>1, <3>1, <3>2, <3>3
  <2>4. Wire!RouteOf(m, life) = m.route
    BY <2>3 DEF Wire!RouteOf
  <2>5. fresh => x = "right"
    BY <1>2, <2>2, <2>3, <2>4
  <2> HIDE DEF m
  <2>6. Wire!ReadAsWritten'
    BY <2>2, <2>4, <2>5 DEF Wire!Took, Wire!ReadAsWritten
  <2> QED
    BY <1>0, <1>1, <2>1, <2>3, <2>6, WireLinesChange
<1>4. CASE Wire!DeCompose
  <2> DEFINE m == Head(toClient)
             as == Wire!Way(ServerProtos, cprotos["server"], Wire!RouteOf(m, cdict))
  <2>1. toClient # <<>> /\ toClient' = Tail(toClient) /\ toServer' = toServer
    BY <1>4 DEF Wire!DeCompose
  <2>2. /\ Readable(Tail(toClient), ServerProtos, protos["server"]) /\ Len(toClient') <= MaxWire
        /\ m.dict \in {0, life} /\ (fresh => m.by = Wire!Way(ServerProtos, protos["server"], m.route))
    <3>1. Readable(toClient, ServerProtos, protos["server"]) /\ Len(toClient) <= MaxWire
      BY <1>0
    <3>2. /\ Readable(Tail(toClient), ServerProtos, protos["server"]) /\ Len(Tail(toClient)) = Len(toClient) - 1
          /\ m.dict \in {0, life} /\ (fresh => m.by = Wire!Way(ServerProtos, protos["server"], m.route))
      BY <2>1, <3>1, ReadableTail
    <3>3. Len(toClient) \in Nat /\ MaxWire \in Nat
      BY <3>1, WireConstants DEF Readable
    <3> HIDE DEF m
    <3> QED
      BY <2>1, <3>1, <3>2, <3>3
  <2>3. Wire!RouteOf(m, cdict) = m.route
    BY <1>0, <2>2 DEF Wire!RouteOf
  <2>4. \/ Wire!Took("client", m, m.route, "threw")
        \/ \E x \in Wire!Readings(m.by, as) : Wire!Took("client", m, m.route, IF x = "unparsed" THEN "threw" ELSE x)
    BY <1>4, <2>3 DEF Wire!DeCompose
  <2>5. fresh => m.by = as
    BY <1>0, <2>2, <2>3
  <2> HIDE DEF m, as
  <2>6. Wire!ReadAsWritten'
    <3>1. CASE Wire!Took("client", m, m.route, "threw")
      BY <3>1 DEF Wire!Took, Wire!ReadAsWritten
    <3>2. CASE \E x \in Wire!Readings(m.by, as) : Wire!Took("client", m, m.route, IF x = "unparsed" THEN "threw" ELSE x)
      <4>1. PICK x \in Wire!Readings(m.by, as) : Wire!Took("client", m, m.route, IF x = "unparsed" THEN "threw" ELSE x)
        BY <3>2
      <4>2. fresh => x = "right"
        BY <1>2, <2>5, <4>1
      <4> QED
        BY <4>1, <4>2 DEF Wire!Took, Wire!ReadAsWritten
    <3> QED
      BY <2>4, <3>1, <3>2
  <2> QED
    BY <1>0, <1>1, <2>1, <2>2, <2>6, WireLinesChange
<1> QED
  BY <1>3, <1>4

LEMMA WireInvStep == WireInv /\ [Wire!Next]_wireVars => WireInv'
<1> SUFFICES ASSUME WireInv, [Wire!Next]_wireVars PROVE WireInv'
  OBVIOUS
<1>1. CASE UNCHANGED wireVars
  <2>1. WireTypes' /\ Wire!SameProtos' /\ Wire!ReadAsWritten'
    BY <1>1 DEF wireVars, WireInv, WireTypes, Wire!SameProtos, Wire!ReadAsWritten, Known
  <2>2. Lines'
    BY <1>1 DEF wireVars, WireInv, Lines, Told, Readable, Msg, Known
  <2> QED
    BY <2>1, <2>2 DEF WireInv
<1> QED
  BY <1>1, WireFiles, WireConnects, WireShakes, WireInits, WireWrites, WireReads DEF Wire!Next

\* What the two ends of a connection have and say to each other.
LEMMA WireInvInductive == Spec => []WireInv
<1>1. Init => WireInv
  BY WireInit DEF Init
<1>2. WireInv /\ [Next]_vars => WireInv'
  <2> SUFFICES ASSUME WireInv, [Next]_vars PROVE WireInv'
    OBVIOUS
  <2>1. [Wire!Next]_wireVars
    BY Zenon DEF Next, vars
  <2> QED
    BY <2>1, WireInvStep
<1> QED
  BY <1>1, <1>2, PTL DEF Spec

\* ReadAsWritten, for every set of routes, protos and dictionaries and whatever the bounds:
\* the server sends its protos unless the client told their version, so that after the
\* handshake both have the same ones until a file is read anew (SendsProtos, initData,
\* onUpdate), and a dictionary is of one life of the server; so what one end writes the
\* other reads as it was written, but for what the client throws on (deCompose).
THEOREM ReadAsWrittenCorrect == Spec => []ReadAsWritten
<1>1. WireInv => ReadAsWritten
  BY WireParts DEF ReadAsWritten, WireInv
<1> QED
  BY <1>1, WireInvInductive, PTL

-----------------------------------------------------------------------------
(* The way of a request: connector.js, server.js, filterService.js,        *)
(* handlerService.js, msgRemote.js, filters/handler.                       *)

\* A continuation that will lead to a response: not a handler that has called back,
\* nor a global after filter; of a forwarded message the rpc callback does.
Owes(v, r) ==
  v.req = r /\ v.place # "back" /\ v.at # "tail" /\ ~(v.place = "global" /\ v.at = "after")
Owed(W, r) == {v \in W : Owes(v, r)}

\* The only way to two responses: a handler of the frontend server called back and failed.
Twice(r) == r \in repeated /\ msg[r].target = "front"
Limit(r) == IF Twice(r) THEN 2 ELSE 1

Given(r) == responses[r] + (IF r \in forwarded THEN 1 ELSE 0)
Budget == \A r \in Req : Cardinality(Owed(work, r)) + Given(r) <= Limit(r)

\* Until its handler has called back a request of the frontend server is nowhere else.
Early(v) == v.place # "back" /\ v.at \in {"before", "handler"}
Alone(W, v) == \A u \in W : u.req = v.req /\ u.place # "back" => u = v

Item(v) == v \in Requests!Work /\ v.i <= Len(filters[v.place])
Shape(v) ==
  /\ v.place = "back" => msg[v.req].target = "back"
  /\ v.place = "front" => msg[v.req].target = "front"
  /\ v.at \in {"handler", "tail"} => v.place # "global" /\ v = Requests!Wait(v.req, v.place, v.at, FALSE)
  /\ v.at = "forward" => v.place = "back"
Fresh(v) ==
  /\ Early(v) => v.req \notin forwarded /\ Alone(work, v) /\ ~Twice(v.req)
  /\ v.at = "tail" /\ v.place = "front" => ~Twice(v.req)

Unsent ==
  \A r \in Req : msg[r] = Requests!NotSent =>
    /\ \A v \in work : v.req # r
    /\ r \notin forwarded /\ r \notin repeated /\ responses[r] = 0

\* An entry of the timeout filter has someone who will pass the filter on its way back.
Timed(p) == \E k \in 1 .. Len(filters[p]) : filters[p][k] = "timeout"
Passing(v) == \E k \in v.i + 1 .. Len(filters[v.place]) : Requests!Afters(v.place)[k] = "timeout"
Keeps(v, p) ==
  \/ v.place = p /\ v.at \in {"before", "handler", "error"}
  \/ v.place = p /\ v.at = "after" /\ Passing(v)
  \/ p = "global" /\ v.place = "front" /\ v.at # "tail"
Kept(W, r, p) == (\E v \in W : v.req = r /\ Keeps(v, p)) \/ (p = "global" /\ r \in forwarded)
Timers == \A p \in Requests!Place : \A r \in timeouts[p] : Timed(p) /\ Kept(work, r, p)

RequestTypes ==
  /\ filters \in Configurations
  /\ server \in [Requests!Process -> {"inited", "started", "stopped"}]
  /\ open \subseteq Session
  /\ msg \in [Req -> Requests!Message]
  /\ forwarded \subseteq Req
  /\ timeouts \in [Requests!Place -> SUBSET Req]
  /\ queues \in [Requests!Process -> SUBSET Session]
  /\ responses \in [Req -> Nat]
  /\ repeated \subseteq Req
Items == IsFiniteSet(work) /\ \A v \in work : Item(v) /\ Shape(v) /\ Fresh(v)

RequestsInv == RequestTypes /\ Items /\ Budget /\ Unsent /\ Timers

-----------------------------------------------------------------------------
LEMMA RequestConstants ==
  /\ NoSession \notin Session
  /\ \A f \in Configurations, p \in Requests!Place : f[p] \in Seq(Requests!Filter)
BY RequestsAssumption DEF Requests!ConstantsAssumption

LEMMA RequestLengths ==
  ASSUME RequestTypes, NEW p \in Requests!Place
  PROVE  /\ filters[p] \in Seq(Requests!Filter)
         /\ Len(filters[p]) \in Nat
         /\ \A k \in 1 .. Len(filters[p]) : filters[p][k] \in Requests!Filter
<1>1. filters[p] \in Seq(Requests!Filter)
  BY RequestConstants DEF RequestTypes
<1> QED
  BY <1>1

\* OneResponse follows.
LEMMA RequestsSafe == RequestsInv => OneResponse
<1> SUFFICES ASSUME RequestsInv PROVE OneResponse
  OBVIOUS
<1>1. Requests!TypeOK
  BY DEF RequestsInv, RequestTypes, Items, Item, Requests!TypeOK
<1>2. Requests!OneResponse
  <2> SUFFICES ASSUME NEW r \in Req
               PROVE responses[r] <= 1 \/ (responses[r] = 2 /\ Twice(r))
    BY DEF Requests!OneResponse, Twice
  <2> DEFINE n == Cardinality(Owed(work, r))
  <2>1. Owed(work, r) \subseteq work /\ IsFiniteSet(work)
    BY DEF Owed, RequestsInv, Items
  <2>2. n \in Nat
    BY <2>1, FS_Subset, FS_CardinalityType
  <2>3. responses[r] \in Nat
    BY DEF RequestsInv, RequestTypes
  <2>4. n + Given(r) <= Limit(r)
    BY DEF RequestsInv, Budget
  <2> HIDE DEF n
  <2> QED
    BY <2>2, <2>3, <2>4 DEF Given, Limit
<1>3. Requests!TimersHaveRequests
  <2> SUFFICES ASSUME NEW p \in Requests!Place, NEW r \in timeouts[p]
               PROVE \/ \E w \in work : w.req = r /\ (w.place = p \/ p = "global")
                     \/ p = "global" /\ r \in forwarded
    BY DEF Requests!TimersHaveRequests
  <2>1. Kept(work, r, p)
    BY DEF RequestsInv, Timers
  <2> QED
    BY <2>1 DEF Kept, Keeps
<1> QED
  BY <1>1, <1>2, <1>3 DEF OneResponse

LEMMA RequestsInit == Requests!Init => RequestsInv
<1> SUFFICES ASSUME Requests!Init PROVE RequestsInv
  OBVIOUS
<1>1. RequestTypes
  BY DEF Requests!Init, Requests!InitFilter, RequestTypes, Requests!Message
<1>2. Items
  BY FS_EmptySet DEF Requests!Init, Items
<1>3. Budget
  <2> SUFFICES ASSUME NEW r \in Req PROVE Cardinality(Owed(work, r)) + Given(r) <= Limit(r)
    BY DEF Budget
  <2>1. Owed(work, r) = {}
    BY DEF Owed, Requests!Init
  <2>2. Cardinality(Owed(work, r)) = 0
    BY <2>1, FS_EmptySet
  <2>3. Given(r) = 0
    BY DEF Given, Requests!Init
  <2> QED
    BY <2>2, <2>3 DEF Limit
<1>4. Unsent /\ Timers
  BY DEF Unsent, Timers, Requests!Init
<1> QED
  BY <1>1, <1>2, <1>3, <1>4 DEF RequestsInv

-----------------------------------------------------------------------------
\* What an action on a continuation w does to its request, and to no other: S comes for w.
Pays(w, S) ==
  /\ \E x : \A v \in S : Owes(v, w.req) => v = x
  /\ (IF \E v \in S : Owes(v, w.req) THEN 1 ELSE 0) + Given(w.req)' + Limit(w.req)
       <= (IF Owes(w, w.req) THEN 1 ELSE 0) + Given(w.req) + Limit(w.req)'
Starts(w, S) ==
  /\ \A v \in S : Early(v) => Early(w) /\ S = {v} /\ w.req \notin forwarded'
  /\ w.req \in forwarded' => w.req \in forwarded \/ Early(w)
  /\ w.place = "back" /\ w.req \notin forwarded => \A v \in S : v.place = "back"
  /\ Twice(w.req)' => Twice(w.req) \/ (w.at = "tail" /\ w.place = "front")
  /\ Twice(w.req)' => \A v \in S : ~Early(v) /\ ~(v.at = "tail" /\ v.place = "front")
Rests(w, S) ==
  \A p \in Requests!Place :
    /\ w.req \in timeouts'[p] \ timeouts[p] => Timed(p) /\ \E v \in S : Keeps(v, p)
    /\ w.req \in timeouts'[p] =>
         /\ Keeps(w, p) => (\E v \in S : Keeps(v, p)) \/ (p = "global" /\ w.req \in forwarded')
         /\ p = "global" /\ w.req \in forwarded
              => w.req \in forwarded' \/ \E v \in S : Keeps(v, p)
Others(r) ==
  \A q \in Req : q # r =>
    /\ responses'[q] = responses[q]
    /\ q \in forwarded' <=> q \in forwarded
    /\ q \in repeated' <=> q \in repeated
    /\ \A p \in Requests!Place : q \in timeouts'[p] <=> q \in timeouts[p]
Moves(w, S) ==
  /\ work' = (work \ {w}) \union S
  /\ IsFiniteSet(S)
  /\ \A v \in S : Item(v) /\ v.req = w.req /\ Shape(v)
  /\ UNCHANGED <<filters, msg>>
  /\ RequestTypes'
  /\ Others(w.req)
  /\ Pays(w, S) /\ Starts(w, S) /\ Rests(w, S)

LEMMA MovedItems ==
  ASSUME RequestsInv, NEW w \in work, NEW S, Moves(w, S)
  PROVE  Items'
<1> DEFINE W == work'
<1>1. W = (work \ {w}) \union S /\ IsFiniteSet(W)
  <2>1. IsFiniteSet(work) /\ IsFiniteSet(S)
    BY DEF RequestsInv, Items, Moves
  <2>2. IsFiniteSet(work \ {w})
    BY <2>1, FS_Subset
  <2>3. IsFiniteSet((work \ {w}) \union S)
    BY <2>1, <2>2, FS_Union
  <2> QED
    BY <2>3 DEF Moves
<1>2. filters' = filters /\ msg' = msg
  BY DEF Moves
<1>3. \A v : Item(v)' = Item(v) /\ Shape(v)' = Shape(v)
  BY <1>2 DEF Item, Shape
<1>4. \A v \in work : Item(v) /\ Shape(v) /\ Fresh(v)
  BY DEF RequestsInv, Items
<1>5. \A v \in S : Item(v) /\ Shape(v) /\ v.req = w.req
  BY DEF Moves
<1>6. \A v \in W : (Item(v) /\ Shape(v))'
  BY <1>1, <1>3, <1>4, <1>5
<1>7. ASSUME NEW v \in W PROVE Fresh(v)'
  <2> DEFINE r == w.req
  <2>a. w.req \in Req /\ v.req \in Req
    BY <1>1, <1>4, <1>5 DEF Item, Requests!Work
  <2>1. CASE v.req # w.req
    <3>1. v \in work /\ v # w
      BY <2>1, <1>1, <1>5
    <3>2. Twice(v.req)' = Twice(v.req) /\ (v.req \in forwarded' <=> v.req \in forwarded)
      BY <2>1, <2>a, <1>2 DEF Moves, Others, Twice
    <3>3. Alone(work, v) => Alone(W, v)
      BY <1>1, <1>5, <2>1 DEF Alone
    <3> QED
      BY <3>1, <3>2, <3>3, <1>4 DEF Fresh
  <2>2. CASE v.req = w.req
    <3>0. Starts(w, S) /\ Fresh(w)
      BY <1>4 DEF Moves
    <3>1. CASE v \in S
      <4>1. Early(v) => v.req \notin forwarded' /\ ~Twice(v.req)'
        BY <3>0, <3>1, <2>2 DEF Starts
      <4>2. Early(v) => Alone(W, v)
        <5> SUFFICES ASSUME Early(v), NEW u \in W, u.req = v.req, u.place # "back" PROVE u = v
          BY DEF Alone
        <5>1. Early(w) /\ S = {v}
          BY <3>0, <3>1 DEF Starts
        <5>2. Alone(work, w)
          BY <5>1, <3>0 DEF Fresh
        <5> QED
          BY <5>1, <5>2, <1>1, <2>2 DEF Alone
      <4>3. v.at = "tail" /\ v.place = "front" => ~Twice(v.req)'
        BY <3>0, <3>1, <2>2 DEF Starts
      <4> QED
        BY <4>1, <4>2, <4>3 DEF Fresh
    <3>2. CASE v \in work /\ v # w
      <4>0. Fresh(v) /\ Shape(v) /\ Shape(w)
        BY <3>2, <1>4
      <4>1. ASSUME Early(v) PROVE v.req \notin forwarded' /\ Alone(W, v) /\ ~Twice(v.req)'
        <5>1. Alone(work, v) /\ v.req \notin forwarded /\ ~Twice(v.req)
          BY <4>1, <4>0 DEF Fresh
        <5>2. w.place = "back"
          BY <5>1, <3>2, <2>2 DEF Alone
        <5>3. \A x \in S : x.place = "back"
          BY <5>1, <5>2, <3>0, <2>2 DEF Starts
        <5>4. v.req \notin forwarded' /\ ~Twice(v.req)'
          BY <5>1, <5>2, <3>0, <2>2 DEF Starts, Early
        <5>5. Alone(W, v)
          BY <5>1, <5>3, <1>1 DEF Alone
        <5> QED
          BY <5>4, <5>5
      <4>2. ASSUME v.at = "tail", v.place = "front" PROVE ~Twice(v.req)'
        <5>1. ~Twice(v.req)
          BY <4>2, <4>0 DEF Fresh
        <5>2. w.at = "tail" /\ w.place = "front" => w = v
          BY <4>2, <4>0, <2>2 DEF Shape
        <5> QED
          BY <5>1, <5>2, <3>0, <3>2, <2>2 DEF Starts
      <4> QED
        BY <4>1, <4>2 DEF Fresh
    <3> QED
      BY <3>1, <3>2, <1>1
  <2> QED
    BY <2>1, <2>2
<1> QED
  BY <1>1, <1>6, <1>7 DEF Items

\* Counting what is owed when a set of continuations comes for one.
LEMMA OwedFinite ==
  ASSUME NEW W, IsFiniteSet(W), NEW r
  PROVE  IsFiniteSet(Owed(W, r)) /\ Cardinality(Owed(W, r)) \in Nat
<1>1. Owed(W, r) \subseteq W
  BY DEF Owed
<1> QED
  BY <1>1, FS_Subset, FS_CardinalityType

LEMMA OwedRemoved ==
  ASSUME NEW W, IsFiniteSet(W), NEW w \in W, NEW r
  PROVE  Cardinality(Owed(W \ {w}, r)) + (IF Owes(w, r) THEN 1 ELSE 0) = Cardinality(Owed(W, r))
<1> DEFINE A == Owed(W, r)
           B == Owed(W \ {w}, r)
<1>1. IsFiniteSet(A) /\ Cardinality(A) \in Nat
  BY OwedFinite
<1>2. CASE Owes(w, r)
  <2>1. w \in A /\ B = A \ {w}
    BY <1>2 DEF Owed
  <2> HIDE DEF A, B
  <2>2. Cardinality(B) = Cardinality(A) - 1
    BY <1>1, <2>1, FS_RemoveElement
  <2> QED
    BY <1>1, <1>2, <2>2 DEF A, B
<1>3. CASE ~Owes(w, r)
  <2>1. B = A
    BY <1>3 DEF Owed
  <2> HIDE DEF A, B
  <2> QED
    BY <1>1, <1>3, <2>1 DEF A, B
<1> QED
  BY <1>2, <1>3

LEMMA OwedAdded ==
  ASSUME NEW W, IsFiniteSet(W), NEW S, NEW r, NEW x, \A v \in S : Owes(v, r) => v = x
  PROVE  /\ Cardinality(Owed(W \union S, r)) \in Nat
         /\ Cardinality(Owed(W \union S, r))
              <= Cardinality(Owed(W, r)) + (IF \E v \in S : Owes(v, r) THEN 1 ELSE 0)
<1> DEFINE A == Owed(W, r)
           B == Owed(W \union S, r)
<1>1. IsFiniteSet(A) /\ Cardinality(A) \in Nat
  BY OwedFinite
<1>2. CASE \E v \in S : Owes(v, r)
  <2>1. B = A \union {x}
    BY <1>2 DEF Owed
  <2> HIDE DEF A, B
  <2>2. Cardinality(B) \in Nat /\ Cardinality(B) <= Cardinality(A) + 1
    <3>1. CASE x \in A
      <4>1. B = A
        BY <2>1, <3>1
      <4> QED
        BY <4>1, <1>1
    <3>2. CASE x \notin A
      <4>1. Cardinality(A \union {x}) = IF x \in A THEN Cardinality(A) ELSE Cardinality(A) + 1
        BY <1>1, FS_AddElement
      <4>2. Cardinality(B) = Cardinality(A) + 1
        BY <4>1, <2>1, <3>2
      <4> QED
        BY <4>2, <1>1
    <3> QED
      BY <3>1, <3>2
  <2> QED
    BY <1>2, <2>2 DEF A, B
<1>3. CASE ~\E v \in S : Owes(v, r)
  <2>1. B = A
    BY <1>3 DEF Owed
  <2> HIDE DEF A, B
  <2> QED
    BY <1>1, <1>3, <2>1 DEF A, B
<1> QED
  BY <1>2, <1>3

LEMMA MovedBudget ==
  ASSUME RequestsInv, NEW w \in work, NEW S, Moves(w, S)
  PROVE  Budget'
<1> SUFFICES ASSUME NEW r \in Req
             PROVE (Cardinality(Owed(work, r)) + Given(r) <= Limit(r))'
  BY DEF Budget
<1> DEFINE W == work'
           a == Cardinality(Owed(work, r))
           b == Cardinality(Owed(work \ {w}, r))
           c == Cardinality(Owed(W, r))
<1>1. IsFiniteSet(work) /\ W = (work \ {w}) \union S /\ w.req \in Req
  BY DEF RequestsInv, Items, Moves, Item, Requests!Work
<1>2. IsFiniteSet(work \ {w})
  BY <1>1, FS_Subset
<1>3. a \in Nat /\ b \in Nat
  BY <1>1, <1>2, OwedFinite
<1>4. b + (IF Owes(w, r) THEN 1 ELSE 0) = a
  BY <1>1, OwedRemoved
<1>5. a + Given(r) <= Limit(r)
  BY DEF RequestsInv, Budget
<1>6. Given(r) \in Nat /\ Given(r)' \in Nat /\ Limit(r) \in Nat /\ Limit(r)' \in Nat
  <2>1. responses[r] \in Nat /\ responses'[r] \in Nat
    BY DEF RequestsInv, RequestTypes, Moves
  <2> QED
    BY <2>1 DEF Given, Limit
<1>7. CASE r = w.req
  <2>1. PICK x : \A v \in S : Owes(v, r) => v = x
    BY <1>7 DEF Moves, Pays
  <2> DEFINE R == work \ {w}
  <2>a. IsFiniteSet(R) /\ W = R \union S
    BY <1>1, <1>2
  <2>b. b = Cardinality(Owed(R, r))
    OBVIOUS
  <2> HIDE DEF R
  <2>c. /\ Cardinality(Owed(R \union S, r)) \in Nat
        /\ Cardinality(Owed(R \union S, r))
             <= Cardinality(Owed(R, r)) + (IF \E v \in S : Owes(v, r) THEN 1 ELSE 0)
    BY Zenon, <2>1, <2>a, OwedAdded
  <2>2. c \in Nat /\ c <= b + (IF \E v \in S : Owes(v, r) THEN 1 ELSE 0)
    BY <2>a, <2>b, <2>c
  <2>3. (IF \E v \in S : Owes(v, r) THEN 1 ELSE 0) + Given(r)' + Limit(r)
          <= (IF Owes(w, r) THEN 1 ELSE 0) + Given(r) + Limit(r)'
    BY <1>7 DEF Moves, Pays
  <2> DEFINE m == IF \E v \in S : Owes(v, r) THEN 1 ELSE 0
             n == IF Owes(w, r) THEN 1 ELSE 0
             g1 == Given(r)
             g2 == Given(r)'
             l1 == Limit(r)
             l2 == Limit(r)'
  <2>4. m \in Nat /\ n \in Nat
    OBVIOUS
  <2> HIDE DEF m, n, g1, g2, l1, l2, a, b, c
  <2>5. c + g2 <= l2
    <3>1. b + n = a /\ a + g1 <= l1 /\ c <= b + m /\ m + g2 + l1 <= n + g1 + l2
      BY <1>4, <1>5, <2>2, <2>3 DEF m, n, g1, g2, l1, l2
    <3>2. g1 \in Nat /\ g2 \in Nat /\ l1 \in Nat /\ l2 \in Nat
      BY <1>6 DEF g1, g2, l1, l2
    <3> QED
      BY <3>1, <3>2, <1>3, <2>2, <2>4
  <2> QED
    BY <2>5 DEF c, g2, l2
<1>8. CASE r # w.req
  <2>1. \A v \in S : ~Owes(v, r)
    BY <1>8 DEF Moves, Owes
  <2>2. ~Owes(w, r)
    BY <1>8 DEF Owes
  <2>3. Owed(W, r) = Owed(work, r)
    BY <1>1, <2>1, <2>2 DEF Owed
  <2>4. Given(r)' = Given(r) /\ Limit(r)' = Limit(r)
    BY <1>1, <1>8 DEF Moves, Others, Given, Limit, Twice
  <2> QED
    BY <2>3, <2>4, <1>5
<1> QED
  BY <1>7, <1>8

LEMMA MovedUnsent ==
  ASSUME RequestsInv, NEW w \in work, NEW S, Moves(w, S)
  PROVE  Unsent'
<1> SUFFICES ASSUME NEW r \in Req, msg'[r] = Requests!NotSent
             PROVE (/\ \A v \in work : v.req # r
                    /\ r \notin forwarded /\ r \notin repeated /\ responses[r] = 0)'
  BY Zenon DEF Unsent, Moves
<1>1. /\ \A v \in work : v.req # r
      /\ r \notin forwarded /\ r \notin repeated /\ responses[r] = 0
  BY DEF RequestsInv, Unsent, Moves
<1>2. w.req # r
  BY <1>1
<1> QED
  BY <1>1, <1>2 DEF Moves, Others

LEMMA MovedTimers ==
  ASSUME RequestsInv, NEW w \in work, NEW S, Moves(w, S)
  PROVE  Timers'
<1> DEFINE W == work'
<1>0. filters' = filters /\ W = (work \ {w}) \union S
  BY DEF Moves
<1> SUFFICES ASSUME NEW p \in Requests!Place, NEW r \in timeouts'[p]
             PROVE Timed(p) /\ ((\E v \in W : v.req = r /\ Keeps(v, p)) \/ (p = "global" /\ r \in forwarded'))
  <2> QED
    BY <1>0 DEF Timers, Timed, Kept, Keeps, Passing, Requests!Afters
<1>1. r \in Req
  BY DEF Moves, RequestTypes
<1>2. CASE r # w.req
  <2>1. r \in timeouts[p] /\ (r \in forwarded' <=> r \in forwarded)
    BY <1>1, <1>2 DEF Moves, Others
  <2>2. Timed(p) /\ Kept(work, r, p)
    BY <2>1 DEF RequestsInv, Timers
  <2> QED
    BY <2>1, <2>2, <1>0, <1>2 DEF Kept
<1>3. CASE r = w.req
  <2>1. /\ r \in timeouts'[p] \ timeouts[p] => Timed(p) /\ \E v \in S : Keeps(v, p)
        /\ Keeps(w, p) => (\E v \in S : Keeps(v, p)) \/ (p = "global" /\ r \in forwarded')
        /\ p = "global" /\ r \in forwarded => r \in forwarded' \/ \E v \in S : Keeps(v, p)
    BY <1>3 DEF Moves, Rests
  <2>2. \A v \in S : v.req = r
    BY <1>3 DEF Moves
  <2>3. r \in timeouts[p] => Timed(p) /\ Kept(work, r, p)
    BY DEF RequestsInv, Timers
  <2> HIDE DEF W
  <2>4. CASE r \in timeouts[p]
    BY <2>1, <2>2, <2>3, <2>4, <1>0, <1>3 DEF Kept
  <2>5. CASE r \notin timeouts[p]
    BY <2>1, <2>2, <2>5, <1>0
  <2> QED
    BY <2>4, <2>5
<1> QED
  BY <1>2, <1>3

LEMMA Moved ==
  ASSUME RequestsInv, NEW w \in work, NEW S, Moves(w, S)
  PROVE  RequestsInv'
BY MovedItems, MovedBudget, MovedUnsent, MovedTimers DEF RequestsInv, Moves

-----------------------------------------------------------------------------
LEMMA RequestItem ==
  ASSUME RequestsInv, NEW w \in work
  PROVE  /\ w \in Requests!Work /\ w.req \in Req /\ w.place \in Requests!Place /\ w.i \in Nat
         /\ w.at \in {"before", "handler", "tail", "error", "after", "forward"} /\ w.err \in BOOLEAN
         /\ Item(w) /\ Shape(w) /\ Fresh(w)
         /\ Len(filters[w.place]) \in Nat
         /\ RequestTypes
         /\ \A p \in Requests!Place : w.req \in timeouts[p] => Timed(p)
<1>1. w \in Requests!Work /\ Item(w) /\ Shape(w) /\ Fresh(w) /\ RequestTypes
  BY DEF RequestsInv, Items, Item
<1>2. /\ w.req \in Req /\ w.place \in Requests!Place /\ w.i \in Nat
      /\ w.at \in {"before", "handler", "tail", "error", "after", "forward"} /\ w.err \in BOOLEAN
  BY <1>1 DEF Requests!Work
<1> QED
  BY <1>1, <1>2, RequestLengths DEF RequestsInv, Timers

LEMMA Waiting ==
  ASSUME NEW r \in Req, NEW p \in Requests!Place, RequestTypes,
         NEW at \in {"before", "handler", "tail", "error", "after", "forward"},
         NEW x, \E err \in BOOLEAN : x = Requests!Wait(r, p, at, err)
  PROVE  /\ Item(x) /\ x.req = r /\ x.place = p /\ x.at = at /\ x.i = 0
         /\ at \in {"before", "handler", "error"} => Keeps(x, p)
         /\ at = "after" /\ Timed(p) => Keeps(x, p)
         /\ at # "tail" /\ p = "front" => Keeps(x, "global")
<1>1. x \in Requests!Work /\ x.req = r /\ x.place = p /\ x.at = at /\ x.i = 0
  BY DEF Requests!Wait, Requests!Work
<1>2. Len(filters[p]) \in Nat
  BY RequestLengths
<1>3. Item(x)
  BY <1>1, <1>2 DEF Item
<1>4. ASSUME Timed(p) PROVE Passing(x)
  <2>1. PICK k \in 1 .. Len(filters[p]) : filters[p][k] = "timeout"
    BY <1>4 DEF Timed
  <2> DEFINE n == Len(filters[p])
             j == n + 1 - k
  <2>2. j \in 1 .. n /\ n + 1 - j = k
    BY <1>2
  <2>3. DOMAIN filters[p] = 1 .. n
    BY RequestLengths
  <2>4. Requests!Afters(p)[j] = filters[p][n + 1 - j]
    BY <2>2, <2>3 DEF Requests!Afters
  <2>5. Requests!Afters(p)[j] = "timeout"
    BY <2>1, <2>2, <2>4
  <2>6. j \in 0 + 1 .. n
    BY <2>2
  <2> QED
    BY <2>5, <2>6, <1>1 DEF Passing
<1> QED
  BY <1>1, <1>3, <1>4 DEF Keeps

LEMMA Responding ==
  ASSUME RequestTypes, NEW r \in Req, Requests!Respond(r)
  PROVE  /\ responses' \in [Req -> Nat]
         /\ responses'[r] \in {responses[r], responses[r] + 1}
         /\ \A q \in Req : q # r => responses'[q] = responses[q]
<1>1. responses \in [Req -> Nat]
  BY DEF RequestTypes
<1>2. CASE msg[r].id /\ msg[r].session \in open
  <2>1. responses' = [responses EXCEPT ![r] = @ + 1]
    BY <1>2 DEF Requests!Respond, Requests!RespondTo
  <2> QED
    BY <2>1, <1>1
<1>3. CASE ~(msg[r].id /\ msg[r].session \in open)
  <2>1. responses' = [responses EXCEPT ![r] = @]
    BY <1>3 DEF Requests!Respond, Requests!RespondTo
  <2> QED
    BY <2>1, <1>1
<1> QED
  BY <1>2, <1>3

LEMMA NextItem ==
  ASSUME RequestsInv, NEW w \in work, w.i < Len(filters[w.place]), w.at \in {"before", "after"},
         NEW x, x = [w EXCEPT !.i = @ + 1]
  PROVE  /\ Item(x) /\ Shape(x) /\ x.req = w.req /\ x.place = w.place /\ x.at = w.at /\ x.i = w.i + 1
         /\ Owes(x, w.req) => Owes(w, w.req)
         /\ Early(x) => Early(w)
         /\ \A p : Keeps(w, p) => \/ Keeps(x, p)
                                  \/ /\ w.at = "after" /\ p = w.place
                                     /\ Requests!Afters(w.place)[w.i + 1] = "timeout"
<1> USE RequestItem
<1>1. x \in Requests!Work /\ x.req = w.req /\ x.place = w.place /\ x.at = w.at /\ x.i = w.i + 1
  BY DEF Requests!Work
<1>2. Item(x)
  BY <1>1 DEF Item
<1>3. Shape(x)
  BY <1>1 DEF Shape
<1>4. Passing(w) => Passing(x) \/ Requests!Afters(w.place)[w.i + 1] = "timeout"
  <2> SUFFICES ASSUME NEW k \in w.i + 1 .. Len(filters[w.place]),
                      Requests!Afters(w.place)[k] = "timeout", k # w.i + 1
               PROVE Passing(x)
    BY DEF Passing
  <2>1. k \in x.i + 1 .. Len(filters[w.place])
    BY <1>1
  <2> QED
    BY <2>1, <1>1 DEF Passing
<1>5. \A p : Keeps(w, p) => \/ Keeps(x, p)
                            \/ /\ w.at = "after" /\ p = w.place
                               /\ Requests!Afters(w.place)[w.i + 1] = "timeout"
  BY <1>1, <1>4 DEF Keeps
<1> QED
  BY <1>1, <1>2, <1>3, <1>5 DEF Owes, Early

\* A request goes on, and nobody hears of it.
Quiet == UNCHANGED <<filters, msg, forwarded, timeouts, responses, repeated>>

LEMMA GoesTimed ==
  ASSUME RequestsInv, NEW w \in work, NEW x, Item(x), Shape(x), x.req = w.req,
         work' = (work \ {w}) \union {x}, RequestTypes',
         UNCHANGED <<filters, msg, forwarded, responses, repeated>>,
         Owes(x, w.req) => Owes(w, w.req), Early(x) => Early(w), x.at # "tail",
         w.place = "back" => x.place = "back",
         Rests(w, {x}),
         \A q \in Req : q # w.req => \A p \in Requests!Place : q \in timeouts'[p] <=> q \in timeouts[p]
  PROVE  Moves(w, {x})
<1>1. w.req \in Req /\ Fresh(w)
  BY RequestItem
<1>2. Given(w.req)' = Given(w.req) /\ Limit(w.req)' = Limit(w.req) /\ Twice(w.req)' = Twice(w.req)
  BY DEF Given, Limit, Twice
<1>3. Given(w.req) \in Nat /\ Limit(w.req) \in Nat
  BY <1>1 DEF Given, Limit, RequestsInv, RequestTypes
<1>4. Pays(w, {x})
  BY <1>2, <1>3 DEF Pays
<1>5. Starts(w, {x})
  BY <1>1, <1>2 DEF Starts, Fresh
<1>6. Others(w.req)
  BY DEF Others
<1>7. IsFiniteSet({x})
  BY FS_Singleton
<1> QED
  BY <1>4, <1>5, <1>6, <1>7 DEF Moves

LEMMA Goes ==
  ASSUME RequestsInv, NEW w \in work, NEW x, Item(x), Shape(x), x.req = w.req,
         work' = (work \ {w}) \union {x}, Quiet, RequestTypes',
         Owes(x, w.req) => Owes(w, w.req), Early(x) => Early(w), x.at # "tail",
         w.place = "back" => x.place = "back",
         \A p \in Requests!Place : w.req \in timeouts[p] /\ Keeps(w, p) => Keeps(x, p)
  PROVE  Moves(w, {x})
<1>1. Rests(w, {x})
  BY DEF Rests, Quiet
<1> QED
  BY <1>1, GoesTimed DEF Quiet

\* A request ends, or waits for the rpc.
LEMMA Finishes ==
  ASSUME RequestsInv, NEW w \in work, work' = work \ {w}, Quiet, RequestTypes',
         \A p \in Requests!Place : ~Keeps(w, p)
  PROVE  RequestsInv'
<1>1. Given(w.req)' = Given(w.req) /\ Limit(w.req)' = Limit(w.req) /\ Twice(w.req)' = Twice(w.req)
  BY DEF Quiet, Given, Limit, Twice
<1>2. Given(w.req) \in Nat /\ Limit(w.req) \in Nat
  BY RequestItem DEF Given, Limit, RequestsInv, RequestTypes
<1>3. Pays(w, {}) /\ Starts(w, {}) /\ Rests(w, {}) /\ Others(w.req)
  <2>1. Pays(w, {})
    BY <1>1, <1>2 DEF Pays
  <2>2. Starts(w, {})
    BY <1>1 DEF Starts, Quiet
  <2>3. Rests(w, {}) /\ Others(w.req)
    BY DEF Rests, Others, Quiet
  <2> QED
    BY <2>1, <2>2, <2>3
<1>4. IsFiniteSet({})
  BY FS_EmptySet
<1>5. Moves(w, {})
  BY <1>3, <1>4 DEF Moves, Quiet
<1> QED
  BY <1>5, Moved

\* A request is answered, if its client waits, and the global after filters come.
LEMMA Answers ==
  ASSUME RequestsInv, NEW w \in work, Owes(w, w.req), Requests!Respond(w.req),
         NEW S, \E err \in BOOLEAN : S = Requests!GlobalResponse(w.req, err),
         work' = (work \ {w}) \union S,
         UNCHANGED <<filters, server, open, msg, forwarded, timeouts, queues, repeated>>,
         \A p \in Requests!Place : Keeps(w, p) => p = "global"
  PROVE  Moves(w, S)
<1> PICK err \in BOOLEAN : S = Requests!GlobalResponse(w.req, err)
  OBVIOUS
<1> DEFINE x == Requests!Wait(w.req, "global", "after", err)
<1>0. w.req \in Req /\ Fresh(w) /\ RequestTypes
      /\ \A p \in Requests!Place : w.req \in timeouts[p] => Timed(p)
  BY RequestItem
<1>1. S = {x}
  BY DEF Requests!GlobalResponse
<1>2. /\ Item(x) /\ x.req = w.req /\ x.place = "global" /\ x.at = "after"
      /\ Timed("global") => Keeps(x, "global")
  <2>1. "global" \in Requests!Place /\ \E e \in BOOLEAN : x = Requests!Wait(w.req, "global", "after", e)
    BY Zenon DEF Requests!Place
  <2> HIDE DEF x
  <2> QED
    BY <2>1, <1>0, Waiting
<1> HIDE DEF x
<1>3. /\ responses' \in [Req -> Nat]
      /\ responses'[w.req] \in {responses[w.req], responses[w.req] + 1}
      /\ \A q \in Req : q # w.req => responses'[q] = responses[q]
  BY <1>0, Responding
<1>4. Given(w.req)' <= Given(w.req) + 1 /\ Limit(w.req)' = Limit(w.req)
      /\ Given(w.req)' \in Nat /\ Given(w.req) \in Nat /\ Limit(w.req) \in Nat /\ Twice(w.req)' = Twice(w.req)
  BY <1>0, <1>3 DEF Given, Limit, Twice, RequestTypes
<1>5. ~Owes(x, w.req) /\ ~Early(x) /\ Shape(x)
  BY <1>2 DEF Owes, Early, Shape
<1>6. Pays(w, {x})
  BY <1>4, <1>5 DEF Pays
<1>7. Starts(w, {x})
  <2>1. w.place # "back"
    BY DEF Owes
  <2>2. \A v \in {x} : ~Early(v) /\ v.at # "tail"
    BY <1>2, <1>5
  <2> QED
    BY <2>1, <2>2, <1>4 DEF Starts
<1>8. Rests(w, {x})
  BY <1>0, <1>2 DEF Rests
<1>9. Others(w.req) /\ RequestTypes'
  <2>1. Others(w.req)
    BY <1>3 DEF Others
  <2>2. RequestTypes'
    BY <1>0, <1>3 DEF RequestTypes
  <2> QED
    BY <2>1, <2>2
<1>10. IsFiniteSet({x})
  BY FS_Singleton
<1> QED
  BY <1>1, <1>2, <1>5, <1>6, <1>7, <1>8, <1>9, <1>10 DEF Moves

-----------------------------------------------------------------------------
LEMMA RequestPasses ==
  ASSUME RequestsInv, NEW w \in work, Requests!Passes(w)
  PROVE  RequestsInv'
<1> DEFINE x == [w EXCEPT !.i = @ + 1]
<1>1. w.i < Len(filters[w.place]) /\ w.at = "before" /\ work' = (work \ {w}) \union {x}
  BY DEF Requests!Passes, Requests!Calls, Requests!NextFilter, Requests!Replace
<1>2. x = [w EXCEPT !.i = @ + 1]
  OBVIOUS
<1> HIDE DEF x
<1>3. /\ Item(x) /\ Shape(x) /\ x.req = w.req /\ x.place = w.place /\ x.at = w.at
      /\ Owes(x, w.req) => Owes(w, w.req)
      /\ Early(x) => Early(w)
      /\ \A p : Keeps(w, p) => Keeps(x, p)
  BY <1>1, <1>2, NextItem
<1>4. Quiet /\ RequestTypes'
  BY RequestItem DEF Requests!Passes, Quiet, RequestTypes
<1>5. Moves(w, {x})
  BY <1>1, <1>3, <1>4, Goes
<1> QED
  BY <1>5, Moved

LEMMA RequestSerial ==
  ASSUME RequestsInv, NEW w \in work, Requests!SerialBefore(w)
  PROVE  RequestsInv'
<1>1. w.at = "before" /\ work' = (work \ {w}) \union {w} /\ Quiet
  BY DEF Requests!SerialBefore, Requests!Calls, Quiet
<1>2. Item(w) /\ Shape(w) /\ RequestTypes /\ w.req \in Req
  BY RequestItem
<1>3. RequestTypes'
  <2> DEFINE h == Requests!Home(w.place)
             s == msg[w.req].session
  <2>1. queues' = [queues EXCEPT ![h] = @ \union {s}] /\ UNCHANGED <<filters, server, open, msg>>
    BY DEF Requests!SerialBefore, Requests!AddTask
  <2>2. h \in Requests!Process
    BY DEF Requests!Home, Requests!Process
  <2>3. s \in Session
    <3>1. msg[w.req] \in Requests!Message
      BY <1>2 DEF RequestTypes
    <3>2. msg[w.req] # Requests!NotSent
      BY <1>2 DEF RequestsInv, Unsent
    <3> QED
      BY <3>1, <3>2 DEF Requests!Message
  <2> HIDE DEF h, s
  <2>4. queues' \in [Requests!Process -> SUBSET Session]
    BY <2>1, <2>2, <2>3, <1>2 DEF RequestTypes
  <2> QED
    BY <2>1, <2>4, <1>1, <1>2 DEF RequestTypes, Quiet
<1>4. Moves(w, {w})
  BY <1>1, <1>2, <1>3, Goes
<1> QED
  BY <1>4, Moved

LEMMA RequestDispatch ==
  ASSUME RequestsInv, NEW w \in work, Requests!DispatchHere(w)
  PROVE  RequestsInv'
<1> DEFINE x == Requests!Wait(w.req, "front", "before", FALSE)
<1>0. w.req \in Req /\ RequestTypes
  BY RequestItem
<1>1. /\ w.at = "before" /\ w.place = "global" /\ msg[w.req].target = "front"
      /\ work' = (work \ {w}) \union {x} /\ Quiet
  BY DEF Requests!DispatchHere, Requests!Passed, Requests!Replace, Quiet
<1>2. /\ Item(x) /\ x.req = w.req /\ x.place = "front" /\ x.at = "before" /\ Keeps(x, "global")
  <2>1. "front" \in Requests!Place /\ \E e \in BOOLEAN : x = Requests!Wait(w.req, "front", "before", e)
    BY Zenon DEF Requests!Place
  <2> HIDE DEF x
  <2> QED
    BY <2>1, <1>0, Waiting
<1> HIDE DEF x
<1>3. Shape(x) /\ Owes(w, w.req) /\ Early(w)
  BY <1>1, <1>2 DEF Shape, Owes, Early
<1>4. RequestTypes'
  BY <1>0 DEF Requests!DispatchHere, RequestTypes
<1>5. \A p \in Requests!Place : Keeps(w, p) => Keeps(x, p)
  BY <1>1, <1>2 DEF Keeps
<1>6. Moves(w, {x})
  BY <1>1, <1>2, <1>3, <1>4, <1>5, Goes
<1> QED
  BY <1>6, Moved

LEMMA RequestCallsHandler ==
  ASSUME RequestsInv, NEW w \in work, Requests!CallHandler(w)
  PROVE  RequestsInv'
<1> DEFINE x == Requests!Wait(w.req, w.place, "handler", FALSE)
<1>0. w.req \in Req /\ w.place \in Requests!Place /\ RequestTypes /\ Shape(w)
  BY RequestItem
<1>1. w.at = "before" /\ w.place # "global" /\ work' = (work \ {w}) \union {x} /\ Quiet
  BY DEF Requests!CallHandler, Requests!Passed, Requests!Replace, Quiet
<1>2. /\ Item(x) /\ x.req = w.req /\ x.place = w.place /\ x.at = "handler" /\ Keeps(x, w.place)
      /\ w.place = "front" => Keeps(x, "global")
  <2>1. \E e \in BOOLEAN : x = Requests!Wait(w.req, w.place, "handler", e)
    BY Zenon
  <2> HIDE DEF x
  <2> QED
    BY <2>1, <1>0, Waiting
<1>a. x = Requests!Wait(w.req, w.place, "handler", FALSE)
  OBVIOUS
<1> HIDE DEF x
<1>3. Shape(x) /\ (Owes(x, w.req) => Owes(w, w.req)) /\ (Early(x) => Early(w))
  BY <1>0, <1>1, <1>2, <1>a DEF Shape, Owes, Early
<1>4. RequestTypes'
  BY <1>0 DEF Requests!CallHandler, RequestTypes
<1>5. \A p \in Requests!Place : Keeps(w, p) => Keeps(x, p)
  BY <1>1, <1>2 DEF Keeps
<1>6. Moves(w, {x})
  BY <1>1, <1>2, <1>3, <1>4, <1>5, Goes
<1> QED
  BY <1>6, Moved

\* Whoever calls back with an error, before there is a handler or instead of one.
LEMMA ErrorGoes ==
  ASSUME RequestsInv, NEW w \in work, w.at \in {"before", "handler"},
         work' = (work \ {w}) \union Requests!HandleError(w.place, w.req),
         w.place # "global" \/ ErrorHandlers,
         UNCHANGED <<filters, server, open, msg, forwarded, timeouts, queues, responses, repeated>>
  PROVE  RequestsInv'
<1>0. w.req \in Req /\ w.place \in Requests!Place /\ RequestTypes /\ Shape(w)
      /\ \A p \in Requests!Place : w.req \in timeouts[p] => Timed(p)
  BY RequestItem
<1>1. PICK x : /\ Requests!HandleError(w.place, w.req) = {x}
               /\ \/ \E e \in BOOLEAN : x = Requests!Wait(w.req, w.place, "error", e)
                  \/ /\ \E e \in BOOLEAN : x = Requests!Wait(w.req, w.place, "after", e)
                     /\ w.place # "global"
  BY DEF Requests!HandleError, Requests!Response
<1>2. /\ Item(x) /\ x.req = w.req /\ x.place = w.place /\ x.at \in {"error", "after"}
      /\ Timed(w.place) => Keeps(x, w.place)
      /\ w.place = "front" => Keeps(x, "global")
  BY <1>0, <1>1, Waiting
<1>3. Shape(x) /\ (Owes(x, w.req) => Owes(w, w.req)) /\ ~Early(x)
  BY <1>0, <1>2 DEF Shape, Owes, Early
<1>4. RequestTypes' /\ Quiet
  BY <1>0 DEF Quiet, RequestTypes
<1>5. \A p \in Requests!Place : w.req \in timeouts[p] /\ Keeps(w, p) => Keeps(x, p)
  BY <1>0, <1>2 DEF Keeps
<1>6. Moves(w, {x})
  BY <1>1, <1>2, <1>3, <1>4, <1>5, Goes
<1> QED
  BY <1>6, Moved

LEMMA RequestRefused ==
  ASSUME RequestsInv, NEW w \in work, Requests!Refuses(w)
  PROVE  RequestsInv'
<1>0. /\ w.at = "before"
      /\ UNCHANGED <<filters, server, open, msg, forwarded, timeouts, queues, repeated>>
  BY DEF Requests!Refuses, Requests!Calls
<1>1. CASE w.place = "global" /\ ~ErrorHandlers
  <2>1. /\ Requests!Respond(w.req)
        /\ work' = (work \ {w}) \union Requests!GlobalResponse(w.req, TRUE)
    BY <1>1 DEF Requests!Refuses, Requests!Replace
  <2>2. Owes(w, w.req) /\ \A p \in Requests!Place : Keeps(w, p) => p = "global"
    BY <1>0, <1>1 DEF Owes, Keeps
  <2> DEFINE S == Requests!GlobalResponse(w.req, TRUE)
  <2>3. work' = (work \ {w}) \union S /\ \E e \in BOOLEAN : S = Requests!GlobalResponse(w.req, e)
    BY Zenon, <2>1
  <2> HIDE DEF S
  <2>4. Moves(w, S)
    BY <1>0, <2>1, <2>2, <2>3, Answers
  <2> QED
    BY <2>4, Moved
<1>2. CASE ~(w.place = "global" /\ ~ErrorHandlers)
  <2>1. work' = (work \ {w}) \union Requests!HandleError(w.place, w.req) /\ responses' = responses
    BY <1>2 DEF Requests!Refuses, Requests!Replace
  <2>2. ErrorHandlers \in BOOLEAN
    BY RequestsAssumption DEF Requests!ConstantsAssumption
  <2> QED
    BY <1>0, <1>2, <2>1, ErrorGoes
<1> QED
  BY <1>1, <1>2

LEMMA RequestErrorHandled ==
  ASSUME RequestsInv, NEW w \in work, NEW err \in BOOLEAN, Requests!ErrorHandled(w, err)
  PROVE  RequestsInv'
<1>0. /\ w.at = "error"
      /\ UNCHANGED <<filters, server, open, msg, forwarded, timeouts, queues, repeated>>
  BY DEF Requests!ErrorHandled
<1>1. CASE w.place = "global"
  <2>1. /\ Requests!Respond(w.req)
        /\ work' = (work \ {w}) \union Requests!GlobalResponse(w.req, err)
    BY <1>1 DEF Requests!ErrorHandled, Requests!Replace
  <2>2. Owes(w, w.req) /\ \A p \in Requests!Place : Keeps(w, p) => p = "global"
    BY <1>0, <1>1 DEF Owes, Keeps
  <2> DEFINE S == Requests!GlobalResponse(w.req, err)
  <2>3. work' = (work \ {w}) \union S /\ \E e \in BOOLEAN : S = Requests!GlobalResponse(w.req, e)
    BY Zenon, <2>1
  <2> HIDE DEF S
  <2>4. Moves(w, S)
    BY <1>0, <2>1, <2>2, <2>3, Answers
  <2> QED
    BY <2>4, Moved
<1>2. CASE w.place # "global"
  <2> DEFINE x == Requests!Wait(w.req, w.place, "after", err)
  <2>0. w.req \in Req /\ w.place \in Requests!Place /\ RequestTypes /\ Shape(w)
        /\ \A p \in Requests!Place : w.req \in timeouts[p] => Timed(p)
    BY RequestItem
  <2>1. work' = (work \ {w}) \union {x} /\ responses' = responses
    BY <1>2 DEF Requests!ErrorHandled, Requests!Replace, Requests!Response
  <2>2. /\ Item(x) /\ x.req = w.req /\ x.place = w.place /\ x.at = "after"
        /\ Timed(w.place) => Keeps(x, w.place)
        /\ w.place = "front" => Keeps(x, "global")
    <3>1. \E e \in BOOLEAN : x = Requests!Wait(w.req, w.place, "after", e)
      BY Zenon
    <3> HIDE DEF x
    <3> QED
      BY <3>1, <2>0, Waiting
  <2> HIDE DEF x
  <2>3. Shape(x) /\ (Owes(x, w.req) => Owes(w, w.req)) /\ ~Early(x)
    BY <1>0, <2>0, <2>2 DEF Shape, Owes, Early
  <2>4. RequestTypes' /\ Quiet
    BY <1>0, <2>0, <2>1 DEF Quiet, RequestTypes
  <2>5. \A p \in Requests!Place : w.req \in timeouts[p] /\ Keeps(w, p) => Keeps(x, p)
    BY <1>0, <1>2, <2>0, <2>2 DEF Keeps
  <2>6. Moves(w, {x})
    BY <2>1, <2>2, <2>3, <2>4, <2>5, Goes
  <2> QED
    BY <2>6, Moved
<1> QED
  BY <1>1, <1>2

LEMMA RequestForwardThrows ==
  ASSUME RequestsInv, NEW w \in work, Requests!ForwardThrows(w)
  PROVE  RequestsInv'
<1>0. /\ w.at = "before" /\ w.place = "global"
      /\ UNCHANGED <<filters, server, open, msg, forwarded, timeouts, queues, repeated>>
      /\ Requests!Respond(w.req)
      /\ work' = (work \ {w}) \union Requests!GlobalResponse(w.req, TRUE)
  BY DEF Requests!ForwardThrows, Requests!Passed, Requests!Replace
<1>1. Owes(w, w.req) /\ \A p \in Requests!Place : Keeps(w, p) => p = "global"
  BY <1>0 DEF Owes, Keeps
<1> DEFINE S == Requests!GlobalResponse(w.req, TRUE)
<1>2. work' = (work \ {w}) \union S /\ \E e \in BOOLEAN : S = Requests!GlobalResponse(w.req, e)
  BY Zenon, <1>0
<1> HIDE DEF S
<1>3. Moves(w, S)
  BY <1>0, <1>1, <1>2, Answers
<1> QED
  BY <1>3, Moved

\* The rpc callback of a forwarded request comes with its answer.
LEMMA RpcAnswers ==
  ASSUME RequestsInv, NEW w \in work, w.place = "back", w.req \in forwarded, Requests!Respond(w.req),
         NEW S, \E err \in BOOLEAN : S = Requests!GlobalResponse(w.req, err),
         work' = (work \ {w}) \union S, forwarded' = forwarded \ {w.req},
         UNCHANGED <<filters, server, open, msg, timeouts, queues, repeated>>,
         \A p \in Requests!Place : ~Keeps(w, p)
  PROVE  RequestsInv'
<1> PICK err \in BOOLEAN : S = Requests!GlobalResponse(w.req, err)
  OBVIOUS
<1> DEFINE x == Requests!Wait(w.req, "global", "after", err)
<1>0. w.req \in Req /\ Fresh(w) /\ RequestTypes
      /\ \A p \in Requests!Place : w.req \in timeouts[p] => Timed(p)
  BY RequestItem
<1>1. S = {x}
  BY DEF Requests!GlobalResponse
<1>2. /\ Item(x) /\ x.req = w.req /\ x.place = "global" /\ x.at = "after"
      /\ Timed("global") => Keeps(x, "global")
  <2>1. "global" \in Requests!Place /\ \E e \in BOOLEAN : x = Requests!Wait(w.req, "global", "after", e)
    BY Zenon DEF Requests!Place
  <2> HIDE DEF x
  <2> QED
    BY <2>1, <1>0, Waiting
<1> HIDE DEF x
<1>3. /\ responses' \in [Req -> Nat]
      /\ responses'[w.req] \in {responses[w.req], responses[w.req] + 1}
      /\ \A q \in Req : q # w.req => responses'[q] = responses[q]
  BY <1>0, Responding
<1>4. Given(w.req)' <= Given(w.req) /\ Limit(w.req)' = Limit(w.req)
      /\ Given(w.req)' \in Nat /\ Given(w.req) \in Nat /\ Limit(w.req) \in Nat /\ Twice(w.req)' = Twice(w.req)
  BY <1>0, <1>3 DEF Given, Limit, Twice, RequestTypes
<1>5. ~Owes(x, w.req) /\ ~Early(x) /\ Shape(x) /\ ~Owes(w, w.req)
  BY <1>2 DEF Owes, Early, Shape
<1>6. Pays(w, {x})
  BY <1>4, <1>5 DEF Pays
<1>7. Starts(w, {x})
  BY <1>2, <1>4, <1>5 DEF Starts
<1>8. Rests(w, {x})
  BY <1>0, <1>2 DEF Rests
<1>9. Others(w.req) /\ RequestTypes'
  <2>1. Others(w.req)
    BY <1>3 DEF Others
  <2>2. RequestTypes'
    BY <1>0, <1>3 DEF RequestTypes
  <2> QED
    BY <2>1, <2>2
<1>10. IsFiniteSet({x})
  BY FS_Singleton
<1>11. Moves(w, {x})
  BY <1>1, <1>2, <1>5, <1>6, <1>7, <1>8, <1>9, <1>10 DEF Moves
<1> QED
  BY <1>11, Moved

LEMMA RequestTimed ==
  ASSUME RequestsInv, NEW w \in work, Requests!TimeoutBefore(w)
  PROVE  RequestsInv'
<1> DEFINE x == [w EXCEPT !.i = @ + 1]
<1>0. w.req \in Req /\ w.place \in Requests!Place /\ w.i \in Nat /\ RequestTypes
      /\ Len(filters[w.place]) \in Nat
      /\ \A p \in Requests!Place : w.req \in timeouts[p] => Timed(p)
  BY RequestItem
<1>1. /\ w.i < Len(filters[w.place]) /\ w.at = "before" /\ work' = (work \ {w}) \union {x}
      /\ filters[w.place][w.i + 1] = "timeout"
      /\ UNCHANGED <<filters, server, open, msg, forwarded, queues, responses, repeated>>
  BY DEF Requests!TimeoutBefore, Requests!Calls, Requests!NextFilter, Requests!Replace
<1>2. x = [w EXCEPT !.i = @ + 1]
  OBVIOUS
<1> HIDE DEF x
<1>3. /\ Item(x) /\ Shape(x) /\ x.req = w.req /\ x.place = w.place /\ x.at = w.at
      /\ Owes(x, w.req) => Owes(w, w.req)
      /\ Early(x) => Early(w)
      /\ \A p : Keeps(w, p) => Keeps(x, p)
  BY <1>1, <1>2, NextItem
<1>4. Timed(w.place) /\ Keeps(x, w.place)
  <2>1. w.i + 1 \in 1 .. Len(filters[w.place])
    BY <1>0, <1>1
  <2> QED
    BY <2>1, <1>1, <1>3 DEF Timed, Keeps
<1>5. /\ timeouts' \in [Requests!Place -> SUBSET Req]
      /\ \A q \in Req, p \in Requests!Place : q # w.req \/ p # w.place =>
           (q \in timeouts'[p] <=> q \in timeouts[p])
  <2>0. timeouts \in [Requests!Place -> SUBSET Req]
    BY <1>0 DEF RequestTypes
  <2>1. CASE timeouts' = [timeouts EXCEPT ![w.place] = @ \union {w.req}]
    BY <1>0, <2>0, <2>1
  <2>2. CASE timeouts' = timeouts
    BY <2>0, <2>2
  <2> QED
    BY <2>1, <2>2 DEF Requests!TimeoutBefore
<1>6. RequestTypes'
  BY <1>0, <1>1, <1>5 DEF RequestTypes
<1>7. Rests(w, {x})
  BY <1>0, <1>1, <1>3, <1>4, <1>5 DEF Rests
<1>8. Moves(w, {x})
  BY <1>0, <1>1, <1>3, <1>5, <1>6, <1>7, GoesTimed
<1> QED
  BY <1>8, Moved

LEMMA RequestAfterFilter ==
  ASSUME RequestsInv, NEW w \in work, Requests!AfterFilter(w)
  PROVE  RequestsInv'
<1> DEFINE x == [w EXCEPT !.i = @ + 1]
           gone == Requests!Afters(w.place)[w.i + 1] = "timeout"
<1>0. w.req \in Req /\ w.place \in Requests!Place /\ w.i \in Nat /\ RequestTypes
  BY RequestItem
<1>1. /\ w.i < Len(filters[w.place]) /\ w.at = "after" /\ work' = (work \ {w}) \union {x}
      /\ UNCHANGED <<filters, server, open, msg, forwarded, queues, responses, repeated>>
  BY DEF Requests!AfterFilter, Requests!NextFilter, Requests!Replace
<1>2. x = [w EXCEPT !.i = @ + 1]
  OBVIOUS
<1> HIDE DEF x
<1>3. /\ Item(x) /\ Shape(x) /\ x.req = w.req /\ x.place = w.place /\ x.at = w.at
      /\ Owes(x, w.req) => Owes(w, w.req)
      /\ Early(x) => Early(w)
      /\ \A p : Keeps(w, p) => Keeps(x, p) \/ (p = w.place /\ gone)
  BY <1>1, <1>2, NextItem
<1>5. /\ timeouts' \in [Requests!Place -> SUBSET Req]
      /\ \A q \in Req, p \in Requests!Place :
           /\ q \in timeouts'[p] => q \in timeouts[p]
           /\ q # w.req => (q \in timeouts'[p] <=> q \in timeouts[p])
      /\ gone => w.req \notin timeouts'[w.place]
  <2>0. timeouts \in [Requests!Place -> SUBSET Req]
    BY <1>0 DEF RequestTypes
  <2>1. CASE gone
    <3>1. timeouts' = [timeouts EXCEPT ![w.place] = @ \ {w.req}]
      BY <2>1 DEF Requests!AfterFilter, Requests!TimeoutAfter
    <3> QED
      BY <1>0, <2>0, <3>1
  <2>2. CASE ~gone
    <3>1. timeouts' = timeouts
      BY <2>2 DEF Requests!AfterFilter, Requests!TimeoutAfter
    <3> QED
      BY <2>0, <2>2, <3>1
  <2> QED
    BY <2>1, <2>2
<1> HIDE DEF gone
<1>6. RequestTypes'
  BY <1>0, <1>1, <1>5 DEF RequestTypes
<1>7. Rests(w, {x})
  BY <1>0, <1>1, <1>3, <1>5 DEF Rests
<1>8. Moves(w, {x})
  BY <1>0, <1>1, <1>3, <1>5, <1>6, <1>7, GoesTimed
<1> QED
  BY <1>8, Moved

LEMMA RequestForwards ==
  ASSUME RequestsInv, NEW w \in work, Requests!DoForward(w)
  PROVE  RequestsInv'
<1> DEFINE x == Requests!Wait(w.req, "back", "forward", FALSE)
<1>0. w.req \in Req /\ RequestTypes /\ Fresh(w)
      /\ \A p \in Requests!Place : w.req \in timeouts[p] => Timed(p)
  BY RequestItem
<1>1. /\ w.at = "before" /\ w.place = "global" /\ msg[w.req].target = "back"
      /\ work' = (work \ {w}) \union {x} /\ forwarded' = forwarded \union {w.req}
      /\ UNCHANGED <<filters, server, open, msg, timeouts, queues, responses, repeated>>
  BY DEF Requests!DoForward, Requests!Passed, Requests!Replace
<1>2. Item(x) /\ x.req = w.req /\ x.place = "back" /\ x.at = "forward"
  <2>1. "back" \in Requests!Place /\ \E e \in BOOLEAN : x = Requests!Wait(w.req, "back", "forward", e)
    BY Zenon DEF Requests!Place
  <2> HIDE DEF x
  <2> QED
    BY <2>1, <1>0, Waiting
<1> HIDE DEF x
<1>3. Shape(x) /\ Owes(w, w.req) /\ ~Owes(x, w.req) /\ Early(w) /\ ~Early(x)
  BY <1>1, <1>2 DEF Shape, Owes, Early
<1>4. RequestTypes'
  BY <1>0, <1>1 DEF RequestTypes
<1>5. Given(w.req)' <= Given(w.req) + 1 /\ Limit(w.req)' = Limit(w.req)
      /\ Given(w.req)' \in Nat /\ Given(w.req) \in Nat /\ Limit(w.req) \in Nat /\ Twice(w.req)' = Twice(w.req)
  BY <1>0, <1>1 DEF Given, Limit, Twice, RequestTypes
<1>6. Pays(w, {x})
  BY <1>3, <1>5 DEF Pays
<1>7. Starts(w, {x})
  BY <1>1, <1>2, <1>3, <1>5 DEF Starts
<1>8. Rests(w, {x})
  <2>1. \A p \in Requests!Place : Keeps(w, p) => p = "global"
    BY <1>1 DEF Keeps
  <2> QED
    BY <2>1, <1>1 DEF Rests
<1>9. Others(w.req)
  BY <1>1 DEF Others
<1>10. IsFiniteSet({x})
  BY FS_Singleton
<1>11. Moves(w, {x})
  BY <1>1, <1>2, <1>3, <1>4, <1>6, <1>7, <1>8, <1>9, <1>10 DEF Moves
<1> QED
  BY <1>11, Moved

LEMMA RequestForwarded ==
  ASSUME RequestsInv, NEW w \in work, Requests!ForwardMessage(w)
  PROVE  RequestsInv'
<1> DEFINE runs == server["back"] = "started"
           taken == ~runs /\ w.req \in forwarded
           x == Requests!Wait(w.req, "back", "before", FALSE)
           S == Requests!GlobalResponse(w.req, TRUE)
<1>0. w.req \in Req /\ RequestTypes /\ Shape(w)
  BY RequestItem
<1>1. /\ w.at = "forward"
      /\ work' = (work \ {w}) \union ((IF runs THEN {x} ELSE {}) \union (IF taken THEN S ELSE {}))
      /\ IF taken THEN Requests!Respond(w.req) ELSE UNCHANGED responses
      /\ forwarded' = IF taken THEN forwarded \ {w.req} ELSE forwarded
      /\ UNCHANGED <<filters, server, open, msg, timeouts, queues, repeated>>
  BY DEF Requests!ForwardMessage, Requests!Replace
<1>2. w.place = "back" /\ \A p \in Requests!Place : ~Keeps(w, p)
  BY <1>0, <1>1 DEF Shape, Keeps
<1>3. CASE runs
  <2>1. work' = (work \ {w}) \union {x} /\ Quiet
    BY <1>1, <1>3 DEF Quiet
  <2>2. Item(x) /\ x.req = w.req /\ x.place = "back" /\ x.at = "before"
    <3>1. "back" \in Requests!Place /\ \E e \in BOOLEAN : x = Requests!Wait(w.req, "back", "before", e)
      BY Zenon DEF Requests!Place
    <3> HIDE DEF x
    <3> QED
      BY <3>1, <1>0, Waiting
  <2> HIDE DEF x
  <2>3. Shape(x) /\ ~Owes(x, w.req) /\ ~Early(x)
    BY <1>0, <1>2, <2>2 DEF Shape, Owes, Early
  <2>4. RequestTypes'
    BY <1>0, <1>1, <2>1 DEF RequestTypes, Quiet
  <2>5. Moves(w, {x})
    BY <1>2, <2>1, <2>2, <2>3, <2>4, Goes
  <2> QED
    BY <2>5, Moved
<1>4. CASE taken
  <2>1. /\ work' = (work \ {w}) \union S /\ forwarded' = forwarded \ {w.req} /\ w.req \in forwarded
        /\ Requests!Respond(w.req)
    BY <1>1, <1>4
  <2>2. \E e \in BOOLEAN : S = Requests!GlobalResponse(w.req, e)
    BY Zenon
  <2> HIDE DEF S, taken, runs
  <2> QED
    BY <1>1, <1>2, <2>1, <2>2, RpcAnswers
<1>5. CASE ~runs /\ ~taken
  <2>1. work' = work \ {w} /\ Quiet
    BY <1>1, <1>5 DEF Quiet
  <2>2. RequestTypes'
    BY <1>0, <1>1, <2>1 DEF RequestTypes, Quiet
  <2> QED
    BY <1>2, <2>1, <2>2, Finishes
<1> QED
  BY <1>3, <1>4, <1>5

LEMMA RequestHandlerReturns ==
  ASSUME RequestsInv, NEW w \in work, Requests!HandlerReturns(w)
  PROVE  RequestsInv'
<1>1. w.at = "tail" /\ work' = work \ {w} /\ Quiet
  BY DEF Requests!HandlerReturns, Requests!Replace, Quiet
<1>2. RequestTypes'
  BY RequestItem DEF Requests!HandlerReturns, RequestTypes
<1>3. \A p \in Requests!Place : ~Keeps(w, p)
  BY <1>1 DEF Keeps
<1> QED
  BY <1>1, <1>2, <1>3, Finishes

LEMMA SameWork ==
  ASSUME NEW a \in Requests!Work, NEW b \in Requests!Work,
         a.req = b.req, a.place = b.place, a.at = b.at, a.i = b.i, a.err = b.err
  PROVE  a = b
BY DEF Requests!Work

LEMMA RequestHandlerCalls ==
  ASSUME RequestsInv, NEW w \in work, NEW err \in BOOLEAN, Requests!HandlerCalls(w, err)
  PROVE  RequestsInv'
<1> DEFINE t == [w EXCEPT !.at = "tail"]
<1>0. /\ w \in Requests!Work /\ w.req \in Req /\ w.place \in Requests!Place /\ RequestTypes
      /\ Item(w) /\ Shape(w) /\ Fresh(w)
      /\ \A p \in Requests!Place : w.req \in timeouts[p] => Timed(p)
  BY RequestItem
<1>1. /\ w.at = "handler"
      /\ work' = (work \ {w}) \union (Requests!CalledBack(w.place, w.req, err) \union {t})
      /\ UNCHANGED <<filters, server, open, msg, forwarded, timeouts, queues, responses, repeated>>
  BY DEF Requests!HandlerCalls, Requests!Replace
<1>2. w.place # "global" /\ w = Requests!Wait(w.req, w.place, w.at, FALSE)
  BY <1>0, <1>1 DEF Shape
<1>3. PICK x : /\ Requests!CalledBack(w.place, w.req, err) = {x}
               /\ \/ \E e \in BOOLEAN : x = Requests!Wait(w.req, w.place, "error", e)
                  \/ \E e \in BOOLEAN : x = Requests!Wait(w.req, w.place, "after", e)
  BY DEF Requests!CalledBack, Requests!HandleError, Requests!Response
<1>4. /\ Item(x) /\ x.req = w.req /\ x.place = w.place /\ x.at \in {"error", "after"}
      /\ Timed(w.place) => Keeps(x, w.place)
      /\ w.place = "front" => Keeps(x, "global")
  BY <1>0, <1>3, Waiting
<1>5. /\ t \in Requests!Work /\ t.req = w.req /\ t.place = w.place /\ t.at = "tail" /\ t.i = w.i
      /\ t = Requests!Wait(t.req, t.place, t.at, FALSE)
  <2>1. t \in Requests!Work /\ t.req = w.req /\ t.place = w.place /\ t.at = "tail" /\ t.i = w.i
    BY <1>0 DEF Requests!Work
  <2> DEFINE z == Requests!Wait(w.req, w.place, "tail", FALSE)
  <2>2. z \in Requests!Work /\ z.req = w.req /\ z.place = w.place /\ z.at = "tail" /\ z.i = 0 /\ z.err = FALSE
    BY <1>0 DEF Requests!Wait, Requests!Work
  <2>3. w.i = 0 /\ w.err = FALSE /\ t.err = w.err
    <3>1. w.i = 0 /\ w.err = FALSE
      BY <1>2 DEF Requests!Wait
    <3>2. t.err = w.err
      BY <1>0 DEF Requests!Work
    <3> QED
      BY <3>1, <3>2
  <2>4. z = Requests!Wait(w.req, w.place, "tail", FALSE)
    OBVIOUS
  <2> HIDE DEF t, z
  <2>5. t = z
    BY <2>1, <2>2, <2>3, SameWork
  <2> QED
    BY <2>1, <2>4, <2>5
<1> HIDE DEF t
<1>6. Item(t) /\ Shape(t) /\ ~Owes(t, w.req) /\ ~Early(t)
  BY <1>0, <1>2, <1>5 DEF Item, Shape, Owes, Early
<1>7. Shape(x) /\ (Owes(x, w.req) => Owes(w, w.req)) /\ ~Early(x)
  BY <1>0, <1>1, <1>4 DEF Shape, Owes, Early
<1>8. Given(w.req)' = Given(w.req) /\ Limit(w.req)' = Limit(w.req) /\ Twice(w.req)' = Twice(w.req)
      /\ Given(w.req) \in Nat /\ Limit(w.req) \in Nat
  BY <1>0, <1>1 DEF Given, Limit, Twice, RequestTypes
<1>9. Pays(w, {x, t})
  BY <1>6, <1>7, <1>8 DEF Pays
<1>10. Starts(w, {x, t})
  <2>1. w.place = "front" => ~Twice(w.req)
    BY <1>0, <1>1 DEF Fresh, Early
  <2>2. \A v \in {x, t} : ~Early(v) /\ v.place = w.place
    BY <1>4, <1>5, <1>6, <1>7
  <2> QED
    BY <2>1, <2>2, <1>1, <1>8 DEF Starts
<1>11. Rests(w, {x, t})
  <2>1. \A p \in Requests!Place : w.req \in timeouts[p] /\ Keeps(w, p) => Keeps(x, p)
    BY <1>0, <1>2, <1>4 DEF Keeps
  <2> QED
    BY <2>1, <1>1 DEF Rests
<1>12. Others(w.req) /\ RequestTypes'
  BY <1>0, <1>1 DEF Others, RequestTypes
<1>13. IsFiniteSet({x, t})
  <2>1. IsFiniteSet({x}) /\ IsFiniteSet({t}) /\ {x, t} = {x} \union {t}
    BY FS_Singleton
  <2>2. IsFiniteSet({x} \union {t})
    BY <2>1, FS_Union
  <2> QED
    BY <2>1, <2>2
<1>14. Moves(w, {x, t})
  <2>1. work' = (work \ {w}) \union {x, t}
    BY <1>1, <1>3
  <2>2. \A v \in {x, t} : Item(v) /\ v.req = w.req /\ Shape(v)
    BY <1>4, <1>5, <1>6, <1>7
  <2> QED
    BY <2>1, <2>2, <1>1, <1>9, <1>10, <1>11, <1>12, <1>13 DEF Moves
<1> QED
  BY <1>14, Moved

LEMMA RequestHandlerThrows ==
  ASSUME RequestsInv, NEW w \in work, Requests!HandlerThrows(w)
  PROVE  RequestsInv'
<1>0. /\ w.req \in Req /\ w.place \in Requests!Place /\ RequestTypes /\ Shape(w) /\ Fresh(w)
      /\ \A p \in Requests!Place : w.req \in timeouts[p] => Timed(p)
  BY RequestItem
<1>1. /\ w.at \in {"handler", "tail"}
      /\ work' = (work \ {w}) \union Requests!HandleError(w.place, w.req)
      /\ repeated' = IF w.at = "tail" THEN repeated \union {w.req} ELSE repeated
      /\ UNCHANGED <<filters, server, open, msg, forwarded, timeouts, queues, responses>>
  BY DEF Requests!HandlerThrows, Requests!Replace
<1>2. w.place # "global"
  BY <1>0, <1>1 DEF Shape
<1>3. CASE w.at = "handler"
  BY <1>1, <1>2, <1>3, ErrorGoes
<1>4. CASE w.at = "tail"
  <2>1. repeated' = repeated \union {w.req}
    BY <1>1, <1>4
  <2>2. PICK x : /\ Requests!HandleError(w.place, w.req) = {x}
                 /\ \/ \E e \in BOOLEAN : x = Requests!Wait(w.req, w.place, "error", e)
                    \/ \E e \in BOOLEAN : x = Requests!Wait(w.req, w.place, "after", e)
    BY DEF Requests!HandleError, Requests!Response
  <2>3. Item(x) /\ x.req = w.req /\ x.place = w.place /\ x.at \in {"error", "after"}
    BY <1>0, <2>2, Waiting
  <2>4. Shape(x) /\ ~Early(x) /\ (Owes(x, w.req) => w.place = "front")
    BY <1>0, <1>2, <2>3 DEF Shape, Owes, Early, Requests!Place
  <2>5. Given(w.req)' = Given(w.req) /\ Given(w.req) \in Nat
    BY <1>0, <1>1 DEF Given, RequestTypes
  <2>6. ASSUME w.place = "front" PROVE Pays(w, {x}) /\ Starts(w, {x})
    <3>1. ~Twice(w.req) /\ Twice(w.req)'
      BY <1>0, <1>1, <1>4, <2>1, <2>6 DEF Fresh, Shape, Twice
    <3>2. Pays(w, {x})
      BY <3>1, <2>5 DEF Pays, Limit
    <3>3. Starts(w, {x})
      BY <1>1, <1>4, <2>3, <2>4, <2>6 DEF Starts
    <3> QED
      BY <3>2, <3>3
  <2>7. ASSUME w.place = "back" PROVE Pays(w, {x}) /\ Starts(w, {x})
    <3>1. ~Twice(w.req) /\ ~Twice(w.req)'
      BY <1>0, <1>1, <2>7 DEF Shape, Twice
    <3>2. Pays(w, {x})
      BY <3>1, <2>4, <2>5, <2>7 DEF Pays, Limit
    <3>3. Starts(w, {x})
      BY <3>1, <1>1, <2>3, <2>4, <2>7 DEF Starts
    <3> QED
      BY <3>2, <3>3
  <2>8. Pays(w, {x}) /\ Starts(w, {x})
    <3>1. w.place = "front" \/ w.place = "back"
      BY <1>0, <1>2 DEF Requests!Place
    <3> QED
      BY <3>1, <2>6, <2>7
  <2>9. Rests(w, {x})
    BY <1>1, <1>4 DEF Rests, Keeps
  <2>10. Others(w.req) /\ RequestTypes'
    <3>1. Others(w.req)
      BY <1>1, <2>1 DEF Others
    <3>2. RequestTypes'
      BY <1>0, <1>1, <2>1 DEF RequestTypes
    <3> QED
      BY <3>1, <3>2
  <2>11. IsFiniteSet({x})
    BY FS_Singleton
  <2>12. Moves(w, {x})
    BY <1>1, <2>2, <2>3, <2>4, <2>8, <2>9, <2>10, <2>11 DEF Moves
  <2> QED
    BY <2>12, Moved
<1> QED
  BY <1>1, <1>3, <1>4

LEMMA RequestAfterDone ==
  ASSUME RequestsInv, NEW w \in work, Requests!AfterDone(w)
  PROVE  RequestsInv'
<1> DEFINE S == Requests!GlobalResponse(w.req, w.err)
<1>0. /\ w.req \in Req /\ w.place \in Requests!Place /\ RequestTypes /\ w.i \in Nat /\ w.err \in BOOLEAN
      /\ Len(filters[w.place]) \in Nat
  BY RequestItem
<1>1. /\ w.at = "after" /\ w.i = Len(filters[w.place])
      /\ IF Requests!Answers(w) THEN Requests!Respond(w.req) ELSE UNCHANGED responses
      /\ work' = (work \ {w}) \union (IF Requests!Answers(w) THEN S ELSE {})
      /\ forwarded' = IF w.place = "back" THEN forwarded \ {w.req} ELSE forwarded
      /\ UNCHANGED <<filters, server, open, msg, timeouts, queues, repeated>>
  BY DEF Requests!AfterDone, Requests!Replace
<1>2. \A p \in Requests!Place : Keeps(w, p) => p = "global" /\ w.place = "front"
  <2>1. ~Passing(w)
    BY <1>0, <1>1 DEF Passing
  <2> QED
    BY <2>1, <1>1 DEF Keeps
<1>3. \E e \in BOOLEAN : S = Requests!GlobalResponse(w.req, e)
  BY <1>0
<1> HIDE DEF S
<1>4. CASE w.place = "front"
  <2>1. Requests!Respond(w.req) /\ work' = (work \ {w}) \union S /\ forwarded' = forwarded
    BY <1>1, <1>4 DEF Requests!Answers
  <2>2. Owes(w, w.req)
    BY <1>1, <1>4 DEF Owes
  <2>3. Moves(w, S)
    BY <1>1, <1>2, <1>3, <2>1, <2>2, Answers
  <2> QED
    BY <2>3, Moved
<1>5. CASE w.place = "back" /\ w.req \in forwarded
  <2>1. Requests!Respond(w.req) /\ work' = (work \ {w}) \union S /\ forwarded' = forwarded \ {w.req}
    BY <1>1, <1>5 DEF Requests!Answers
  <2>2. \A p \in Requests!Place : ~Keeps(w, p)
    BY <1>2, <1>5
  <2> QED
    BY <1>1, <1>3, <1>5, <2>1, <2>2, RpcAnswers
<1>6. CASE w.place # "front" /\ ~(w.place = "back" /\ w.req \in forwarded)
  <2>1. ~Requests!Answers(w)
    BY <1>6 DEF Requests!Answers
  <2>2. responses' = responses /\ work' = work \ {w}
    BY <1>1, <2>1
  <2>3. forwarded' = forwarded
    BY <1>1, <1>6
  <2>4. Quiet /\ RequestTypes'
    BY <1>0, <1>1, <2>2, <2>3 DEF Quiet, RequestTypes
  <2>5. \A p \in Requests!Place : ~Keeps(w, p)
    BY <1>2, <1>6
  <2> QED
    BY <2>2, <2>4, <2>5, Finishes
<1> QED
  BY <1>4, <1>5, <1>6

LEMMA RequestRuns ==
  ASSUME RequestsInv, NEW w \in work, Requests!Runs(w)
  PROVE  RequestsInv'
BY RequestPasses, RequestRefused, RequestTimed, RequestSerial, RequestDispatch, RequestForwards,
   RequestForwardThrows, RequestForwarded, RequestCallsHandler, RequestHandlerReturns,
   RequestHandlerThrows, RequestAfterFilter, RequestAfterDone, RequestHandlerCalls,
   RequestErrorHandled
   DEF Requests!Runs

-----------------------------------------------------------------------------
\* The actions on no continuation.

LEMMA RequestServers ==
  ASSUME RequestsInv, RequestTypes', UNCHANGED <<filters, msg, work, forwarded, timeouts, responses, repeated>>
  PROVE  RequestsInv'
<1>1. Items'
  BY DEF RequestsInv, Items, Item, Shape, Fresh, Alone, Twice
<1>2. Budget'
  BY DEF RequestsInv, Budget, Given, Limit, Twice
<1>3. Unsent'
  BY DEF RequestsInv, Unsent
<1>4. Timers'
  BY DEF RequestsInv, Timers, Timed, Kept, Keeps, Passing, Requests!Afters
<1> QED
  BY <1>1, <1>2, <1>3, <1>4 DEF RequestsInv

LEMMA RequestForwardFails ==
  ASSUME RequestsInv, NEW r \in Req, Requests!ForwardFails(r)
  PROVE  RequestsInv'
<1> DEFINE x == Requests!Wait(r, "global", "after", TRUE)
           W == work'
<1>0. RequestTypes /\ Items /\ Budget /\ Unsent /\ Timers
  BY DEF RequestsInv
<1>1. /\ r \in forwarded /\ forwarded' = forwarded \ {r} /\ W = work \union {x}
      /\ Requests!Respond(r)
      /\ UNCHANGED <<filters, server, open, msg, timeouts, queues, repeated>>
  BY DEF Requests!ForwardFails, Requests!GlobalResponse
<1>2. /\ Item(x) /\ x.req = r /\ x.place = "global" /\ x.at = "after"
      /\ Timed("global") => Keeps(x, "global")
  <2>1. "global" \in Requests!Place /\ \E e \in BOOLEAN : x = Requests!Wait(r, "global", "after", e)
    BY Zenon DEF Requests!Place
  <2> HIDE DEF x
  <2> QED
    BY <2>1, <1>0, Waiting
<1> HIDE DEF x
<1>3. /\ responses' \in [Req -> Nat]
      /\ responses'[r] \in {responses[r], responses[r] + 1}
      /\ \A q \in Req : q # r => responses'[q] = responses[q]
  BY <1>0, <1>1, Responding
<1>4. RequestTypes'
  BY <1>0, <1>1, <1>3 DEF RequestTypes
<1>5. Items'
  <2>1. IsFiniteSet(W)
    <3>1. IsFiniteSet(work) /\ IsFiniteSet({x})
      BY <1>0, FS_Singleton DEF Items
    <3>2. IsFiniteSet(work \union {x})
      BY <3>1, FS_Union
    <3> QED
      BY <3>2, <1>1
  <2>2. \A v : Item(v)' = Item(v) /\ Shape(v)' = Shape(v) /\ Twice(v.req)' = Twice(v.req)
    BY <1>1 DEF Item, Shape, Twice
  <2>3. Shape(x) /\ Fresh(x)' /\ ~Early(x)
    BY <1>2 DEF Shape, Fresh, Early
  <2>4. ASSUME NEW v \in work PROVE Fresh(v)'
    <3>1. Fresh(v)
      BY <1>0 DEF Items
    <3>2. CASE Early(v)
      <4>1. v.req \notin forwarded /\ Alone(work, v) /\ ~Twice(v.req)
        BY <3>1, <3>2 DEF Fresh
      <4>2. Alone(W, v)
        BY <4>1, <1>1, <1>2 DEF Alone
      <4>3. v.req \notin forwarded' /\ ~Twice(v.req)'
        BY <4>1, <1>1, <2>2
      <4> QED
        BY <3>2, <4>2, <4>3 DEF Fresh, Early
    <3>3. CASE ~Early(v)
      BY <3>1, <3>3, <2>2 DEF Fresh
    <3> QED
      BY <3>2, <3>3
  <2>5. \A v \in W : (Item(v) /\ Shape(v) /\ Fresh(v))'
    <3>1. \A v \in work : Item(v) /\ Shape(v)
      BY <1>0 DEF Items
    <3> QED
      BY <3>1, <1>1, <1>2, <2>2, <2>3, <2>4
  <2> QED
    BY <2>1, <2>5 DEF Items
<1>6. Budget'
  <2> SUFFICES ASSUME NEW q \in Req
               PROVE (Cardinality(Owed(work, q)) + Given(q) <= Limit(q))'
    BY DEF Budget
  <2>1. Owed(W, q) = Owed(work, q)
    BY <1>1, <1>2 DEF Owed, Owes
  <2>2. Limit(q)' = Limit(q)
    BY <1>1 DEF Limit, Twice
  <2>3. Given(q)' <= Given(q) /\ Given(q)' \in Nat /\ Given(q) \in Nat /\ Limit(q) \in Nat
    <3>1. CASE q = r
      BY <1>0, <1>1, <1>3, <3>1 DEF Given, Limit, RequestTypes
    <3>2. CASE q # r
      <4>1. Given(q)' = Given(q)
        BY <1>1, <1>3, <3>2 DEF Given
      <4> QED
        BY <4>1, <1>0 DEF Given, Limit, RequestTypes
    <3> QED
      BY <3>1, <3>2
  <2> DEFINE n == Cardinality(Owed(work, q))
  <2>4. n \in Nat /\ n + Given(q) <= Limit(q)
    BY <1>0, OwedFinite DEF Items, Budget
  <2> HIDE DEF n
  <2>5. n + Given(q)' <= Limit(q)'
    BY <2>2, <2>3, <2>4
  <2> QED
    BY <2>1, <2>5 DEF n
<1>7. Unsent'
  <2>1. \A q \in Req : msg[q] = Requests!NotSent => q # r
    BY <1>0, <1>1 DEF Unsent
  <2> SUFFICES ASSUME NEW q \in Req, msg'[q] = Requests!NotSent
               PROVE (/\ \A v \in work : v.req # q
                      /\ q \notin forwarded /\ q \notin repeated /\ responses[q] = 0)'
    BY Zenon, <1>1 DEF Unsent
  <2>2. msg[q] = Requests!NotSent
    BY <1>1
  <2> QED
    BY <2>1, <2>2, <1>0, <1>1, <1>2, <1>3 DEF Unsent
<1>8. Timers'
  <2> SUFFICES ASSUME NEW p \in Requests!Place, NEW q \in timeouts[p]
               PROVE Timed(p) /\ ((\E v \in W : v.req = q /\ Keeps(v, p)) \/ (p = "global" /\ q \in forwarded'))
    BY <1>1 DEF Timers, Timed, Kept, Keeps, Passing, Requests!Afters
  <2>1. Timed(p) /\ Kept(work, q, p)
    BY <1>0 DEF Timers
  <2>2. CASE \E v \in work : v.req = q /\ Keeps(v, p)
    BY <2>1, <2>2, <1>1
  <2>3. CASE p = "global" /\ q \in forwarded
    BY <2>1, <2>3, <1>1, <1>2
  <2> QED
    BY <2>1, <2>2, <2>3 DEF Kept
<1> QED
  BY <1>4, <1>5, <1>6, <1>7, <1>8 DEF RequestsInv

LEMMA RequestArrives ==
  ASSUME RequestsInv, NEW r \in Req, NEW s \in Session, NEW t \in Requests!Target, NEW id \in BOOLEAN,
         Requests!Arrive(r, s, t, id)
  PROVE  RequestsInv'
<1> DEFINE m == [session |-> s, target |-> t, id |-> id]
           x == Requests!Wait(r, "global", "before", FALSE)
           W == work'
           comes == t \notin {"dotless", "malformed"} /\ server["front"] = "started"
           answered == t # "dotless" /\ (server["front"] # "started" \/ t = "malformed")
<1>0. RequestTypes /\ Items /\ Budget /\ Unsent /\ Timers
  BY DEF RequestsInv
<1>1. /\ msg[r] = Requests!NotSent /\ msg' = [msg EXCEPT ![r] = m]
      /\ IF answered THEN Requests!RespondTo(r, m) ELSE UNCHANGED responses
      /\ W = IF comes THEN work \union {x} ELSE work
      /\ UNCHANGED <<filters, server, open, forwarded, timeouts, queues, repeated>>
  BY DEF Requests!Arrive
<1>2. Item(x) /\ x.req = r /\ x.place = "global" /\ x.at = "before"
  <2>1. "global" \in Requests!Place /\ \E e \in BOOLEAN : x = Requests!Wait(r, "global", "before", e)
    BY Zenon DEF Requests!Place
  <2> HIDE DEF x
  <2> QED
    BY <2>1, <1>0, Waiting
<1>3. /\ \A v \in work : v.req # r
      /\ r \notin forwarded /\ r \notin repeated /\ responses[r] = 0
  BY <1>0, <1>1 DEF Unsent
<1>4. m \in Requests!Message /\ m # Requests!NotSent
  <2>1. m \in Requests!Message
    BY DEF Requests!Message
  <2>2. m.session # NoSession /\ Requests!NotSent.session = NoSession
    BY RequestConstants DEF Requests!NotSent
  <2> HIDE DEF m
  <2> QED
    BY <2>1, <2>2
<1>5. /\ responses' \in [Req -> Nat]
      /\ responses'[r] \in {0, 1} /\ (comes => responses'[r] = 0)
      /\ \A q \in Req : q # r => responses'[q] = responses[q]
  <2>0. responses \in [Req -> Nat]
    BY <1>0 DEF RequestTypes
  <2>1. CASE responses' = [responses EXCEPT ![r] = @ + 1] /\ ~comes
    BY <2>0, <2>1, <1>3
  <2>2. CASE responses' = responses
    BY <2>0, <2>2, <1>3
  <2>3. CASE answered
    <3>1. ~comes
      BY <2>3
    <3>2. Requests!RespondTo(r, m)
      BY <1>1, <2>3
    <3>3. responses' = [responses EXCEPT ![r] = @ + 1] \/ responses' = [responses EXCEPT ![r] = @]
      BY <3>2 DEF Requests!RespondTo
    <3>4. [responses EXCEPT ![r] = @] = responses
      BY <2>0
    <3> QED
      BY <3>1, <3>3, <3>4, <2>1, <2>2
  <2>4. CASE ~answered
    BY <2>2, <2>4, <1>1
  <2> QED
    BY <2>3, <2>4
<1> HIDE DEF m, x, comes, answered
<1>6. /\ msg' \in [Req -> Requests!Message] /\ msg'[r] = m
      /\ \A q \in Req : q # r => msg'[q] = msg[q]
  BY <1>0, <1>1, <1>4 DEF RequestTypes
<1>7. RequestTypes'
  BY <1>0, <1>1, <1>5, <1>6 DEF RequestTypes
<1>8. \A q \in Req : /\ q # r => Twice(q)' = Twice(q) /\ Given(q)' = Given(q)
                     /\ q = r => ~Twice(q)' /\ Given(q)' = responses'[r]
  BY <1>1, <1>3, <1>5, <1>6 DEF Twice, Given
<1>9. Items'
  <2>1. IsFiniteSet(W)
    <3>1. IsFiniteSet(work) /\ IsFiniteSet({x})
      BY <1>0, FS_Singleton DEF Items
    <3>2. IsFiniteSet(work \union {x})
      BY <3>1, FS_Union
    <3> QED
      BY <3>1, <3>2, <1>1
  <2>2. ASSUME NEW v \in work PROVE (Item(v) /\ Shape(v) /\ Fresh(v))'
    <3>1. Item(v) /\ Shape(v) /\ Fresh(v) /\ v.req # r /\ v.req \in Req
      BY <1>0, <1>3 DEF Items, Item, Requests!Work
    <3>2. msg'[v.req] = msg[v.req] /\ Twice(v.req)' = Twice(v.req)
      BY <3>1, <1>6, <1>8
    <3>3. Item(v)' /\ Shape(v)'
      BY <3>1, <3>2, <1>1 DEF Item, Shape
    <3>4. Alone(work, v) => Alone(W, v)
      BY <3>1, <1>1, <1>2 DEF Alone
    <3>5. Fresh(v)'
      BY <3>1, <3>2, <3>4, <1>1 DEF Fresh
    <3> QED
      BY <3>3, <3>5
  <2>3. ASSUME comes PROVE (Item(x) /\ Shape(x) /\ Fresh(x))'
    <3>1. Item(x)'
      BY <1>1, <1>2 DEF Item
    <3>2. Shape(x)'
      BY <1>2 DEF Shape
    <3>3. Alone(W, x)
      BY <1>1, <1>2, <1>3 DEF Alone
    <3>4. Fresh(x)'
      BY <3>3, <1>1, <1>2, <1>3, <1>8 DEF Fresh
    <3> QED
      BY <3>1, <3>2, <3>4
  <2> QED
    BY <2>1, <2>2, <2>3, <1>1 DEF Items
<1>10. Budget'
  <2> SUFFICES ASSUME NEW q \in Req
               PROVE (Cardinality(Owed(work, q)) + Given(q) <= Limit(q))'
    BY DEF Budget
  <2>1. CASE q # r
    <3>1. Owed(W, q) = Owed(work, q)
      BY <2>1, <1>1, <1>2 DEF Owed, Owes
    <3>2. Limit(q)' = Limit(q) /\ Given(q)' = Given(q)
      BY <2>1, <1>8 DEF Limit
    <3> QED
      BY <3>1, <3>2, <1>0 DEF Budget
  <2>2. CASE q = r
    <3>1. Given(q)' = responses'[r] /\ Limit(q)' = 1
      BY <2>2, <1>8 DEF Limit
    <3>2. CASE comes
      <4>1. Owed(W, q) \subseteq {x}
        BY <2>2, <3>2, <1>1, <1>3 DEF Owed, Owes
      <4>2. IsFiniteSet({x}) /\ Cardinality({x}) = 1
        BY FS_Singleton
      <4>3. Cardinality(Owed(W, q)) <= 1 /\ Cardinality(Owed(W, q)) \in Nat
        BY <4>1, <4>2, FS_Subset, FS_CardinalityType
      <4> QED
        BY <3>1, <3>2, <4>3, <1>5
    <3>3. CASE ~comes
      <4>1. Owed(W, q) = {}
        BY <2>2, <3>3, <1>1, <1>3 DEF Owed, Owes
      <4>2. Cardinality(Owed(W, q)) = 0
        BY <4>1, FS_EmptySet
      <4> QED
        BY <3>1, <4>2, <1>5
    <3> QED
      BY <3>2, <3>3
  <2> QED
    BY <2>1, <2>2
<1>11. Unsent'
  <2> SUFFICES ASSUME NEW q \in Req, msg'[q] = Requests!NotSent
               PROVE (/\ \A v \in work : v.req # q
                      /\ q \notin forwarded /\ q \notin repeated /\ responses[q] = 0)'
    BY Zenon DEF Unsent, Requests!NotSent
  <2>1. q # r /\ msg[q] = Requests!NotSent
    BY <1>4, <1>6
  <2> QED
    BY <2>1, <1>0, <1>1, <1>2, <1>5 DEF Unsent
<1>12. Timers'
  <2> SUFFICES ASSUME NEW p \in Requests!Place, NEW q \in timeouts[p]
               PROVE Timed(p) /\ ((\E v \in W : v.req = q /\ Keeps(v, p)) \/ (p = "global" /\ q \in forwarded))
    BY <1>1 DEF Timers, Timed, Kept, Keeps, Passing, Requests!Afters
  <2>1. Timed(p) /\ Kept(work, q, p)
    BY <1>0 DEF Timers
  <2> QED
    BY <2>1, <1>1 DEF Kept
<1> QED
  BY <1>7, <1>9, <1>10, <1>11, <1>12 DEF RequestsInv

LEMMA RequestsInvStep == RequestsInv /\ [Requests!Next]_requestVars => RequestsInv'
<1> SUFFICES ASSUME RequestsInv, [Requests!Next]_requestVars PROVE RequestsInv'
  OBVIOUS
<1>0. RequestTypes
  BY DEF RequestsInv
<1>1. CASE UNCHANGED requestVars
  <2>1. RequestTypes' /\ UNCHANGED <<filters, msg, work, forwarded, timeouts, responses, repeated>>
    BY <1>0, <1>1 DEF requestVars, RequestTypes
  <2> QED
    BY <2>1, RequestServers
<1>2. ASSUME NEW p \in Requests!Process, Requests!Start(p) \/ Requests!Stop(p) PROVE RequestsInv'
  <2>1. RequestTypes' /\ UNCHANGED <<filters, msg, work, forwarded, timeouts, responses, repeated>>
    BY <1>0, <1>2 DEF Requests!Start, Requests!Stop, RequestTypes
  <2> QED
    BY <2>1, RequestServers
<1>3. ASSUME NEW s \in Session, Requests!CloseSession(s) PROVE RequestsInv'
  <2>1. RequestTypes' /\ UNCHANGED <<filters, msg, work, forwarded, timeouts, responses, repeated>>
    BY <1>0, <1>3 DEF Requests!CloseSession, RequestTypes
  <2> QED
    BY <2>1, RequestServers
<1> QED
  BY <1>1, <1>2, <1>3, RequestArrives, RequestForwardFails, RequestRuns DEF Requests!Next

\* What the servers hold of a request, and what they still owe its client.
LEMMA RequestsInvInductive == Spec => []RequestsInv
<1>1. Init => RequestsInv
  BY RequestsInit DEF Init
<1>2. RequestsInv /\ [Next]_vars => RequestsInv'
  <2> SUFFICES ASSUME RequestsInv, [Next]_vars PROVE RequestsInv'
    OBVIOUS
  <2>1. [Requests!Next]_requestVars
    BY Zenon DEF Next, vars
  <2> QED
    BY <2>1, RequestsInvStep
<1> QED
  BY <1>1, <1>2, PTL DEF Spec

\* OneResponse, for every set of requests and sessions, every order of filters and with
\* error handlers or without: what the servers owe the client of a request and what they
\* have given make one together, but for a handler of the frontend server that fails
\* after it called back; and an entry of the timeout filter has a continuation that will
\* pass the filter on its way back (globalHandle, doHandle, doForward, TimeoutFilter).
THEOREM OneResponseCorrect == Spec => []OneResponse
<1> QED
  BY RequestsSafe, RequestsInvInductive, PTL

-----------------------------------------------------------------------------
(* The jobs a server schedules.  The loops of the queue are functions of   *)
(* how many rounds they have gone.                                         *)

\* Induction over the natural numbers, about a set of them.
LEMMA FromZero ==
  ASSUME NEW T, 0 \in T, \A n \in Nat : n \in T => n + 1 \in T
  PROVE  Nat \subseteq T
<1> DEFINE X == Nat \ T
           R == OpToRel(<, Nat)
<1>1. SUFFICES ASSUME X # {} PROVE FALSE
  OBVIOUS
<1>2. X \subseteq Nat
  OBVIOUS
<1>3. IsWellFoundedOn(R, Nat)
  BY Zenon, NatLessThanWellFounded
<1> HIDE DEF R, X
<1>4. \E x \in X : \A y \in X : ~(<<y, x>> \in R)
  BY Zenon, <1>1, <1>2, <1>3, WFMin
<1>5. PICK x \in X : \A y \in X : ~(<<y, x>> \in R)
  BY <1>4
<1>6. x \in Nat /\ x \notin T /\ x # 0
  BY <1>5 DEF X
<1>7. x - 1 \in Nat /\ (x - 1) + 1 = x
  BY <1>6
<1>8. <<x - 1, x>> \in R
  <2>1. x - 1 < x
    BY <1>6
  <2> QED
    BY <2>1, <1>6, <1>7 DEF R, OpToRel
<1>9. x - 1 \in T
  BY <1>5, <1>7, <1>8 DEF X
<1> QED
  BY <1>6, <1>7, <1>9

\* A loop: the state n rounds after x.
Approximates(g, n, F, x, S) ==
  /\ g \in [0 .. n -> S]
  /\ g[0] = x
  /\ \A k \in 1 .. n : g[k] = F[g[k - 1]]

LEMMA RoundsExist ==
  ASSUME NEW S, NEW F, \A s \in S : F[s] \in S, NEW x \in S
  PROVE  \A n \in Nat : \E g : Approximates(g, n, F, x, S)
<1> DEFINE T == {n \in Nat : \E g : Approximates(g, n, F, x, S)}
<1>1. 0 \in T
  <2> DEFINE g == [k \in 0 .. 0 |-> x]
  <2>1. Approximates(g, 0, F, x, S)
    BY DEF Approximates
  <2> QED
    BY <2>1
<1>2. ASSUME NEW n \in Nat, n \in T PROVE n + 1 \in T
  <2>1. PICK g : Approximates(g, n, F, x, S)
    BY <1>2
  <2> DEFINE h == [k \in 0 .. n + 1 |-> IF k = n + 1 THEN F[g[n]] ELSE g[k]]
  <2>2. g \in [0 .. n -> S] /\ g[0] = x /\ \A k \in 1 .. n : g[k] = F[g[k - 1]]
    BY <2>1 DEF Approximates
  <2>3. g[n] \in S /\ F[g[n]] \in S
    BY <2>2
  <2>4. \A k \in 0 .. n + 1 : k # n + 1 => k \in 0 .. n
    OBVIOUS
  <2>5. h \in [0 .. n + 1 -> S]
    BY <2>2, <2>3, <2>4
  <2>6. h[0] = x
    BY <2>2
  <2>7. ASSUME NEW k \in 1 .. n + 1 PROVE h[k] = F[h[k - 1]]
    <3>1. k - 1 \in 0 .. n /\ k - 1 \in 0 .. n + 1 /\ k \in 0 .. n + 1 /\ k - 1 # n + 1
      OBVIOUS
    <3>2. h[k - 1] = g[k - 1]
      BY <3>1
    <3>3. CASE k = n + 1
      BY <3>1, <3>2, <3>3
    <3>4. CASE k # n + 1
      <4>1. k \in 1 .. n
        BY <3>4
      <4>2. h[k] = g[k]
        BY <3>1, <3>4
      <4> QED
        BY <4>1, <4>2, <3>2, <2>2
    <3> QED
      BY <3>3, <3>4
  <2>8. Approximates(h, n + 1, F, x, S)
    BY <2>5, <2>6, <2>7 DEF Approximates
  <2> QED
    BY <2>8
<1> HIDE DEF T
<1>3. Nat \subseteq T
  BY <1>1, <1>2, FromZero
<1> QED
  BY <1>3 DEF T

\* What the rounds of a loop are.
LEMMA RoundsAre ==
  ASSUME NEW S, NEW F, \A s \in S : F[s] \in S, NEW x \in S
  PROVE  /\ Scheduler!Rounds(F, x) \in [Nat -> S]
         /\ Scheduler!Rounds(F, x)[0] = x
         /\ \A n \in Nat : Scheduler!Rounds(F, x)[n + 1] = F[Scheduler!Rounds(F, x)[n]]
<1> DEFINE G(n) == CHOOSE g : Approximates(g, n, F, x, S)
           f == [n \in Nat |-> G(n)[n]]
<1>1. \A n \in Nat : Approximates(G(n), n, F, x, S)
  BY RoundsExist
<1>2. \A n \in Nat : G(n)[n] \in S
  <2> SUFFICES ASSUME NEW n \in Nat PROVE G(n)[n] \in S
    OBVIOUS
  <2> DEFINE g == G(n)
  <2>1. Approximates(g, n, F, x, S)
    BY <1>1
  <2> HIDE DEF g
  <2>2. g \in [0 .. n -> S] /\ n \in 0 .. n
    BY <2>1 DEF Approximates
  <2>3. g[n] \in S
    BY <2>2
  <2> QED
    BY <2>3 DEF g
<1>3. G(0)[0] = x
  BY <1>1 DEF Approximates
<1>u. \A n, m \in Nat : \A g, h :
        Approximates(g, n, F, x, S) /\ Approximates(h, m, F, x, S) =>
          \A k \in Nat : k <= n /\ k <= m => g[k] = h[k]
  <2> SUFFICES ASSUME NEW n \in Nat, NEW g, Approximates(g, n, F, x, S),
                      NEW m \in Nat, NEW h, Approximates(h, m, F, x, S)
               PROVE \A k \in Nat : k <= n /\ k <= m => g[k] = h[k]
    OBVIOUS
  <2> DEFINE T == {k \in Nat : k <= n /\ k <= m => g[k] = h[k]}
  <2>1. 0 \in T
    BY DEF Approximates
  <2>2. ASSUME NEW k \in Nat, k \in T PROVE k + 1 \in T
    <3> SUFFICES ASSUME k + 1 <= n, k + 1 <= m PROVE g[k + 1] = h[k + 1]
      OBVIOUS
    <3>1. k <= n /\ k <= m /\ k + 1 \in 1 .. n /\ k + 1 \in 1 .. m /\ (k + 1) - 1 = k
      OBVIOUS
    <3>2. g[k] = h[k]
      BY <2>2, <3>1
    <3>3. g[k + 1] = F[g[k]] /\ h[k + 1] = F[h[k]]
      BY <3>1 DEF Approximates
    <3> QED
      BY <3>2, <3>3
  <2> HIDE DEF T
  <2>3. Nat \subseteq T
    BY <2>1, <2>2, FromZero
  <2> QED
    BY <2>3 DEF T
<1>4. \A n \in Nat : n # 0 => G(n)[n] = F[G(n - 1)[n - 1]]
  <2> SUFFICES ASSUME NEW n \in Nat, n # 0 PROVE G(n)[n] = F[G(n - 1)[n - 1]]
    OBVIOUS
  <2> DEFINE m == n - 1
             a == G(n)
             b == G(m)
  <2>1. m \in Nat /\ m <= n /\ m <= m /\ n \in 1 .. n
    OBVIOUS
  <2>2. Approximates(a, n, F, x, S) /\ Approximates(b, m, F, x, S)
    BY <1>1, <2>1
  <2>3. a[n] = F[a[m]]
    BY <2>1, <2>2 DEF Approximates
  <2> HIDE DEF a, b, m
  <2>b. m \in Nat /\ Approximates(a, n, F, x, S) /\ Approximates(b, m, F, x, S)
    BY <2>1, <2>2
  <2>a. \A k \in Nat : k <= n /\ k <= m => a[k] = b[k]
    BY <2>b, <1>u
  <2>4. a[m] = b[m]
    BY <2>1, <2>a
  <2> QED
    BY <2>3, <2>4 DEF a, b, m
<1> HIDE DEF G
<1>6. ASSUME NEW n \in Nat PROVE f[n] = IF n = 0 THEN x ELSE F[f[n - 1]]
  BY <1>3, <1>4
<1>7. f = [n \in Nat |-> IF n = 0 THEN x ELSE F[f[n - 1]]]
  BY <1>6
<1>8. \E h : h = [n \in Nat |-> IF n = 0 THEN x ELSE F[h[n - 1]]]
  BY Zenon, <1>7
<1> HIDE DEF f
<1> DEFINE r == Scheduler!Rounds(F, x)
<1>9. r = CHOOSE After : After = [n \in Nat |-> IF n = 0 THEN x ELSE F[After[n - 1]]]
  BY DEF Scheduler!Rounds
<1>10. r = [n \in Nat |-> IF n = 0 THEN x ELSE F[r[n - 1]]]
  BY Zenon, <1>8, <1>9
<1> HIDE DEF r
<1>11. r[0] = x /\ \A n \in Nat : r[n + 1] = F[r[n]]
  <2>1. r[0] = x
    BY <1>10
  <2>2. ASSUME NEW n \in Nat PROVE r[n + 1] = F[r[n]]
    <3>1. n + 1 \in Nat /\ n + 1 # 0 /\ (n + 1) - 1 = n
      OBVIOUS
    <3>2. r[n + 1] = F[r[(n + 1) - 1]]
      BY <1>10, <3>1
    <3> QED
      BY <3>1, <3>2
  <2> QED
    BY <2>1, <2>2
<1>12. \A n \in Nat : r[n] \in S
  <2> DEFINE T == {n \in Nat : r[n] \in S}
  <2>1. 0 \in T /\ \A n \in Nat : n \in T => n + 1 \in T
    BY <1>11
  <2> HIDE DEF T
  <2>2. Nat \subseteq T
    BY <2>1, FromZero
  <2> QED
    BY <2>2 DEF T
<1>13. r \in [Nat -> S]
  BY <1>10, <1>12
<1> QED
  BY <1>11, <1>13 DEF r

\* What every round keeps, of what may depend on how many there were.
LEMMA RoundsKeep ==
  ASSUME NEW F, NEW x, NEW Q, x \in Q[0],
         \A n \in Nat : \A s \in Q[n] : F[s] \in Q[n + 1]
  PROVE  \A n \in Nat : Scheduler!Rounds(F, x)[n] \in Q[n]
<1> DEFINE S == UNION {Q[n] : n \in Nat}
           r == Scheduler!Rounds(F, x)
<1>1. x \in S
  OBVIOUS
<1>2. \A s \in S : F[s] \in S
  OBVIOUS
<1> HIDE DEF S
<1>3. r[0] = x /\ \A n \in Nat : r[n + 1] = F[r[n]]
  BY <1>1, <1>2, RoundsAre
<1> HIDE DEF r
<1> DEFINE T == {n \in Nat : r[n] \in Q[n]}
<1>4. 0 \in T
  BY <1>3
<1>5. \A n \in Nat : n \in T => n + 1 \in T
  BY <1>3
<1> HIDE DEF T
<1>6. Nat \subseteq T
  BY <1>4, <1>5, FromZero
<1> QED
  BY <1>6 DEF T, r

-----------------------------------------------------------------------------
(* The heap: scheduler/lib/priorityQueue.js.                               *)

LEMMA Halves ==
  /\ \A i \in Nat : i > 1 => i \div 2 \in Nat /\ i \div 2 >= 1 /\ i \div 2 < i
                             /\ (i = 2 * (i \div 2) \/ i = 2 * (i \div 2) + 1)
  /\ \A i \in Nat, p \in Nat : i = 2 * p \/ i = 2 * p + 1 => i \div 2 = p
<1>1. \A i \in Nat : i > 1 => i \div 2 \in Nat /\ i \div 2 >= 1 /\ i \div 2 < i
                             /\ (i = 2 * (i \div 2) \/ i = 2 * (i \div 2) + 1)
  OBVIOUS
<1>2. \A i \in Nat, p \in Nat : i = 2 * p \/ i = 2 * p + 1 => i \div 2 = p
  OBVIOUS
<1> QED
  BY <1>1, <1>2

\* The elements of q are those that h has at the places K, each once.
Onto(f, K) == \A k \in K : \E i \in DOMAIN f : f[i] = k
Apart(f) == \A i, k \in DOMAIN f : f[i] = f[k] => i = k
Places(f, q, h, K) ==
  /\ f \in [1 .. Len(q) -> K]
  /\ Onto(f, K) /\ Apart(f)
  /\ \A i \in 1 .. Len(q) : q[i] = h[f[i]]
Rearranged(q, h, K) == \E f : Places(f, q, h, K)

LEMMA SwapTypes ==
  ASSUME NEW S, NEW h \in Seq(S), NEW a \in 1 .. Len(h), NEW b \in 1 .. Len(h)
  PROVE  /\ Scheduler!Swap(h, a, b) \in Seq(S) /\ Len(Scheduler!Swap(h, a, b)) = Len(h)
         /\ \A i \in 1 .. Len(h) : Scheduler!Swap(h, a, b)[i] = IF i = b THEN h[a] ELSE IF i = a THEN h[b] ELSE h[i]
<1> DEFINE q == Scheduler!Swap(h, a, b)
<1>1. q = [h EXCEPT ![a] = h[b], ![b] = h[a]]
  BY DEF Scheduler!Swap
<1>2. h \in [1 .. Len(h) -> S]
  OBVIOUS
<1>3. q \in [1 .. Len(h) -> S]
  BY <1>1, <1>2
<1>4. \A i \in 1 .. Len(h) : q[i] = IF i = b THEN h[a] ELSE IF i = a THEN h[b] ELSE h[i]
  BY <1>1, <1>2
<1> HIDE DEF q
<1>5. q \in Seq(S) /\ Len(q) = Len(h)
  BY <1>3
<1> QED
  BY <1>4, <1>5 DEF q

LEMMA SwapRearranged ==
  ASSUME NEW S, NEW q \in Seq(S), NEW h, NEW K, Rearranged(q, h, K),
         NEW a \in 1 .. Len(q), NEW b \in 1 .. Len(q)
  PROVE  Rearranged(Scheduler!Swap(q, a, b), h, K)
<1>1. PICK f : Places(f, q, h, K)
  BY DEF Rearranged
<1> DEFINE t == [i \in 1 .. Len(q) |-> IF i = b THEN a ELSE IF i = a THEN b ELSE i]
           g == [i \in 1 .. Len(q) |-> f[t[i]]]
           r == Scheduler!Swap(q, a, b)
<1>2. /\ f \in [1 .. Len(q) -> K] /\ Onto(f, K) /\ Apart(f)
      /\ \A i \in 1 .. Len(q) : q[i] = h[f[i]]
  BY <1>1 DEF Places
<1>a. /\ r \in Seq(S) /\ Len(r) = Len(q)
      /\ \A i \in 1 .. Len(q) : r[i] = IF i = b THEN q[a] ELSE IF i = a THEN q[b] ELSE q[i]
  BY SwapTypes
<1>3. Len(r) = Len(q) /\ \A i \in 1 .. Len(q) : r[i] = q[t[i]]
  <2> HIDE DEF r
  <2> QED
    BY <1>a
<1>4. \A i \in 1 .. Len(q) : t[i] \in 1 .. Len(q) /\ t[t[i]] = i
  OBVIOUS
<1> HIDE DEF t, r
<1>5. g \in [1 .. Len(q) -> K] /\ \A i \in 1 .. Len(q) : g[i] = f[t[i]]
  BY <1>2, <1>4
<1>6. Onto(g, K)
  <2> SUFFICES ASSUME NEW k \in K PROVE \E i \in 1 .. Len(q) : g[i] = k
    BY <1>5 DEF Onto
  <2>1. PICK i \in 1 .. Len(q) : f[i] = k
    BY <1>2 DEF Onto
  <2> QED
    BY <2>1, <1>4, <1>5
<1>7. Apart(g)
  <2> SUFFICES ASSUME NEW i \in 1 .. Len(q), NEW k \in 1 .. Len(q), g[i] = g[k] PROVE i = k
    BY <1>5 DEF Apart
  <2>1. t[i] = t[k]
    BY <1>2, <1>4, <1>5 DEF Apart
  <2> QED
    BY <2>1, <1>4
<1>8. \A i \in 1 .. Len(q) : r[i] = h[g[i]]
  BY <1>2, <1>3, <1>4, <1>5
<1> HIDE DEF g
<1>9. Places(g, r, h, K)
  BY <1>3, <1>5, <1>6, <1>7, <1>8 DEF Places
<1> QED
  BY <1>9 DEF Rearranged, r

Parent(i) == i \div 2

LEMMA Parents ==
  /\ \A i \in Nat : i > 1 => Parent(i) \in Nat /\ Parent(i) >= 1 /\ Parent(i) < i
                             /\ (i = 2 * Parent(i) \/ i = 2 * Parent(i) + 1)
  /\ \A i \in Nat, p \in Nat : i = 2 * p \/ i = 2 * p + 1 => Parent(i) = p
  BY Halves DEF Parent

Heap(h) == \A i \in 2 .. Len(h) : h[Parent(i)].time <= h[i].time

\* A heap but for the element at p, which may be too early, or too late.
UpHeap(q, p) ==
  /\ \A i \in 2 .. Len(q) : i # p => q[Parent(i)].time <= q[i].time
  /\ \A i \in 2 .. Len(q) : Parent(i) = p /\ p > 1 => q[Parent(p)].time <= q[i].time
DownHeap(q, p) ==
  /\ \A i \in 2 .. Len(q) : Parent(i) # p => q[Parent(i)].time <= q[i].time
  /\ \A i \in 2 .. Len(q) : Parent(i) = p /\ p > 1 => q[Parent(p)].time <= q[i].time

LEMMA ElementTimes ==
  ASSUME NEW q \in Seq(Scheduler!Element)
  PROVE  \A i \in 1 .. Len(q) : q[i] \in Scheduler!Element /\ q[i].id \in Scheduler!JobId /\ q[i].time \in Nat
<1> SUFFICES ASSUME NEW i \in 1 .. Len(q)
             PROVE  q[i] \in Scheduler!Element /\ q[i].id \in Scheduler!JobId /\ q[i].time \in Nat
  OBVIOUS
<1>1. q[i] \in Scheduler!Element
  OBVIOUS
<1> QED
  BY <1>1 DEF Scheduler!Element

\* g is h with the elements at a and b exchanged.
Swapped(g, h, a, b) ==
  /\ g \in Seq(Scheduler!Element)
  /\ Len(g) = Len(h)
  /\ \A i \in 1 .. Len(h) : g[i] = IF i = b THEN h[a] ELSE IF i = a THEN h[b] ELSE h[i]

LEMMA ElementSwaps ==
  ASSUME NEW h \in Seq(Scheduler!Element), NEW a \in 1 .. Len(h), NEW b \in 1 .. Len(h)
  PROVE  Swapped(Scheduler!Swap(h, a, b), h, a, b)
<1> DEFINE g == Scheduler!Swap(h, a, b)
<1>1. /\ g \in Seq(Scheduler!Element) /\ Len(g) = Len(h)
      /\ \A i \in 1 .. Len(h) : g[i] = IF i = b THEN h[a] ELSE IF i = a THEN h[b] ELSE h[i]
  BY SwapTypes, SMTT(30)
<1> HIDE DEF g
<1>2. Swapped(g, h, a, b)
  BY <1>1 DEF Swapped
<1> QED
  BY <1>2 DEF g

LEMMA UpMoves ==
  ASSUME NEW q \in Seq(Scheduler!Element), NEW p \in 2 .. Len(q), UpHeap(q, p),
         q[Parent(p)].time > q[p].time
  PROVE  UpHeap(Scheduler!Swap(q, p, Parent(p)), Parent(p))
<1> DEFINE o == Parent(p)
           r == Scheduler!Swap(q, p, o)
           n == Len(q)
           Time(i) == q[i].time
           New(i) == r[i].time
<1>1. n \in Nat /\ p \in 2 .. n /\ o \in 1 .. n /\ p \in 1 .. n /\ o < p
  BY Parents
<1>2. \A i \in 1 .. n : Time(i) \in Nat
  BY ElementTimes
<1> HIDE DEF o
<1>s. Swapped(r, q, p, o)
  BY <1>1, ElementSwaps
<1>3. /\ r \in Seq(Scheduler!Element) /\ Len(r) = n
      /\ \A i \in 1 .. n : r[i] = IF i = o THEN q[p] ELSE IF i = p THEN q[o] ELSE q[i]
  BY <1>s DEF Swapped
<1>4. \A i \in 1 .. n : New(i) = IF i = o THEN Time(p) ELSE IF i = p THEN Time(o) ELSE Time(i)
  BY <1>3
<1>5. Parent(p) = o /\ Time(o) > Time(p)
  BY DEF o
<1>6. /\ \A i \in 2 .. n : i # p => Time(Parent(i)) <= Time(i)
      /\ \A i \in 2 .. n : Parent(i) = p => Time(o) <= Time(i)
  BY <1>1, <1>5 DEF UpHeap
<1>p. \A i \in 2 .. n : Parent(i) \in 1 .. n /\ Parent(i) < i /\ i \in 1 .. n
  BY <1>1, Parents
<1> HIDE DEF n, Time, New, r
<1>7. ASSUME NEW i \in 2 .. n, i # o PROVE New(Parent(i)) <= New(i)
  <2>1. i \in 1 .. n /\ Parent(i) \in 1 .. n /\ Parent(i) < i
    BY <1>p
  <2>2. CASE i = p
    BY <2>1, <2>2, <1>1, <1>2, <1>4, <1>5
  <2>3. CASE i # p /\ Parent(i) = p
    <3>1. New(Parent(i)) = Time(o) /\ New(i) = Time(i)
      BY <2>1, <2>3, <1>1, <1>4, <1>7
    <3> QED
      BY <3>1, <2>3, <1>6
  <2>4. CASE i # p /\ Parent(i) = o
    <3>1. New(Parent(i)) = Time(p) /\ New(i) = Time(i)
      BY <2>1, <2>4, <1>1, <1>4, <1>7
    <3>2. Time(o) <= Time(i)
      BY <2>4, <1>6
    <3>3. Time(o) \in Nat /\ Time(p) \in Nat /\ Time(i) \in Nat
      BY <1>1, <1>2, <2>1
    <3> QED
      BY <3>1, <3>2, <3>3, <1>5
  <2>5. CASE i # p /\ Parent(i) # p /\ Parent(i) # o
    BY <2>1, <2>5, <1>4, <1>6, <1>7
  <2> QED
    BY <2>2, <2>3, <2>4, <2>5
<1>8. ASSUME NEW i \in 2 .. n, Parent(i) = o, o > 1 PROVE New(Parent(o)) <= New(i)
  <2>1. o \in 2 .. n /\ Parent(o) \in 1 .. n /\ Parent(o) < o /\ i \in 1 .. n /\ o # i
    BY <1>1, <1>8, <1>p
  <2>2. New(Parent(o)) = Time(Parent(o)) /\ Time(Parent(o)) <= Time(o)
    BY <2>1, <1>1, <1>4, <1>6
  <2>3. New(i) = Time(o) \/ (New(i) = Time(i) /\ i # p)
    BY <2>1, <1>4
  <2>4. i # p => Time(o) <= Time(i)
    BY <1>6, <1>8
  <2>5. Time(Parent(o)) \in Nat /\ Time(o) \in Nat /\ Time(i) \in Nat
    BY <1>1, <1>2, <2>1
  <2> QED
    BY <2>2, <2>3, <2>4, <2>5
<1> QED
  BY <1>3, <1>7, <1>8 DEF UpHeap, o, New, Time, n, r

LEMMA DownMoves ==
  ASSUME NEW q \in Seq(Scheduler!Element), NEW p \in 1 .. Len(q), DownHeap(q, p),
         NEW c \in 2 .. Len(q), Parent(c) = p, q[p].time > q[c].time,
         \A i \in 2 .. Len(q) : Parent(i) = p => q[c].time <= q[i].time
  PROVE  DownHeap(Scheduler!Swap(q, p, c), c)
<1> DEFINE r == Scheduler!Swap(q, p, c)
           n == Len(q)
           Time(i) == q[i].time
           New(i) == r[i].time
<1>1. n \in Nat /\ p \in 1 .. n /\ c \in 2 .. n /\ c \in 1 .. n /\ p < c
  BY Parents
<1>2. \A i \in 1 .. n : Time(i) \in Nat
  BY ElementTimes
<1>s. Swapped(r, q, p, c)
  BY <1>1, ElementSwaps
<1>3. /\ r \in Seq(Scheduler!Element) /\ Len(r) = n
      /\ \A i \in 1 .. n : r[i] = IF i = c THEN q[p] ELSE IF i = p THEN q[c] ELSE q[i]
  BY <1>s DEF Swapped
<1>4. \A i \in 1 .. n : New(i) = IF i = c THEN Time(p) ELSE IF i = p THEN Time(c) ELSE Time(i)
  BY <1>3
<1>6. /\ \A i \in 2 .. n : Parent(i) # p => Time(Parent(i)) <= Time(i)
      /\ \A i \in 2 .. n : Parent(i) = p /\ p > 1 => Time(Parent(p)) <= Time(i)
      /\ \A i \in 2 .. n : Parent(i) = p => Time(c) <= Time(i)
      /\ Time(p) > Time(c)
  BY <1>1 DEF DownHeap
<1>p. \A i \in 2 .. n : Parent(i) \in 1 .. n /\ Parent(i) < i /\ i \in 1 .. n
  BY <1>1, Parents
<1>h. (\A i \in 2 .. n : Parent(i) # c => New(Parent(i)) <= New(i))
      /\ (\A i \in 2 .. n : Parent(i) = c => New(Parent(c)) <= New(i))
      => DownHeap(r, c)
  BY <1>3 DEF DownHeap
<1> HIDE DEF n, Time, New, r
<1>7. ASSUME NEW i \in 2 .. n, Parent(i) # c PROVE New(Parent(i)) <= New(i)
  <2>1. i \in 1 .. n /\ Parent(i) \in 1 .. n /\ Parent(i) < i
    BY <1>p
  <2>2. CASE Parent(i) = p
    <3>1. New(Parent(i)) = Time(c)
      BY <2>2, <1>1, <1>4
    <3>2. i # p
      BY <2>1, <2>2
    <3>3. New(i) = IF i = c THEN Time(p) ELSE Time(i)
      BY <2>1, <3>2, <1>4
    <3>4. Time(c) <= Time(i) /\ Time(c) < Time(p)
      BY <2>2, <1>1, <1>2, <1>6
    <3>5. Time(c) \in Nat /\ Time(p) \in Nat
      BY <1>1, <1>2
    <3> QED
      BY <3>1, <3>3, <3>4, <3>5
  <2>3. CASE Parent(i) # p /\ i = p
    <3>1. New(i) = Time(c)
      BY <2>1, <2>3, <1>1, <1>4
    <3>2. New(Parent(i)) = Time(Parent(p))
      BY <2>1, <2>3, <1>1, <1>4
    <3>3. p > 1
      BY <2>3
    <3>4. Time(Parent(p)) <= Time(c)
      BY <3>3, <1>1, <1>6
    <3> QED
      BY <3>1, <3>2, <3>4
  <2>4. CASE Parent(i) # p /\ i # p
    <3>1. i # c
      BY <2>4
    <3>2. New(i) = Time(i)
      BY <2>1, <2>4, <3>1, <1>4
    <3>3. New(Parent(i)) = Time(Parent(i))
      BY <2>1, <2>4, <1>7, <1>4
    <3> QED
      BY <3>2, <3>3, <2>4, <1>6
  <2> QED
    BY <2>2, <2>3, <2>4
<1>8. ASSUME NEW i \in 2 .. n, Parent(i) = c PROVE New(Parent(c)) <= New(i)
  <2>1. i \in 1 .. n /\ i > c /\ i # p
    BY <1>1, <1>8, <1>p
  <2>2. New(Parent(c)) = Time(c)
    BY <1>1, <1>4
  <2>3. New(i) = Time(i)
    BY <2>1, <1>1, <1>4
  <2>4. Time(c) <= Time(i)
    BY <1>1, <1>6, <1>8
  <2> QED
    BY <2>2, <2>3, <2>4
<1> QED
  BY <1>7, <1>8, <1>h DEF r

LEMMA SameElements ==
  ASSUME NEW S, NEW g \in Seq(S)
  PROVE  Rearranged(g, g, 1 .. Len(g))
<1> DEFINE f == [i \in 1 .. Len(g) |-> i]
<1>1. Places(f, g, g, 1 .. Len(g))
  BY DEF Places, Onto, Apart
<1> QED
  BY <1>1 DEF Rearranged

\* An element that the loop of offer has moved up n times, or as far as it goes.
Rising(s, n, h, e) ==
  /\ s \in Scheduler!Sifting /\ Len(s.queue) = Len(h) + 1 /\ s.pos \in 1 .. Len(h) + 1
  /\ Rearranged(s.queue, Append(h, e), 1 .. Len(h) + 1)
  /\ UpHeap(s.queue, s.pos)
  /\ s.pos <= (Len(h) + 1) - n \/ s.pos = 1 \/ s.queue[Parent(s.pos)].time <= s.queue[s.pos].time
  /\ s.queue[s.pos] = e
  /\ h # <<>> /\ h[1].time <= e.time => s.pos > 1 /\ s.queue[1] = h[1]

LEMMA Appended ==
  ASSUME NEW h \in Seq(Scheduler!Element), NEW e \in Scheduler!Element
  PROVE  /\ Append(h, e) \in Seq(Scheduler!Element) /\ Len(Append(h, e)) = Len(h) + 1
         /\ \A i \in 1 .. Len(h) : Append(h, e)[i] = h[i]
         /\ Append(h, e)[Len(h) + 1] = e
  OBVIOUS

LEMMA RisingStarts ==
  ASSUME NEW h \in Seq(Scheduler!Element), Heap(h), NEW e \in Scheduler!Element
  PROVE  Rising([queue |-> Append(h, e), pos |-> Len(h) + 1], 0, h, e)
<1> DEFINE g == Append(h, e)
           n == Len(h) + 1
           s == [queue |-> g, pos |-> n]
<1>1. /\ g \in Seq(Scheduler!Element) /\ Len(g) = n /\ n \in Nat /\ n >= 1
      /\ \A i \in 1 .. Len(h) : g[i] = h[i]
      /\ g[n] = e
  BY Appended
<1>2. s \in Scheduler!Sifting /\ s.queue = g /\ s.pos = n
  BY <1>1 DEF Scheduler!Sifting, Scheduler!Elements
<1>3. Rearranged(g, g, 1 .. n)
  BY <1>1, SameElements
<1>4. UpHeap(g, n)
  <2>1. ASSUME NEW i \in 2 .. n, i # n PROVE g[Parent(i)].time <= g[i].time
    <3>1. i \in 2 .. Len(h) /\ Parent(i) \in 1 .. Len(h) /\ i \in 1 .. Len(h)
      BY <2>1, Parents
    <3>2. h[Parent(i)].time <= h[i].time
      BY <3>1 DEF Heap
    <3> QED
      BY <3>1, <3>2, <1>1
  <2>2. \A i \in 2 .. n : Parent(i) # n
    <3> SUFFICES ASSUME NEW i \in 2 .. n PROVE Parent(i) # n
      OBVIOUS
    <3>1. Parent(i) < i /\ Parent(i) \in Nat /\ i <= n
      BY <1>1, Parents
    <3> QED
      BY <3>1, <1>1
  <2> QED
    BY <1>1, <2>1, <2>2 DEF UpHeap
<1>5. h # <<>> => n > 1 /\ g[1] = h[1]
  <2> SUFFICES ASSUME h # <<>> PROVE n > 1 /\ g[1] = h[1]
    OBVIOUS
  <2>1. Len(h) \in Nat /\ Len(h) # 0
    OBVIOUS
  <2>2. 1 \in 1 .. Len(h)
    BY <2>1
  <2> QED
    BY <2>1, <2>2, <1>1
<1>6. n <= n - 0
  BY <1>1
<1> HIDE DEF g, s
<1> QED
  BY <1>1, <1>2, <1>3, <1>4, <1>5, <1>6 DEF Rising, g, s

LEMMA RisingGoesOn ==
  ASSUME NEW h \in Seq(Scheduler!Element), NEW e \in Scheduler!Element,
         NEW n \in Nat, NEW s, Rising(s, n, h, e)
  PROVE  Rising(Scheduler!Up[s], n + 1, h, e)
<1> DEFINE q == s.queue
           p == s.pos
           o == Parent(p)
           m == Len(h) + 1
           r == Scheduler!Swap(q, p, o)
           t == Scheduler!Moves(s, o)
<1>1. /\ s \in Scheduler!Sifting /\ Len(q) = m /\ p \in 1 .. m
      /\ Rearranged(q, Append(h, e), 1 .. m)
      /\ UpHeap(q, p)
      /\ p <= m - n \/ p = 1 \/ q[o].time <= q[p].time
      /\ q[p] = e
      /\ h # <<>> /\ h[1].time <= e.time => p > 1 /\ q[1] = h[1]
  BY DEF Rising
<1>2. q \in Seq(Scheduler!Element) /\ p \in Nat /\ m \in Nat
  BY <1>1 DEF Scheduler!Sifting, Scheduler!Elements
<1>3. Scheduler!Up[s] = IF p > 1 /\ q[o].time > q[p].time THEN t ELSE s
  BY <1>1 DEF Scheduler!Up, Scheduler!Later, Parent
<1>4. CASE p > 1 /\ q[o].time > q[p].time
  <2>1. p \in 2 .. m /\ o \in 1 .. m /\ o < p /\ p \in 1 .. m
    BY <1>1, <1>2, <1>4, Parents
  <2>2. UpHeap(r, o)
    BY <1>1, <1>2, <1>4, <2>1, UpMoves
  <2> HIDE DEF o, q, p, m
  <2>a. p \in 1 .. Len(q) /\ o \in 1 .. Len(q)
    BY <1>1, <2>1
  <2>b. Swapped(r, q, p, o)
    BY <1>2, <2>a, ElementSwaps
  <2>3. /\ r \in Seq(Scheduler!Element) /\ Len(r) = m
        /\ \A i \in 1 .. m : r[i] = IF i = o THEN q[p] ELSE IF i = p THEN q[o] ELSE q[i]
    BY <1>1, <2>b DEF Swapped
  <2>4. Rearranged(r, Append(h, e), 1 .. m)
    BY <1>1, <1>2, <2>1, SwapRearranged
  <2>5. t \in Scheduler!Sifting /\ t.queue = r /\ t.pos = o
    BY <2>1, <2>3 DEF Scheduler!Moves, Scheduler!Sifting, Scheduler!Elements, q, p
  <2>6. r[o] = e
    BY <1>1, <2>1, <2>3
  <2>7. o <= m - (n + 1) \/ o = 1 \/ r[Parent(o)].time <= r[o].time
    <3>1. p <= m - n
      <4>1. q[o].time \in Nat /\ q[p].time \in Nat
        BY <1>1, <1>2, <2>1, ElementTimes
      <4> QED
        BY <1>1, <1>4, <4>1
    <3> QED
      BY <3>1, <2>1, <1>2
  <2>8. h # <<>> /\ h[1].time <= e.time => o > 1 /\ r[1] = h[1]
    <3> SUFFICES ASSUME h # <<>>, h[1].time <= e.time PROVE o > 1 /\ r[1] = h[1]
      OBVIOUS
    <3>1. q[1] = h[1] /\ q[p] = e /\ 1 \in 1 .. m
      BY <1>1, <2>1
    <3>2. q[1].time \in Nat /\ q[p].time \in Nat
      BY <1>1, <1>2, <2>1, <3>1, ElementTimes
    <3>3. o # 1
      BY <3>1, <3>2, <1>4
    <3>4. o > 1 /\ p # 1
      BY <3>3, <2>1
    <3> QED
      BY <3>1, <3>3, <3>4, <2>3
  <2>9. Scheduler!Up[s] = t
    BY <1>3, <1>4
  <2> HIDE DEF t, r
  <2>10. Rising(t, n + 1, h, e)
    BY <2>1, <2>2, <2>3, <2>4, <2>5, <2>6, <2>7, <2>8 DEF Rising, m
  <2> QED
    BY <2>9, <2>10
<1>5. CASE ~(p > 1 /\ q[o].time > q[p].time)
  <2>1. p = 1 \/ q[o].time <= q[p].time
    <3>1. CASE p > 1
      <4>1. o \in 1 .. m
        BY <3>1, <1>1, <1>2, Parents
      <4>2. q[o].time \in Nat /\ q[p].time \in Nat
        BY <1>1, <1>2, <4>1, ElementTimes
      <4> QED
        BY <3>1, <4>2, <1>5
    <3>2. CASE ~(p > 1)
      BY <3>2, <1>1
    <3> QED
      BY <3>1, <3>2
  <2> HIDE DEF o, q, p, m
  <2>2. Scheduler!Up[s] = s
    BY <1>3, <1>5
  <2>3. Rising(s, n + 1, h, e)
    BY <2>1, <1>1 DEF Rising, q, p, m, o
  <2> QED
    BY <2>2, <2>3
<1> QED
  BY <1>4, <1>5

\* offer: the heap has the new element too, and its head stays if that is as early.
LEMMA OfferMakes ==
  ASSUME NEW h \in Seq(Scheduler!Element), Heap(h), NEW e \in Scheduler!Element
  PROVE  /\ Scheduler!Offer(h, e) \in Seq(Scheduler!Element)
         /\ Len(Scheduler!Offer(h, e)) = Len(h) + 1
         /\ Heap(Scheduler!Offer(h, e))
         /\ Rearranged(Scheduler!Offer(h, e), Append(h, e), 1 .. Len(h) + 1)
         /\ h # <<>> /\ h[1].time <= e.time => Scheduler!Offer(h, e)[1] = h[1]
<1> DEFINE Q == [n \in Nat |-> {s \in Scheduler!Sifting : Rising(s, n, h, e)}]
           x == [queue |-> Append(h, e), pos |-> Len(h) + 1]
           m == Len(h) + 1
           r == Scheduler!Rounds(Scheduler!Up, x)
           F == Scheduler!Up
<1>1. x \in Q[0]
  <2>1. Rising(x, 0, h, e)
    BY RisingStarts
  <2> HIDE DEF x
  <2> QED
    BY <2>1 DEF Rising
<1> HIDE DEF x
<1>2. ASSUME NEW n \in Nat, NEW s \in Q[n] PROVE F[s] \in Q[n + 1]
  <2>1. Rising(F[s], n + 1, h, e)
    BY <1>2, RisingGoesOn
  <2> HIDE DEF F
  <2> QED
    BY <2>1 DEF Rising
<1>a. \A n \in Nat : Q[n] = {s \in Scheduler!Sifting : Rising(s, n, h, e)}
  OBVIOUS
<1> HIDE DEF F, Q
<1>3. \A n \in Nat : Scheduler!Rounds(F, x)[n] \in Q[n]
  BY <1>1, <1>2, RoundsKeep
<1>4. m \in Nat /\ m >= 1
  OBVIOUS
<1>5. Scheduler!Offer(h, e) = r[m].queue
  <2>1. Len(Append(h, e)) = m
    BY Appended
  <2> QED
    BY <2>1 DEF Scheduler!Offer, Scheduler!Sifted, x
<1> DEFINE z == r[m]
           o == z.queue
           p == z.pos
<1>6. Rising(z, m, h, e)
  BY <1>3, <1>4, <1>a DEF F
<1> HIDE DEF r, z
<1>7. /\ z \in Scheduler!Sifting /\ Len(o) = m /\ p \in 1 .. m
      /\ Rearranged(o, Append(h, e), 1 .. m)
      /\ UpHeap(o, p)
      /\ p <= m - m \/ p = 1 \/ o[Parent(p)].time <= o[p].time
      /\ h # <<>> /\ h[1].time <= e.time => p > 1 /\ o[1] = h[1]
  BY <1>6 DEF Rising
<1>8. o \in Seq(Scheduler!Element)
  BY <1>7 DEF Scheduler!Sifting, Scheduler!Elements
<1>9. p = 1 \/ o[Parent(p)].time <= o[p].time
  BY <1>7, <1>4
<1>10. Heap(o)
  BY <1>7, <1>9 DEF UpHeap, Heap
<1> HIDE DEF p
<1> QED
  BY <1>5, <1>7, <1>8, <1>10 DEF z

\* An element that the loop of pop has moved down n times, or as far as it goes.
Falling(s, n, h) ==
  /\ s \in Scheduler!Sifting /\ Len(s.queue) = Len(h) - 1 /\ s.pos \in 1 .. Len(h) - 1
  /\ Rearranged(s.queue, h, 2 .. Len(h))
  /\ DownHeap(s.queue, s.pos)
  /\ \/ s.pos >= 1 + n
     \/ \A i \in 2 .. Len(h) - 1 : Parent(i) = s.pos => s.queue[s.pos].time <= s.queue[i].time

LEMMA FallingStarts ==
  ASSUME NEW h \in Seq(Scheduler!Element), Heap(h), Len(h) >= 2
  PROVE  Falling([queue |-> Scheduler!LastFirst(h), pos |-> 1], 0, h)
<1> DEFINE g == Scheduler!LastFirst(h)
           m == Len(h) - 1
           s == [queue |-> g, pos |-> 1]
           f == [i \in 1 .. m |-> IF i = 1 THEN Len(h) ELSE i]
<1>1. m \in Nat /\ m >= 1 /\ Len(h) \in Nat /\ Len(h) = m + 1
  OBVIOUS
<1>2. /\ g \in Seq(Scheduler!Element) /\ Len(g) = m
      /\ \A i \in 1 .. m : g[i] = IF i = 1 THEN h[Len(h)] ELSE h[i]
  <2> DEFINE u == SubSeq(h, 1, m)
  <2>1. u \in Seq(Scheduler!Element) /\ Len(u) = m /\ \A i \in 1 .. m : u[i] = h[i]
    BY <1>1
  <2>2. h[Len(h)] \in Scheduler!Element
    BY <1>1
  <2>3. g = [u EXCEPT ![1] = h[Len(h)]]
    BY DEF Scheduler!LastFirst
  <2> HIDE DEF u, g, m
  <2>4. u \in [1 .. m -> Scheduler!Element]
    BY <1>1, <2>1
  <2>5. g \in [1 .. m -> Scheduler!Element]
    BY <1>1, <2>2, <2>3, <2>4
  <2>6. \A i \in 1 .. m : g[i] = IF i = 1 THEN h[Len(h)] ELSE h[i]
    BY <1>1, <2>1, <2>3, <2>4
  <2> QED
    BY <1>1, <2>5, <2>6
<1>3. s \in Scheduler!Sifting /\ s.queue = g /\ s.pos = 1
  BY <1>1, <1>2 DEF Scheduler!Sifting, Scheduler!Elements
<1> HIDE DEF g, s
<1>4. Rearranged(g, h, 2 .. Len(h))
  <2>1. f \in [1 .. m -> 2 .. Len(h)]
    BY <1>1
  <2>2. Onto(f, 2 .. Len(h))
    <3> SUFFICES ASSUME NEW k \in 2 .. Len(h) PROVE \E i \in 1 .. m : f[i] = k
      BY DEF Onto
    <3>1. CASE k = Len(h)
      BY <3>1, <1>1
    <3>2. CASE k # Len(h)
      <4> HIDE DEF m, f
      <4>1. k \in 1 .. m /\ k # 1
        BY <3>2, <1>1
      <4>2. f[k] = k
        BY <4>1 DEF f
      <4> QED
        BY <4>1, <4>2
    <3> QED
      BY <3>1, <3>2
  <2>3. Apart(f)
    BY <1>1 DEF Apart
  <2>4. \A i \in 1 .. m : g[i] = h[f[i]]
    BY <1>1, <1>2
  <2> HIDE DEF f, m
  <2>5. Places(f, g, h, 2 .. Len(h))
    BY <1>2, <2>1, <2>2, <2>3, <2>4 DEF Places
  <2> QED
    BY <2>5 DEF Rearranged
<1>5. DownHeap(g, 1)
  <2>1. ASSUME NEW i \in 2 .. m, Parent(i) # 1 PROVE g[Parent(i)].time <= g[i].time
    <3>1. Parent(i) \in 1 .. m /\ i \in 1 .. m /\ i # 1 /\ i \in 2 .. Len(h)
      BY <1>1, Parents
    <3>2. h[Parent(i)].time <= h[i].time
      BY <3>1 DEF Heap
    <3>3. g[i] = h[i] /\ g[Parent(i)] = h[Parent(i)]
      BY <1>2, <2>1, <3>1
    <3> QED
      BY <3>2, <3>3
  <2> QED
    BY <1>2, <2>1 DEF DownHeap
<1> HIDE DEF m
<1>6. 1 \in 1 .. m /\ 1 >= 1 + 0
  BY <1>1
<1>7. Falling(s, 0, h)
  BY <1>2, <1>3, <1>4, <1>5, <1>6 DEF Falling, m
<1> QED
  BY <1>7 DEF s, g

LEMMA FallingMoves ==
  ASSUME NEW h \in Seq(Scheduler!Element), Len(h) >= 2, NEW n \in Nat, NEW s, Falling(s, n, h),
         NEW c \in 2 .. Len(h) - 1, Parent(c) = s.pos, s.queue[s.pos].time > s.queue[c].time,
         \A i \in 2 .. Len(h) - 1 : Parent(i) = s.pos => s.queue[c].time <= s.queue[i].time
  PROVE  Falling(Scheduler!Moves(s, c), n + 1, h)
<1> DEFINE q == s.queue
           p == s.pos
           m == Len(h) - 1
           r == Scheduler!Swap(q, p, c)
           t == Scheduler!Moves(s, c)
<1>1. /\ s \in Scheduler!Sifting /\ Len(q) = m /\ p \in 1 .. m
      /\ Rearranged(q, h, 2 .. Len(h))
      /\ DownHeap(q, p)
      /\ p >= 1 + n \/ \A i \in 2 .. m : Parent(i) = p => q[p].time <= q[i].time
  BY DEF Falling
<1>2. q \in Seq(Scheduler!Element) /\ p \in Nat /\ m \in Nat /\ m >= 1 /\ c \in 2 .. m
  BY <1>1 DEF Scheduler!Sifting, Scheduler!Elements
<1>3. Parent(c) = p /\ q[p].time > q[c].time /\ \A i \in 2 .. m : Parent(i) = p => q[c].time <= q[i].time
  OBVIOUS
<1>4. p < c /\ c \in 1 .. m
  BY <1>2, <1>3, Parents
<1>5. q[p].time \in Nat /\ q[c].time \in Nat
  BY <1>1, <1>2, <1>4, ElementTimes
<1> HIDE DEF q, p, m
<1>6. c >= 1 + (n + 1)
  <2>1. p >= 1 + n
    BY <1>1, <1>2, <1>3, <1>5
  <2> QED
    BY <2>1, <1>2, <1>4
<1>7. DownHeap(r, c)
  <2>1. p \in 1 .. Len(q) /\ c \in 2 .. Len(q)
    BY <1>1, <1>2
  <2>2. \A i \in 2 .. Len(q) : Parent(i) = p => q[c].time <= q[i].time
    BY <1>1, <1>3
  <2> QED
    BY <1>1, <1>2, <1>3, <2>1, <2>2, DownMoves
<1>8. r \in Seq(Scheduler!Element) /\ Len(r) = m /\ Rearranged(r, h, 2 .. Len(h))
  <2>1. p \in 1 .. Len(q) /\ c \in 1 .. Len(q)
    BY <1>1, <1>4
  <2>s. Swapped(r, q, p, c)
    BY <1>2, <2>1, ElementSwaps
  <2>2. r \in Seq(Scheduler!Element) /\ Len(r) = Len(q)
    BY <2>s DEF Swapped
  <2>3. Rearranged(r, h, 2 .. Len(h))
    BY <1>1, <1>2, <2>1, SwapRearranged
  <2> QED
    BY <1>1, <2>2, <2>3
<1>9. t \in Scheduler!Sifting /\ t.queue = r /\ t.pos = c
  BY <1>8, <1>4, <1>2 DEF Scheduler!Moves, Scheduler!Sifting, Scheduler!Elements, q, p
<1> HIDE DEF t, r
<1> QED
  BY <1>4, <1>6, <1>7, <1>8, <1>9 DEF Falling, m, t

LEMMA FallingGoesOn ==
  ASSUME NEW h \in Seq(Scheduler!Element), Len(h) >= 2, NEW n \in Nat, NEW s, Falling(s, n, h)
  PROVE  Falling(Scheduler!Down[s], n + 1, h)
<1> DEFINE q == s.queue
           p == s.pos
           m == Len(h) - 1
           left == 2 * p
           right == left + 1
           one == right <= m /\ q[left].time > q[right].time /\ q[p].time > q[right].time
           two == left <= m /\ q[p].time > q[left].time
           Time(i) == q[i].time
<1>1. /\ s \in Scheduler!Sifting /\ Len(q) = m /\ p \in 1 .. m
      /\ Rearranged(q, h, 2 .. Len(h))
      /\ DownHeap(q, p)
      /\ p >= 1 + n \/ \A i \in 2 .. m : Parent(i) = p => q[p].time <= q[i].time
  BY DEF Falling
<1>2. q \in Seq(Scheduler!Element) /\ p \in Nat /\ p >= 1 /\ m \in Nat
  BY <1>1 DEF Scheduler!Sifting, Scheduler!Elements
<1>3. Scheduler!Down[s] = IF one THEN Scheduler!Moves(s, right)
                          ELSE IF two THEN Scheduler!Moves(s, left) ELSE s
  BY <1>1 DEF Scheduler!Down, Scheduler!Later
<1>4. \A i \in 2 .. m : Parent(i) = p <=> i = left \/ i = right
  BY <1>2, Parents
<1>5. \A i \in 1 .. m : Time(i) \in Nat
  BY <1>1, <1>2, ElementTimes
<1>l. left \in Nat /\ left >= 2 /\ right \in Nat /\ right = left + 1
  BY <1>2
<1> HIDE DEF left, right, q, p, m
<1>6. CASE one
  <2>1. right \in 2 .. m /\ left \in 2 .. m /\ right \in 1 .. m /\ left \in 1 .. m
    BY <1>6, <1>2, <1>l
  <2>2. Parent(right) = p
    BY <2>1, <1>4
  <2>3. Time(right) \in Nat /\ Time(left) \in Nat
    BY <2>1, <1>5
  <2>4. \A i \in 2 .. m : Parent(i) = p => Time(right) <= Time(i)
    BY <2>3, <1>4, <1>6
  <2>5. Falling(Scheduler!Moves(s, right), n + 1, h)
    BY <2>1, <2>2, <2>4, <1>6, FallingMoves DEF q, p, m
  <2> QED
    BY <2>5, <1>3, <1>6
<1>7. CASE ~one /\ two
  <2>1. left \in 2 .. m /\ left \in 1 .. m /\ p \in 1 .. m
    BY <1>7, <1>1, <1>2, <1>l
  <2>2. Parent(left) = p
    BY <2>1, <1>4
  <2>3. Time(left) \in Nat /\ Time(p) \in Nat
    BY <2>1, <1>5
  <2>4. \A i \in 2 .. m : Parent(i) = p => Time(left) <= Time(i)
    <3> SUFFICES ASSUME NEW i \in 2 .. m, Parent(i) = p, i = right PROVE Time(left) <= Time(i)
      BY <1>4, <2>3
    <3>1. right <= m /\ Time(right) \in Nat
      BY <1>2, <1>5
    <3> QED
      BY <3>1, <2>3, <1>7
  <2>5. Falling(Scheduler!Moves(s, left), n + 1, h)
    BY <2>1, <2>2, <2>4, <1>7, FallingMoves DEF q, p, m
  <2> QED
    BY <2>5, <1>3, <1>7
<1>8. CASE ~one /\ ~two
  <2>1. \A i \in 2 .. m : Parent(i) = p => Time(p) <= Time(i)
    <3> SUFFICES ASSUME NEW i \in 2 .. m, Parent(i) = p PROVE Time(p) <= Time(i)
      OBVIOUS
    <3>1. i = left \/ i = right
      BY <1>4
    <3>2. left <= m /\ left \in 1 .. m /\ p \in 1 .. m /\ i \in 1 .. m
      BY <3>1, <1>1, <1>2, <1>l
    <3>3. Time(left) \in Nat /\ Time(p) \in Nat /\ Time(i) \in Nat
      BY <3>2, <1>5
    <3>4. Time(p) <= Time(left)
      BY <3>2, <3>3, <1>8
    <3>5. ASSUME i = right PROVE Time(p) <= Time(right)
      <4>1. right <= m
        BY <3>5, <3>2, <1>2
      <4> QED
        BY <3>3, <3>4, <3>5, <4>1, <1>8
    <3> QED
      BY <3>1, <3>4, <3>5
  <2>2. Scheduler!Down[s] = s
    BY <1>3, <1>8
  <2>3. Falling(s, n + 1, h)
    BY <2>1, <1>1 DEF Falling, q, p, m
  <2> QED
    BY <2>2, <2>3
<1> HIDE DEF one, two
<1> QED
  BY <1>6, <1>7, <1>8

\* pop: the heap has lost its head.
LEMMA PopMakes ==
  ASSUME NEW h \in Seq(Scheduler!Element), Heap(h), h # <<>>
  PROVE  /\ Scheduler!Pop(h) \in Seq(Scheduler!Element)
         /\ Len(Scheduler!Pop(h)) = Len(h) - 1
         /\ Heap(Scheduler!Pop(h))
         /\ Rearranged(Scheduler!Pop(h), h, 2 .. Len(h))
<1>1. Len(h) \in Nat /\ Len(h) >= 1
  OBVIOUS
<1>2. CASE Len(h) < 2
  <2>0. Scheduler!Pop(h) = <<>>
    BY <1>2 DEF Scheduler!Pop
  <2>a. \A n \in Nat : n >= 1 /\ n < 2 => n = 1
    OBVIOUS
  <2>1. Len(h) = 1
    BY Zenon, <1>1, <1>2, <2>a
  <2>2. 2 .. Len(h) = {} /\ 1 .. Len(<<>>) = {} /\ 2 .. Len(<<>>) = {}
    BY <2>1
  <2>3. Places(<<>>, <<>>, h, 2 .. Len(h))
    BY <2>2 DEF Places, Onto, Apart
  <2>4. <<>> \in Seq(Scheduler!Element) /\ Len(<<>>) = Len(h) - 1
    BY <2>1
  <2>5. Heap(<<>>)
    BY <2>2 DEF Heap
  <2>6. Rearranged(<<>>, h, 2 .. Len(h))
    BY <2>3 DEF Rearranged
  <2> QED
    BY <2>0, <2>4, <2>5, <2>6
<1>3. CASE Len(h) >= 2
  <2> DEFINE Q == [n \in Nat |-> {s \in Scheduler!Sifting : Falling(s, n, h)}]
             x == [queue |-> Scheduler!LastFirst(h), pos |-> 1]
             m == Len(h) - 1
             r == Scheduler!Rounds(Scheduler!Down, x)
             F == Scheduler!Down
  <2>0. Falling(x, 0, h)
    BY <1>3, FallingStarts
  <2>5. Scheduler!Pop(h) = r[m].queue
    <3>1. Len(Scheduler!LastFirst(h)) = m
      BY <2>0 DEF Falling
    <3>2. ~(Len(h) < 2)
      BY <1>1, <1>3
    <3> QED
      BY <3>1, <3>2 DEF Scheduler!Pop, Scheduler!Sifted, x
  <2> HIDE DEF x
  <2>1. x \in Q[0]
    BY <2>0 DEF Falling
  <2>2. ASSUME NEW n \in Nat, NEW s \in Q[n] PROVE F[s] \in Q[n + 1]
    <3>1. Falling(F[s], n + 1, h)
      BY <1>3, <2>2, FallingGoesOn
    <3> HIDE DEF F
    <3>2. F[s] \in Scheduler!Sifting
      BY <3>1 DEF Falling
    <3> QED
      BY <3>1, <3>2
  <2>a. \A n \in Nat : Q[n] = {s \in Scheduler!Sifting : Falling(s, n, h)}
    OBVIOUS
  <2> HIDE DEF F, Q
  <2>3. \A n \in Nat : Scheduler!Rounds(F, x)[n] \in Q[n]
    BY <2>1, <2>2, RoundsKeep
  <2>4. m \in Nat /\ m >= 1
    BY <1>1, <1>3
  <2> DEFINE z == r[m]
             o == z.queue
             p == z.pos
  <2>6. Falling(z, m, h)
    BY <2>3, <2>4, <2>a DEF F
  <2> HIDE DEF r, z
  <2>7. /\ z \in Scheduler!Sifting /\ Len(o) = m /\ p \in 1 .. m
        /\ Rearranged(o, h, 2 .. Len(h))
        /\ DownHeap(o, p)
        /\ p >= 1 + m \/ \A i \in 2 .. m : Parent(i) = p => o[p].time <= o[i].time
    BY <2>6 DEF Falling
  <2>8. o \in Seq(Scheduler!Element)
    BY <2>7 DEF Scheduler!Sifting, Scheduler!Elements
  <2>9. \A i \in 2 .. m : Parent(i) = p => o[p].time <= o[i].time
    BY <2>7, <2>4
  <2>10. Heap(o)
    BY <2>7, <2>9 DEF DownHeap, Heap
  <2> HIDE DEF p
  <2> QED
    BY <2>5, <2>7, <2>8, <2>10 DEF z
<1> QED
  BY <1>1, <1>2, <1>3

\* The head of a heap is its earliest element.
LEMMA HeadLeast ==
  ASSUME NEW h \in Seq(Scheduler!Element), Heap(h)
  PROVE  \A i \in 1 .. Len(h) : h[1].time <= h[i].time
<1> DEFINE T == {n \in Nat : \A i \in 1 .. Len(h) : i <= n => h[1].time <= h[i].time}
<1>0. \A i \in 1 .. Len(h) : h[i].time \in Nat
  BY ElementTimes
<1>1. 0 \in T
  OBVIOUS
<1>2. ASSUME NEW n \in Nat, n \in T PROVE n + 1 \in T
  <2> SUFFICES ASSUME NEW i \in 1 .. Len(h), i <= n + 1 PROVE h[1].time <= h[i].time
    OBVIOUS
  <2>1. CASE i <= n
    BY <2>1, <1>2
  <2>2. CASE i = 1
    <3>1. h[i].time \in Nat
      BY <1>0
    <3> QED
      BY <2>2, <3>1
  <2>3. CASE i > n /\ i # 1
    <3> DEFINE o == Parent(i)
    <3>1. i \in 2 .. Len(h) /\ o \in 1 .. Len(h) /\ o <= n /\ 1 \in 1 .. Len(h)
      BY <2>3, Parents
    <3>2. h[1].time <= h[o].time
      BY <3>1, <1>2
    <3>3. h[o].time <= h[i].time
      BY <3>1 DEF Heap
    <3>4. h[1].time \in Nat /\ h[o].time \in Nat /\ h[i].time \in Nat
      BY <3>1, <1>0
    <3> HIDE DEF o
    <3> QED
      BY <3>2, <3>3, <3>4
  <2> QED
    BY <2>1, <2>2, <2>3
<1> HIDE DEF T
<1>3. Nat \subseteq T
  BY <1>1, <1>2, FromZero
<1>4. Len(h) \in T
  BY <1>3
<1> QED
  BY <1>4 DEF T

\* The queue, of jobs of which alive are in the map: such a job is in it once, with
\* its next time.
Has(h, j) == \E i \in 1 .. Len(h) : h[i].id = j
Entries(h, js, alive) ==
  /\ \A i \in 1 .. Len(h) : h[i].id \in DOMAIN js
  /\ \A i \in 1 .. Len(h) : h[i].id \in alive => h[i].time = js[h[i].id].next
  /\ \A i, k \in 1 .. Len(h) : h[i].id \in alive /\ h[i].id = h[k].id => i = k
QueueOK(h, js, alive) == h \in Seq(Scheduler!Element) /\ Heap(h) /\ Entries(h, js, alive)

LEMMA RearrangedEntries ==
  ASSUME NEW q, NEW h, NEW K, Rearranged(q, h, K), K \subseteq 1 .. Len(h),
         NEW js, NEW alive, Entries(h, js, alive)
  PROVE  Entries(q, js, alive)
<1>1. PICK f : Places(f, q, h, K)
  BY DEF Rearranged
<1>2. /\ f \in [1 .. Len(q) -> K] /\ Apart(f)
      /\ \A i \in 1 .. Len(q) : q[i] = h[f[i]]
  BY <1>1 DEF Places
<1>3. \A i \in 1 .. Len(q) : f[i] \in 1 .. Len(h) /\ q[i] = h[f[i]]
  BY <1>2
<1>4. \A i, k \in 1 .. Len(q) : f[i] = f[k] => i = k
  BY <1>2 DEF Apart
<1>5. \A i \in 1 .. Len(q) : q[i].id \in DOMAIN js /\ (q[i].id \in alive => q[i].time = js[q[i].id].next)
  BY <1>3 DEF Entries
<1>6. ASSUME NEW i \in 1 .. Len(q), NEW k \in 1 .. Len(q), q[i].id \in alive, q[i].id = q[k].id
      PROVE  i = k
  <2>1. f[i] \in 1 .. Len(h) /\ f[k] \in 1 .. Len(h) /\ h[f[i]].id \in alive /\ h[f[i]].id = h[f[k]].id
    BY <1>3, <1>6
  <2>2. f[i] = f[k]
    BY <2>1 DEF Entries
  <2> QED
    BY <2>2, <1>4
<1> QED
  BY <1>5, <1>6 DEF Entries

AllOf(q, h, K) ==
  /\ \A k \in K : \E i \in 1 .. Len(q) : q[i] = h[k]
  /\ \A i \in 1 .. Len(q) : \E k \in K : q[i] = h[k]

LEMMA RearrangedHas ==
  ASSUME NEW q, NEW h, NEW K, Rearranged(q, h, K)
  PROVE  AllOf(q, h, K)
<1>1. PICK f : Places(f, q, h, K)
  BY DEF Rearranged
<1>2. /\ f \in [1 .. Len(q) -> K] /\ Onto(f, K)
      /\ \A i \in 1 .. Len(q) : q[i] = h[f[i]]
  BY <1>1 DEF Places
<1>3. \A i \in 1 .. Len(q) : f[i] \in K /\ q[i] = h[f[i]]
  BY <1>2
<1>4. \A k \in K : \E i \in 1 .. Len(q) : f[i] = k
  BY <1>2 DEF Onto
<1> QED
  BY <1>3, <1>4 DEF AllOf

LEMMA PopKeeps ==
  ASSUME NEW h, NEW js, NEW alive, QueueOK(h, js, alive), h # <<>>
  PROVE  /\ QueueOK(Scheduler!Pop(h), js, alive)
         /\ Len(Scheduler!Pop(h)) = Len(h) - 1
         /\ \A j : Has(h, j) /\ h[1].id # j => Has(Scheduler!Pop(h), j)
         /\ h[1].id \in alive => ~Has(Scheduler!Pop(h), h[1].id)
<1> DEFINE q == Scheduler!Pop(h)
           K == 2 .. Len(h)
<1>1. h \in Seq(Scheduler!Element) /\ Heap(h) /\ Entries(h, js, alive)
  BY DEF QueueOK
<1>2. q \in Seq(Scheduler!Element) /\ Len(q) = Len(h) - 1 /\ Heap(q) /\ Rearranged(q, h, K)
  BY <1>1, PopMakes
<1>n. Len(h) \in Nat /\ Len(h) # 0
  BY <1>1
<1>3. K \subseteq 1 .. Len(h) /\ \A k \in 1 .. Len(h) : k # 1 => k \in K
  BY <1>n
<1>4. 1 \in 1 .. Len(h) /\ 1 \notin K
  BY <1>n
<1> HIDE DEF q, K
<1>5. Entries(q, js, alive)
  BY <1>1, <1>2, <1>3, RearrangedEntries
<1>r. AllOf(q, h, K)
  BY <1>2, RearrangedHas
<1>6. /\ \A k \in K : \E i \in 1 .. Len(q) : q[i] = h[k]
      /\ \A i \in 1 .. Len(q) : \E k \in K : q[i] = h[k]
  BY <1>r DEF AllOf
<1>7. ASSUME NEW j, Has(h, j), h[1].id # j PROVE Has(q, j)
  <2>1. PICK k \in 1 .. Len(h) : h[k].id = j
    BY <1>7 DEF Has
  <2>2. k \in K
    BY <2>1, <1>3, <1>7
  <2> QED
    BY <2>1, <2>2, <1>6 DEF Has
<1>8. ASSUME h[1].id \in alive, Has(q, h[1].id) PROVE FALSE
  <2>1. PICK i \in 1 .. Len(q) : q[i].id = h[1].id
    BY <1>8 DEF Has
  <2>2. PICK k \in K : q[i] = h[k]
    BY <1>6
  <2>3. k \in 1 .. Len(h) /\ h[1].id = h[k].id
    BY <2>1, <2>2, <1>3
  <2>4. k = 1
    BY <2>3, <1>1, <1>4, <1>8 DEF Entries
  <2> QED
    BY <2>2, <2>4, <1>4
<1>9. QueueOK(q, js, alive)
  BY <1>2, <1>5 DEF QueueOK
<1> QED
  BY <1>2, <1>7, <1>8, <1>9 DEF q

LEMMA OfferKeeps ==
  ASSUME NEW h, NEW js, NEW alive, QueueOK(h, js, alive), NEW e \in Scheduler!Element,
         e.id \in DOMAIN js, e.id \in alive => e.time = js[e.id].next /\ ~Has(h, e.id)
  PROVE  /\ QueueOK(Scheduler!Offer(h, e), js, alive)
         /\ Len(Scheduler!Offer(h, e)) = Len(h) + 1
         /\ Has(Scheduler!Offer(h, e), e.id)
         /\ \A j : Has(h, j) => Has(Scheduler!Offer(h, e), j)
         /\ \A i \in 1 .. Len(Scheduler!Offer(h, e)) :
              Scheduler!Offer(h, e)[i] = e \/ \E k \in 1 .. Len(h) : Scheduler!Offer(h, e)[i] = h[k]
         /\ h # <<>> /\ h[1].time <= e.time => Scheduler!Offer(h, e)[1] = h[1]
<1> DEFINE q == Scheduler!Offer(h, e)
           g == Append(h, e)
           n == Len(h) + 1
           K == 1 .. n
<1>1. h \in Seq(Scheduler!Element) /\ Heap(h) /\ Entries(h, js, alive)
  BY DEF QueueOK
<1>2. /\ q \in Seq(Scheduler!Element) /\ Len(q) = n /\ Heap(q) /\ Rearranged(q, g, K)
      /\ h # <<>> /\ h[1].time <= e.time => q[1] = h[1]
  BY <1>1, OfferMakes
<1>3. Len(g) = n /\ (\A i \in 1 .. Len(h) : g[i] = h[i]) /\ g[n] = e
  BY <1>1
<1>4. /\ \A k \in K : k = n \/ k \in 1 .. Len(h)
      /\ \A k \in 1 .. Len(h) : k \in K
      /\ n \in K
  BY <1>1
<1> HIDE DEF q, g, n, K
<1>5. Entries(g, js, alive)
  <2>0. 1 .. Len(g) = K
    BY <1>3 DEF K
  <2>1. \A k \in K : (k = n /\ g[k] = e) \/ (k \in 1 .. Len(h) /\ g[k] = h[k])
    BY <1>3, <1>4
  <2>2. \A k \in K : g[k].id \in DOMAIN js /\ (g[k].id \in alive => g[k].time = js[g[k].id].next)
    BY <2>1, <1>1 DEF Entries
  <2>3. ASSUME NEW i \in K, NEW k \in K, g[i].id \in alive, g[i].id = g[k].id PROVE i = k
    <3>1. CASE i = n /\ g[i] = e /\ k = n /\ g[k] = e
      BY <3>1
    <3>2. CASE i = n /\ g[i] = e /\ k \in 1 .. Len(h) /\ g[k] = h[k]
      <4>1. Has(h, e.id)
        BY <3>2, <2>3 DEF Has
      <4> QED
        BY <4>1, <3>2, <2>3
    <3>3. CASE i \in 1 .. Len(h) /\ g[i] = h[i] /\ k = n /\ g[k] = e
      <4>1. Has(h, e.id)
        BY <3>3, <2>3 DEF Has
      <4> QED
        BY <4>1, <3>3, <2>3
    <3>4. CASE i \in 1 .. Len(h) /\ g[i] = h[i] /\ k \in 1 .. Len(h) /\ g[k] = h[k]
      BY <3>4, <2>3, <1>1 DEF Entries
    <3> QED
      BY <3>1, <3>2, <3>3, <3>4, <2>1
  <2> QED
    BY <2>0, <2>2, <2>3 DEF Entries
<1>6. Entries(q, js, alive)
  <2>1. K \subseteq 1 .. Len(g)
    BY <1>3 DEF K
  <2> QED
    BY <2>1, <1>2, <1>5, RearrangedEntries
<1>r. AllOf(q, g, K)
  BY <1>2, RearrangedHas
<1>7. /\ \A k \in K : \E i \in 1 .. Len(q) : q[i] = g[k]
      /\ \A i \in 1 .. Len(q) : \E k \in K : q[i] = g[k]
  BY <1>r DEF AllOf
<1>8. Has(q, e.id)
  <2>1. PICK i \in 1 .. Len(q) : q[i] = g[n]
    BY <1>3, <1>4, <1>7
  <2> QED
    BY <2>1, <1>3 DEF Has
<1>9. ASSUME NEW j, Has(h, j) PROVE Has(q, j)
  <2>1. PICK k \in 1 .. Len(h) : h[k].id = j
    BY <1>9 DEF Has
  <2>2. PICK i \in 1 .. Len(q) : q[i] = g[k]
    BY <2>1, <1>3, <1>4, <1>7
  <2> QED
    BY <2>1, <2>2, <1>3 DEF Has
<1>10. \A i \in 1 .. Len(q) : q[i] = e \/ \E k \in 1 .. Len(h) : q[i] = h[k]
  BY <1>3, <1>4, <1>7
<1>11. QueueOK(q, js, alive)
  BY <1>2, <1>6 DEF QueueOK
<1> QED
  BY <1>2, <1>8, <1>9, <1>10, <1>11 DEF q, n

\* Elements of jobs that have gone are dropped from the head, no others.
Left(q, n, h, js, alive) ==
  /\ QueueOK(q, js, alive)
  /\ \A j \in alive : Has(h, j) => Has(q, j)
  /\ q = <<>> \/ q[1].id \in alive \/ Len(q) <= Len(h) - n

LEMMA PurgedKeeps ==
  ASSUME NEW h, NEW js, NEW alive, QueueOK(h, js, alive)
  PROVE  /\ QueueOK(Scheduler!Purged(h, alive), js, alive)
         /\ \A j \in alive : Has(h, j) => Has(Scheduler!Purged(h, alive), j)
         /\ Scheduler!Purged(h, alive) = <<>> \/ Scheduler!Purged(h, alive)[1].id \in alive
<1> DEFINE Q == [n \in Nat |-> {q \in Seq(Scheduler!Element) : Left(q, n, h, js, alive)}]
           F == Scheduler!Purge(alive)
           m == Len(h)
<1>1. h \in Seq(Scheduler!Element) /\ m \in Nat
  BY DEF QueueOK
<1>2. h \in Q[0]
  <2>1. Left(h, 0, h, js, alive)
    BY <1>1 DEF Left
  <2> QED
    BY <2>1, <1>1
<1>3. ASSUME NEW n \in Nat, NEW q \in Q[n] PROVE F[q] \in Q[n + 1]
  <2>1. q \in Seq(Scheduler!Element) /\ Left(q, n, h, js, alive)
    BY <1>3
  <2>2. F[q] = IF q = <<>> \/ Head(q).id \in alive THEN q ELSE Scheduler!Pop(q)
    BY <2>1 DEF Scheduler!Purge, Scheduler!Elements
  <2>3. q # <<>> => Head(q) = q[1]
    BY <2>1
  <2>4. /\ QueueOK(q, js, alive)
        /\ \A j \in alive : Has(h, j) => Has(q, j)
        /\ q = <<>> \/ q[1].id \in alive \/ Len(q) <= m - n
    BY <2>1 DEF Left
  <2> DEFINE p == Scheduler!Pop(q)
             r == F[q]
  <2> HIDE DEF F, m
  <2>5. CASE q = <<>> \/ q[1].id \in alive
    <3>1. r = q
      BY <2>2, <2>3, <2>5
    <3> HIDE DEF r
    <3>2. Left(r, n + 1, h, js, alive) /\ r \in Seq(Scheduler!Element)
      BY <3>1, <2>1, <2>4, <2>5 DEF Left
    <3> QED
      BY <3>2 DEF r
  <2>6. CASE q # <<>> /\ q[1].id \notin alive
    <3>1. r = p
      BY <2>2, <2>3, <2>6
    <3>2. /\ QueueOK(p, js, alive) /\ Len(p) = Len(q) - 1
          /\ \A j : Has(q, j) /\ q[1].id # j => Has(p, j)
      BY <2>4, <2>6, PopKeeps
    <3>3. Len(q) <= m - n /\ Len(q) \in Nat
      BY <2>1, <2>4, <2>6
    <3> HIDE DEF p, r
    <3>4. p \in Seq(Scheduler!Element)
      BY <3>2 DEF QueueOK
    <3>5. Len(p) <= m - (n + 1)
      BY <3>2, <3>3, <1>1
    <3>6. \A j \in alive : Has(h, j) => Has(p, j)
      BY <3>2, <2>4, <2>6
    <3>7. Left(p, n + 1, h, js, alive)
      BY <3>2, <3>5, <3>6 DEF Left, m
    <3> QED
      BY <3>1, <3>4, <3>7 DEF r
  <2> QED
    BY <2>5, <2>6
<1>a. \A n \in Nat : Q[n] = {q \in Seq(Scheduler!Element) : Left(q, n, h, js, alive)}
  OBVIOUS
<1> HIDE DEF F, Q
<1>4. \A n \in Nat : Scheduler!Rounds(F, h)[n] \in Q[n]
  BY <1>2, <1>3, RoundsKeep
<1> DEFINE z == Scheduler!Purged(h, alive)
<1>5. z = Scheduler!Rounds(F, h)[m]
  BY DEF Scheduler!Purged, F
<1>6. Left(z, m, h, js, alive)
  BY <1>1, <1>4, <1>5, <1>a
<1> HIDE DEF z
<1>7. /\ QueueOK(z, js, alive)
      /\ \A j \in alive : Has(h, j) => Has(z, j)
      /\ z = <<>> \/ z[1].id \in alive \/ Len(z) <= m - m
  BY <1>6 DEF Left
<1>8. Len(z) <= m - m => z = <<>>
  <2>1. z \in Seq(Scheduler!Element)
    BY <1>7 DEF QueueOK
  <2>2. m - m = 0
    BY <1>1
  <2> QED
    BY <2>1, <2>2
<1> QED
  BY <1>7, <1>8 DEF z

-----------------------------------------------------------------------------
(* The jobs and the crons: scheduler/lib/schedule.js, core/server/server.js.  *)

JobSet == [next : Nat, period : Periods, count : Counts \union {0}, runTime : Nat, cron : Cron \union {NoCron}]

\* Of the jobs whose functions run only the innermost may be in the map still, and
\* then it is at the head; if none called the scheduler there is only that one.
FramesOK ==
  /\ \A i \in 1 .. Len(frames) : frames[i] \in DOMAIN jobs
  /\ \A i \in 1 .. Len(frames) : frames[i] \in live =>
       i = Len(frames) /\ queue # <<>> /\ queue[1].id = frames[i] /\ jobs[frames[i]].next <= now
  /\ ~history.reentered => Len(frames) <= 1 /\ \A i \in 1 .. Len(frames) : frames[i] \in live

\* The timer is in time for the head of the queue, of a job in the map or not.
TimerOK == frames = <<>> /\ queue # <<>> => timer # Scheduler!Never /\ timer <= queue[1].time

\* The job of a cron in the map is the one that is remembered, and was not removed.
CronsOK(js, alive, of, hist) ==
  /\ \A c \in Cron : of[c] \in 0 .. Len(js)
  /\ \A j \in alive : js[j].cron \in Cron \ hist.twice =>
       j = of[js[j].cron] /\ js[j].cron \notin hist.removed

Found(alive, h, hist) == ~hist.reentered => \A j \in alive : Has(h, j)

SchedInv ==
  /\ Scheduler!TypeOK
  /\ QueueOK(queue, jobs, live)
  /\ FramesOK /\ TimerOK
  /\ CronsOK(jobs, live, jobOf, history)
  /\ Found(live, queue, history)

LEMMA SchedConstants ==
  /\ MaxJobs \in Nat /\ MaxTime \in Nat /\ MaxCalls \in Nat /\ Periods \subseteq Nat /\ Counts \subseteq Nat
  /\ NoCron \notin Cron
  BY SchedulerAssumption DEF Scheduler!SchedulerAssumption

LEMMA SchedSafe == SchedInv => JobsRun
<1> SUFFICES ASSUME SchedInv PROVE JobsRun
  OBVIOUS
<1>1. /\ Scheduler!TypeOK /\ QueueOK(queue, jobs, live) /\ TimerOK
      /\ CronsOK(jobs, live, jobOf, history) /\ Found(live, queue, history)
  BY DEF SchedInv
<1>2. /\ queue \in Seq(Scheduler!Element) /\ DOMAIN queue = 1 .. Len(queue)
      /\ history \in [reentered : BOOLEAN, twice : SUBSET Cron, removed : SUBSET Cron]
      /\ timer \in Nat \union {Scheduler!Never}
  BY <1>1 DEF Scheduler!TypeOK, QueueOK
<1>3. Heap(queue)
  BY <1>1 DEF QueueOK
<1>4. Scheduler!HeapOrdered
  <2>1. ASSUME NEW i \in DOMAIN queue, i > 1 PROVE queue[i \div 2].time <= queue[i].time
    <3>1. i \in 2 .. Len(queue)
      BY <1>2, <2>1
    <3> QED
      BY <3>1, <1>3 DEF Heap, Parent
  <2> QED
    BY <2>1 DEF Scheduler!HeapOrdered
<1>5. Scheduler!NoneLost
  BY <1>1, <1>2 DEF Scheduler!NoneLost, Found, Has
<1>6. Scheduler!TimerInTime
  <2> SUFFICES ASSUME frames = <<>>, NEW i \in DOMAIN queue
               PROVE  timer # Scheduler!Never /\ timer <= queue[i].time
    BY DEF Scheduler!TimerInTime
  <2>1. queue # <<>> /\ i \in 1 .. Len(queue) /\ 1 \in 1 .. Len(queue)
    BY <1>2
  <2>2. timer # Scheduler!Never /\ timer <= queue[1].time
    BY <1>1, <2>1 DEF TimerOK
  <2>3. queue[1].time <= queue[i].time
    BY <1>2, <1>3, <2>1, HeadLeast
  <2>4. queue[1].time \in Nat /\ queue[i].time \in Nat
    BY <1>2, <2>1, ElementTimes
  <2>5. timer \in Nat
    BY <1>2, <2>2
  <2> QED
    BY <2>2, <2>3, <2>4, <2>5
<1>7. Scheduler!RemovedCronsStop
  <2> SUFFICES ASSUME NEW j \in live, jobs[j].cron \in history.removed PROVE jobs[j].cron \in history.twice
    BY DEF Scheduler!RemovedCronsStop
  <2>1. jobs[j].cron \in Cron
    BY <1>2
  <2> QED
    BY <2>1, <1>1 DEF CronsOK
<1> QED
  BY <1>1, <1>4, <1>5, <1>6, <1>7 DEF JobsRun

LEMMA SchedInit == Scheduler!Init => SchedInv
<1> SUFFICES ASSUME Scheduler!Init PROVE SchedInv
  OBVIOUS
<1>1. /\ now = 0 /\ jobs = <<>> /\ live = {} /\ queue = <<>> /\ timer = Scheduler!Never
      /\ frames = <<>> /\ crons \in SUBSET Cron /\ jobOf = [c \in Cron |-> 0] /\ calls = 0
      /\ history = [reentered |-> FALSE, twice |-> {}, removed |-> {}]
  BY DEF Scheduler!Init, Scheduler!NewQueue
<1>2. Scheduler!TypeOK
  <2>1. now \in 0 .. MaxTime /\ calls \in 0 .. MaxCalls /\ jobOf \in [Cron -> 0 .. MaxJobs]
    BY <1>1, SchedConstants
  <2>2. jobs \in Seq(JobSet) /\ live \subseteq DOMAIN jobs /\ queue \in Seq(Scheduler!Element) /\ frames \in Seq(Scheduler!JobId)
    BY <1>1
  <2>3. timer \in Nat \union {Scheduler!Never} /\ crons \subseteq Cron
        /\ history \in [reentered : BOOLEAN, twice : SUBSET Cron, removed : SUBSET Cron]
    BY <1>1
  <2> QED
    BY <2>1, <2>2, <2>3 DEF Scheduler!TypeOK, JobSet
<1>3. Len(<<>>) = 0 /\ 1 .. Len(<<>>) = {} /\ 2 .. Len(<<>>) = {} /\ <<>> \in Seq(Scheduler!Element)
  OBVIOUS
<1>4. QueueOK(queue, jobs, live)
  BY <1>1, <1>3 DEF QueueOK, Heap, Entries
<1>5. FramesOK
  BY <1>1, <1>3 DEF FramesOK
<1>6. TimerOK
  BY <1>1 DEF TimerOK
<1>7. CronsOK(jobs, live, jobOf, history)
  <2>1. \A c \in Cron : jobOf[c] \in 0 .. Len(jobs)
    BY <1>1, <1>3
  <2> QED
    BY <1>1, <2>1 DEF CronsOK
<1>8. Found(live, queue, history)
  BY <1>1 DEF Found
<1> QED
  BY <1>2, <1>4, <1>5, <1>6, <1>7, <1>8 DEF SchedInv

\* What the loop of excuteJob leaves.
Looped(outer, q, js, alive) ==
  /\ live' = alive
  /\ QueueOK(queue', jobs', alive)
  /\ \A j \in alive : Has(q, j) => Has(queue', j)
  /\ jobs' \in Seq(JobSet) /\ Len(jobs') = Len(js) /\ \A k \in 1 .. Len(js) : jobs'[k].cron = js[k].cron
  /\ frames' \in Seq(Scheduler!JobId) /\ timer' \in Nat \union {Scheduler!Never}
  /\ \/ frames' = outer /\ (queue' # <<>> => timer' # Scheduler!Never /\ timer' <= queue'[1].time)
     \/ \E j \in alive : frames' = Append(outer, j) /\ queue' # <<>> /\ queue'[1].id = j /\ jobs'[j].next <= now

LEMMA JobFields ==
  ASSUME NEW r \in JobSet, NEW n \in Nat
  PROVE  /\ [r EXCEPT !.runTime = n] \in JobSet /\ [r EXCEPT !.next = n] \in JobSet
         /\ [r EXCEPT !.runTime = n].cron = r.cron /\ [r EXCEPT !.next = n].cron = r.cron
         /\ [r EXCEPT !.runTime = n].next = r.next /\ [r EXCEPT !.next = n].next = n
  BY DEF JobSet

LEMMA JobRuns ==
  ASSUME NEW js \in Seq(JobSet), NEW j \in 1 .. Len(js)
  PROVE  LET ks == [js EXCEPT ![j].runTime = @ + 1]
         IN /\ ks \in Seq(JobSet) /\ Len(ks) = Len(js) /\ DOMAIN ks = DOMAIN js
            /\ \A k \in 1 .. Len(js) : ks[k].cron = js[k].cron /\ ks[k].next = js[k].next
<1> DEFINE ks == [js EXCEPT ![j].runTime = @ + 1]
<1>1. js \in [1 .. Len(js) -> JobSet]
  OBVIOUS
<1>2. js[j] \in JobSet
  OBVIOUS
<1>3. [js[j] EXCEPT !.runTime = @ + 1] \in JobSet
  <2>1. js[j].runTime + 1 \in Nat
    BY <1>2 DEF JobSet
  <2> QED
    BY <2>1, <1>2, JobFields
<1>4. ks = [js EXCEPT ![j] = [js[j] EXCEPT !.runTime = @ + 1]]
  OBVIOUS
<1>5. ks \in [1 .. Len(js) -> JobSet]
  BY <1>1, <1>3, <1>4
<1>6. \A k \in 1 .. Len(js) : ks[k].cron = js[k].cron /\ ks[k].next = js[k].next
  <2>1. ks[j].cron = js[j].cron /\ ks[j].next = js[j].next
    BY <1>1, <1>2, <1>4 DEF JobSet
  <2>2. \A k \in 1 .. Len(js) : k # j => ks[k] = js[k]
    BY <1>1, <1>4
  <2> QED
    BY <2>1, <2>2
<1> HIDE DEF ks
<1>7. ks \in Seq(JobSet) /\ Len(ks) = Len(js) /\ DOMAIN ks = DOMAIN js
  BY <1>5
<1> QED
  BY <1>6, <1>7 DEF ks

LEMMA SameNexts ==
  ASSUME NEW h, NEW js, NEW ks, NEW alive, QueueOK(h, js, alive), DOMAIN ks = DOMAIN js,
         \A k \in DOMAIN js : ks[k].next = js[k].next
  PROVE  QueueOK(h, ks, alive)
  BY DEF QueueOK, Entries

LEMMA FewerAlive ==
  ASSUME NEW h, NEW js, NEW alive, QueueOK(h, js, alive), NEW fewer, fewer \subseteq alive
  PROVE  QueueOK(h, js, fewer)
  BY DEF QueueOK, Entries

LEMMA LoopDoes ==
  ASSUME NEW outer \in Seq(Scheduler!JobId), NEW q, NEW js \in Seq(JobSet), NEW alive \in SUBSET DOMAIN js,
         QueueOK(q, js, alive), NEW t \in Nat \union {Scheduler!Never}, now \in Nat,
         Scheduler!Loop(outer, q, js, alive, t)
  PROVE  Looped(outer, q, js, alive)
<1> DEFINE z == Scheduler!Purged(q, alive)
           j == IF z = <<>> THEN 0 ELSE Head(z).id
           ks == [js EXCEPT ![j].runTime = @ + 1]
<1>1. /\ QueueOK(z, js, alive)
      /\ \A k \in alive : Has(q, k) => Has(z, k)
      /\ z = <<>> \/ z[1].id \in alive
  BY PurgedKeeps
<1>2. /\ queue' = z /\ live' = alive
      /\ CASE j = 0 -> frames' = outer /\ timer' = t /\ jobs' = js
           [] j # 0 /\ js[j].next <= now -> frames' = Append(outer, j) /\ jobs' = ks /\ timer' = t
           [] OTHER -> frames' = outer /\ timer' = js[j].next /\ jobs' = js
  BY DEF Scheduler!Loop, Scheduler!PeekNextJob
<1> HIDE DEF z
<1>3. z \in Seq(Scheduler!Element)
  BY <1>1 DEF QueueOK
<1>d. DOMAIN js = 1 .. Len(js)
  OBVIOUS
<1>4. CASE z = <<>>
  <2>1. j = 0 /\ frames' = outer /\ timer' = t /\ jobs' = js
    BY <1>2, <1>4
  <2> QED
    BY <2>1, <1>1, <1>2, <1>4 DEF Looped
<1>5. CASE z # <<>>
  <2>1. /\ j = z[1].id /\ j \in alive /\ j \in 1 .. Len(js) /\ 1 \in 1 .. Len(z)
    <3>1. 1 \in 1 .. Len(z) /\ Head(z) = z[1]
      BY <1>3, <1>5
    <3> QED
      BY <3>1, <1>1, <1>5, <1>d
  <2>2. z[1].time = js[j].next
    <3>1. Entries(z, js, alive)
      BY <1>1 DEF QueueOK
    <3> QED
      BY <3>1, <2>1 DEF Entries
  <2>3. j \in Scheduler!JobId
    BY <1>3, <2>1, ElementTimes
  <2>4. js[j].next \in Nat
    <3>1. js[j] \in JobSet
      BY <2>1
    <3> QED
      BY <3>1 DEF JobSet
  <2>5. j # 0
    BY <2>1
  <2> HIDE DEF j
  <2>6. CASE js[j].next <= now
    <3>1. frames' = Append(outer, j) /\ jobs' = ks /\ timer' = t
      BY <1>2, <2>5, <2>6
    <3>2. /\ ks \in Seq(JobSet) /\ Len(ks) = Len(js) /\ DOMAIN ks = DOMAIN js
          /\ \A k \in 1 .. Len(js) : ks[k].cron = js[k].cron /\ ks[k].next = js[k].next
      BY <2>1, JobRuns
    <3> HIDE DEF ks
    <3>3. QueueOK(z, ks, alive)
      BY <3>2, <1>1, <1>d, SameNexts
    <3>4. Append(outer, j) \in Seq(Scheduler!JobId)
      BY <2>3
    <3>5. ks[j].next <= now
      BY <3>2, <2>1, <2>6
    <3> QED
      BY <3>1, <3>2, <3>3, <3>4, <3>5, <1>1, <1>2, <1>5, <2>1 DEF Looped
  <2>7. CASE ~(js[j].next <= now)
    <3>1. frames' = outer /\ timer' = js[j].next /\ jobs' = js
      BY <1>2, <2>5, <2>7
    <3>2. timer' # Scheduler!Never /\ timer' <= z[1].time /\ timer' \in Nat
      BY <3>1, <2>2, <2>4 DEF Scheduler!Never
    <3> QED
      BY <3>1, <3>2, <1>1, <1>2 DEF Looped
  <2> QED
    BY <2>6, <2>7
<1> QED
  BY <1>4, <1>5

HistorySet == [reentered : BOOLEAN, twice : SUBSET Cron, removed : SUBSET Cron]

LEMMA SchedTyped ==
  ASSUME SchedInv
  PROVE  /\ now \in Nat /\ now \in 0 .. MaxTime
         /\ jobs \in Seq(JobSet) /\ live \subseteq DOMAIN jobs /\ DOMAIN jobs = 1 .. Len(jobs)
         /\ queue \in Seq(Scheduler!Element) /\ timer \in Nat \union {Scheduler!Never}
         /\ frames \in Seq(Scheduler!JobId) /\ crons \subseteq Cron
         /\ jobOf \in [Cron -> 0 .. MaxJobs] /\ calls \in 0 .. MaxCalls /\ history \in HistorySet
         /\ QueueOK(queue, jobs, live)
<1>1. Scheduler!TypeOK /\ QueueOK(queue, jobs, live)
  BY DEF SchedInv
<1>2. /\ now \in 0 .. MaxTime
      /\ jobs \in Seq(JobSet) /\ live \subseteq DOMAIN jobs
      /\ queue \in Seq(Scheduler!Element) /\ timer \in Nat \union {Scheduler!Never}
      /\ frames \in Seq(Scheduler!JobId) /\ crons \subseteq Cron
      /\ jobOf \in [Cron -> 0 .. MaxJobs] /\ calls \in 0 .. MaxCalls /\ history \in HistorySet
  BY Zenon, <1>1 DEF Scheduler!TypeOK, JobSet, HistorySet
<1>3. now \in Nat
  BY <1>2, SchedConstants
<1>4. DOMAIN jobs = 1 .. Len(jobs)
  BY <1>2
<1> QED
  BY <1>1, <1>2, <1>3, <1>4

LEMMA SchedTypes ==
  ASSUME now' \in 0 .. MaxTime,
         jobs' \in Seq(JobSet), live' \subseteq DOMAIN jobs',
         queue' \in Seq(Scheduler!Element), timer' \in Nat \union {Scheduler!Never},
         frames' \in Seq(Scheduler!JobId), crons' \subseteq Cron,
         jobOf' \in [Cron -> 0 .. MaxJobs], calls' \in 0 .. MaxCalls, history' \in HistorySet
  PROVE  Scheduler!TypeOK'
  BY Zenon DEF Scheduler!TypeOK, JobSet, HistorySet, Scheduler!Never, Scheduler!Element, Scheduler!JobId

\* The loop keeps the invariant, when it goes on with jobs of which it holds.
LEMMA LoopKeeps ==
  ASSUME SchedInv,
         NEW outer \in Seq(Scheduler!JobId), NEW q, NEW js \in Seq(JobSet), NEW alive \in SUBSET DOMAIN js,
         QueueOK(q, js, alive), NEW t \in Nat \union {Scheduler!Never}, Scheduler!Loop(outer, q, js, alive, t),
         \A i \in 1 .. Len(outer) : outer[i] \in DOMAIN js /\ outer[i] \notin alive,
         now' = now, crons' = crons, jobOf' = jobOf, calls' \in 0 .. MaxCalls, history' \in HistorySet,
         ~history'.reentered => outer = <<>> /\ \A j \in alive : Has(q, j),
         CronsOK(js, alive, jobOf, history')
  PROVE  SchedInv'
<1>t. /\ now \in Nat /\ now \in 0 .. MaxTime /\ crons \subseteq Cron /\ jobOf \in [Cron -> 0 .. MaxJobs]
  BY Zenon, SchedTyped
<1>1. Looped(outer, q, js, alive)
  BY <1>t, LoopDoes
<1>2. /\ live' = alive
      /\ QueueOK(queue', jobs', alive)
      /\ \A j \in alive : Has(q, j) => Has(queue', j)
      /\ jobs' \in Seq(JobSet) /\ Len(jobs') = Len(js) /\ \A k \in 1 .. Len(js) : jobs'[k].cron = js[k].cron
      /\ frames' \in Seq(Scheduler!JobId) /\ timer' \in Nat \union {Scheduler!Never}
      /\ \/ frames' = outer /\ (queue' # <<>> => timer' # Scheduler!Never /\ timer' <= queue'[1].time)
         \/ \E j \in alive : frames' = Append(outer, j) /\ queue' # <<>> /\ queue'[1].id = j /\ jobs'[j].next <= now
  BY <1>1 DEF Looped
<1>3. DOMAIN js = 1 .. Len(js) /\ DOMAIN jobs' = 1 .. Len(js)
  BY <1>2
<1>4. Scheduler!TypeOK'
  <2>1. live' \subseteq DOMAIN jobs' /\ queue' \in Seq(Scheduler!Element)
    BY <1>2, <1>3 DEF QueueOK
  <2> QED
    BY <2>1, <1>2, <1>t, SchedTypes
<1>5. QueueOK(queue, jobs, live)'
  BY <1>2
<1>6. FramesOK'
  <2>1. CASE frames' = outer
    <3>1. ~history'.reentered => Len(frames') <= 1 /\ \A i \in 1 .. Len(frames') : frames'[i] \in live'
      <4>1. Len(<<>>) = 0 /\ 1 .. Len(<<>>) = {}
        OBVIOUS
      <4> QED
        BY <4>1, <2>1
    <3>2. \A i \in 1 .. Len(frames') : frames'[i] \in DOMAIN jobs' /\ frames'[i] \notin live'
      BY <2>1, <1>2, <1>3
    <3> QED
      BY <3>1, <3>2 DEF FramesOK
  <2>2. CASE \E j \in alive : frames' = Append(outer, j) /\ queue' # <<>> /\ queue'[1].id = j /\ jobs'[j].next <= now
    <3>1. PICK j \in alive : frames' = Append(outer, j) /\ queue' # <<>> /\ queue'[1].id = j /\ jobs'[j].next <= now
      BY <2>2
    <3>2. /\ Len(frames') = Len(outer) + 1 /\ frames'[Len(outer) + 1] = j
          /\ \A i \in 1 .. Len(outer) : frames'[i] = outer[i]
          /\ Len(outer) \in Nat
      BY <3>1
    <3>3. \A i \in 1 .. Len(frames') : i = Len(frames') \/ i \in 1 .. Len(outer)
      BY <3>2
    <3>4. \A i \in 1 .. Len(frames') : frames'[i] \in DOMAIN jobs'
      BY <3>2, <3>3, <1>3
    <3>5. \A i \in 1 .. Len(frames') : frames'[i] \in live' =>
            i = Len(frames') /\ queue' # <<>> /\ queue'[1].id = frames'[i] /\ jobs'[frames'[i]].next <= now'
      BY <3>1, <3>2, <3>3, <1>2
    <3>6. ~history'.reentered => Len(frames') <= 1 /\ \A i \in 1 .. Len(frames') : frames'[i] \in live'
      <4> SUFFICES ASSUME ~history'.reentered
                   PROVE  Len(frames') <= 1 /\ \A i \in 1 .. Len(frames') : frames'[i] \in live'
        OBVIOUS
      <4>1. Len(outer) = 0
        OBVIOUS
      <4>2. Len(frames') = 1 /\ frames'[1] = j
        BY <4>1, <3>2
      <4> QED
        BY <4>2, <1>2
    <3> QED
      BY <3>4, <3>5, <3>6 DEF FramesOK
  <2> QED
    BY <2>1, <2>2, <1>2
<1>7. TimerOK'
  <2> SUFFICES ASSUME frames' = <<>>, queue' # <<>>
               PROVE  timer' # Scheduler!Never /\ timer' <= queue'[1].time
    BY DEF TimerOK, Scheduler!Never
  <2>1. \A j : Append(outer, j) # <<>>
    OBVIOUS
  <2> QED
    BY <2>1, <1>2
<1>8. CronsOK(jobs, live, jobOf, history)'
  BY <1>2, <1>3 DEF CronsOK
<1>9. Found(live, queue, history)'
  BY <1>2 DEF Found
<1> QED
  BY <1>4, <1>5, <1>6, <1>7, <1>8, <1>9 DEF SchedInv

LEMMA TickKeeps == SchedInv /\ Scheduler!Tick => SchedInv'
<1> SUFFICES ASSUME SchedInv, Scheduler!Tick PROVE SchedInv'
  OBVIOUS
<1>1. /\ now < MaxTime /\ now' = now + 1
      /\ UNCHANGED <<jobs, live, queue, timer, frames, crons, jobOf, calls, history>>
  BY DEF Scheduler!Tick
<1>2. now \in Nat /\ now' \in 0 .. MaxTime
  BY <1>1, SchedTyped, SchedConstants
<1>3. Scheduler!TypeOK'
  BY <1>1, <1>2 DEF SchedInv, Scheduler!TypeOK
<1>4. FramesOK'
  <2>1. FramesOK
    BY DEF SchedInv
  <2>2. \A i \in 1 .. Len(frames) : frames[i] \in live => jobs[frames[i]].next \in Nat
    <3> SUFFICES ASSUME NEW i \in 1 .. Len(frames), frames[i] \in live PROVE jobs[frames[i]].next \in Nat
      OBVIOUS
    <3>1. jobs[frames[i]] \in JobSet
      BY SchedTyped
    <3> QED
      BY <3>1 DEF JobSet
  <2> QED
    BY <1>1, <1>2, <2>1, <2>2 DEF FramesOK
<1>5. /\ QueueOK(queue, jobs, live)' /\ TimerOK' /\ CronsOK(jobs, live, jobOf, history)'
      /\ Found(live, queue, history)'
  BY <1>1 DEF SchedInv, TimerOK
<1> QED
  BY <1>3, <1>4, <1>5 DEF SchedInv

LEMMA TimerFiresKeeps == SchedInv /\ Scheduler!TimerFires => SchedInv'
<1> SUFFICES ASSUME SchedInv, Scheduler!TimerFires PROVE SchedInv'
  OBVIOUS
<1>1. /\ frames = <<>>
      /\ Scheduler!Loop(<<>>, queue, jobs, live, Scheduler!Never)
      /\ now' = now /\ crons' = crons /\ jobOf' = jobOf /\ calls' = calls /\ history' = history
  BY DEF Scheduler!TimerFires
<1>2. /\ jobs \in Seq(JobSet) /\ live \in SUBSET DOMAIN jobs /\ calls \in 0 .. MaxCalls /\ history \in HistorySet
      /\ QueueOK(queue, jobs, live)
  BY SchedTyped
<1>3. CronsOK(jobs, live, jobOf, history') /\ Found(live, queue, history)
  BY <1>1 DEF SchedInv
<1>4. ~history'.reentered => <<>> = <<>> /\ \A j \in live : Has(queue, j)
  BY <1>1, <1>3 DEF Found
<1>5. <<>> \in Seq(Scheduler!JobId) /\ \A i \in 1 .. Len(<<>>) : FALSE
  OBVIOUS
<1>6. \A i \in 1 .. Len(<<>>) : <<>>[i] \in DOMAIN jobs /\ <<>>[i] \notin live
  BY <1>5
<1>7. Scheduler!Never \in Nat \union {Scheduler!Never}
  OBVIOUS
<1> QED
  BY <1>1, <1>2, <1>3, <1>4, <1>5, <1>6, <1>7, LoopKeeps

LEMMA Shorter ==
  ASSUME NEW S, NEW h \in Seq(S), NEW m \in Nat, m <= Len(h)
  PROVE  /\ SubSeq(h, 1, m) \in Seq(S) /\ Len(SubSeq(h, 1, m)) = m
         /\ \A i \in 1 .. m : SubSeq(h, 1, m)[i] = h[i]
  OBVIOUS

\* What remains of the queue when the function of the job j returns.
LEMMA Returned ==
  ASSUME SchedInv, frames # <<>>
  PROVE  LET j == frames[Len(frames)]
             outer == SubSeq(frames, 1, Len(frames) - 1)
             q == Scheduler!Pop(queue)
         IN /\ j \in DOMAIN jobs /\ j \in Scheduler!JobId
            /\ outer \in Seq(Scheduler!JobId)
            /\ \A i \in 1 .. Len(outer) : outer[i] \in DOMAIN jobs /\ outer[i] \notin live
            /\ QueueOK(q, jobs, live) /\ (j \in live => ~Has(q, j))
            /\ ~history.reentered => outer = <<>> /\ \A k \in live : k # j => Has(q, k)
<1> DEFINE j == frames[Len(frames)]
           n == Len(frames)
           outer == SubSeq(frames, 1, n - 1)
           q == Scheduler!Pop(queue)
<1>1. frames \in Seq(Scheduler!JobId) /\ QueueOK(queue, jobs, live) /\ FramesOK /\ Found(live, queue, history)
  BY SchedTyped DEF SchedInv
<1>2. n \in Nat /\ n >= 1 /\ n \in 1 .. n /\ j \in Scheduler!JobId
  BY <1>1
<1>3. /\ \A i \in 1 .. n : frames[i] \in DOMAIN jobs
      /\ \A i \in 1 .. n : frames[i] \in live => i = n /\ queue # <<>> /\ queue[1].id = frames[i]
      /\ ~history.reentered => n <= 1 /\ \A i \in 1 .. n : frames[i] \in live
  BY <1>1 DEF FramesOK
<1>4. /\ outer \in Seq(Scheduler!JobId) /\ Len(outer) = n - 1
      /\ \A i \in 1 .. n - 1 : outer[i] = frames[i]
  <2> DEFINE m == n - 1
  <2>1. m \in Nat /\ m <= Len(frames)
    BY <1>2
  <2> HIDE DEF m
  <2> QED
    BY <1>1, <2>1, Shorter DEF m
<1> HIDE DEF n, j, outer, q
<1>5. j \in DOMAIN jobs /\ (j \in live => queue # <<>> /\ queue[1].id = j) /\ (~history.reentered => j \in live)
  BY <1>2, <1>3 DEF j, n
<1>6. \A i \in 1 .. Len(outer) : outer[i] \in DOMAIN jobs /\ outer[i] \notin live
  <2> SUFFICES ASSUME NEW i \in 1 .. Len(outer) PROVE outer[i] \in DOMAIN jobs /\ outer[i] \notin live
    OBVIOUS
  <2>1. i \in 1 .. n - 1 /\ i \in 1 .. n /\ i # n
    BY <1>2, <1>4
  <2> QED
    BY <2>1, <1>3, <1>4
<1>7. QueueOK(q, jobs, live)
  <2>1. CASE queue = <<>>
    <3>1. q = queue
      <4>1. Len(queue) < 2
        BY <2>1
      <4> QED
        BY <4>1, <2>1 DEF Scheduler!Pop, q
    <3> QED
      BY <3>1, <1>1
  <2>2. CASE queue # <<>>
    BY <2>2, <1>1, PopKeeps DEF q
  <2> QED
    BY <2>1, <2>2
<1>8. j \in live => ~Has(q, j) /\ \A k : Has(queue, k) /\ k # j => Has(q, k)
  <2> SUFFICES ASSUME j \in live PROVE ~Has(q, j) /\ \A k : Has(queue, k) /\ k # j => Has(q, k)
    OBVIOUS
  <2>1. queue # <<>> /\ queue[1].id = j
    BY <1>5
  <2>2. /\ \A k : Has(queue, k) /\ queue[1].id # k => Has(q, k)
        /\ queue[1].id \in live => ~Has(q, queue[1].id)
    BY <2>1, <1>1, PopKeeps DEF q
  <2> QED
    BY <2>1, <2>2
<1>9. ~history.reentered => outer = <<>> /\ \A k \in live : k # j => Has(q, k)
  <2> SUFFICES ASSUME ~history.reentered PROVE outer = <<>> /\ \A k \in live : k # j => Has(q, k)
    OBVIOUS
  <2>1. Len(outer) = 0
    BY <1>2, <1>3, <1>4
  <2>2. \A k \in live : Has(queue, k)
    BY <1>1 DEF Found
  <2> QED
    BY <2>1, <2>2, <1>4, <1>5, <1>8
<1> QED
  BY <1>2, <1>4, <1>5, <1>6, <1>7, <1>8, <1>9 DEF j, n, outer, q

LEMMA NextChanges ==
  ASSUME NEW js \in Seq(JobSet), NEW j \in DOMAIN js, NEW n \in Nat
  PROVE  LET ks == [js EXCEPT ![j].next = n]
         IN /\ ks \in Seq(JobSet) /\ Len(ks) = Len(js) /\ DOMAIN ks = DOMAIN js
            /\ ks[j].next = n
            /\ \A k \in DOMAIN js : ks[k].cron = js[k].cron /\ (k # j => ks[k].next = js[k].next)
<1> DEFINE ks == [js EXCEPT ![j].next = n]
<1>1. js \in [1 .. Len(js) -> JobSet] /\ DOMAIN js = 1 .. Len(js)
  OBVIOUS
<1>2. js[j] \in JobSet
  BY <1>1
<1>3. ks = [js EXCEPT ![j] = [js[j] EXCEPT !.next = n]]
  OBVIOUS
<1>4. [js[j] EXCEPT !.next = n] \in JobSet
  BY <1>2, JobFields
<1>5. ks \in [1 .. Len(js) -> JobSet]
  BY <1>1, <1>3, <1>4
<1>6. ks[j] = [js[j] EXCEPT !.next = n] /\ \A k \in DOMAIN js : k # j => ks[k] = js[k]
  BY <1>1, <1>3
<1>7. ks[j].next = n /\ ks[j].cron = js[j].cron
  BY <1>2, <1>6, JobFields
<1> HIDE DEF ks
<1>8. ks \in Seq(JobSet) /\ Len(ks) = Len(js) /\ DOMAIN ks = DOMAIN js
  BY <1>1, <1>5
<1> QED
  BY <1>6, <1>7, <1>8 DEF ks

LEMMA CronsStay ==
  ASSUME NEW js, NEW alive, NEW of, NEW hist, CronsOK(js, alive, of, hist), alive \subseteq DOMAIN js,
         NEW ks, Len(ks) = Len(js), \A k \in DOMAIN js : ks[k].cron = js[k].cron,
         NEW fewer, fewer \subseteq alive
  PROVE  CronsOK(ks, fewer, of, hist)
<1>1. \A c \in Cron : of[c] \in 0 .. Len(ks)
  BY DEF CronsOK
<1>2. ASSUME NEW j \in fewer, ks[j].cron \in Cron \ hist.twice
      PROVE  j = of[ks[j].cron] /\ ks[j].cron \notin hist.removed
  <2>1. j \in alive /\ ks[j].cron = js[j].cron
    OBVIOUS
  <2> QED
    BY <2>1, <1>2 DEF CronsOK
<1> QED
  BY <1>1, <1>2 DEF CronsOK

LEMMA FunctionReturnsKeeps == SchedInv /\ Scheduler!FunctionReturns => SchedInv'
<1> SUFFICES ASSUME SchedInv, Scheduler!FunctionReturns PROVE SchedInv'
  OBVIOUS
<1> DEFINE j == frames[Len(frames)]
           outer == SubSeq(frames, 1, Len(frames) - 1)
           q == Scheduler!Pop(queue)
           next == jobs[j].next + jobs[j].period
           e == [id |-> j, time |-> next]
           o == Scheduler!Offer(q, e)
           js == [jobs EXCEPT ![j].next = next]
           fewer == live \ {j}
<1>1. /\ frames # <<>>
      /\ \/ Scheduler!Loop(outer, q, jobs, fewer, timer)
         \/ Scheduler!Loop(outer, o, js, live, timer)
      /\ now' = now /\ crons' = crons /\ jobOf' = jobOf /\ calls' = calls /\ history' = history
  BY DEF Scheduler!FunctionReturns
<1>2. /\ jobs \in Seq(JobSet) /\ live \in SUBSET DOMAIN jobs /\ calls \in 0 .. MaxCalls /\ history \in HistorySet
      /\ timer \in Nat \union {Scheduler!Never} /\ DOMAIN jobs = 1 .. Len(jobs)
  BY SchedTyped
<1>3. CronsOK(jobs, live, jobOf, history)
  BY DEF SchedInv
<1>4. /\ j \in DOMAIN jobs /\ j \in Scheduler!JobId
      /\ outer \in Seq(Scheduler!JobId)
      /\ \A i \in 1 .. Len(outer) : outer[i] \in DOMAIN jobs /\ outer[i] \notin live
      /\ QueueOK(q, jobs, live) /\ (j \in live => ~Has(q, j))
      /\ ~history.reentered => outer = <<>> /\ \A k \in live : k # j => Has(q, k)
  BY <1>1, Returned
<1>5. next \in Nat
  <2>1. jobs[j] \in JobSet
    BY <1>2, <1>4
  <2>2. jobs[j].next \in Nat /\ jobs[j].period \in Nat
    BY <2>1, SchedConstants DEF JobSet
  <2> QED
    BY <2>2
<1>6. e \in Scheduler!Element /\ e.id = j /\ e.time = next
  BY <1>4, <1>5 DEF Scheduler!Element
<1> HIDE DEF j, outer, q, next, e
<1>7. CASE Scheduler!Loop(outer, q, jobs, fewer, timer)
  <2>1. fewer \in SUBSET DOMAIN jobs /\ fewer \subseteq live
    BY <1>2
  <2>2. QueueOK(q, jobs, fewer)
    BY <1>4, <2>1, FewerAlive
  <2>3. CronsOK(jobs, fewer, jobOf, history')
    BY <1>1, <1>2, <1>3, <2>1, CronsStay
  <2>4. ~history'.reentered => outer = <<>> /\ \A k \in fewer : Has(q, k)
    BY <1>1, <1>4
  <2>5. \A i \in 1 .. Len(outer) : outer[i] \in DOMAIN jobs /\ outer[i] \notin fewer
    BY <1>4
  <2> HIDE DEF fewer
  <2> QED
    BY <1>1, <1>2, <1>4, <1>7, <2>1, <2>2, <2>3, <2>4, <2>5, LoopKeeps
<1>8. CASE Scheduler!Loop(outer, o, js, live, timer)
  <2>1. /\ js \in Seq(JobSet) /\ Len(js) = Len(jobs) /\ DOMAIN js = DOMAIN jobs
        /\ js[j].next = next
        /\ \A k \in DOMAIN jobs : js[k].cron = jobs[k].cron /\ (k # j => js[k].next = jobs[k].next)
    BY <1>2, <1>4, <1>5, NextChanges
  <2> HIDE DEF js
  <2>2. QueueOK(q, js, live)
    <3>1. q \in Seq(Scheduler!Element) /\ Heap(q) /\ Entries(q, jobs, live)
      BY <1>4 DEF QueueOK
    <3>2. \A i \in 1 .. Len(q) : q[i].id \in live => q[i].id # j
      BY <1>4 DEF Has
    <3>3. \A i \in 1 .. Len(q) : q[i].id \in live => q[i].time = js[q[i].id].next
      BY <3>1, <3>2, <2>1 DEF Entries
    <3>4. Entries(q, js, live)
      BY <3>1, <3>3, <2>1 DEF Entries
    <3> QED
      BY <3>1, <3>4 DEF QueueOK
  <2>3. e.id \in DOMAIN js /\ (e.id \in live => e.time = js[e.id].next /\ ~Has(q, e.id))
    BY <1>4, <1>6, <2>1
  <2>4. QueueOK(o, js, live) /\ Has(o, e.id) /\ \A k : Has(q, k) => Has(o, k)
    BY <1>6, <2>2, <2>3, OfferKeeps
  <2> HIDE DEF o
  <2>5. CronsOK(js, live, jobOf, history')
    BY <1>1, <1>2, <1>3, <2>1, CronsStay
  <2>6. ~history'.reentered => outer = <<>> /\ \A k \in live : Has(o, k)
    BY <1>1, <1>4, <1>6, <2>4
  <2>7. live \in SUBSET DOMAIN js /\ \A i \in 1 .. Len(outer) : outer[i] \in DOMAIN js /\ outer[i] \notin live
    BY <1>2, <1>4, <2>1
  <2> QED
    BY <1>1, <1>2, <1>4, <1>8, <2>1, <2>4, <2>5, <2>6, <2>7, LoopKeeps
<1> QED
  BY <1>1, <1>7, <1>8

\* A call, by a function of a job or not, of which history' tells.
Called ==
  /\ history' \in HistorySet /\ calls' \in 0 .. MaxCalls
  /\ ~history'.reentered => frames = <<>> /\ ~history.reentered

LEMMA CancelJobKeeps ==
  ASSUME SchedInv, NEW j, Scheduler!CancelJob(j), Called,
         now' = now, crons' = crons, jobOf' = jobOf, CronsOK(jobs, live \ {j}, jobOf, history')
  PROVE  SchedInv'
<1> DEFINE fewer == live \ {j}
           q == Scheduler!Pop(queue)
<1>t. /\ now \in 0 .. MaxTime
      /\ jobs \in Seq(JobSet) /\ live \subseteq DOMAIN jobs
      /\ queue \in Seq(Scheduler!Element) /\ timer \in Nat \union {Scheduler!Never}
      /\ frames \in Seq(Scheduler!JobId) /\ crons \subseteq Cron
      /\ jobOf \in [Cron -> 0 .. MaxJobs]
      /\ QueueOK(queue, jobs, live)
  BY Zenon, SchedTyped
<1>1. FramesOK /\ TimerOK /\ Found(live, queue, history)
  BY DEF SchedInv
<1>2. fewer \subseteq live /\ fewer \in SUBSET DOMAIN jobs /\ j \notin fewer /\ QueueOK(queue, jobs, fewer)
  BY <1>t, FewerAlive
<1>3. CronsOK(jobs, fewer, jobOf, history')
  OBVIOUS
<1>c. /\ history' \in HistorySet /\ calls' \in 0 .. MaxCalls
      /\ ~history'.reentered => frames = <<>> /\ ~history.reentered
  BY DEF Called
<1>4. CASE queue # <<>> /\ Head(queue).id = j
  <2>1. queue[1].id = j
    BY <1>4, <1>t
  <2>2. Scheduler!Loop(frames, q, jobs, fewer, Scheduler!Never)
    BY <1>4 DEF Scheduler!CancelJob
  <2>3. QueueOK(q, jobs, fewer) /\ \A k : Has(queue, k) /\ queue[1].id # k => Has(q, k)
    BY <1>2, <1>4, PopKeeps
  <2>4. \A i \in 1 .. Len(frames) : frames[i] \in DOMAIN jobs /\ frames[i] \notin fewer
    BY <1>1, <2>1 DEF FramesOK
  <2> HIDE DEF fewer, q
  <2>5. ~history'.reentered => frames = <<>> /\ \A k \in fewer : Has(q, k)
    BY <1>1, <1>2, <1>c, <2>1, <2>3 DEF Found
  <2>6. Scheduler!Never \in Nat \union {Scheduler!Never}
    OBVIOUS
  <2> QED
    BY <1>t, <1>2, <1>3, <1>c, <2>2, <2>3, <2>4, <2>5, <2>6, LoopKeeps
<1>5. CASE ~(queue # <<>> /\ Head(queue).id = j)
  <2>1. live' = fewer /\ jobs' = jobs /\ queue' = queue /\ timer' = timer /\ frames' = frames
    BY <1>5 DEF Scheduler!CancelJob
  <2> HIDE DEF fewer
  <2>2. Scheduler!TypeOK'
    BY <1>t, <1>2, <1>c, <2>1, SchedTypes
  <2>3. QueueOK(queue, jobs, live)'
    BY <1>2, <2>1
  <2>4. FramesOK'
    <3>1. \A i \in 1 .. Len(frames') : frames'[i] \in DOMAIN jobs'
      BY <1>1, <2>1 DEF FramesOK
    <3>2. \A i \in 1 .. Len(frames') : frames'[i] \in live' =>
            i = Len(frames') /\ queue' # <<>> /\ queue'[1].id = frames'[i] /\ jobs'[frames'[i]].next <= now'
      BY <1>1, <1>2, <2>1 DEF FramesOK
    <3>3. ~history'.reentered => Len(frames') <= 1 /\ \A i \in 1 .. Len(frames') : frames'[i] \in live'
      <4>1. Len(<<>>) = 0 /\ 1 .. Len(<<>>) = {}
        OBVIOUS
      <4> QED
        BY <4>1, <1>c, <2>1
    <3> QED
      BY <3>1, <3>2, <3>3 DEF FramesOK
  <2>5. TimerOK'
    BY <1>1, <2>1 DEF TimerOK, Scheduler!Never
  <2>6. CronsOK(jobs, live, jobOf, history)'
    BY <1>3, <2>1
  <2>7. Found(live, queue, history)'
    BY <1>1, <1>2, <1>c, <2>1 DEF Found
  <2> QED
    BY <2>2, <2>3, <2>4, <2>5, <2>6, <2>7 DEF SchedInv
<1> QED
  BY <1>4, <1>5

LEMMA ScheduleJobKeeps ==
  ASSUME SchedInv, NEW c \in Cron \union {NoCron}, NEW start \in Scheduler!Times, NEW period \in Periods,
         NEW count \in Counts \union {0}, Scheduler!ScheduleJob(c, start, period, count), Called,
         crons' \subseteq Cron,
         jobs' = Append(jobs, Scheduler!NewJob(start, period, count, c)) => CronsOK(jobs', live', jobOf', history')
  PROVE  SchedInv'
<1> DEFINE j == Len(jobs) + 1
           r == Scheduler!NewJob(start, period, count, c)
           js == Append(jobs, r)
           more == live \union {j}
           e == [id |-> j, time |-> start]
           o == Scheduler!Offer(queue, e)
<1>t. /\ now \in Nat /\ now \in 0 .. MaxTime
      /\ jobs \in Seq(JobSet) /\ live \subseteq DOMAIN jobs /\ DOMAIN jobs = 1 .. Len(jobs)
      /\ queue \in Seq(Scheduler!Element) /\ timer \in Nat \union {Scheduler!Never}
      /\ frames \in Seq(Scheduler!JobId)
      /\ jobOf \in [Cron -> 0 .. MaxJobs]
      /\ QueueOK(queue, jobs, live)
  BY Zenon, SchedTyped
<1>1. FramesOK /\ TimerOK /\ Found(live, queue, history)
  BY DEF SchedInv
<1>2. /\ j \in Scheduler!JobId /\ jobs' = js /\ live' = more
      /\ timer' = (IF queue = <<>> \/ start < Head(queue).time THEN start ELSE timer)
      /\ queue' = o
      /\ jobOf' = Scheduler!Remembered(c, j)
      /\ now' = now /\ frames' = frames
  BY DEF Scheduler!ScheduleJob
<1>c. /\ history' \in HistorySet /\ calls' \in 0 .. MaxCalls
      /\ ~history'.reentered => frames = <<>> /\ ~history.reentered
  BY DEF Called
<1>3. start \in Nat /\ now <= start
  BY <1>t, SchedConstants DEF Scheduler!Times
<1>4. r \in JobSet /\ r.next = start
  BY <1>3 DEF Scheduler!NewJob, JobSet
<1>5. CronsOK(jobs, live, jobOf, history)'
  BY <1>2
<1>6. e \in Scheduler!Element /\ e.id = j /\ e.time = start
  BY <1>2, <1>3 DEF Scheduler!Element
<1> HIDE DEF r, e
<1>7. /\ js \in Seq(JobSet) /\ DOMAIN js = 1 .. j /\ j \in 1 .. j /\ j \notin DOMAIN jobs
      /\ \A k \in DOMAIN jobs : k \in 1 .. j /\ js[k] = jobs[k]
      /\ js[j] = r
  BY <1>t, <1>4
<1> HIDE DEF j, js
<1>8. \A i \in 1 .. Len(queue) : queue[i].id \in DOMAIN jobs
  BY <1>t DEF QueueOK, Entries
<1>9. QueueOK(queue, js, more)
  <2>1. queue \in Seq(Scheduler!Element) /\ Heap(queue) /\ Entries(queue, jobs, live)
    BY <1>t DEF QueueOK
  <2>2. \A i \in 1 .. Len(queue) : queue[i].id # j /\ (queue[i].id \in more => queue[i].id \in live)
    BY <1>7, <1>8
  <2>3. Entries(queue, js, more)
    BY <2>1, <2>2, <1>7, <1>8 DEF Entries
  <2> QED
    BY <2>1, <2>3 DEF QueueOK
<1>10. ~Has(queue, j) /\ e.id \in DOMAIN js /\ e.time = js[e.id].next
  BY <1>4, <1>6, <1>7, <1>8 DEF Has
<1>11. /\ QueueOK(o, js, more) /\ Len(o) = Len(queue) + 1 /\ Has(o, j)
       /\ \A k : Has(queue, k) => Has(o, k)
       /\ \A i \in 1 .. Len(o) : o[i] = e \/ \E k \in 1 .. Len(queue) : o[i] = queue[k]
       /\ queue # <<>> /\ queue[1].time <= start => o[1] = queue[1]
  <2>1. e.id \in more => e.time = js[e.id].next /\ ~Has(queue, e.id)
    BY <1>6, <1>10
  <2>2. /\ QueueOK(o, js, more) /\ Len(o) = Len(queue) + 1 /\ Has(o, e.id)
        /\ \A k : Has(queue, k) => Has(o, k)
        /\ \A i \in 1 .. Len(o) : o[i] = e \/ \E k \in 1 .. Len(queue) : o[i] = queue[k]
        /\ queue # <<>> /\ queue[1].time <= e.time => o[1] = queue[1]
    BY <1>6, <1>9, <1>10, <2>1, OfferKeeps
  <2> QED
    BY <2>2, <1>6
<1> HIDE DEF o, more
<1>n. Len(queue) \in Nat /\ Len(o) \in Nat /\ o # <<>> /\ 1 \in 1 .. Len(o)
  <2>1. o \in Seq(Scheduler!Element) /\ Len(queue) \in Nat
    BY <1>t, <1>11 DEF QueueOK
  <2>2. Len(o) \in Nat /\ Len(o) # 0 /\ 1 \in 1 .. Len(o)
    BY <2>1, <1>11
  <2> QED
    BY <2>1, <2>2
<1>12. Scheduler!TypeOK'
  <2>1. live' \subseteq DOMAIN jobs'
    BY <1>2, <1>7, <1>t DEF more
  <2>2. queue' \in Seq(Scheduler!Element)
    BY <1>2, <1>11 DEF QueueOK
  <2>3. timer' \in Nat \union {Scheduler!Never}
    BY <1>2, <1>3, <1>t
  <2>4. jobOf' \in [Cron -> 0 .. MaxJobs]
    <3>1. j \in 0 .. MaxJobs
      BY <1>2, SchedConstants DEF Scheduler!JobId
    <3>2. [jobOf EXCEPT ![c] = j] \in [Cron -> 0 .. MaxJobs]
      BY <3>1, <1>t
    <3> QED
      BY <3>2, <1>2, <1>t DEF Scheduler!Remembered
  <2> QED
    BY <1>t, <1>2, <1>7, <1>c, <2>1, <2>2, <2>3, <2>4, SchedTypes
<1>13. QueueOK(queue, jobs, live)'
  BY <1>2, <1>11
<1>14. FramesOK'
  <2>1. \A i \in 1 .. Len(frames) : frames[i] \in DOMAIN jobs
    BY <1>1 DEF FramesOK
  <2>2. \A i \in 1 .. Len(frames') : frames'[i] \in DOMAIN jobs'
    BY <2>1, <1>2, <1>7
  <2>3. ASSUME NEW i \in 1 .. Len(frames), frames[i] \in more
        PROVE  i = Len(frames) /\ o # <<>> /\ o[1].id = frames[i] /\ js[frames[i]].next <= now
    <3>1. frames[i] \in live /\ frames[i] \in DOMAIN jobs
      BY <2>1, <2>3, <1>7 DEF more
    <3>2. i = Len(frames) /\ queue # <<>> /\ queue[1].id = frames[i] /\ jobs[frames[i]].next <= now
      BY <3>1, <1>1 DEF FramesOK
    <3>3. 1 \in 1 .. Len(queue)
      BY <3>2, <1>t
    <3>4. queue[1].time = jobs[frames[i]].next /\ queue[1].time \in Nat
      <4>1. Entries(queue, jobs, live)
        BY <1>t DEF QueueOK
      <4>2. queue[1].time \in Nat
        BY <1>t, <3>3, ElementTimes
      <4> QED
        BY <4>1, <4>2, <3>1, <3>2, <3>3 DEF Entries
    <3>5. queue[1].time <= start
      BY <3>2, <3>4, <1>3, <1>t
    <3>6. o[1] = queue[1]
      BY <3>2, <3>5, <1>11
    <3> QED
      BY <3>1, <3>2, <3>6, <1>7, <1>n
  <2>4. \A i \in 1 .. Len(frames') : frames'[i] \in live' =>
          i = Len(frames') /\ queue' # <<>> /\ queue'[1].id = frames'[i] /\ jobs'[frames'[i]].next <= now'
    BY <2>3, <1>2
  <2>5. ~history'.reentered => Len(frames') <= 1 /\ \A i \in 1 .. Len(frames') : frames'[i] \in live'
    <3>1. Len(<<>>) = 0 /\ 1 .. Len(<<>>) = {}
      OBVIOUS
    <3> QED
      BY <3>1, <1>2, <1>c
  <2> QED
    BY <2>2, <2>4, <2>5 DEF FramesOK
<1>15. TimerOK'
  <2> SUFFICES ASSUME frames = <<>> PROVE timer' # Scheduler!Never /\ timer' <= o[1].time
    BY <1>2 DEF TimerOK, Scheduler!Never
  <2>1. o[1] = e \/ \E k \in 1 .. Len(queue) : o[1] = queue[k]
    BY <1>11, <1>n
  <2>2. \A k \in 1 .. Len(queue) : queue[k].time \in Nat /\ queue # <<>> /\ 1 \in 1 .. Len(queue)
    BY <1>t, ElementTimes
  <2>3. \A k \in 1 .. Len(queue) : queue[1].time <= queue[k].time
    BY <1>t, HeadLeast DEF QueueOK
  <2>h. queue # <<>> => Head(queue) = queue[1] /\ 1 \in 1 .. Len(queue)
    BY <1>t
  <2>4. CASE queue = <<>> \/ start < Head(queue).time
    <3>1. timer' = start
      BY <2>4, <1>2
    <3>2. \A k \in 1 .. Len(queue) : start <= queue[k].time
      <4> SUFFICES ASSUME NEW k \in 1 .. Len(queue) PROVE start <= queue[k].time
        OBVIOUS
      <4>1. start < queue[1].time /\ queue[1].time <= queue[k].time
        BY <2>2, <2>3, <2>4, <2>h
      <4>2. queue[1].time \in Nat /\ queue[k].time \in Nat
        BY <2>2
      <4> QED
        BY <4>1, <4>2, <1>3
    <3>3. start <= o[1].time
      BY <3>2, <2>1, <1>6, <1>3
    <3> QED
      BY <3>1, <3>3, <1>3 DEF Scheduler!Never
  <2>5. CASE queue # <<>> /\ ~(start < Head(queue).time)
    <3>1. timer' = timer /\ timer # Scheduler!Never /\ timer <= queue[1].time
      BY <2>5, <1>1, <1>2 DEF TimerOK
    <3>2. queue[1].time <= start
      BY <2>2, <2>5, <2>h, <1>3
    <3>3. o[1] = queue[1]
      BY <3>2, <2>5, <1>11
    <3> QED
      BY <3>1, <3>3
  <2> QED
    BY <2>4, <2>5
<1>16. Found(live, queue, history)'
  BY <1>1, <1>2, <1>11, <1>c DEF Found, more
<1> QED
  BY <1>5, <1>12, <1>13, <1>14, <1>15, <1>16 DEF SchedInv

\* What Reenters says.
LEMMA ReentersSays ==
  ASSUME history \in HistorySet
  PROVE  /\ Scheduler!Reenters \in HistorySet
         /\ Scheduler!Reenters.twice = history.twice /\ Scheduler!Reenters.removed = history.removed
         /\ ~Scheduler!Reenters.reentered => frames = <<>> /\ ~history.reentered
<1>1. \E b \in BOOLEAN : b = (history.reentered \/ frames # <<>>) /\ Scheduler!Reenters = [history EXCEPT !.reentered = b]
  BY Zenon DEF Scheduler!Reenters
<1>2. PICK b \in BOOLEAN : b = (history.reentered \/ frames # <<>>) /\ Scheduler!Reenters = [history EXCEPT !.reentered = b]
  BY <1>1
<1> DEFINE r == [history EXCEPT !.reentered = b]
<1>3. r \in HistorySet /\ r.twice = history.twice /\ r.removed = history.removed /\ r.reentered = b
  BY DEF HistorySet
<1>4. ~b => frames = <<>> /\ ~history.reentered
  BY Zenon, <1>2
<1> HIDE DEF r
<1>5. Scheduler!Reenters = r
  BY <1>2 DEF r
<1> QED
  BY Zenon, <1>3, <1>4, <1>5

LEMMA CallsCount ==
  ASSUME SchedInv, calls < MaxCalls, calls' = calls + 1
  PROVE  calls' \in 0 .. MaxCalls
<1>1. calls \in 0 .. MaxCalls /\ MaxCalls \in Nat
  BY SchedTyped, SchedConstants
<1> QED
  BY <1>1

\* The jobs when one of the cron c, or of none, has been scheduled.
OneMore(js, c, j) ==
  /\ Len(js) = j /\ j \in Nat /\ js[j].cron = c
  /\ \A k \in live : k # j /\ js[k] = jobs[k]
  /\ \A k \in 0 .. Len(jobs) : k \in 0 .. j

LEMMA Longer ==
  ASSUME SchedInv, NEW c, NEW start, NEW period, NEW count
  PROVE  OneMore(Append(jobs, Scheduler!NewJob(start, period, count, c)), c, Len(jobs) + 1)
<1> DEFINE r == Scheduler!NewJob(start, period, count, c)
           js == Append(jobs, r)
           j == Len(jobs) + 1
<1>1. jobs \in Seq(JobSet) /\ live \subseteq DOMAIN jobs /\ DOMAIN jobs = 1 .. Len(jobs)
  BY Zenon, SchedTyped
<1>2. r.cron = c
  BY DEF Scheduler!NewJob
<1> HIDE DEF r
<1>3. Len(jobs) \in Nat
  BY <1>1
<1>4. Len(js) = j /\ js[j] = r /\ \A k \in 1 .. Len(jobs) : js[k] = jobs[k]
  BY <1>1
<1> HIDE DEF js
<1>5. \A k \in live : k # j /\ js[k] = jobs[k]
  BY <1>1, <1>3, <1>4
<1>6. j \in Nat /\ \A k \in 0 .. Len(jobs) : k \in 0 .. j
  BY <1>3
<1> HIDE DEF j
<1>7. OneMore(js, c, j)
  BY <1>2, <1>4, <1>5, <1>6 DEF OneMore
<1> QED
  BY <1>7 DEF js, r, j

LEMMA ScheduleKeeps ==
  ASSUME SchedInv, NEW start \in Scheduler!Times, NEW period \in Periods, NEW count \in Counts,
         Scheduler!Schedule(start, period, count)
  PROVE  SchedInv'
<1> DEFINE j == Len(jobs) + 1
           js == Append(jobs, Scheduler!NewJob(start, period, count, NoCron))
<1>1. Scheduler!ScheduleJob(NoCron, start, period, count) /\ history' = Scheduler!Reenters /\ crons' = crons
  BY DEF Scheduler!Schedule
<1>2. /\ calls < MaxCalls /\ calls' = calls + 1 /\ jobs' = js /\ live' = live \union {j}
      /\ jobOf' = Scheduler!Remembered(NoCron, j)
  BY <1>1 DEF Scheduler!ScheduleJob
<1>3. crons \subseteq Cron /\ history \in HistorySet /\ count \in Nat
  BY Zenon, SchedTyped, SchedConstants
<1>4. /\ history' \in HistorySet /\ history'.twice = history.twice /\ history'.removed = history.removed
      /\ ~history'.reentered => frames = <<>> /\ ~history.reentered
  BY Zenon, <1>1, <1>3, ReentersSays
<1>5. Called
  BY <1>2, <1>4, CallsCount DEF Called
<1>6. jobOf' = jobOf
  BY <1>2 DEF Scheduler!Remembered
<1>m. OneMore(js, NoCron, j)
  BY Longer
<1>7. /\ Len(js) = j /\ j \in Nat /\ js[j].cron = NoCron
      /\ \A k \in live : k # j /\ js[k] = jobs[k]
      /\ \A k \in 0 .. Len(jobs) : k \in 0 .. j
  BY <1>m DEF OneMore
<1>8. CronsOK(jobs, live, jobOf, history)
  BY DEF SchedInv
<1> HIDE DEF js, j
<1>9. CronsOK(js, live', jobOf', history')
  <2>1. \A c \in Cron : jobOf'[c] \in 0 .. Len(js)
    BY <1>6, <1>7, <1>8 DEF CronsOK
  <2>2. ASSUME NEW k \in live', js[k].cron \in Cron \ history'.twice
        PROVE  k = jobOf'[js[k].cron] /\ js[k].cron \notin history'.removed
    <3>1. k \in live
      BY <1>2, <1>7, <2>2, SchedConstants
    <3> QED
      BY <3>1, <2>2, <1>4, <1>6, <1>7, <1>8 DEF CronsOK
  <2> QED
    BY <2>1, <2>2 DEF CronsOK
<1>10. crons' \subseteq Cron
  BY <1>1, <1>3
<1>11. jobs' = Append(jobs, Scheduler!NewJob(start, period, count, NoCron)) => CronsOK(jobs', live', jobOf', history')
  BY <1>2, <1>9
<1>12. NoCron \in Cron \union {NoCron}
  OBVIOUS
<1> QED
  BY <1>1, <1>3, <1>5, <1>10, <1>11, <1>12, ScheduleJobKeeps

LEMMA AddCronsKeeps ==
  ASSUME SchedInv, NEW c \in Cron, NEW start \in Scheduler!Times, NEW period \in Periods,
         Scheduler!AddCrons(c, start, period)
  PROVE  SchedInv'
<1> DEFINE j == Len(jobs) + 1
           js == Append(jobs, Scheduler!NewJob(start, period, 0, c))
           h == Scheduler!Reenters
           twice == IF jobOf[c] \in live THEN history.twice \union {c} ELSE history.twice
           removed == history.removed \ {c}
<1>1. /\ Scheduler!ScheduleJob(c, start, period, 0)
      /\ crons' = crons \union {c}
      /\ history' = [h EXCEPT !.twice = IF jobOf[c] \in live THEN @ \union {c} ELSE @, !.removed = @ \ {c}]
  BY DEF Scheduler!AddCrons, Scheduler!checkAndAdd
<1>2. /\ calls < MaxCalls /\ calls' = calls + 1 /\ jobs' = js /\ live' = live \union {j}
      /\ jobOf' = Scheduler!Remembered(c, j)
  BY <1>1 DEF Scheduler!ScheduleJob
<1>3. crons \subseteq Cron /\ history \in HistorySet /\ jobOf \in [Cron -> 0 .. MaxJobs]
  BY Zenon, SchedTyped
<1>4. /\ h \in HistorySet /\ h.twice = history.twice /\ h.removed = history.removed
      /\ ~h.reentered => frames = <<>> /\ ~history.reentered
  BY Zenon, <1>3, ReentersSays
<1>5. twice \in SUBSET Cron /\ removed \in SUBSET Cron
  BY <1>3 DEF HistorySet
<1> HIDE DEF h
<1>6. history' = [h EXCEPT !.twice = twice, !.removed = removed]
  BY <1>1, <1>4
<1>a. (jobOf[c] \in live => c \in twice) /\ history.twice \subseteq twice
  OBVIOUS
<1>b. c \notin removed /\ removed \subseteq history.removed
  OBVIOUS
<1> HIDE DEF twice, removed
<1>h. \A r : r = [h EXCEPT !.twice = twice, !.removed = removed] =>
        r \in HistorySet /\ r.twice = twice /\ r.removed = removed /\ r.reentered = h.reentered
  BY <1>4, <1>5 DEF HistorySet
<1>7. /\ history' \in HistorySet /\ history'.twice = twice /\ history'.removed = removed
      /\ history'.reentered = h.reentered
  BY Zenon, <1>4, <1>6, <1>h
<1>8. Called
  <2>1. calls' \in 0 .. MaxCalls
    BY <1>2, CallsCount
  <2>2. ~history'.reentered => frames = <<>> /\ ~history.reentered
    BY Zenon, <1>4, <1>7
  <2> QED
    BY Zenon, <1>7, <2>1, <2>2 DEF Called
<1>9. jobOf' = [jobOf EXCEPT ![c] = j]
  BY <1>2, SchedConstants DEF Scheduler!Remembered
<1>m. OneMore(js, c, j)
  BY Longer
<1>10. /\ Len(js) = j /\ j \in Nat /\ js[j].cron = c
       /\ \A k \in live : k # j /\ js[k] = jobs[k]
       /\ \A k \in 0 .. Len(jobs) : k \in 0 .. j
  BY <1>m DEF OneMore
<1>11. CronsOK(jobs, live, jobOf, history)
  BY DEF SchedInv
<1> HIDE DEF js, j
<1>12. CronsOK(js, live', jobOf', history')
  <2>1. ASSUME NEW d \in Cron PROVE jobOf'[d] \in 0 .. Len(js)
    <3>1. CASE d = c
      <4>1. jobOf'[d] = j
        BY <3>1, <1>3, <1>9
      <4> QED
        BY <4>1, <1>10
    <3>2. CASE d # c
      <4>1. jobOf'[d] = jobOf[d] /\ jobOf[d] \in 0 .. Len(jobs)
        BY <3>2, <1>3, <1>9, <1>11 DEF CronsOK
      <4> QED
        BY <4>1, <1>10
    <3> QED
      BY <3>1, <3>2
  <2>2. ASSUME NEW k \in live', js[k].cron \in Cron \ history'.twice
        PROVE  k = jobOf'[js[k].cron] /\ js[k].cron \notin history'.removed
    <3>1. CASE k = j
      <4>1. js[k].cron = c /\ jobOf'[c] = j
        BY <3>1, <1>3, <1>9, <1>10
      <4> QED
        BY <3>1, <4>1, <1>7, <1>b
    <3>2. CASE k # j
      <4>1. k \in live /\ js[k] = jobs[k] /\ jobs[k].cron \in Cron \ history.twice
        BY <3>2, <2>2, <1>2, <1>7, <1>10, <1>a
      <4>2. k = jobOf[jobs[k].cron] /\ jobs[k].cron \notin history.removed
        BY <4>1, <1>11 DEF CronsOK
      <4>3. jobs[k].cron # c
        BY <4>1, <4>2, <2>2, <1>7, <1>a
      <4>4. jobOf'[jobs[k].cron] = jobOf[jobs[k].cron]
        BY <4>1, <4>3, <1>3, <1>9
      <4> QED
        BY <4>1, <4>2, <4>4, <1>7, <1>b
    <3> QED
      BY <3>1, <3>2
  <2> QED
    BY <2>1, <2>2 DEF CronsOK
<1>13. crons' \subseteq Cron
  BY <1>1, <1>3
<1>14. jobs' = Append(jobs, Scheduler!NewJob(start, period, 0, c)) => CronsOK(jobs', live', jobOf', history')
  BY <1>2, <1>12
<1> QED
  BY <1>1, <1>8, <1>13, <1>14, ScheduleJobKeeps

LEMMA CancelKeeps ==
  ASSUME SchedInv, NEW j \in DOMAIN jobs, Scheduler!Cancel(j)
  PROVE  SchedInv'
<1>1. Scheduler!CancelJob(j) /\ history' = Scheduler!Reenters /\ now' = now /\ crons' = crons /\ jobOf' = jobOf
  BY DEF Scheduler!Cancel
<1>2. calls < MaxCalls /\ calls' = calls + 1
  BY <1>1 DEF Scheduler!CancelJob
<1>3. history \in HistorySet
  BY Zenon, SchedTyped
<1>4. /\ history' \in HistorySet /\ history'.twice = history.twice /\ history'.removed = history.removed
      /\ ~history'.reentered => frames = <<>> /\ ~history.reentered
  BY Zenon, <1>1, <1>3, ReentersSays
<1>5. Called
  BY <1>2, <1>4, CallsCount DEF Called
<1>6. CronsOK(jobs, live \ {j}, jobOf, history')
  <2>1. CronsOK(jobs, live, jobOf, history)
    BY DEF SchedInv
  <2> QED
    BY <2>1, <1>4 DEF CronsOK
<1> QED
  BY <1>1, <1>5, <1>6, CancelJobKeeps

LEMMA RemoveCronsKeeps ==
  ASSUME SchedInv, NEW c \in Cron, Scheduler!RemoveCrons(c)
  PROVE  SchedInv'
<1> DEFINE h == Scheduler!Reenters
           j == jobOf[c]
           removed == history.removed \union {c}
<1>1. /\ Scheduler!CancelJob(j) /\ history' = [h EXCEPT !.removed = @ \union {c}]
      /\ now' = now /\ crons' = crons /\ jobOf' = jobOf
  BY DEF Scheduler!RemoveCrons
<1>2. calls < MaxCalls /\ calls' = calls + 1
  BY <1>1 DEF Scheduler!CancelJob
<1>3. history \in HistorySet
  BY Zenon, SchedTyped
<1>4. /\ h \in HistorySet /\ h.twice = history.twice /\ h.removed = history.removed
      /\ ~h.reentered => frames = <<>> /\ ~history.reentered
  BY Zenon, <1>3, ReentersSays
<1>5. removed \in SUBSET Cron /\ history.twice \in SUBSET Cron
  BY <1>3 DEF HistorySet
<1> HIDE DEF h, j
<1>6. history' = [h EXCEPT !.removed = removed]
  BY <1>1, <1>4
<1>a. \A d : d \in removed => d = c \/ d \in history.removed
  OBVIOUS
<1> HIDE DEF removed
<1>h. \A r : r = [h EXCEPT !.removed = removed] =>
        r \in HistorySet /\ r.twice = h.twice /\ r.removed = removed /\ r.reentered = h.reentered
  BY <1>4, <1>5 DEF HistorySet
<1>7. /\ history' \in HistorySet /\ history'.twice = history.twice /\ history'.removed = removed
      /\ history'.reentered = h.reentered
  BY Zenon, <1>4, <1>6, <1>h
<1>8. Called
  <2>1. calls' \in 0 .. MaxCalls
    BY <1>2, CallsCount
  <2>2. ~history'.reentered => frames = <<>> /\ ~history.reentered
    BY Zenon, <1>4, <1>7
  <2> QED
    BY Zenon, <1>7, <2>1, <2>2 DEF Called
<1>9. CronsOK(jobs, live \ {j}, jobOf, history')
  <2>1. CronsOK(jobs, live, jobOf, history)
    BY DEF SchedInv
  <2>2. ASSUME NEW k \in live \ {j}, jobs[k].cron \in Cron \ history'.twice
        PROVE  k = jobOf[jobs[k].cron] /\ jobs[k].cron \notin history'.removed
    <3>1. k = jobOf[jobs[k].cron] /\ jobs[k].cron \notin history.removed
      BY <2>1, <2>2, <1>7 DEF CronsOK
    <3>2. jobs[k].cron # c
      BY <3>1, <2>2 DEF j
    <3> QED
      BY <3>1, <3>2, <1>7, <1>a
  <2> QED
    BY <2>1, <2>2 DEF CronsOK
<1> QED
  BY <1>1, <1>8, <1>9, CancelJobKeeps

LEMMA SchedInvStep == SchedInv /\ [Scheduler!Next]_schedulerVars => SchedInv'
<1> SUFFICES ASSUME SchedInv, [Scheduler!Next]_schedulerVars PROVE SchedInv'
  OBVIOUS
<1>1. CASE Scheduler!Tick
  BY <1>1, TickKeeps
<1>2. CASE Scheduler!TimerFires
  BY <1>2, TimerFiresKeeps
<1>3. CASE Scheduler!FunctionReturns
  BY <1>3, FunctionReturnsKeeps
<1>4. ASSUME NEW start \in Scheduler!Times, NEW period \in Periods, NEW count \in Counts,
             Scheduler!Schedule(start, period, count)
      PROVE  SchedInv'
  BY <1>4, ScheduleKeeps
<1>5. ASSUME NEW j \in DOMAIN jobs, Scheduler!Cancel(j) PROVE SchedInv'
  BY <1>5, CancelKeeps
<1>6. ASSUME NEW c \in Cron, NEW start \in Scheduler!Times, NEW period \in Periods,
             Scheduler!AddCrons(c, start, period)
      PROVE  SchedInv'
  BY <1>6, AddCronsKeeps
<1>7. ASSUME NEW c \in Cron, Scheduler!RemoveCrons(c) PROVE SchedInv'
  BY <1>7, RemoveCronsKeeps
<1>8. CASE UNCHANGED schedulerVars
  BY <1>8 DEF schedulerVars, SchedInv, Scheduler!TypeOK, FramesOK, TimerOK
<1> QED
  BY <1>1, <1>2, <1>3, <1>4, <1>5, <1>6, <1>7, <1>8 DEF Scheduler!Next

LEMMA SchedInvInductive == Spec => []SchedInv
<1>1. Init => SchedInv
  BY SchedInit DEF Init
<1>2. SchedInv /\ [Next]_vars => SchedInv'
  <2> SUFFICES ASSUME SchedInv, [Next]_vars PROVE SchedInv'
    OBVIOUS
  <2>1. [Scheduler!Next]_schedulerVars
    BY DEF Next, vars, schedulerVars
  <2> QED
    BY <2>1, SchedInvStep
<1> QED
  BY <1>1, <1>2, PTL DEF Spec

\* JobsRun, for any number of jobs, times, periods, crons and calls, by functions of jobs
\* too: offer and pop keep a heap of any size and rearrange what it holds, a job in the map
\* is in it once, and the timer is in time for its head, in the map or not (Schedule,
\* PriorityQueue, Server.addCrons, removeCrons).
THEOREM JobsRunCorrect == Spec => []JobsRun
<1> QED
  BY SchedInvInductive, SchedSafe, PTL

-----------------------------------------------------------------------------
(* The choice of a server: router.js, consistentHash.js, failureProcess.js. *)

LEMMA LeastOf ==
  ASSUME NEW S \in SUBSET Nat, S # {}
  PROVE  \E n \in S : \A k \in S : n <= k
<1> DEFINE R == OpToRel(<, Nat)
<1>1. IsWellFoundedOn(R, Nat)
  BY NatLessThanWellFounded
<1>2. \A k, n \in Nat : k < n => <<k, n>> \in R
  BY DEF OpToRel
<1> HIDE DEF R
<1>3. PICK n \in S : \A k \in S : ~ (<<k, n>> \in R)
  BY <1>1, WFMin
<1>4. \A k \in S : ~ (k < n)
  BY <1>2, <1>3
<1> QED
  BY <1>4

LEMMA GreatestOf ==
  ASSUME NEW M \in Nat, NEW S \in SUBSET (0 .. M), S # {}
  PROVE  \E n \in S : \A k \in S : k <= n
<1> DEFINE T == {M - n : n \in S}
<1>0. S \subseteq Int /\ \A n \in S : n \in 0 .. M /\ M - n \in Nat
  OBVIOUS
<1>1. T \in SUBSET Nat /\ T # {}
  BY <1>0
<1>2. PICK m \in T : \A k \in T : m <= k
  BY <1>1, LeastOf
<1>3. PICK n \in S : m = M - n
  BY <1>2
<1>4. ASSUME NEW k \in S PROVE k <= n
  <2>1. M - k \in T
    OBVIOUS
  <2> QED
    BY <2>1, <1>2, <1>3
<1> QED
  BY <1>4

\* A round of turns takes the places by the weight they are for, the greatest first,
\* and in the order of the list.
Ahead(p, q) == p[2] > q[2] \/ (p[2] = q[2] /\ p[1] < q[1])

\* q is the place of P that comes after p, round and round.
Follows(P, p, q) ==
  /\ q \in P
  /\ \/ Ahead(p, q) /\ \A x \in P : ~ (Ahead(p, x) /\ Ahead(x, q))
     \/ \A x \in P : ~ Ahead(p, x) /\ ~ Ahead(x, q)

LEMMA AheadOrders ==
  ASSUME NEW p \in Nat \X Nat, NEW q \in Nat \X Nat, NEW r \in Nat \X Nat
  PROVE  /\ ~ Ahead(p, p)
         /\ Ahead(p, q) => ~ Ahead(q, p)
         /\ Ahead(p, q) /\ Ahead(q, r) => Ahead(p, r)
         /\ p = q \/ Ahead(p, q) \/ Ahead(q, p)
<1>1. /\ p[1] \in Nat /\ p[2] \in Nat /\ q[1] \in Nat /\ q[2] \in Nat /\ r[1] \in Nat /\ r[2] \in Nat
      /\ p = <<p[1], p[2]>> /\ q = <<q[1], q[2]>>
  OBVIOUS
<1>2. p[1] = q[1] /\ p[2] = q[2] => p = q
  BY <1>1
<1> QED
  BY <1>1, <1>2 DEF Ahead

LEMMA FirstPlace ==
  ASSUME NEW N \in Nat, NEW M \in Nat, NEW S \in SUBSET ((0 .. N) \X (0 .. M)), S # {}
  PROVE  \E p \in S : \A x \in S : x = p \/ Ahead(p, x)
<1>1. PICK v \in {p[2] : p \in S} : \A k \in {p[2] : p \in S} : k <= v
  <2>1. {p[2] : p \in S} \in SUBSET (0 .. M) /\ {p[2] : p \in S} # {}
    OBVIOUS
  <2> QED
    BY <2>1, GreatestOf
<1> DEFINE T == {p \in S : p[2] = v}
<1>2. PICK i \in {p[1] : p \in T} : \A k \in {p[1] : p \in T} : i <= k
  <2>1. {p[1] : p \in T} \in SUBSET Nat /\ {p[1] : p \in T} # {}
    BY <1>1
  <2> QED
    BY <2>1, LeastOf
<1>3. PICK p \in T : p[1] = i
  BY <1>2
<1>4. ASSUME NEW x \in S PROVE x = p \/ Ahead(p, x)
  <2>1. x[2] <= v /\ p[2] = v /\ x \in Nat \X Nat /\ p \in Nat \X Nat
    BY <1>1, <1>3
  <2>2. x[2] = v => p[1] <= x[1]
    BY <1>2, <1>3
  <2> QED
    BY <2>1, <2>2, AheadOrders DEF Ahead
<1> QED
  BY <1>3, <1>4

LEMMA LastPlace ==
  ASSUME NEW N \in Nat, NEW M \in Nat, NEW S \in SUBSET ((0 .. N) \X (0 .. M)), S # {}
  PROVE  \E p \in S : \A x \in S : x = p \/ Ahead(x, p)
<1>1. PICK v \in {p[2] : p \in S} : \A k \in {p[2] : p \in S} : v <= k
  <2>1. {p[2] : p \in S} \in SUBSET Nat /\ {p[2] : p \in S} # {}
    OBVIOUS
  <2> QED
    BY <2>1, LeastOf
<1> DEFINE T == {p \in S : p[2] = v}
<1>2. PICK i \in {p[1] : p \in T} : \A k \in {p[1] : p \in T} : k <= i
  <2>1. {p[1] : p \in T} \in SUBSET (0 .. N) /\ {p[1] : p \in T} # {}
    BY <1>1
  <2> QED
    BY <2>1, GreatestOf
<1>3. PICK p \in T : p[1] = i
  BY <1>2
<1>4. ASSUME NEW x \in S PROVE x = p \/ Ahead(x, p)
  <2>1. v <= x[2] /\ p[2] = v /\ x \in Nat \X Nat /\ p \in Nat \X Nat
    BY <1>1, <1>3
  <2>2. x[2] = v => x[1] <= p[1]
    BY <1>2, <1>3
  <2> QED
    BY <2>1, <2>2, AheadOrders DEF Ahead
<1> QED
  BY <1>3, <1>4

\* A place follows one place, and one place follows it.
LEMMA FollowsOne ==
  ASSUME NEW P \in SUBSET (Nat \X Nat), NEW p \in P, NEW q \in P, NEW r, NEW s
  PROVE  /\ Follows(P, p, r) /\ Follows(P, q, r) => p = q
         /\ Follows(P, p, r) /\ Follows(P, p, s) => r = s
<1>1. ASSUME Follows(P, p, r), Follows(P, q, r) PROVE p = q
  <2>1. r \in P /\ p \in Nat \X Nat /\ q \in Nat \X Nat /\ r \in Nat \X Nat
    BY <1>1 DEF Follows
  <2>2. CASE Ahead(p, q)
    <3>1. ~ Ahead(q, r)
      BY <2>1, <2>2, <1>1, AheadOrders DEF Follows
    <3> QED
      BY <3>1, <2>1, <2>2, <1>1, AheadOrders DEF Follows
  <2>3. CASE Ahead(q, p)
    <3>1. ~ Ahead(p, r)
      BY <2>1, <2>3, <1>1, AheadOrders DEF Follows
    <3> QED
      BY <3>1, <2>1, <2>3, <1>1, AheadOrders DEF Follows
  <2> QED
    BY <2>1, <2>2, <2>3, AheadOrders
<1>2. ASSUME Follows(P, p, r), Follows(P, p, s) PROVE r = s
  <2>1. r \in P /\ s \in P /\ r \in Nat \X Nat /\ s \in Nat \X Nat
    BY <1>2 DEF Follows
  <2> QED
    BY <2>1, <1>2, AheadOrders DEF Follows
<1> QED
  BY <1>1, <1>2

\* Going from place to place one comes to all of them.
LEMMA FollowsAll ==
  ASSUME NEW N \in Nat, NEW M \in Nat, NEW P \in SUBSET ((0 .. N) \X (0 .. M)),
         NEW R \in SUBSET P, R # {},
         \A p \in R : \A q \in P : Follows(P, p, q) => q \in R
  PROVE  R = P
<1> SUFFICES ASSUME P \ R # {} PROVE FALSE
  OBVIOUS
<1>0. \A S \in SUBSET P : S \in SUBSET ((0 .. N) \X (0 .. M)) /\ P \in SUBSET (Nat \X Nat)
  OBVIOUS
<1>1. PICK x \in P \ R : \A y \in P \ R : y = x \/ Ahead(x, y)
  BY <1>0, FirstPlace
<1> DEFINE E == {y \in P : Ahead(y, x)}
<1>2. CASE E # {}
  <2>1. PICK y \in E : \A z \in E : z = y \/ Ahead(z, y)
    BY <1>0, <1>2, LastPlace
  <2>2. y \in R
    BY <2>1, <1>1, <1>0, AheadOrders
  <2>3. Follows(P, y, x)
    BY <2>1, <1>0, AheadOrders DEF Follows
  <2> QED
    BY <2>2, <2>3
<1>3. CASE E = {}
  <2>1. PICK y \in P : \A z \in P : z = y \/ Ahead(z, y)
    BY <1>0, LastPlace
  <2>2. Follows(P, y, x)
    BY <2>1, <1>3, <1>0, AheadOrders DEF Follows
  <2>3. y \notin R
    BY <2>2
  <2>4. PICK m \in R : \A z \in R : z = m \/ Ahead(z, m)
    BY <1>0, LastPlace
  <2> DEFINE A == {z \in P : Ahead(m, z)}
  <2>5. A # {}
    BY <2>1, <2>3, <2>4
  <2>6. PICK z \in A : \A w \in A : w = z \/ Ahead(z, w)
    BY <1>0, <2>5, FirstPlace
  <2>7. Follows(P, m, z)
    BY <2>6, <1>0, AheadOrders DEF Follows
  <2>8. z \in R
    BY <2>7, <2>4
  <2> QED
    BY <2>8, <2>6, <2>4, <1>0, AheadOrders
<1> QED
  BY <1>2, <1>3

-----------------------------------------------------------------------------
(* The turns                                                               *)

Once(l) == \A i, j \in DOMAIN l : l[i] = l[j] => i = j
ServerLists == {l \in Seq(Server) : Once(l)}
ServerWeights == [Server -> 0 .. MaxWeight]

\* The places of a round: for each server as many as its weight says, or one.
PlaceShare(w, s) == IF opts.router = "wrr" THEN w[s] ELSE 1
TurnPlaces(l, w) == {p \in (1 .. Len(l)) \X (1 .. MaxWeight) : p[2] <= PlaceShare(w, l[p[1]])}

\* The choices are those of the places q, one after the other, up to here.
Window(P, l, chosen, q, here) ==
  /\ q \in [1 .. Len(chosen) -> P]
  /\ \A j, k \in 1 .. Len(chosen) : q[j] = q[k] => j = k
  /\ \A k \in 1 .. Len(chosen) : chosen[k] = l[q[k][1]]
  /\ \A k \in 1 .. Len(chosen) : k < Len(chosen) => Follows(P, q[k], q[k + 1])
  /\ Len(chosen) > 0 => q[Len(chosen)] = here

LEMMA RoutingSets ==
  /\ \A S : Routing!IsFiniteSet(S) <=> IsFiniteSet(S)
  /\ \A S : Routing!Cardinality(S) = Cardinality(S)
<1>1. \A S : Routing!IsFiniteSet(S) <=> IsFiniteSet(S)
  BY DEF Routing!IsFiniteSet, IsFiniteSet
<1>2. \A S : Routing!Cardinality(S) = Cardinality(S)
  BY Zenon DEF Routing!Cardinality, Cardinality
<1> QED
  BY <1>1, <1>2

LEMMA RoutingConstants ==
  /\ IsFiniteSet(Server) /\ MaxWeight \in Nat \ {0} /\ MaxReplaced \in Nat /\ MaxPicks \in Nat
  /\ \A s \in Server : Point[s] \subseteq Nat /\ IsFiniteSet(Point[s])
  /\ \A s, t \in Server : s # t => Point[s] \intersect Point[t] = {}
  /\ \A f \in Field : Digest[f] \in Nat
  /\ Traced \in BOOLEAN
  /\ \A o \in Options : o.failover \in BOOLEAN /\ o.servers \subseteq Server /\ o.weights \subseteq 0 .. MaxWeight
BY RoutingAssumption, RoutingSets DEF Routing!RoutingAssumption

LEMMA FirstNumbers ==
  ASSUME NEW n \in Nat
  PROVE  IsFiniteSet(1 .. n) /\ Cardinality(1 .. n) = n
BY FS_Interval

LEMMA PlacesAre ==
  ASSUME NEW l \in Seq(Server), NEW w \in ServerWeights
  PROVE  /\ IsFiniteSet(TurnPlaces(l, w)) /\ Cardinality(TurnPlaces(l, w)) \in Nat
         /\ TurnPlaces(l, w) \in SUBSET ((0 .. Len(l)) \X (0 .. MaxWeight))
         /\ TurnPlaces(l, w) \in SUBSET (Nat \X Nat)
         /\ \A p \in TurnPlaces(l, w) : p[1] \in 1 .. Len(l) /\ l[p[1]] \in Server
<1>1. Len(l) \in Nat /\ MaxWeight \in Nat
  BY RoutingConstants
<1>2. IsFiniteSet(1 .. Len(l)) /\ IsFiniteSet(1 .. MaxWeight)
  BY <1>1, FS_Interval
<1>3. IsFiniteSet((1 .. Len(l)) \X (1 .. MaxWeight))
  BY <1>2, FS_Product
<1>4. TurnPlaces(l, w) \in SUBSET ((1 .. Len(l)) \X (1 .. MaxWeight))
  BY DEF TurnPlaces
<1>5. IsFiniteSet(TurnPlaces(l, w)) /\ Cardinality(TurnPlaces(l, w)) \in Nat
  BY <1>3, <1>4, FS_Subset, FS_CardinalityType
<1>6. /\ (1 .. Len(l)) \X (1 .. MaxWeight) \subseteq (0 .. Len(l)) \X (0 .. MaxWeight)
      /\ (1 .. Len(l)) \X (1 .. MaxWeight) \subseteq Nat \X Nat
  BY <1>1
<1>7. \A i \in 1 .. Len(l) : l[i] \in Server
  OBVIOUS
<1> QED
  BY <1>4, <1>5, <1>6, <1>7

\* A turn makes the window longer, or drops the oldest choice of a full round.
LEMMA TurnTaken ==
  ASSUME NEW l \in Seq(Server), NEW w \in ServerWeights, NEW chosen \in Seq(Server), NEW q, NEW here,
         NEW there \in TurnPlaces(l, w),
         Len(chosen) > 0 => Window(TurnPlaces(l, w), l, chosen, q, here) /\ Follows(TurnPlaces(l, w), here, there)
  PROVE  LET all == Append(chosen, l[there[1]])
             new == IF Len(all) > Cardinality(TurnPlaces(l, w)) THEN Tail(all) ELSE all
         IN new \in Seq(Server) /\ \E r : Window(TurnPlaces(l, w), l, new, r, there)
<1> DEFINE P == TurnPlaces(l, w)
           n == Len(chosen)
           all == Append(chosen, l[there[1]])
           new == IF Len(all) > Cardinality(P) THEN Tail(all) ELSE all
           big == [k \in 1 .. n + 1 |-> IF k <= n THEN q[k] ELSE there]
<1>1. /\ n \in Nat /\ Cardinality(P) \in Nat /\ IsFiniteSet(P) /\ P \in SUBSET (Nat \X Nat)
      /\ P \in SUBSET ((0 .. Len(l)) \X (0 .. MaxWeight)) /\ Len(l) \in Nat /\ MaxWeight \in Nat
      /\ l[there[1]] \in Server
  BY PlacesAre, RoutingConstants
<1>2. /\ all \in Seq(Server) /\ Len(all) = n + 1 /\ all[n + 1] = l[there[1]]
      /\ \A k \in 1 .. n : all[k] = chosen[k]
  BY <1>1
<1>3. /\ Tail(all) \in Seq(Server) /\ Len(Tail(all)) = n
      /\ \A k \in 1 .. n : Tail(all)[k] = all[k + 1]
  BY <1>1, <1>2
<1>4. Cardinality(P) > 0
  BY <1>1, FS_EmptySet
<1>a. n > 0 => Window(P, l, chosen, q, here) /\ Follows(P, here, there)
  OBVIOUS
<1> HIDE DEF P, all
<1>5. /\ \A k \in 1 .. n : chosen[k] = l[q[k][1]] /\ q[k] \in P
      /\ \A j, k \in 1 .. n : q[j] = q[k] => j = k
      /\ \A k \in 1 .. n : k < n => Follows(P, q[k], q[k + 1])
      /\ n > 0 => q[n] = here /\ Follows(P, q[n], there)
  <2>1. CASE n = 0
    BY <2>1
  <2>2. CASE n > 0
    <3>1. /\ q \in [1 .. n -> P]
          /\ \A j, k \in 1 .. n : q[j] = q[k] => j = k
          /\ \A k \in 1 .. n : chosen[k] = l[q[k][1]]
          /\ \A k \in 1 .. n : k < n => Follows(P, q[k], q[k + 1])
          /\ q[n] = here /\ Follows(P, here, there)
      BY <1>a, <2>2 DEF Window
    <3> QED
      BY <3>1
  <2> QED
    BY <2>1, <2>2, <1>1
<1>6. big \in [1 .. n + 1 -> P]
  BY <1>1, <1>5 DEF P
<1>7. \A k \in 1 .. n + 1 : all[k] = l[big[k][1]]
  <2> SUFFICES ASSUME NEW k \in 1 .. n + 1 PROVE all[k] = l[big[k][1]]
    OBVIOUS
  <2>1. k \in 1 .. n \/ k = n + 1
    BY <1>1
  <2> QED
    BY <2>1, <1>1, <1>2, <1>5
<1>8. \A k \in 1 .. n + 1 : k < n + 1 => Follows(P, big[k], big[k + 1])
  <2> SUFFICES ASSUME NEW k \in 1 .. n + 1, k < n + 1 PROVE Follows(P, big[k], big[k + 1])
    OBVIOUS
  <2>0. k \in 1 .. n
    BY <1>1
  <2>1. big[k] = q[k] /\ big[k + 1] = IF k < n THEN q[k + 1] ELSE there
    BY <1>1
  <2> QED
    BY <2>0, <2>1, <1>1, <1>5
\* The place comes back to none but the oldest.
<1>9. \A k \in 2 .. n : q[k] # there
  <2> SUFFICES ASSUME NEW k \in 2 .. n, q[k] = there PROVE FALSE
    OBVIOUS
  <2>1. k - 1 \in 1 .. n /\ k - 1 < n /\ (k - 1) + 1 = k /\ n \in 1 .. n
    BY <1>1
  <2>2. Follows(P, q[k - 1], there) /\ Follows(P, q[n], there)
    BY <2>1, <1>5
  <2>3. q[k - 1] = q[n]
    BY <2>1, <2>2, <1>1, <1>5, FollowsOne
  <2> QED
    BY <2>1, <2>3, <1>5
<1>10. CASE n + 1 > Cardinality(P)
  <2> DEFINE r == [k \in 1 .. n |-> big[k + 1]]
  <2>1. new = Tail(all) /\ n > 0
    BY <1>1, <1>2, <1>4, <1>10 DEF P
  <2>2. \A k \in 1 .. n : k + 1 \in 1 .. n + 1 /\ r[k] = big[k + 1]
    BY <1>1
  <2>3. r \in [1 .. n -> P] /\ r[n] = there
    <3>1. r[n] = there
      BY <2>1, <1>1
    <3>2. \A k \in 1 .. n : big[k + 1] \in P
      <4> HIDE DEF big
      <4> QED
        BY <2>2, <1>6
    <3> HIDE DEF big
    <3>3. r \in [1 .. n -> P]
      BY <3>2
    <3> QED
      BY <3>1, <3>3
  <2>4. \A j, k \in 1 .. n : r[j] = r[k] => j = k
    <3> SUFFICES ASSUME NEW j \in 1 .. n, NEW k \in 1 .. n, r[j] = r[k] PROVE j = k
      OBVIOUS
    <3>1. /\ r[j] = IF j < n THEN q[j + 1] ELSE there
          /\ r[k] = IF k < n THEN q[k + 1] ELSE there
      BY <1>1
    <3>2. /\ j < n => j + 1 \in 2 .. n /\ j + 1 \in 1 .. n
          /\ k < n => k + 1 \in 2 .. n /\ k + 1 \in 1 .. n
      BY <1>1
    <3> QED
      BY <3>1, <3>2, <1>1, <1>5, <1>9
  <2>5. \A k \in 1 .. n : k < n => Follows(P, r[k], r[k + 1])
    <3> SUFFICES ASSUME NEW k \in 1 .. n, k < n PROVE Follows(P, r[k], r[k + 1])
      OBVIOUS
    <3>1. k + 1 \in 1 .. n /\ k + 1 \in 1 .. n + 1 /\ k + 1 < n + 1
      BY <1>1
    <3> HIDE DEF r, big
    <3> QED
      BY <3>1, <2>2, <1>8
  <2>6. \A k \in 1 .. n : Tail(all)[k] = l[r[k][1]]
    BY <2>2, <1>3, <1>7
  <2> HIDE DEF r
  <2>7. Window(P, l, Tail(all), r, there)
    BY <2>3, <2>4, <2>5, <2>6, <1>3 DEF Window
  <2> QED
    BY <2>1, <2>7, <1>3 DEF P, all
<1>11. CASE ~ (n + 1 > Cardinality(P))
  <2>1. new = all
    BY <1>2, <1>11 DEF P
  <2>2. n > 0 => q[1] # there
    <3> SUFFICES ASSUME n > 0, q[1] = there PROVE FALSE
      OBVIOUS
    <3> DEFINE R == {q[k] : k \in 1 .. n}
    <3>1. R \in SUBSET P /\ R # {}
      BY <1>1, <1>5
    <3>2. \A p \in R : \A x \in P : Follows(P, p, x) => x \in R
      <4> SUFFICES ASSUME NEW k \in 1 .. n, NEW x \in P, Follows(P, q[k], x) PROVE x \in R
        OBVIOUS
      <4>1. CASE k < n
        <5>1. k + 1 \in 1 .. n /\ Follows(P, q[k], q[k + 1])
          BY <4>1, <1>1, <1>5
        <5>2. x = q[k + 1]
          BY <5>1, <1>1, <1>5, FollowsOne
        <5> QED
          BY <5>1, <5>2
      <4>2. CASE k = n
        <5>1. q[n] \in P /\ Follows(P, q[n], there) /\ Follows(P, q[n], x) /\ 1 \in 1 .. n
          BY <4>2, <1>1, <1>5
        <5>2. x = there
          BY <5>1, <1>1, FollowsOne
        <5> QED
          BY <5>1, <5>2
      <4> QED
        BY <4>1, <4>2, <1>1
    <3>3. R = P
      <4> HIDE DEF R
      <4> QED
        BY <3>1, <3>2, <1>1, FollowsAll
    <3>4. q \in Surjection(1 .. n, P) /\ IsFiniteSet(1 .. n) /\ Cardinality(1 .. n) = n
      <4>1. q \in [1 .. n -> P]
        BY <1>a DEF Window
      <4>2. \A p \in P : \E k \in 1 .. n : q[k] = p
        BY <3>3
      <4>3. q \in Surjection(1 .. n, P)
        BY <4>1, <4>2 DEF Surjection
      <4>4. IsFiniteSet(1 .. n) /\ Cardinality(1 .. n) = n
        BY <1>1, FirstNumbers
      <4> QED
        BY <4>3, <4>4
    <3>5. Cardinality(P) <= n
      BY <3>4, FS_Surjection
    <3> QED
      BY <3>5, <1>1, <1>11
  <2>3. \A j, k \in 1 .. n + 1 : big[j] = big[k] => j = k
    <3> SUFFICES ASSUME NEW j \in 1 .. n + 1, NEW k \in 1 .. n + 1, big[j] = big[k] PROVE j = k
      OBVIOUS
    <3>1. \A i \in 1 .. n : q[i] # there
      <4> SUFFICES ASSUME NEW i \in 1 .. n PROVE q[i] # there
        OBVIOUS
      <4>1. i = 1 \/ i \in 2 .. n
        BY <1>1
      <4> QED
        BY <4>1, <2>2, <1>1, <1>9
    <3>2. /\ big[j] = IF j <= n THEN q[j] ELSE there
          /\ big[k] = IF k <= n THEN q[k] ELSE there
      OBVIOUS
    <3> QED
      BY <3>1, <3>2, <1>1, <1>5
  <2>4. big[n + 1] = there
    BY <1>1
  <2> HIDE DEF big
  <2>5. Window(P, l, all, big, there)
    BY <2>3, <2>4, <1>1, <1>2, <1>6, <1>7, <1>8 DEF Window
  <2> QED
    BY <2>1, <2>5, <1>2 DEF P, all
<1> QED
  BY <1>10, <1>11

\* In a full round every server had its share.
LEMMA RoundCounts ==
  ASSUME NEW l \in ServerLists, NEW w \in ServerWeights, NEW chosen \in Seq(Server), NEW q, NEW here,
         Window(TurnPlaces(l, w), l, chosen, q, here), Len(chosen) = Cardinality(TurnPlaces(l, w)),
         NEW i \in 1 .. Len(l)
  PROVE  Cardinality({k \in 1 .. Len(chosen) : chosen[k] = l[i]}) = PlaceShare(w, l[i])
<1> DEFINE P == TurnPlaces(l, w)
           n == Len(chosen)
           m == PlaceShare(w, l[i])
           T == {k \in 1 .. n : chosen[k] = l[i]}
           f == [v \in 1 .. m |-> CHOOSE k \in 1 .. n : q[k] = <<i, v>>]
<1>1. /\ l \in Seq(Server) /\ Once(l) /\ n \in Nat /\ IsFiniteSet(P) /\ l[i] \in Server
      /\ IsFiniteSet(1 .. n) /\ Cardinality(1 .. n) = n
  BY PlacesAre, FirstNumbers DEF ServerLists
<1>2. m \in 0 .. MaxWeight
  BY <1>1, RoutingConstants DEF PlaceShare, ServerWeights
<1>3. q \in Injection(1 .. n, P)
  BY DEF Window, Injection, IsInjective
<1>4. q \in Surjection(1 .. n, P)
  BY <1>1, <1>3, FS_Injection
<1>5. \A p \in P : \E k \in 1 .. n : q[k] = p
  BY <1>4 DEF Surjection
<1>6. \A v \in 1 .. m : <<i, v>> \in P
  <2> SUFFICES ASSUME NEW v \in 1 .. m PROVE <<i, v>> \in P
    OBVIOUS
  <2>1. v \in 1 .. MaxWeight /\ v <= m
    BY <1>2, RoutingConstants
  <2>2. <<i, v>> \in (1 .. Len(l)) \X (1 .. MaxWeight) /\ <<i, v>>[1] = i /\ <<i, v>>[2] = v
    BY <2>1
  <2> HIDE DEF m
  <2>3. <<i, v>>[2] <= PlaceShare(w, l[<<i, v>>[1]])
    BY <2>1, <2>2 DEF m
  <2> QED
    BY <2>2, <2>3 DEF TurnPlaces
<1>7. \A v \in 1 .. m : f[v] \in 1 .. n /\ q[f[v]] = <<i, v>>
  BY <1>5, <1>6
<1>8. \A k \in 1 .. n : q[k] \in P /\ chosen[k] = l[q[k][1]]
  BY DEF Window
<1> HIDE DEF f
<1>9. \A v \in 1 .. m : f[v] \in T
  <2> SUFFICES ASSUME NEW v \in 1 .. m PROVE f[v] \in T
    OBVIOUS
  <2>1. f[v] \in 1 .. n /\ q[f[v]][1] = i
    BY <1>7
  <2> QED
    BY <2>1, <1>8
<1>10. \A u, v \in 1 .. m : f[u] = f[v] => u = v
  BY <1>7
<1>11. \A k \in T : \E v \in 1 .. m : f[v] = k
  <2> SUFFICES ASSUME NEW k \in T PROVE \E v \in 1 .. m : f[v] = k
    OBVIOUS
  <2>1. q[k] \in P /\ l[q[k][1]] = l[i]
    BY <1>8
  <2>2. q[k][1] \in 1 .. Len(l) /\ q[k][2] \in 1 .. m /\ q[k][1] = i
    BY <2>1, <1>1, <1>2, RoutingConstants DEF TurnPlaces, Once
  <2>3. q[k] = <<i, q[k][2]>>
    BY <2>1, <2>2 DEF TurnPlaces
  <2>4. q[f[q[k][2]]] = q[k] /\ f[q[k][2]] \in 1 .. n
    BY <2>2, <2>3, <1>7
  <2>5. f[q[k][2]] = k
    BY <2>4 DEF Window
  <2> QED
    BY <2>2, <2>5
<1>12. f \in Bijection(1 .. m, T)
  <2>1. f \in [1 .. m -> T]
    BY <1>9 DEF f
  <2> HIDE DEF T
  <2> QED
    BY <2>1, <1>10, <1>11 DEF Bijection, Injection, Surjection, IsInjective
<1>13. m \in Nat
  BY <1>2, RoutingConstants
<1>14. ExistsBijection(1 .. m, T)
  BY <1>12 DEF ExistsBijection
<1> HIDE DEF T, m
<1>15. Cardinality(T) = m
  BY <1>13, <1>14, FS_CountingElements
<1> QED
  BY <1>15 DEF T, m

\* What is chosen in turn goes round.
LEMMA Division ==
  ASSUME NEW n \in Nat, NEW m \in Nat \ {0}
  PROVE  n % m \in 0 .. m - 1 /\ n \div m \in Nat /\ n = m * (n \div m) + (n % m)
<1>1. n % m \in 0 .. m - 1
  OBVIOUS
<1>2. n \div m \in Int
  OBVIOUS
<1>3. n = m * (n \div m) + (n % m)
  OBVIOUS
<1> QED
  BY <1>1, <1>2, <1>3

LEMMA DivisionUnique ==
  ASSUME NEW m \in Nat \ {0}, NEW a \in Int, NEW b \in Int, NEW r \in 0 .. m - 1, NEW s \in 0 .. m - 1,
     m * a + r = m * b + s
  PROVE a = b /\ r = s
<1>1. m * (a - b) = s - r
  OBVIOUS
<1>2. ~ (a - b >= 1)
  <2>1. a - b >= 1 => m * (a - b) >= m
    OBVIOUS
  <2> QED BY <2>1, <1>1
<1>3. ~ (a - b <= -1)
  <2>1. a - b <= -1 => m * (a - b) <= -m
    OBVIOUS
  <2> QED BY <2>1, <1>1
<1> QED BY <1>1, <1>2, <1>3

LEMMA RestNext ==
  ASSUME NEW n \in Nat, NEW m \in Nat \ {0}
  PROVE  /\ n % m \in 0 .. m - 1
         /\ n < m => n % m = n
         /\ (n + 1) % m = IF n % m = m - 1 THEN 0 ELSE (n % m) + 1
<1> DEFINE a == n \div m
           r == n % m
           b == (n + 1) \div m
           s == (n + 1) % m
<1>1. /\ a \in Int /\ r \in 0 .. m - 1 /\ n = m * a + r
      /\ b \in Int /\ s \in 0 .. m - 1 /\ n + 1 = m * b + s
  BY Division
<1> HIDE DEF a, b, r, s
<1>2. ASSUME n < m PROVE r = n
  <2>1. m * a + r = m * 0 + n /\ n \in 0 .. m - 1
    BY <1>1, <1>2
  <2> QED
    BY <2>1, <1>1, DivisionUnique
<1>3. CASE r = m - 1
  <2>1. m * (a + 1) + 0 = m * b + s /\ a + 1 \in Int /\ 0 \in 0 .. m - 1
    BY <1>1, <1>3
  <2>2. s = 0
    BY <2>1, <1>1, DivisionUnique
  <2> QED
    BY <2>2, <1>1, <1>2, <1>3 DEF r, s
<1>4. CASE r # m - 1
  <2>1. m * a + (r + 1) = m * b + s /\ r + 1 \in 0 .. m - 1
    BY <1>1, <1>4
  <2>2. s = r + 1
    BY <2>1, <1>1, DivisionUnique
  <2> QED
    BY <2>2, <1>1, <1>2, <1>4 DEF r, s
<1> QED
  BY <1>3, <1>4

-----------------------------------------------------------------------------
(* The invariant *)

CallRecords ==
  [at : SUBSET Server, array : -1 .. MaxReplaced, tried : SUBSET (Server \union {"none"}), all : BOOLEAN]

RoutingTypes ==
  /\ rpc \in {"inited", "started", "closed"} /\ opts \in Options /\ proxies \in BOOLEAN
  /\ list \in ServerLists
  /\ known \in SUBSET Server /\ onlines \in SUBSET Server
  /\ weight \in ServerWeights
  /\ arrays \in [0 .. MaxReplaced -> ServerLists]
  /\ latest \in 0 .. MaxReplaced
  /\ picks \in 0 .. MaxPicks
  /\ rrParam \in 0 .. picks
  /\ wrrParam \in [index : -1 .. Cardinality(Server) - 1, weight : 0 .. MaxWeight]
  /\ laParam \in [made : BOOLEAN, count : [Server -> -1 .. picks]]
  /\ rpcs \in [Call -> CallRecords]
  /\ \A c \in Call : rpcs[c].array <= latest
  /\ turns \in [list : ServerLists, weight : ServerWeights, chosen : Seq(Server)]

\* The digests are those of the keys, a finite number.
RingOK(r) ==
  /\ r \in [made : BOOLEAN, keys : SUBSET (Nat \X Nat), at : SUBSET Nat]
  /\ IsFiniteSet(r.keys)
  /\ r.at = {k[1] : k \in r.keys}

RingHas == RingOK(ring)

Listed == \A i \in DOMAIN list : list[i] \in known /\ list[i] \in onlines

\* A traced call that has an array has tried nothing that is in it; one that has none
\* has tried nothing.
Tries(c) ==
  /\ rpcs[c].at \intersect rpcs[c].tried = {}
  /\ rpcs[c].array = -1 => rpcs[c].tried = {}
  /\ rpcs[c].array >= 0 =>
       \A i \in DOMAIN arrays[rpcs[c].array] : arrays[rpcs[c].array][i] \notin rpcs[c].tried

\* Where the router is.
Here == IF opts.router = "wrr" THEN <<wrrParam.index + 1, wrrParam.weight>>
        ELSE <<((rrParam - 1) % Len(turns.list)) + 1, 1>>

\* The latest choices were made in turn, and the router is still where they ended.
Turned ==
  Len(turns.chosen) > 0 =>
    /\ opts.router \in {"rr", "wrr"} /\ (opts.router = "rr" => rrParam > 0)
    /\ \E q : Window(TurnPlaces(turns.list, turns.weight), turns.list, turns.chosen, q, Here)

RoutingInv ==
  /\ RoutingTypes /\ RingHas /\ Listed
  /\ Traced => \A c \in Call : Tries(c)
  /\ Turned

LEMMA WeightRange == \A h \in 1 .. MaxWeight : h \in -1 .. MaxWeight /\ h # 0
BY RoutingConstants

HeaviestOf(l, w) ==
  LET weights == {w[s] : s \in {l[i] : i \in DOMAIN l}} \ {0}
  IN IF weights = {} THEN -1 ELSE CHOOSE u \in weights : \A v \in weights : v <= u

LEMMA HeaviestIs ==
  ASSUME NEW l \in Seq(Server), NEW w \in ServerWeights, NEW H, H = HeaviestOf(l, w)
  PROVE  /\ H \in -1 .. MaxWeight /\ H # 0
         /\ \A k \in 1 .. Len(l) : w[l[k]] > 0 => w[l[k]] <= H
         /\ H > 0 => \E k \in 1 .. Len(l) : w[l[k]] = H
<1> DEFINE weights == {w[s] : s \in {l[i] : i \in DOMAIN l}} \ {0}
<1>1. /\ MaxWeight \in Nat /\ Len(l) \in Nat /\ DOMAIN l = 1 .. Len(l)
      /\ \A k \in 1 .. Len(l) : l[k] \in Server /\ w[l[k]] \in 0 .. MaxWeight
  BY RoutingConstants DEF ServerWeights
<1>2. \A k \in 1 .. Len(l) : w[l[k]] > 0 => w[l[k]] \in weights
  BY <1>1
<1>3. \A v \in weights : v \in 1 .. MaxWeight /\ \E k \in 1 .. Len(l) : w[l[k]] = v
  BY <1>1
<1>4. H = IF weights = {} THEN -1 ELSE CHOOSE u \in weights : \A v \in weights : v <= u
  BY DEF HeaviestOf
<1> HIDE DEF weights
<1>5. CASE weights = {}
  BY <1>1, <1>2, <1>4, <1>5
<1>6. CASE weights # {}
  <2>1. weights \in SUBSET (0 .. MaxWeight)
    BY <1>1, <1>3
  <2>2. \E u \in weights : \A v \in weights : v <= u
    BY <2>1, <1>1, <1>6, GreatestOf
  <2>3. H \in weights /\ \A v \in weights : v <= H
    BY <2>2, <1>4, <1>6
  <2>4. H \in 1 .. MaxWeight /\ \E k \in 1 .. Len(l) : w[l[k]] = H
    BY <2>3, <1>3
  <2>5. \A k \in 1 .. Len(l) : w[l[k]] > 0 => w[l[k]] <= H
    BY <2>3, <1>2
  <2>6. H \in -1 .. MaxWeight /\ H # 0
    BY <2>4, WeightRange
  <2> QED
    BY <2>4, <2>5, <2>6
<1> QED
  BY <1>5, <1>6

\* The places of servers that weigh g.
Heavy(g, n, m) == {p \in (1 .. n) \X (1 .. m) : p[2] <= g[p[1]]}

LEMMA HeavyPlace ==
  ASSUME NEW n \in Nat, NEW m \in Nat, NEW g \in [1 .. n -> 0 .. m]
  PROVE  /\ \A a, v : <<a, v>> \in Heavy(g, n, m) <=> a \in 1 .. n /\ v \in 1 .. m /\ v <= g[a]
         /\ \A x \in Heavy(g, n, m) :
              x = <<x[1], x[2]>> /\ x[1] \in 1 .. n /\ x[2] \in 1 .. m /\ x[2] <= g[x[1]]
BY DEF Heavy

\* The weighted router goes to the place that follows: in the round it is in,
LEMMA StaysNext ==
  ASSUME NEW n \in Nat, NEW m \in Nat, NEW g \in [1 .. n -> 0 .. m], NEW a \in 1 .. n, NEW u \in 1 .. m,
         NEW b \in a + 1 .. n, g[b] >= u, \A c \in a + 1 .. n : g[c] >= u => b <= c
  PROVE  Follows(Heavy(g, n, m), <<a, u>>, <<b, u>>)
<1>1. <<b, u>> \in Heavy(g, n, m)
  BY HeavyPlace
<1>2. Ahead(<<a, u>>, <<b, u>>)
  BY DEF Ahead
<1>3. ASSUME NEW x \in Heavy(g, n, m), Ahead(<<a, u>>, x), Ahead(x, <<b, u>>) PROVE FALSE
  <2>1. x[1] \in 1 .. n /\ x[2] \in 1 .. m /\ x[2] <= g[x[1]]
    BY HeavyPlace
  <2>2. x[2] = u /\ x[1] > a /\ x[1] < b
    BY <2>1, <1>3 DEF Ahead
  <2> QED
    BY <2>1, <2>2
<1> QED
  BY <1>1, <1>2, <1>3 DEF Follows

\* or in the next one, which after the last is the one of the greatest weight.
LEMMA GoesNext ==
  ASSUME NEW n \in Nat, NEW m \in Nat, NEW g \in [1 .. n -> 0 .. m], NEW a \in 1 .. n, NEW v \in 1 .. m,
         \A c \in a + 1 .. n : ~ (g[c] >= v),
         NEW h \in 1 .. m, \A c \in 1 .. n : g[c] <= h,
         NEW u, u = IF v = 1 THEN h ELSE v - 1,
         NEW b \in 1 .. n, g[b] >= u, \A c \in 1 .. n : g[c] >= u => b <= c
  PROVE  Follows(Heavy(g, n, m), <<a, v>>, <<b, u>>)
<1>0. u \in 1 .. m
  OBVIOUS
<1>1. <<b, u>> \in Heavy(g, n, m)
  BY <1>0, HeavyPlace
<1>2. ASSUME NEW x \in Heavy(g, n, m), x[2] = v PROVE x[1] <= a
  <2>1. x[1] \in 1 .. n /\ x[2] <= g[x[1]] /\ g[x[1]] \in 0 .. m
    BY HeavyPlace
  <2> QED
    BY <2>1, <1>2
<1>3. CASE v > 1
  <2>1. u = v - 1
    BY <1>3
  <2>2. Ahead(<<a, v>>, <<b, u>>)
    BY <2>1 DEF Ahead
  <2>3. ASSUME NEW x \in Heavy(g, n, m), Ahead(<<a, v>>, x), Ahead(x, <<b, u>>) PROVE FALSE
    <3>1. x[1] \in 1 .. n /\ x[2] \in 1 .. m /\ x[2] <= g[x[1]]
      BY HeavyPlace
    <3>2. x[2] = u /\ x[1] < b
      BY <3>1, <2>1, <2>3, <1>2 DEF Ahead
    <3> QED
      BY <3>1, <3>2, <1>0
  <2> QED
    BY <1>1, <2>2, <2>3 DEF Follows
<1>4. CASE v = 1
  <2>1. u = h
    BY <1>4
  <2>2. ASSUME NEW x \in Heavy(g, n, m) PROVE ~ Ahead(<<a, v>>, x) /\ ~ Ahead(x, <<b, u>>)
    <3>1. x[1] \in 1 .. n /\ x[2] \in 1 .. m /\ x[2] <= g[x[1]] /\ g[x[1]] <= h /\ g[x[1]] \in 0 .. m
      BY HeavyPlace
    <3>2. ~ Ahead(<<a, v>>, x)
      BY <3>1, <1>2, <1>4 DEF Ahead
    <3>3. ~ Ahead(x, <<b, u>>)
      BY <3>1, <2>1, <1>0 DEF Ahead
    <3> QED
      BY <3>2, <3>3
  <2> QED
    BY <1>1, <2>2 DEF Follows
<1> QED
  BY <1>3, <1>4

\* A list has no more servers than there are.
LEMMA ListShort ==
  ASSUME NEW l \in ServerLists
  PROVE  Len(l) \in Nat /\ Cardinality(Server) \in Nat /\ Len(l) <= Cardinality(Server)
<1>1. l \in Seq(Server) /\ Once(l) /\ Len(l) \in Nat /\ IsFiniteSet(Server)
  BY RoutingConstants DEF ServerLists
<1>2. l \in [1 .. Len(l) -> Server] /\ \A i, j \in 1 .. Len(l) : l[i] = l[j] => i = j
  BY <1>1 DEF Once
<1>3. l \in Injection(1 .. Len(l), Server)
  BY <1>2 DEF Injection, IsInjective
<1>4. Cardinality(1 .. Len(l)) <= Cardinality(Server)
  BY <1>1, <1>3, FS_Injection
<1> QED
  BY <1>1, <1>4, FirstNumbers, FS_CardinalityType

LEMMA WeightedNext ==
  ASSUME RoutingTypes, arrays[latest] # <<>>, opts.router = "wrr", Routing!NextHeavy.weight > 0
  PROVE  LET next == Routing!NextHeavy
             here == <<wrrParam.index + 1, wrrParam.weight>>
             there == <<next.index + 1, next.weight>>
             P == TurnPlaces(arrays[latest], weight)
         IN /\ next \in [index : -1 .. Cardinality(Server) - 1, weight : 0 .. MaxWeight]
            /\ there \in P
            /\ here \in P => Follows(P, here, there)
<1> DEFINE l == arrays[latest]
           n == Len(l)
           i == (wrrParam.index + 1) % n
           v == wrrParam.weight
           heavy(u, from) == {k \in from .. n - 1 : weight[l[k + 1]] >= u}
           first(u, from) == CHOOSE k \in heavy(u, from) : \A m \in heavy(u, from) : k <= m
           stays == i # 0 /\ heavy(v, i) # {}
           H == Routing!Heaviest
           goes == Routing!NextWeight(v)
           u == IF stays THEN v ELSE goes
           from == IF stays THEN i ELSE 0
           j == IF u <= 0 THEN i ELSE first(u, from)
           P == TurnPlaces(l, weight)
           g == [k \in 1 .. n |-> weight[l[k]]]
<1>1. Routing!NextHeavy = [index |-> j, weight |-> u]
  BY DEF Routing!NextHeavy, Routing!current
<1>2. Routing!NextHeavy.index = j /\ Routing!NextHeavy.weight = u /\ u > 0
  BY <1>1
<1>3. /\ l \in ServerLists /\ l \in Seq(Server) /\ n \in Nat \ {0} /\ weight \in ServerWeights /\ weight \in [Server -> 0 .. MaxWeight]
      /\ MaxWeight \in Nat /\ n <= Cardinality(Server) /\ Cardinality(Server) \in Nat
      /\ wrrParam.index + 1 \in Nat /\ v \in 0 .. MaxWeight
      /\ \A k \in 1 .. n : l[k] \in Server /\ weight[l[k]] \in 0 .. MaxWeight
  <2>1. l \in ServerLists /\ weight \in ServerWeights /\ l # <<>>
    BY DEF RoutingTypes
  <2>2. l \in Seq(Server) /\ n \in Nat \ {0} /\ weight \in [Server -> 0 .. MaxWeight]
    BY <2>1 DEF ServerLists, ServerWeights
  <2>3. wrrParam.index \in -1 .. Cardinality(Server) - 1 /\ v \in 0 .. MaxWeight
    BY DEF RoutingTypes
  <2> QED
    BY <2>1, <2>2, <2>3, ListShort, RoutingConstants
<1>4. /\ i \in 0 .. n - 1
      /\ wrrParam.index + 1 \in 1 .. n => i = IF wrrParam.index + 1 = n THEN 0 ELSE wrrParam.index + 1
  <2>1. i \in 0 .. n - 1 /\ (wrrParam.index + 1 < n => i = wrrParam.index + 1)
    BY <1>3, RestNext
  <2>2. wrrParam.index + 1 = n => i = 0
    BY <1>3
  <2> QED
    BY <2>1, <2>2, <1>3
<1>5. /\ H \in -1 .. MaxWeight /\ H # 0
      /\ \A k \in 1 .. n : weight[l[k]] > 0 => weight[l[k]] <= H
      /\ H > 0 => \E k \in 1 .. n : weight[l[k]] = H
  <2>1. H = HeaviestOf(l, weight)
    BY DEF Routing!Heaviest, Routing!current, Routing!ToSet, HeaviestOf
  <2>2. l \in Seq(Server) /\ weight \in ServerWeights
    BY <1>3
  <2> HIDE DEF H, l
  <2> QED
    BY <2>1, <2>2, HeaviestIs
<1>6. goes = IF v - 1 <= 0 \/ v - 1 > H THEN H ELSE v - 1
  BY DEF Routing!NextWeight
<1>7. \A w, f : f \in Nat /\ heavy(w, f) # {} =>
        first(w, f) \in heavy(w, f) /\ \A k \in heavy(w, f) : first(w, f) <= k
  <2> SUFFICES ASSUME NEW w, NEW f, f \in Nat /\ heavy(w, f) # {}
               PROVE  first(w, f) \in heavy(w, f) /\ \A k \in heavy(w, f) : first(w, f) <= k
    OBVIOUS
  <2>1. heavy(w, f) \in SUBSET Nat
    BY <1>3
  <2>2. \E k \in heavy(w, f) : \A m \in heavy(w, f) : k <= m
    BY <2>1, LeastOf
  <2> QED
    BY <2>2
<1>8. stays => i \in 1 .. n - 1 /\ heavy(v, i) # {}
  BY <1>4
<1>9. ~ stays => i = 0 \/ heavy(v, i) = {}
  OBVIOUS
<1>10. u = (IF stays THEN v ELSE goes) /\ from = (IF stays THEN i ELSE 0) /\ j = first(u, from)
  <2>1. ~ (u <= 0)
    <3>1. goes \in Int /\ v \in Int
      BY <1>3, <1>5, <1>6
    <3> HIDE DEF goes, v, stays
    <3>2. u \in Int
      BY <3>1
    <3> QED
      BY <3>2, <1>2
  <2> HIDE DEF first, stays, goes, v, i
  <2> QED
    BY <2>1
<1>11. \A w, f, k : k \in heavy(w, f) <=> k \in f .. n - 1 /\ weight[l[k + 1]] >= w
  OBVIOUS
<1>12. g \in [1 .. n -> 0 .. MaxWeight] /\ \A k \in 1 .. n : g[k] = weight[l[k]]
  BY <1>3
<1>13. P = Heavy(g, n, MaxWeight)
  <2>1. \A p \in (1 .. n) \X (1 .. MaxWeight) : PlaceShare(weight, l[p[1]]) = g[p[1]]
    BY <1>12 DEF PlaceShare
  <2> QED
    BY <2>1 DEF TurnPlaces, Heavy
<1> HIDE DEF l, n, i, v, heavy, first, stays, H, goes, u, from, j, P, g
<1>14. u \in 1 .. MaxWeight /\ from \in Nat /\ heavy(u, from) # {}
  <2>1. CASE stays
    BY <2>1, <1>2, <1>3, <1>4, <1>8, <1>10
  <2>2. CASE ~ stays
    <3>1. u = goes /\ from = 0 /\ u > 0
      BY <2>2, <1>2, <1>10
    <3>2. H > 0 /\ u <= H /\ u \in 1 .. MaxWeight
      BY <3>1, <1>3, <1>5, <1>6
    <3>3. PICK k \in 1 .. n : weight[l[k]] = H
      BY <3>2, <1>5
    <3>4. k - 1 \in 0 .. n - 1 /\ weight[l[(k - 1) + 1]] >= u
      BY <3>2, <3>3, <1>3, <1>5
    <3>5. k - 1 \in heavy(u, 0)
      BY <3>4, <1>11
    <3> QED
      BY <3>1, <3>2, <3>5
  <2> QED
    BY <2>1, <2>2
<1>15. j \in heavy(u, from) /\ \A k \in heavy(u, from) : j <= k
  BY <1>2, <1>7, <1>10, <1>14
<1>16. j \in from .. n - 1 /\ j \in 0 .. n - 1 /\ j + 1 \in 1 .. n /\ g[j + 1] >= u
  <2>1. j \in from .. n - 1 /\ weight[l[j + 1]] >= u
    BY <1>11, <1>15
  <2>2. j \in 0 .. n - 1 /\ j + 1 \in 1 .. n
    BY <2>1, <1>3, <1>14
  <2> QED
    BY <2>1, <2>2, <1>12
<1>17. <<j + 1, u>> \in P
  BY <1>3, <1>12, <1>13, <1>14, <1>16, HeavyPlace
<1>18. [index |-> j, weight |-> u] \in [index : -1 .. Cardinality(Server) - 1, weight : 0 .. MaxWeight]
  <2>1. j \in -1 .. Cardinality(Server) - 1 /\ u \in 0 .. MaxWeight
    BY <1>3, <1>14, <1>16
  <2> QED
    BY <2>1
<1>19. ASSUME <<wrrParam.index + 1, v>> \in P PROVE Follows(P, <<wrrParam.index + 1, v>>, <<j + 1, u>>)
  <2> DEFINE a == wrrParam.index + 1
  <2>1. a \in 1 .. n /\ v \in 1 .. MaxWeight /\ v <= g[a]
    BY <1>3, <1>12, <1>13, <1>19, HeavyPlace
  <2>2. i = IF a = n THEN 0 ELSE a
    BY <2>1, <1>4
  <2> HIDE DEF a
  <2>3. CASE stays
    <3>1. u = v /\ from = i /\ i = a /\ a \in 1 .. n - 1
      BY <2>1, <2>2, <2>3, <1>3, <1>8, <1>10
    <3>2. j + 1 \in a + 1 .. n /\ g[j + 1] >= v
      BY <3>1, <1>3, <1>16
    <3>3. \A c \in a + 1 .. n : g[c] >= v => j + 1 <= c
      <4> SUFFICES ASSUME NEW c \in a + 1 .. n, g[c] >= v PROVE j + 1 <= c
        OBVIOUS
      <4>1. c - 1 \in from .. n - 1 /\ (c - 1) + 1 = c /\ c \in 1 .. n
        BY <3>1, <1>3
      <4>2. c - 1 \in heavy(u, from)
        BY <4>1, <3>1, <1>11, <1>12
      <4> QED
        BY <4>1, <4>2, <1>15, <1>16
    <3>4. Follows(Heavy(g, n, MaxWeight), <<a, v>>, <<j + 1, v>>)
      BY <3>2, <3>3, <2>1, <1>3, <1>12, StaysNext
    <3> QED
      BY <3>1, <3>4, <1>13 DEF a
  <2>4. CASE ~ stays
    <3>1. u = goes /\ from = 0
      BY <2>4, <1>10
    <3>2. \A c \in a + 1 .. n : ~ (g[c] >= v)
      <4> SUFFICES ASSUME NEW c \in a + 1 .. n, g[c] >= v PROVE FALSE
        OBVIOUS
      <4>1. a # n /\ i = a /\ i # 0
        BY <2>1, <2>2, <1>3
      <4>2. c - 1 \in i .. n - 1 /\ (c - 1) + 1 = c /\ c \in 1 .. n
        BY <4>1, <2>1, <1>3
      <4>3. c - 1 \in heavy(v, i)
        BY <4>2, <1>11, <1>12
      <4> QED
        BY <4>1, <4>3, <2>4, <1>9
    <3>3. g[a] > 0 /\ g[a] <= H
      <4>1. g[a] \in 0 .. MaxWeight /\ g[a] = weight[l[a]]
        BY <2>1, <1>12
      <4>2. g[a] > 0
        BY <4>1, <2>1
      <4> QED
        BY <4>1, <4>2, <2>1, <1>5
    <3>4. H \in 1 .. MaxWeight /\ \A c \in 1 .. n : g[c] <= H
      <4>1. \A c \in 1 .. n : g[c] \in 0 .. MaxWeight /\ (g[c] > 0 => g[c] <= H)
        BY <1>5, <1>12
      <4>2. g[a] \in 0 .. MaxWeight
        BY <4>1, <2>1
      <4>3. H \in 1 .. MaxWeight
        BY <4>2, <3>3, <1>3, <1>5
      <4> QED
        BY <4>1, <4>3
    <3>5. u = IF v = 1 THEN H ELSE v - 1
      BY <3>1, <3>3, <3>4, <2>1, <1>6, <1>3, <1>12
    <3>6. \A c \in 1 .. n : g[c] >= u => j + 1 <= c
      <4> SUFFICES ASSUME NEW c \in 1 .. n, g[c] >= u PROVE j + 1 <= c
        OBVIOUS
      <4>1. c - 1 \in 0 .. n - 1 /\ (c - 1) + 1 = c
        BY <1>3
      <4>2. c - 1 \in heavy(u, from)
        BY <4>1, <3>1, <1>11, <1>12
      <4> QED
        BY <4>1, <4>2, <1>15, <1>16
    <3>7. Follows(Heavy(g, n, MaxWeight), <<a, v>>, <<j + 1, u>>)
      BY <3>2, <3>4, <3>5, <3>6, <2>1, <1>3, <1>12, <1>16, GoesNext
    <3> QED
      BY <3>7, <1>13 DEF a
  <2> QED
    BY <2>3, <2>4
<1>20. /\ Routing!NextHeavy \in [index : -1 .. Cardinality(Server) - 1, weight : 0 .. MaxWeight]
       /\ <<Routing!NextHeavy.index + 1, Routing!NextHeavy.weight>> = <<j + 1, u>>
  BY <1>1, <1>2, <1>18
<1> QED
  BY <1>17, <1>19, <1>20 DEF P, l, v

\* rr goes round the list.
LEMMA RoundNext ==
  ASSUME RoutingTypes, arrays[latest] # <<>>, opts.router # "wrr"
  PROVE  LET n == Len(arrays[latest])
             here == <<((rrParam - 1) % n) + 1, 1>>
             there == <<(rrParam % n) + 1, 1>>
             P == TurnPlaces(arrays[latest], weight)
         IN there \in P /\ (rrParam > 0 => Follows(P, here, there))
<1> DEFINE l == arrays[latest]
           n == Len(l)
           P == TurnPlaces(l, weight)
           g == [k \in 1 .. n |-> 1]
           a == ((rrParam - 1) % n) + 1
           b == (rrParam % n) + 1
<1>1. n \in Nat \ {0} /\ MaxWeight \in Nat \ {0} /\ rrParam \in Nat
  <2>1. l \in Seq(Server) /\ l # <<>> /\ rrParam \in 0 .. picks /\ picks \in 0 .. MaxPicks
    BY DEF RoutingTypes, ServerLists
  <2> QED
    BY <2>1, RoutingConstants
<1>2. P = Heavy(g, n, MaxWeight) /\ g \in [1 .. n -> 0 .. MaxWeight] /\ \A k \in 1 .. n : g[k] = 1
  <2>1. \A p \in (1 .. n) \X (1 .. MaxWeight) : PlaceShare(weight, l[p[1]]) = g[p[1]]
    BY DEF PlaceShare
  <2> QED
    BY <2>1, <1>1 DEF TurnPlaces, Heavy
<1>3. b \in 1 .. n
  <2> DEFINE r == rrParam % n
  <2>1. r \in 0 .. n - 1
    BY <1>1, RestNext
  <2>2. b = r + 1
    OBVIOUS
  <2> HIDE DEF r, b, n
  <2> QED
    BY <2>1, <2>2, <1>1
<1> HIDE DEF g, P
<1>4. 1 \in 1 .. MaxWeight
  BY <1>1
<1>5. <<b, 1>> \in P
  <2> HIDE DEF b, n
  <2>1. g[b] >= 1
    BY <1>2, <1>3
  <2> QED
    BY <2>1, <1>1, <1>2, <1>3, <1>4, HeavyPlace
<1>6. ASSUME rrParam > 0 PROVE Follows(P, <<a, 1>>, <<b, 1>>)
  <2>1. rrParam - 1 \in Nat /\ (rrParam - 1) + 1 = rrParam
    BY <1>1, <1>6
  <2>2. a \in 1 .. n /\ b = IF a = n THEN 1 ELSE a + 1
    <3> DEFINE r == (rrParam - 1) % n
               t == rrParam % n
    <3>1. r \in 0 .. n - 1 /\ t = IF r = n - 1 THEN 0 ELSE r + 1
      BY <2>1, <1>1, RestNext
    <3>2. a = r + 1 /\ b = t + 1
      OBVIOUS
    <3> HIDE DEF r, t, a, b, n
    <3> QED
      BY <3>1, <3>2, <1>1
  <2> HIDE DEF a, b, n
  <2>3. CASE a = n
    <3>1. /\ \A c \in a + 1 .. n : ~ (g[c] >= 1)
          /\ \A c \in 1 .. n : g[c] <= 1
          /\ b = 1 /\ b \in 1 .. n /\ g[b] >= 1 /\ \A c \in 1 .. n : g[c] >= 1 => b <= c
      BY <2>2, <2>3, <1>1, <1>2, <1>3
    <3> QED
      BY <3>1, <2>2, <1>1, <1>2, <1>4, GoesNext
  <2>4. CASE a # n
    <3>1. b \in a + 1 .. n /\ g[b] >= 1 /\ \A c \in a + 1 .. n : g[c] >= 1 => b <= c
      BY <2>2, <2>4, <1>1, <1>2, <1>3
    <3> QED
      BY <3>1, <2>2, <1>1, <1>2, <1>4, StaysNext
  <2> QED
    BY <2>3, <2>4
<1> QED
  BY <1>5, <1>6 DEF P

-----------------------------------------------------------------------------
(* Lists *)

\* The elements of a list.
Within(l, m) == \A i \in DOMAIN l : \E j \in DOMAIN m : l[i] = m[j]

LEMMA DropKeeps ==
  ASSUME NEW l \in ServerLists, NEW s
  PROVE  /\ Routing!Drop(l, s) \in ServerLists /\ Within(Routing!Drop(l, s), l)
         /\ \A i \in DOMAIN Routing!Drop(l, s) : Routing!Drop(l, s)[i] # s
<1> DEFINE n == Len(l)
           k == CHOOSE i \in DOMAIN l : l[i] = s
           d == Routing!Drop(l, s)
<1>1. l \in Seq(Server) /\ n \in Nat /\ DOMAIN l = 1 .. n /\ Once(l)
  BY DEF ServerLists
<1>2. CASE \A i \in 1 .. n : l[i] # s
  <2>1. d = l
    BY <1>1, <1>2 DEF Routing!Drop, Routing!ToSet
  <2> QED
    BY <2>1, <1>1, <1>2 DEF Within
<1>3. CASE \E i \in 1 .. n : l[i] = s
  <2>1. k \in 1 .. n /\ l[k] = s
    BY <1>1, <1>3
  <2>2. d = SubSeq(l, 1, k - 1) \o SubSeq(l, k + 1, n)
    BY <1>1, <1>3 DEF Routing!Drop, Routing!ToSet, Routing!RemoveAt
  <2> HIDE DEF k, d
  <2>3. /\ SubSeq(l, 1, k - 1) \in Seq(Server) /\ Len(SubSeq(l, 1, k - 1)) = k - 1
        /\ \A i \in 1 .. k - 1 : SubSeq(l, 1, k - 1)[i] = l[i]
    <3>1. k - 1 \in Int /\ \A i \in 1 .. k - 1 : l[i] \in Server
      BY <2>1, <1>1
    <3>2. /\ SubSeq(l, 1, k - 1) \in Seq(Server)
          /\ Len(SubSeq(l, 1, k - 1)) = IF 1 <= k - 1 THEN (k - 1) - 1 + 1 ELSE 0
          /\ \A i \in 1 .. (k - 1) - 1 + 1 : SubSeq(l, 1, k - 1)[i] = l[1 + i - 1]
      BY <3>1, SubSeqProperties
    <3> QED
      BY <3>2, <2>1, <1>1
  <2>4. /\ SubSeq(l, k + 1, n) \in Seq(Server) /\ Len(SubSeq(l, k + 1, n)) = n - k
        /\ \A i \in 1 .. n - k : SubSeq(l, k + 1, n)[i] = l[k + i]
    <3>1. k + 1 \in Int /\ n \in Int /\ \A i \in k + 1 .. n : l[i] \in Server
      BY <2>1, <1>1
    <3>2. /\ SubSeq(l, k + 1, n) \in Seq(Server)
          /\ Len(SubSeq(l, k + 1, n)) = IF k + 1 <= n THEN n - (k + 1) + 1 ELSE 0
          /\ \A i \in 1 .. n - (k + 1) + 1 : SubSeq(l, k + 1, n)[i] = l[(k + 1) + i - 1]
      BY <3>1, SubSeqProperties
    <3> DEFINE v == SubSeq(l, k + 1, n)
    <3>3. /\ k + 1 <= n => n - (k + 1) + 1 = n - k
          /\ ~ (k + 1 <= n) => n - k = 0
          /\ \A i \in 1 .. n - k : (k + 1) + i - 1 = k + i
      <4>1. n \in Nat /\ k \in Nat /\ k <= n
        BY <2>1, <1>1
      <4> HIDE DEF n
      <4>2. \A i \in 1 .. n - k : (k + 1) + i - 1 = k + i
        BY <4>1
      <4> QED
        BY <4>1, <4>2
    <3>4. n - (k + 1) + 1 = n - k
      BY <2>1, <1>1
    <3>5. \A i \in 1 .. n - k : v[i] = l[(k + 1) + i - 1]
      BY <3>2, <3>4
    <3>6. v \in Seq(Server) /\ Len(v) = IF k + 1 <= n THEN n - (k + 1) + 1 ELSE 0
      BY <3>2
    <3> HIDE DEF v, n
    <3>7. \A i \in 1 .. n - k : v[i] = l[k + i]
      BY <3>3, <3>5
    <3>8. Len(v) = n - k
      BY <3>3, <3>6
    <3> QED
      BY <3>6, <3>7, <3>8 DEF v, n
  <2>5. /\ d \in Seq(Server) /\ Len(d) = n - 1
        /\ \A i \in 1 .. n - 1 : d[i] = IF i < k THEN l[i] ELSE l[i + 1]
    <3> DEFINE u == SubSeq(l, 1, k - 1)
               v == SubSeq(l, k + 1, n)
    <3>0. u \in Seq(Server) /\ v \in Seq(Server) /\ Len(u) = k - 1 /\ Len(v) = n - k /\ d = u \o v
      BY <2>2, <2>3, <2>4
    <3>a. /\ \A i \in 1 .. k - 1 : u[i] = l[i]
          /\ \A i \in 1 .. n - k : v[i] = l[k + i]
      BY <2>3, <2>4
    <3> HIDE DEF u, v
    <3>1. /\ d \in Seq(Server) /\ Len(d) = Len(u) + Len(v)
          /\ \A i \in 1 .. Len(u) + Len(v) : d[i] = IF i <= Len(u) THEN u[i] ELSE v[i - Len(u)]
      BY <3>0, ConcatProperties
    <3>2. ASSUME NEW i \in 1 .. n - 1 PROVE d[i] = IF i < k THEN l[i] ELSE l[i + 1]
      <4>1. CASE i < k
        BY <4>1, <3>0, <3>1, <3>a, <2>1, <1>1
      <4>2. CASE ~ (i < k)
        <5>1. i - (k - 1) \in 1 .. n - k /\ k + (i - (k - 1)) = i + 1
          BY <4>2, <2>1, <1>1
        <5>2. d[i] = v[i - (k - 1)]
          BY <4>2, <3>0, <3>1, <2>1, <1>1
        <5> QED
          BY <5>1, <5>2, <4>2, <3>a
      <4> QED
        BY <4>1, <4>2
    <3> QED
      BY <3>0, <3>1, <3>2, <2>1, <1>1
  <2> DEFINE at(i) == IF i < k THEN i ELSE i + 1
  <2>6. DOMAIN d = 1 .. n - 1 /\ \A i \in 1 .. n - 1 : i \in 1 .. n /\ i + 1 \in 1 .. n
    BY <2>5, <1>1
  <2>a. \A i \in 1 .. n - 1 : d[i] = l[at(i)] /\ at(i) \in 1 .. n /\ at(i) # k
    <3> SUFFICES ASSUME NEW i \in 1 .. n - 1 PROVE d[i] = l[at(i)] /\ at(i) \in 1 .. n /\ at(i) # k
      OBVIOUS
    <3>1. at(i) \in 1 .. n /\ at(i) # k
      BY <2>1, <2>6, <1>1
    <3>2. d[i] = l[at(i)]
      BY <2>5
    <3> QED
      BY <3>1, <3>2
  <2>b. \A i, j \in 1 .. n - 1 : at(i) = at(j) => i = j
    BY <2>1, <1>1
  <2>c. \A i, j \in 1 .. n : l[i] = l[j] => i = j
    BY <1>1 DEF Once
  <2> HIDE DEF at
  <2>7. Once(d)
    <3> SUFFICES ASSUME NEW i \in 1 .. n - 1, NEW j \in 1 .. n - 1, d[i] = d[j] PROVE i = j
      BY <2>6 DEF Once
    <3> QED
      BY <2>a, <2>b, <2>c
  <2>8. Within(d, l)
    BY <2>a, <2>6, <1>1 DEF Within
  <2>9. \A i \in DOMAIN d : d[i] # s
    BY <2>1, <2>6, <2>a, <2>c
  <2> QED
    BY <2>5, <2>7, <2>8, <2>9 DEF ServerLists, d
<1> QED
  BY <1>1, <1>2, <1>3

LEMMA RestKeeps ==
  ASSUME NEW l \in ServerLists, NEW s
  PROVE  /\ Routing!Rest(l, s) \in ServerLists /\ Within(Routing!Rest(l, s), l)
         /\ \A i \in DOMAIN Routing!Rest(l, s) : Routing!Rest(l, s)[i] # s
<1> DEFINE d == Routing!Drop(l, s)
           n == Len(d)
           reachable == {k \in DOMAIN d : rpc = "started" /\ Routing!Reachable(d[k])}
           k == CHOOSE i \in reachable : \A m \in reachable : i <= m
           r == Routing!Rest(l, s)
<1>1. d \in ServerLists /\ Within(d, l) /\ \A i \in DOMAIN d : d[i] # s
  BY DropKeeps
<1>2. r = IF reachable = {} THEN <<>> ELSE SubSeq(d, k, n)
  BY DEF Routing!Rest
<1> HIDE DEF d
<1>3. d \in Seq(Server) /\ n \in Nat /\ DOMAIN d = 1 .. n /\ Once(d)
  BY <1>1 DEF ServerLists
<1>4. CASE reachable = {}
  <2>1. r = <<>> /\ <<>> \in Seq(Server) /\ DOMAIN <<>> = {}
    BY <1>2, <1>4
  <2> HIDE DEF r
  <2> QED
    BY <2>1 DEF ServerLists, Once, Within, r
<1>5. CASE reachable # {}
  <2>1. k \in 1 .. n
    <3>1. reachable \in SUBSET Nat
      BY <1>3
    <3>2. \E i \in reachable : \A m \in reachable : i <= m
      BY <3>1, <1>5, LeastOf
    <3>3. k \in reachable
      BY <3>2
    <3> QED
      BY <3>3, <1>3
  <2>2. r = SubSeq(d, k, n)
    BY <1>2, <1>5
  <2> HIDE DEF k, r
  <2>3. /\ r \in Seq(Server) /\ Len(r) = n - k + 1
        /\ \A i \in 1 .. n - k + 1 : r[i] = d[k + i - 1]
    <3>1. k \in Int /\ n \in Int /\ k <= n /\ \A i \in k .. n : d[i] \in Server
      BY <2>1, <1>3
    <3> QED
      BY <3>1, <2>2, SubSeqProperties
  <2>4. DOMAIN r = 1 .. n - k + 1 /\ \A i \in 1 .. n - k + 1 : k + i - 1 \in 1 .. n
    BY <2>1, <2>3, <1>3
  <2>5. Once(r)
    <3> SUFFICES ASSUME NEW i \in 1 .. n - k + 1, NEW j \in 1 .. n - k + 1, r[i] = r[j] PROVE i = j
      BY <2>4 DEF Once
    <3>1. k + i - 1 = k + j - 1
      BY <2>3, <2>4, <1>3 DEF Once
    <3> QED
      BY <3>1, <2>1
  <2>6. Within(r, l) /\ \A i \in DOMAIN r : r[i] # s
    <3> SUFFICES ASSUME NEW i \in 1 .. n - k + 1 PROVE r[i] # s /\ \E j \in DOMAIN l : r[i] = l[j]
      BY <2>4 DEF Within
    <3>1. r[i] = d[k + i - 1] /\ k + i - 1 \in DOMAIN d
      BY <2>3, <2>4, <1>3
    <3> QED
      BY <3>1, <1>1 DEF Within
  <2> QED
    BY <2>3, <2>5, <2>6 DEF ServerLists, r
<1> QED
  BY <1>4, <1>5

LEMMA AddedKeeps ==
  ASSUME NEW l \in ServerLists, NEW s \in Server
  PROVE  /\ Routing!ReplaceServer(l, s) \in ServerLists
         /\ \A i \in DOMAIN Routing!ReplaceServer(l, s) :
              Routing!ReplaceServer(l, s)[i] = s \/ \E j \in DOMAIN l : Routing!ReplaceServer(l, s)[i] = l[j]
<1> DEFINE n == Len(l)
           r == Routing!ReplaceServer(l, s)
<1>1. l \in Seq(Server) /\ n \in Nat /\ DOMAIN l = 1 .. n /\ Once(l)
  BY DEF ServerLists
<1>2. CASE \E i \in 1 .. n : l[i] = s
  <2>1. r = l
    BY <1>1, <1>2 DEF Routing!ReplaceServer, Routing!ToSet
  <2> QED
    BY <2>1
<1>3. CASE \A i \in 1 .. n : l[i] # s
  <2>1. r = Append(l, s)
    BY <1>1, <1>3 DEF Routing!ReplaceServer, Routing!ToSet
  <2> HIDE DEF r
  <2>2. /\ r \in Seq(Server) /\ Len(r) = n + 1 /\ r[n + 1] = s
        /\ \A i \in 1 .. n : r[i] = l[i]
    BY <2>1, <1>1, AppendProperties
  <2>3. DOMAIN r = 1 .. n + 1 /\ \A i \in 1 .. n + 1 : i \in 1 .. n \/ i = n + 1
    BY <2>2, <1>1
  <2>4. Once(r)
    BY <2>2, <2>3, <1>1, <1>3 DEF Once
  <2> QED
    BY <2>2, <2>3, <2>4, <1>1 DEF ServerLists, r
<1> QED
  BY <1>1, <1>2, <1>3

\* The lists that replace the list of the type.
LEMMA ListsAre ==
  ASSUME NEW S \in SUBSET Server, NEW l \in Routing!Lists(S)
  PROVE  l \in ServerLists
<1>1. IsFiniteSet(S) /\ Cardinality(S) \in Nat
  BY RoutingConstants, FS_Subset, FS_CardinalityType
<1>2. PICK n \in 0 .. Cardinality(S) : l \in [1 .. n -> S] /\ Routing!IsInjective(l)
  BY RoutingSets DEF Routing!Lists
<1>3. l \in Seq(Server)
  BY <1>1, <1>2
<1>4. Once(l)
  BY <1>2 DEF Once, Routing!IsInjective
<1> QED
  BY <1>3, <1>4 DEF ServerLists

-----------------------------------------------------------------------------
(* Every step keeps the invariant *)

LEMMA RoundIs == RoutingTypes => Routing!Round = Cardinality(TurnPlaces(arrays[latest], weight))
<1> SUFFICES ASSUME RoutingTypes PROVE Routing!Round = Cardinality(TurnPlaces(arrays[latest], weight))
  OBVIOUS
<1> DEFINE l == arrays[latest]
<1>1. l \in Seq(Server) /\ DOMAIN l = 1 .. Len(l)
  BY DEF RoutingTypes, ServerLists
<1>3. \A s : Routing!Share(s) = PlaceShare(weight, s)
  BY DEF Routing!Share, PlaceShare
<1>4. {p \in (DOMAIN l) \X (1 .. MaxWeight) : p[2] <= Routing!Share(l[p[1]])} = TurnPlaces(l, weight)
  BY <1>1, <1>3 DEF TurnPlaces
<1> QED
  BY <1>4, RoutingSets DEF Routing!Round, Routing!current

LEMMA TurnKeeps ==
  ASSUME RoutingTypes, Turned, NEW s, Routing!TakesTurn(s), NEW there \in TurnPlaces(arrays[latest], weight),
         s = arrays[latest][there[1]],
         Len(turns.chosen) > 0 /\ turns.list = arrays[latest] /\ Here \in TurnPlaces(arrays[latest], weight)
           => Follows(TurnPlaces(arrays[latest], weight), Here, there)
  PROVE  /\ turns' \in [list : ServerLists, weight : ServerWeights, chosen : Seq(Server)]
         /\ turns'.list = arrays[latest] /\ turns'.weight = weight
         /\ \E q : Window(TurnPlaces(arrays[latest], weight), arrays[latest], turns'.chosen, q, there)
<1> DEFINE l == arrays[latest]
           P == TurnPlaces(l, weight)
           same == turns.list = l /\ turns.weight = weight
           chosen == IF same THEN turns.chosen ELSE <<>>
           all == Append(chosen, l[there[1]])
           new == IF Len(all) > Cardinality(P) THEN Tail(all) ELSE all
<1>1. /\ l \in ServerLists /\ l \in Seq(Server) /\ weight \in ServerWeights /\ chosen \in Seq(Server)
      /\ turns.chosen \in Seq(Server)
  BY DEF RoutingTypes, ServerLists
<1>2. turns' = [list |-> l, weight |-> weight, chosen |-> new]
  BY RoundIs DEF Routing!TakesTurn, Routing!current
<1>3. PICK q : Len(chosen) > 0 => Window(P, l, chosen, q, Here) /\ Follows(P, Here, there)
  <2>1. CASE same /\ Len(turns.chosen) > 0
    <3>1. PICK q : Window(P, l, turns.chosen, q, Here)
      BY <2>1 DEF Turned
    <3>2. Len(turns.chosen) \in 1 .. Len(turns.chosen)
      BY <2>1, <1>1
    <3>3. Here \in P
      BY <3>1, <3>2, <2>1 DEF Window
    <3>4. Follows(P, Here, there)
      BY <3>3, <2>1
    <3> HIDE DEF P, l
    <3> QED
      BY <3>1, <3>4, <2>1
  <2>2. CASE ~ (same /\ Len(turns.chosen) > 0)
    <3>1. ~ (Len(chosen) > 0)
      BY <2>2, <1>1
    <3> QED
      BY <3>1
  <2> QED
    BY <2>1, <2>2
<1> HIDE DEF l, chosen
<1>4. new \in Seq(Server) /\ \E r : Window(P, l, new, r, there)
  <2>1. there \in TurnPlaces(l, weight)
    BY DEF l
  <2> QED
    BY <1>1, <1>3, <2>1, TurnTaken
<1>5. turns'.list = l /\ turns'.weight = weight /\ turns'.chosen = new
  BY <1>2
<1>6. turns' \in [list : ServerLists, weight : ServerWeights, chosen : Seq(Server)]
  <2> HIDE DEF new
  <2> QED
    BY <1>1, <1>2, <1>4
<1> HIDE DEF new, P
<1> QED
  BY <1>4, <1>5, <1>6 DEF l, P

LEMMA ImageFinite ==
  ASSUME NEW S, IsFiniteSet(S), NEW f
  PROVE  IsFiniteSet({f[x] : x \in S})
<1> DEFINE T == {f[x] : x \in S}
           h == [x \in S |-> f[x]]
<1>1. h \in [S -> T] /\ \A t \in T : \E x \in S : h[x] = t
  OBVIOUS
<1> HIDE DEF T, h
<1>2. h \in Surjection(S, T)
  BY <1>1 DEF Surjection
<1> QED
  BY <1>2, FS_Surjection DEF T

LEMMA PointsFinite ==
  ASSUME NEW S \in SUBSET Server
  PROVE  IsFiniteSet(UNION {Point[s] : s \in S}) /\ UNION {Point[s] : s \in S} \in SUBSET Nat
<1>1. IsFiniteSet(S) /\ \A s \in S : IsFiniteSet(Point[s]) /\ Point[s] \subseteq Nat
  BY RoutingConstants, FS_Subset
<1> DEFINE T == {Point[s] : s \in S}
<1>2. IsFiniteSet(T)
  BY <1>1, ImageFinite
<1>3. \A x \in T : IsFiniteSet(x) /\ x \subseteq Nat
  BY <1>1
<1> HIDE DEF T
<1>4. IsFiniteSet(UNION T) /\ UNION T \in SUBSET Nat
  BY <1>2, <1>3, FS_UNION
<1> QED
  BY <1>4 DEF T

LEMMA RingMade == ASSUME NEW S \in SUBSET Server PROVE RingOK(Routing!Ring(S))
<1> DEFINE A == UNION {Point[s] : s \in S}
<1>1. IsFiniteSet(A) /\ A \in SUBSET Nat
  BY PointsFinite
<1>2. Routing!Ring(S) = [made |-> TRUE, keys |-> A \X {1}, at |-> A]
  BY DEF Routing!Ring
<1> HIDE DEF A
<1>3. IsFiniteSet({1})
  BY FS_Singleton
<1>4. IsFiniteSet(A \X {1})
  BY <1>1, <1>3, FS_Product
<1>5. A \X {1} \in SUBSET (Nat \X Nat)
  <2> SUFFICES ASSUME NEW a \in A, NEW b \in {1} PROVE <<a, b>> \in Nat \X Nat
    BY Zenon
  <2> QED
    BY <1>1
<1>6. A = {k[1] : k \in A \X {1}}
  <2>1. ASSUME NEW a \in A PROVE a \in {k[1] : k \in A \X {1}}
    <3>1. <<a, 1>> \in A \X {1} /\ <<a, 1>>[1] = a
      OBVIOUS
    <3> QED
      BY <3>1
  <2>2. ASSUME NEW k \in A \X {1} PROVE k[1] \in A
    OBVIOUS
  <2> QED
    BY <2>1, <2>2
<1> QED
  BY <1>1, <1>2, <1>4, <1>5, <1>6 DEF RingOK

LEMMA NodeAdded ==
  ASSUME NEW r, RingOK(r), NEW s \in Server
  PROVE  /\ RingOK(Routing!AddNode(r, s))
         /\ Routing!AddNode(r, s).at = r.at \union Point[s]
<1> DEFINE C(p) == Routing!Cardinality({k \in r.keys : k[1] = p}) + 1
           f == [p \in Point[s] |-> <<p, C(p)>>]
           K == {f[p] : p \in Point[s]}
<1>1. IsFiniteSet(Point[s]) /\ Point[s] \in SUBSET Nat
  BY RoutingConstants
<1>2. /\ r = [made |-> r.made, keys |-> r.keys, at |-> r.at] /\ r.made \in BOOLEAN
      /\ r.keys \in SUBSET (Nat \X Nat) /\ r.at \in SUBSET Nat /\ IsFiniteSet(r.keys)
      /\ r.at = {k[1] : k \in r.keys}
  BY DEF RingOK
<1>3. \A p : C(p) \in Nat
  <2> SUFFICES ASSUME NEW p PROVE C(p) \in Nat
    OBVIOUS
  <2>1. {k \in r.keys : k[1] = p} \subseteq r.keys
    OBVIOUS
  <2>2. Cardinality({k \in r.keys : k[1] = p}) \in Nat
    BY <2>1, <1>2, FS_Subset, FS_CardinalityType
  <2> QED
    BY <2>2, RoutingSets
<1>a. K = {<<p, C(p)>> : p \in Point[s]}
  OBVIOUS
<1>4. Routing!AddNode(r, s) = [r EXCEPT !.keys = @ \union K, !.at = @ \union Point[s]]
  <2> HIDE DEF K
  <2> QED
    BY <1>a DEF Routing!AddNode
<1> HIDE DEF C
<1>b. \A p \in Point[s] : f[p] = <<p, C(p)>> /\ p \in Nat /\ C(p) \in Nat
  BY <1>1, <1>3
<1> HIDE DEF f
<1>5. IsFiniteSet(K)
  BY <1>1, ImageFinite
<1>6. K \in SUBSET (Nat \X Nat) /\ Point[s] = {k[1] : k \in K}
  <2>1. ASSUME NEW p \in Point[s] PROVE f[p] \in K /\ f[p][1] = p /\ f[p] \in Nat \X Nat
    BY <1>b
  <2>2. K \in SUBSET (Nat \X Nat)
    BY <2>1
  <2>3. \A p \in Point[s] : p \in {k[1] : k \in K}
    BY <2>1
  <2>4. \A k \in K : k[1] \in Point[s]
    BY <2>1
  <2> QED
    BY <2>2, <2>3, <2>4
<1> HIDE DEF K
<1>7. IsFiniteSet(r.keys \union K)
  BY <1>2, <1>5, FS_Union
<1>8. r.at \union Point[s] = {k[1] : k \in r.keys \union K}
  BY <1>2, <1>6
<1>9. Routing!AddNode(r, s) = [made |-> r.made, keys |-> r.keys \union K, at |-> r.at \union Point[s]]
  BY <1>2, <1>4
<1> QED
  BY <1>1, <1>2, <1>6, <1>7, <1>8, <1>9 DEF RingOK

LEMMA NodeRemoved ==
  ASSUME NEW r, RingOK(r), NEW s \in Server
  PROVE  /\ RingOK(Routing!RemoveNode(r, s))
         /\ Routing!RemoveNode(r, s).at = r.at \ Point[s]
<1> DEFINE K == {k \in r.keys : k[1] \notin Point[s]}
<1>2. /\ r = [made |-> r.made, keys |-> r.keys, at |-> r.at] /\ r.made \in BOOLEAN
      /\ r.keys \in SUBSET (Nat \X Nat) /\ r.at \in SUBSET Nat /\ IsFiniteSet(r.keys)
      /\ r.at = {k[1] : k \in r.keys}
  BY DEF RingOK
<1>3. Routing!RemoveNode(r, s) = [r EXCEPT !.keys = K, !.at = @ \ Point[s]]
  BY DEF Routing!RemoveNode
<1>4. K \subseteq r.keys /\ r.at \ Point[s] = {k[1] : k \in K}
  BY <1>2
<1> HIDE DEF K
<1>5. IsFiniteSet(K)
  BY <1>2, <1>4, FS_Subset
<1>6. Routing!RemoveNode(r, s) = [made |-> r.made, keys |-> K, at |-> r.at \ Point[s]]
  BY <1>2, <1>3
<1> QED
  BY <1>2, <1>4, <1>5, <1>6 DEF RingOK

LEMMA IdleCall ==
  /\ Routing!Idle \in CallRecords
  /\ Routing!Idle.at = {} /\ Routing!Idle.array = -1 /\ Routing!Idle.tried = {}
BY RoutingConstants DEF Routing!Idle, CallRecords

LEMMA RoutingInit == Routing!Init => RoutingInv
<1> SUFFICES ASSUME Routing!Init PROVE RoutingInv
  OBVIOUS
<1>1. /\ rpc = "inited" /\ opts \in Options /\ proxies = FALSE /\ list = <<>> /\ known = {} /\ onlines = {}
      /\ weight = [s \in Server |-> 0] /\ arrays = [g \in 0 .. MaxReplaced |-> <<>>] /\ latest = 0
      /\ rrParam = 0 /\ wrrParam = [index |-> -1, weight |-> 0]
      /\ laParam = [made |-> FALSE, count |-> [s \in Server |-> -1]]
      /\ ring = [made |-> FALSE, keys |-> {}, at |-> {}] /\ rpcs = [c \in Call |-> Routing!Idle] /\ picks = 0
      /\ turns = [list |-> <<>>, weight |-> [s \in Server |-> 0], chosen |-> <<>>]
  BY DEF Routing!Init, Routing!NewClient, Routing!Uncounted, Routing!NoRing, Routing!NoTurns
<1>2. MaxReplaced \in Nat /\ MaxPicks \in Nat /\ MaxWeight \in Nat /\ Cardinality(Server) \in Nat
  BY RoutingConstants, FS_CardinalityType
<1>3. <<>> \in ServerLists /\ [s \in Server |-> 0] \in ServerWeights
  BY <1>2 DEF ServerLists, ServerWeights, Once
<1>4. RoutingTypes
  <2>1. turns \in [list : ServerLists, weight : ServerWeights, chosen : Seq(Server)]
    BY <1>1, <1>3
  <2>2. rpcs \in [Call -> CallRecords] /\ \A c \in Call : rpcs[c].array <= latest
    BY <1>1, IdleCall
  <2>3. laParam \in [made : BOOLEAN, count : [Server -> -1 .. picks]]
    BY <1>1
  <2>4. wrrParam \in [index : -1 .. Cardinality(Server) - 1, weight : 0 .. MaxWeight]
    BY <1>1, <1>2
  <2>5. arrays \in [0 .. MaxReplaced -> ServerLists] /\ latest \in 0 .. MaxReplaced
    BY <1>1, <1>2, <1>3
  <2>6. picks \in 0 .. MaxPicks /\ rrParam \in 0 .. picks
    BY <1>1, <1>2
  <2> QED
    BY <1>1, <1>3, <2>1, <2>2, <2>3, <2>4, <2>5, <2>6 DEF RoutingTypes
<1>5. RingHas
  BY <1>1, FS_EmptySet DEF RingHas, RingOK
<1>6. Listed
  BY <1>1 DEF Listed
<1>7. \A c \in Call : Tries(c)
  BY <1>1, IdleCall DEF Tries
<1>8. Turned
  BY <1>1 DEF Turned
<1> QED
  BY <1>4, <1>5, <1>6, <1>7, <1>8 DEF RoutingInv

LEMMA SameTurns ==
  ASSUME Turned, UNCHANGED <<opts, turns, wrrParam, rrParam>>
  PROVE  Turned'
<1>1. Here' = Here
  BY DEF Here
<1>2. TurnPlaces(turns.list, turns.weight)' = TurnPlaces(turns.list, turns.weight)
  BY DEF TurnPlaces, PlaceShare
<1>3. ASSUME NEW q
      PROVE  Window(TurnPlaces(turns.list, turns.weight), turns.list, turns.chosen, q, Here)'
               <=> Window(TurnPlaces(turns.list, turns.weight), turns.list, turns.chosen, q, Here)
  BY <1>1, <1>2 DEF Window, Follows
<1> QED
  BY <1>3 DEF Turned

LEMMA SameTries ==
  ASSUME UNCHANGED <<arrays, rpcs>>, NEW c, Tries(c)
  PROVE  Tries(c)'
BY DEF Tries

\* A call that goes to a server, or to all of a list, has not failed over.
LEMMA CallGoes ==
  ASSUME RoutingTypes, NEW c \in Call, NEW S \in SUBSET Server, NEW all \in BOOLEAN,
         rpcs' = [rpcs EXCEPT ![c] = [at |-> S, array |-> -1, tried |-> {}, all |-> all]],
         UNCHANGED <<arrays, latest>>
  PROVE  /\ rpcs' \in [Call -> CallRecords] /\ \A d \in Call : rpcs'[d].array <= latest
         /\ (\A d \in Call : Tries(d)) => \A d \in Call : Tries(d)'
<1>1. rpcs \in [Call -> CallRecords] /\ latest \in 0 .. MaxReplaced /\ MaxReplaced \in Nat
      /\ \A d \in Call : rpcs[d].array <= latest
  BY RoutingConstants DEF RoutingTypes
<1>2. [at |-> S, array |-> -1, tried |-> {}, all |-> all] \in CallRecords
  BY <1>1 DEF CallRecords
<1>3. rpcs' \in [Call -> CallRecords]
  BY <1>1, <1>2
<1>4. \A d \in Call : rpcs'[d].array <= latest
  BY <1>1
<1>5. ASSUME NEW d \in Call, Tries(d) PROVE Tries(d)'
  BY <1>1, <1>5 DEF Tries
<1> QED
  BY <1>3, <1>4, <1>5

LEMMA ArrayIs ==
  ASSUME RoutingTypes, NEW c \in Call
  PROVE  /\ Routing!ArrayOf(c) \in 0 .. latest /\ Routing!ArrayOf(c) \in 0 .. MaxReplaced
         /\ Routing!ArrayOf(c) = IF Traced /\ rpcs[c].array >= 0 THEN rpcs[c].array ELSE latest
<1>1. /\ rpcs[c].array \in -1 .. MaxReplaced /\ rpcs[c].array <= latest /\ latest \in 0 .. MaxReplaced
      /\ MaxReplaced \in Nat
  BY RoutingConstants DEF RoutingTypes, CallRecords
<1> QED
  BY <1>1 DEF Routing!ArrayOf

LEMMA FailsOverKeeps ==
  ASSUME RoutingTypes, Traced => \A d \in Call : Tries(d), NEW c \in Call, NEW s \in Server \union {"none"},
         NEW tried \in SUBSET (Server \union {"none"}), tried \subseteq rpcs[c].tried,
         Routing!FailsOver(c, s, tried), latest' = latest
  PROVE  /\ arrays' \in [0 .. MaxReplaced -> ServerLists]
         /\ rpcs' \in [Call -> CallRecords] /\ \A d \in Call : rpcs'[d].array <= latest
         /\ Traced => \A d \in Call : Tries(d)'
<1> DEFINE g == Routing!ArrayOf(c)
           rest == Routing!Rest(arrays[g], s)
           rec == IF rest = <<>> THEN Routing!Idle
                  ELSE [at |-> {Head(rest)}, array |-> g, tried |-> tried \union {s}, all |-> FALSE]
<1>1. /\ rpcs \in [Call -> CallRecords] /\ latest \in 0 .. MaxReplaced /\ MaxReplaced \in Nat
      /\ arrays \in [0 .. MaxReplaced -> ServerLists] /\ \A d \in Call : rpcs[d].array <= latest
  BY RoutingConstants DEF RoutingTypes
<1>2. g \in 0 .. latest /\ g \in 0 .. MaxReplaced /\ g = IF Traced /\ rpcs[c].array >= 0 THEN rpcs[c].array ELSE latest
  BY ArrayIs
<1>3. arrays' = [arrays EXCEPT ![g] = rest] /\ rpcs' = [rpcs EXCEPT ![c] = rec]
  BY DEF Routing!FailsOver
<1> HIDE DEF g
<1>4. arrays[g] \in ServerLists
  BY <1>1, <1>2
<1>5. rest \in ServerLists /\ Within(rest, arrays[g]) /\ \A i \in DOMAIN rest : rest[i] # s
  BY <1>4, RestKeeps
<1> HIDE DEF rest
<1>6. arrays' \in [0 .. MaxReplaced -> ServerLists]
  BY <1>1, <1>2, <1>3, <1>5
<1>7. rest # <<>> => 1 \in DOMAIN rest /\ Head(rest) = rest[1] /\ Head(rest) \in Server
  BY <1>5 DEF ServerLists
<1>8. rec \in CallRecords
  <2>1. CASE rest = <<>>
    BY <2>1, IdleCall
  <2>2. CASE rest # <<>>
    <3>1. {Head(rest)} \in SUBSET Server /\ g \in -1 .. MaxReplaced /\ tried \union {s} \in SUBSET (Server \union {"none"})
      BY <2>2, <1>1, <1>2, <1>7
    <3> QED
      BY <3>1, <2>2 DEF CallRecords
  <2> QED
    BY <2>1, <2>2
<1>9. rec.array <= latest
  BY <1>1, <1>2, IdleCall
<1>10. rpcs' \in [Call -> CallRecords] /\ \A d \in Call : rpcs'[d] = IF d = c THEN rec ELSE rpcs[d]
  BY <1>1, <1>3, <1>8
<1>11. \A d \in Call : rpcs'[d].array <= latest
  BY <1>1, <1>9, <1>10
<1>12. ASSUME Traced, NEW d \in Call PROVE Tries(d)'
  <2>0. Tries(c) /\ Tries(d)
    BY <1>12
  <2>1. \A h \in 0 .. MaxReplaced : Within(arrays'[h], arrays[h])
    BY <1>1, <1>2, <1>3, <1>5 DEF Within
  <2>2. CASE d # c
    <3>1. rpcs'[d] = rpcs[d] /\ rpcs[d].array \in -1 .. MaxReplaced
      BY <2>2, <1>1, <1>10 DEF CallRecords
    <3>2. CASE rpcs[d].array = -1
      BY <3>1, <3>2, <2>0 DEF Tries
    <3>3. CASE rpcs[d].array >= 0
      <4>1. rpcs[d].array \in 0 .. MaxReplaced
        BY <3>1, <3>3
      <4> QED
        BY <3>1, <3>3, <4>1, <2>0, <2>1 DEF Tries, Within
    <3> QED
      BY <3>1, <3>2, <3>3
  <2>3. CASE d = c
    <3>1. CASE rest = <<>>
      <4>1. rpcs'[c] = Routing!Idle
        BY <3>1, <1>10
      <4> QED
        BY <4>1, <2>3, IdleCall DEF Tries
    <3>2. CASE rest # <<>>
      <4>1. \A i \in DOMAIN arrays[g] : arrays[g][i] \notin tried
        <5>1. CASE rpcs[c].array >= 0
          <6>1. g = rpcs[c].array
            BY <5>1, <1>2, <1>12
          <6> QED
            BY <6>1, <5>1, <2>0 DEF Tries
        <5>2. CASE ~ (rpcs[c].array >= 0)
          <6>1. rpcs[c].array = -1
            BY <5>2, <1>1 DEF CallRecords
          <6> QED
            BY <6>1, <2>0 DEF Tries
        <5> QED
          BY <5>1, <5>2
      <4>2. \A i \in DOMAIN rest : rest[i] \notin tried \union {s}
        BY <4>1, <1>5 DEF Within
      <4>3. rpcs'[c] = [at |-> {Head(rest)}, array |-> g, tried |-> tried \union {s}, all |-> FALSE]
        BY <3>2, <1>10
      <4>4. arrays'[g] = rest /\ g >= 0 /\ g # -1
        BY <1>1, <1>2, <1>3
      <4>5. /\ rpcs'[c].at = {Head(rest)} /\ rpcs'[c].array = g /\ rpcs'[c].tried = tried \union {s}
        BY <4>3
      <4> HIDE DEF rec
      <4> QED
        BY <4>2, <4>4, <4>5, <3>2, <2>3, <1>7 DEF Tries
    <3> QED
      BY <3>1, <3>2
  <2> QED
    BY <2>2, <2>3
<1> QED
  BY <1>6, <1>10, <1>11, <1>12

LEMMA RpcInvokeKeeps ==
  ASSUME RoutingTypes, Traced => \A d \in Call : Tries(d), NEW c \in Call, NEW s \in Server \union {"none"},
         Routing!RpcInvoke(c, s), latest' = latest
  PROVE  /\ arrays' \in [0 .. MaxReplaced -> ServerLists]
         /\ rpcs' \in [Call -> CallRecords] /\ \A d \in Call : rpcs'[d].array <= latest
         /\ Traced => \A d \in Call : Tries(d)'
<1>1. CASE ~ opts.failover
  <2>1. UNCHANGED <<arrays, rpcs>>
    BY <1>1 DEF Routing!RpcInvoke
  <2> QED
    BY <2>1, SameTries DEF RoutingTypes
<1>2. CASE opts.failover /\ s \in Server /\ Routing!Reachable(s)
  <2>1. arrays' = arrays /\ rpcs' = [rpcs EXCEPT ![c] = [at |-> {s}, array |-> -1, tried |-> {}, all |-> FALSE]]
    BY <1>2 DEF Routing!RpcInvoke, Routing!Idle
  <2>2. {s} \in SUBSET Server
    BY <1>2
  <2>3. /\ rpcs' \in [Call -> CallRecords] /\ \A d \in Call : rpcs'[d].array <= latest
        /\ (\A d \in Call : Tries(d)) => \A d \in Call : Tries(d)'
    BY <2>1, <2>2, CallGoes
  <2>4. arrays' \in [0 .. MaxReplaced -> ServerLists]
    BY <2>1 DEF RoutingTypes
  <2> QED
    BY <2>3, <2>4
<1>3. CASE opts.failover /\ ~ (s \in Server /\ Routing!Reachable(s))
  <2>1. Routing!FailsOver(c, s, {})
    BY <1>3 DEF Routing!RpcInvoke
  <2> QED
    BY <2>1, FailsOverKeeps
<1> QED
  BY <1>1, <1>2, <1>3

\* The params of the routers.
ParamTypes ==
  /\ picks \in 0 .. MaxPicks
  /\ rrParam \in 0 .. picks
  /\ wrrParam \in [index : -1 .. Cardinality(Server) - 1, weight : 0 .. MaxWeight]
  /\ laParam \in [made : BOOLEAN, count : [Server -> -1 .. picks]]
  /\ turns \in [list : ServerLists, weight : ServerWeights, chosen : Seq(Server)]

LEMMA RrKeeps ==
  ASSUME RoutingInv, NEW s, opts.router = "rr", Routing!RrRoute(s), opts' = opts,
         picks < MaxPicks, picks' = picks + 1
  PROVE  ParamTypes' /\ RingHas' /\ Turned'
<1> DEFINE l == arrays[latest]
           P == TurnPlaces(l, weight)
           there == <<(rrParam % Len(l)) + 1, 1>>
<1>1. /\ l # <<>> /\ s = l[there[1]] /\ rrParam' = rrParam + 1 /\ Routing!TakesTurn(s)
      /\ UNCHANGED <<wrrParam, laParam, ring>>
  BY DEF Routing!RrRoute, Routing!RrNext, Routing!current
<1>2. RoutingTypes /\ RingHas /\ Turned
  BY DEF RoutingInv
<1>3. picks \in 0 .. MaxPicks /\ rrParam \in 0 .. picks /\ MaxPicks \in Nat
  BY <1>2, RoutingConstants DEF RoutingTypes
<1>4. there \in P /\ (rrParam > 0 => Follows(P, <<((rrParam - 1) % Len(l)) + 1, 1>>, there))
  BY <1>1, <1>2, RoundNext
<1>5. Len(turns.chosen) > 0 /\ turns.list = l => rrParam > 0 /\ Here = <<((rrParam - 1) % Len(l)) + 1, 1>>
  BY <1>2 DEF Turned, Here
<1> HIDE DEF P, there
<1>6. /\ turns' \in [list : ServerLists, weight : ServerWeights, chosen : Seq(Server)]
      /\ turns'.list = l /\ turns'.weight = weight
      /\ \E q : Window(P, l, turns'.chosen, q, there)
  <2>1. there \in TurnPlaces(arrays[latest], weight) /\ s = arrays[latest][there[1]]
    BY <1>1, <1>4 DEF P
  <2>2. Len(turns.chosen) > 0 /\ turns.list = l => Follows(TurnPlaces(arrays[latest], weight), Here, there)
    BY <1>4, <1>5 DEF P
  <2> QED
    BY <1>1, <1>2, <2>1, <2>2, TurnKeeps DEF P
<1>7. ParamTypes'
  <2>1. picks' \in 0 .. MaxPicks /\ rrParam' \in 0 .. picks' /\ (0 .. picks) \subseteq (0 .. picks') /\ -1 .. picks \subseteq -1 .. picks'
    BY <1>1, <1>3
  <2>2. laParam' \in [made : BOOLEAN, count : [Server -> -1 .. picks']]
    BY <1>1, <1>2, <2>1 DEF RoutingTypes
  <2>3. wrrParam' \in [index : -1 .. Cardinality(Server) - 1, weight : 0 .. MaxWeight]
    BY <1>1, <1>2 DEF RoutingTypes
  <2> QED
    BY <1>6, <2>1, <2>2, <2>3 DEF ParamTypes
<1>8. Turned'
  <2>1. Here' = there
    <3>1. (rrParam + 1) - 1 = rrParam
      BY <1>3
    <3> QED
      BY <1>1, <1>6, <3>1 DEF Here, there
  <2>2. TurnPlaces(turns.list, turns.weight)' = P
    BY <1>6 DEF P, TurnPlaces, PlaceShare
  <2>3. rrParam' > 0
    BY <1>1, <1>3
  <2>4. PICK q : Window(P, l, turns'.chosen, q, there)
    BY <1>6
  <2>5. (Window(TurnPlaces(turns.list, turns.weight), turns.list, turns.chosen, q, Here))'
    BY <2>1, <2>2, <2>4, <1>6 DEF Window, Follows
  <2> QED
    BY <2>3, <2>5 DEF Turned
<1>9. RingHas'
  BY <1>1, <1>2 DEF RingHas, RingOK
<1> QED
  BY <1>7, <1>8, <1>9

LEMMA WrrKeeps ==
  ASSUME RoutingInv, NEW s, opts.router = "wrr", Routing!WrrRoute(s), opts' = opts,
         picks < MaxPicks, picks' = picks + 1
  PROVE  ParamTypes' /\ RingHas' /\ Turned'
<1> DEFINE l == arrays[latest]
           P == TurnPlaces(l, weight)
           next == Routing!NextHeavy
           there == <<next.index + 1, next.weight>>
<1>1. /\ l # <<>> /\ next.weight > 0 /\ s = l[there[1]] /\ wrrParam' = next /\ Routing!TakesTurn(s)
      /\ UNCHANGED <<rrParam, laParam, ring>>
  BY DEF Routing!WrrRoute, Routing!current
<1>2. RoutingTypes /\ RingHas /\ Turned
  BY DEF RoutingInv
<1>3. picks \in 0 .. MaxPicks /\ rrParam \in 0 .. picks /\ MaxPicks \in Nat
  BY <1>2, RoutingConstants DEF RoutingTypes
<1> HIDE DEF next
<1>4. /\ next \in [index : -1 .. Cardinality(Server) - 1, weight : 0 .. MaxWeight]
      /\ there \in P
      /\ <<wrrParam.index + 1, wrrParam.weight>> \in P => Follows(P, <<wrrParam.index + 1, wrrParam.weight>>, there)
  BY <1>1, <1>2, WeightedNext DEF next
<1>5. Here = <<wrrParam.index + 1, wrrParam.weight>>
  BY DEF Here
<1> HIDE DEF P, there
<1>6. /\ turns' \in [list : ServerLists, weight : ServerWeights, chosen : Seq(Server)]
      /\ turns'.list = l /\ turns'.weight = weight
      /\ \E q : Window(P, l, turns'.chosen, q, there)
  <2>1. there \in TurnPlaces(arrays[latest], weight) /\ s = arrays[latest][there[1]]
    BY <1>1, <1>4 DEF P
  <2>2. Here \in TurnPlaces(arrays[latest], weight) => Follows(TurnPlaces(arrays[latest], weight), Here, there)
    BY <1>4, <1>5 DEF P
  <2> QED
    BY <1>1, <1>2, <2>1, <2>2, TurnKeeps DEF P
<1>7. ParamTypes'
  <2>1. picks' \in 0 .. MaxPicks /\ rrParam' \in 0 .. picks' /\ -1 .. picks \subseteq -1 .. picks'
    BY <1>1, <1>3
  <2>2. laParam' \in [made : BOOLEAN, count : [Server -> -1 .. picks']]
    BY <1>1, <1>2, <2>1 DEF RoutingTypes
  <2> QED
    BY <1>1, <1>4, <1>6, <2>1, <2>2 DEF ParamTypes
<1>8. Turned'
  <2>1. Here' = there
    BY <1>1 DEF Here, there
  <2>2. TurnPlaces(turns.list, turns.weight)' = P
    BY <1>6 DEF P, TurnPlaces, PlaceShare
  <2>4. PICK q : Window(P, l, turns'.chosen, q, there)
    BY <1>6
  <2>5. (Window(TurnPlaces(turns.list, turns.weight), turns.list, turns.chosen, q, Here))'
    BY <2>1, <2>2, <2>4, <1>6 DEF Window, Follows
  <2> QED
    BY <2>5 DEF Turned
<1>9. RingHas'
  BY <1>1, <1>2 DEF RingHas, RingOK
<1> QED
  BY <1>7, <1>8, <1>9

LEMMA LaKeeps ==
  ASSUME RoutingInv, NEW s \in Server, opts.router = "la", Routing!LaRoute(s), opts' = opts,
         picks < MaxPicks, picks' = picks + 1
  PROVE  ParamTypes' /\ RingHas' /\ Turned'
<1> DEFINE counts == Routing!LaCounts
<1>1. /\ laParam' = [made |-> TRUE, count |-> [counts EXCEPT ![s] = IF @ = -1 THEN @ ELSE @ + 1]]
      /\ UNCHANGED <<rrParam, wrrParam, ring, turns>>
  BY DEF Routing!LaRoute, Routing!Uncounted
<1>2. RoutingTypes /\ RingHas /\ Turned
  BY DEF RoutingInv
<1>3. /\ picks \in 0 .. MaxPicks /\ rrParam \in 0 .. picks /\ MaxPicks \in Nat
      /\ laParam \in [made : BOOLEAN, count : [Server -> -1 .. picks]]
  BY <1>2, RoutingConstants DEF RoutingTypes
<1>4. counts \in [Server -> -1 .. picks]
  BY <1>3 DEF Routing!LaCounts, Routing!Uncounted
<1> HIDE DEF counts
<1>5. laParam' \in [made : BOOLEAN, count : [Server -> -1 .. picks']]
  <2>1. \A t \in Server : counts[t] \in -1 .. picks
    BY <1>4
  <2>2. \A t \in Server : counts[t] \in -1 .. picks' /\ counts[t] + 1 \in -1 .. picks'
    BY <2>1, <1>3
  <2>3. [counts EXCEPT ![s] = IF @ = -1 THEN @ ELSE @ + 1] \in [Server -> -1 .. picks']
    BY <2>2, <1>4
  <2> QED
    BY <2>3, <1>1
<1>6. picks' \in 0 .. MaxPicks /\ rrParam' \in 0 .. picks'
  BY <1>1, <1>3
<1>7. ParamTypes'
  BY <1>1, <1>2, <1>5, <1>6 DEF ParamTypes, RoutingTypes
<1>8. RingHas'
  BY <1>1, <1>2 DEF RingHas, RingOK
<1> QED
  BY <1>1, <1>2, <1>7, <1>8, SameTurns

\* The other routers change no more than the ring.
LEMMA OthersKeep ==
  ASSUME RoutingInv, UNCHANGED <<opts, picks, rrParam, wrrParam, laParam, turns>>,
         ring' = ring \/ ring' = Routing!Ring(Routing!ToSet(arrays[latest]))
  PROVE  ParamTypes' /\ RingHas' /\ Turned'
<1>1. RoutingTypes /\ RingHas /\ Turned
  BY DEF RoutingInv
<1>2. ParamTypes'
  BY <1>1 DEF ParamTypes, RoutingTypes
<1>3. Routing!ToSet(arrays[latest]) \in SUBSET Server
  <2>1. arrays[latest] \in Seq(Server)
    BY <1>1 DEF RoutingTypes, ServerLists
  <2> QED
    BY <2>1 DEF Routing!ToSet
<1>4. RingHas'
  BY <1>1, <1>3, RingMade DEF RingHas, RingOK
<1> QED
  BY <1>1, <1>2, <1>4, SameTurns

LEMMA TargetKeeps ==
  ASSUME RoutingInv, NEW s, Routing!GetRouteTarget(s), opts' = opts
  PROVE  ParamTypes' /\ RingHas' /\ Turned'
<1>1. /\ picks < MaxPicks
      /\ picks' = IF opts.router \in {"rr", "wrr", "la"} THEN picks + 1 ELSE picks
  BY DEF Routing!GetRouteTarget
<1>2. CASE opts.router = "rd" /\ Routing!RdRoute(s)
  BY <1>1, <1>2, OthersKeep DEF Routing!RdRoute
<1>3. CASE opts.router = "rr" /\ Routing!RrRoute(s)
  BY <1>1, <1>3, RrKeeps
<1>4. CASE opts.router = "wrr" /\ Routing!WrrRoute(s)
  BY <1>1, <1>4, WrrKeeps
<1>5. CASE opts.router = "la" /\ Routing!LaRoute(s)
  <2>1. s \in Server
    <3>1. s \in Routing!ToSet(arrays[latest])
      BY <1>5 DEF Routing!LaRoute, Routing!current
    <3>2. arrays[latest] \in Seq(Server)
      BY DEF RoutingInv, RoutingTypes, ServerLists
    <3> QED
      BY <3>1, <3>2 DEF Routing!ToSet
  <2> QED
    BY <1>1, <1>5, <2>1, LaKeeps
<1>6. CASE opts.router = "ch" /\ Routing!ChRoute(s)
  <2>1. /\ ring' = IF ring.made THEN ring ELSE Routing!Ring(Routing!ToSet(arrays[latest]))
        /\ UNCHANGED <<rrParam, wrrParam, laParam, turns>>
    BY <1>6 DEF Routing!ChRoute, Routing!current
  <2> QED
    BY <1>1, <1>6, <2>1, OthersKeep
<1>7. CASE opts.router = "df" /\ Routing!DefRoute(s)
  BY <1>1, <1>7, OthersKeep DEF Routing!DefRoute
<1> QED
  BY <1>2, <1>3, <1>4, <1>5, <1>6, <1>7 DEF Routing!GetRouteTarget

\* What calls leave alone.
ServerTypes ==
  /\ rpc \in {"inited", "started", "closed"} /\ opts \in Options /\ proxies \in BOOLEAN
  /\ list \in ServerLists
  /\ known \in SUBSET Server /\ onlines \in SUBSET Server
  /\ weight \in ServerWeights
  /\ latest \in 0 .. MaxReplaced

CallTypes ==
  /\ arrays \in [0 .. MaxReplaced -> ServerLists]
  /\ rpcs \in [Call -> CallRecords]
  /\ \A c \in Call : rpcs[c].array <= latest

LEMMA RoutingParts ==
  /\ RoutingTypes <=> ServerTypes /\ CallTypes /\ ParamTypes
  /\ RoutingTypes' <=> ServerTypes' /\ CallTypes' /\ ParamTypes'
<1>1. RoutingTypes <=> ServerTypes /\ CallTypes /\ ParamTypes
  BY DEF RoutingTypes, ServerTypes, CallTypes, ParamTypes
<1>2. RoutingTypes' <=> ServerTypes' /\ CallTypes' /\ ParamTypes'
  BY DEF RoutingTypes, ServerTypes, CallTypes, ParamTypes
<1> QED
  BY <1>1, <1>2

Untouched == UNCHANGED <<rpc, opts, proxies, list, known, onlines, weight, latest>>

LEMMA UntouchedKeeps ==
  ASSUME RoutingInv, Untouched
  PROVE  ServerTypes' /\ Listed'
BY DEF RoutingInv, RoutingTypes, ServerTypes, Listed, Untouched

LEMMA ProxyCallKeeps == ASSUME RoutingInv, NEW c \in Call, Routing!ProxyCall(c) PROVE RoutingInv'
<1>1. PICK s \in Server \union {"none"} : Routing!GetRouteTarget(s) /\ Routing!RpcInvoke(c, s)
  BY DEF Routing!ProxyCall, Routing!NoServer
<1>2. Untouched /\ opts' = opts /\ latest' = latest
  BY DEF Routing!ProxyCall, Routing!UnchangedServers, Untouched
<1>3. ParamTypes' /\ RingHas' /\ Turned'
  BY <1>1, <1>2, TargetKeeps
<1>4. ServerTypes' /\ Listed'
  BY <1>2, UntouchedKeeps
<1>5. RoutingTypes /\ (Traced => \A d \in Call : Tries(d))
  BY DEF RoutingInv
<1>6. /\ arrays' \in [0 .. MaxReplaced -> ServerLists]
      /\ rpcs' \in [Call -> CallRecords] /\ \A d \in Call : rpcs'[d].array <= latest
      /\ Traced => \A d \in Call : Tries(d)'
  BY <1>1, <1>2, <1>5, RpcInvokeKeeps
<1>7. CallTypes'
  BY <1>2, <1>6 DEF CallTypes
<1>8. RoutingTypes'
  BY <1>3, <1>4, <1>7, RoutingParts
<1> QED
  BY <1>3, <1>4, <1>6, <1>8 DEF RoutingInv

LEMMA NestedCallKeeps == ASSUME RoutingInv, NEW c \in Call, Routing!NestedCall(c) PROVE RoutingInv'
<1> DEFINE s == arrays[latest][(rrParam % Len(arrays[latest])) + 1]
<1>1. /\ ~ opts.failover /\ Routing!RpcInvoke(c, s)
      /\ picks < MaxPicks /\ picks' = picks + 1
      /\ rrParam' = rrParam + 1 /\ turns' = Routing!NoTurns
      /\ UNCHANGED <<wrrParam, laParam, ring>>
  BY DEF Routing!NestedCall, Routing!current
<1>2. Untouched /\ opts' = opts
  BY DEF Routing!NestedCall, Routing!UnchangedServers, Untouched
<1>3. UNCHANGED <<arrays, rpcs>>
  BY <1>1 DEF Routing!RpcInvoke
<1>4. RoutingTypes /\ RingHas /\ (Traced => \A d \in Call : Tries(d))
  BY DEF RoutingInv
<1>5. ServerTypes' /\ Listed'
  BY <1>2, UntouchedKeeps
<1>6. CallTypes'
  BY <1>2, <1>3, <1>4 DEF RoutingTypes, CallTypes, Untouched
<1>7. Routing!NoTurns \in [list : ServerLists, weight : ServerWeights, chosen : Seq(Server)] /\ Routing!NoTurns.chosen = <<>>
  <2>1. <<>> \in ServerLists /\ [t \in Server |-> 0] \in ServerWeights
    BY RoutingConstants DEF ServerLists, ServerWeights, Once
  <2> QED
    BY <2>1 DEF Routing!NoTurns
<1>8. ParamTypes'
  <2>1. picks \in 0 .. MaxPicks /\ rrParam \in 0 .. picks /\ MaxPicks \in Nat
    BY <1>4, RoutingConstants DEF RoutingTypes
  <2>2. picks' \in 0 .. MaxPicks /\ rrParam' \in 0 .. picks' /\ -1 .. picks \subseteq -1 .. picks'
    BY <2>1, <1>1
  <2>3. laParam' \in [made : BOOLEAN, count : [Server -> -1 .. picks']]
    BY <2>2, <1>1, <1>4 DEF RoutingTypes
  <2>4. wrrParam' \in [index : -1 .. Cardinality(Server) - 1, weight : 0 .. MaxWeight]
    BY <1>1, <1>4 DEF RoutingTypes
  <2> QED
    BY <2>2, <2>3, <2>4, <1>1, <1>7 DEF ParamTypes
<1>9. RoutingTypes'
  BY <1>5, <1>6, <1>8, RoutingParts
<1>10. RingHas' /\ Turned'
  BY <1>1, <1>4, <1>7 DEF RingHas, RingOK, Turned
<1>11. Traced => \A d \in Call : Tries(d)'
  BY <1>3, <1>4, SameTries
<1> QED
  BY <1>5, <1>9, <1>10, <1>11 DEF RoutingInv

\* The steps of a call that choose nothing.
LEMMA CallKeeps ==
  ASSUME RoutingInv, Untouched, UNCHANGED Routing!params,
         arrays' \in [0 .. MaxReplaced -> ServerLists],
         rpcs' \in [Call -> CallRecords], \A c \in Call : rpcs'[c].array <= latest,
         Traced => \A c \in Call : Tries(c)'
  PROVE  RoutingInv'
<1>1. UNCHANGED <<opts, rrParam, wrrParam, laParam, ring, picks, turns>>
  BY DEF Untouched, Routing!params
<1>2. ServerTypes' /\ Listed'
  BY UntouchedKeeps
<1>3. CallTypes'
  BY DEF CallTypes, Untouched
<1>4. ParamTypes'
  BY <1>1 DEF RoutingInv, RoutingTypes, ParamTypes
<1>5. RoutingTypes'
  BY <1>2, <1>3, <1>4, RoutingParts
<1>6. RingHas'
  BY <1>1 DEF RoutingInv, RingHas, RingOK
<1>7. Turned'
  BY <1>1, SameTurns DEF RoutingInv
<1> QED
  BY <1>2, <1>5, <1>6, <1>7 DEF RoutingInv

LEMMA ToServerKeeps ==
  ASSUME RoutingInv, NEW c \in Call, NEW s \in Server, Routing!ToServer(c, s)
  PROVE  RoutingInv'
<1>1. Routing!RpcInvoke(c, s) /\ Untouched /\ latest' = latest /\ UNCHANGED Routing!params
  BY DEF Routing!ToServer, Routing!UnchangedServers, Untouched
<1>2. RoutingTypes /\ (Traced => \A d \in Call : Tries(d))
  BY DEF RoutingInv
<1>3. /\ arrays' \in [0 .. MaxReplaced -> ServerLists]
      /\ rpcs' \in [Call -> CallRecords] /\ \A d \in Call : rpcs'[d].array <= latest
      /\ Traced => \A d \in Call : Tries(d)'
  BY <1>1, <1>2, RpcInvokeKeeps
<1> QED
  BY <1>1, <1>3, CallKeeps

LEMMA ToAllKeeps == ASSUME RoutingInv, NEW c \in Call, Routing!ToAll(c) PROVE RoutingInv'
<1>1. /\ rpcs' = [rpcs EXCEPT ![c] = [at |-> Routing!ToSet(list), array |-> -1, tried |-> {}, all |-> TRUE]]
      /\ Untouched /\ UNCHANGED <<arrays, latest>> /\ UNCHANGED Routing!params
  <2>1. rpcs' = [rpcs EXCEPT ![c] = [at |-> Routing!ToSet(list), array |-> -1, tried |-> {}, all |-> TRUE]]
    BY DEF Routing!ToAll
  <2>2. Untouched /\ UNCHANGED <<arrays, latest>> /\ UNCHANGED Routing!params
    BY DEF Routing!ToAll, Routing!UnchangedServers, Untouched
  <2> QED
    BY <2>1, <2>2
<1>2. RoutingTypes /\ (Traced => \A d \in Call : Tries(d))
  BY DEF RoutingInv
<1>3. Routing!ToSet(list) \in SUBSET Server
  <2>1. list \in Seq(Server)
    BY <1>2 DEF RoutingTypes, ServerLists
  <2> QED
    BY <2>1 DEF Routing!ToSet
<1>4. /\ rpcs' \in [Call -> CallRecords] /\ \A d \in Call : rpcs'[d].array <= latest
      /\ (\A d \in Call : Tries(d)) => \A d \in Call : Tries(d)'
  BY <1>1, <1>2, <1>3, CallGoes
<1>5. arrays' \in [0 .. MaxReplaced -> ServerLists]
  BY <1>1, <1>2 DEF RoutingTypes
<1> QED
  BY <1>1, <1>2, <1>4, <1>5, CallKeeps

LEMMA ReplyKeeps ==
  ASSUME RoutingInv, NEW c \in Call, NEW s \in Server, Routing!Reply(c, s)
  PROVE  RoutingInv'
<1> DEFINE left == rpcs[c].at \ {s}
           rec == IF left = {} THEN Routing!Idle ELSE [rpcs[c] EXCEPT !.at = left]
<1>1. /\ rpcs' = [rpcs EXCEPT ![c] = rec]
      /\ Untouched /\ UNCHANGED <<arrays, latest>> /\ UNCHANGED Routing!params
  <2>1. rpcs' = [rpcs EXCEPT ![c] = rec]
    BY DEF Routing!Reply
  <2>2. Untouched /\ UNCHANGED <<arrays, latest>> /\ UNCHANGED Routing!params
    BY DEF Routing!Reply, Routing!UnchangedServers, Untouched
  <2> QED
    BY <2>1, <2>2
<1>2. RoutingTypes /\ (Traced => \A d \in Call : Tries(d))
  BY DEF RoutingInv
<1>3. /\ rpcs \in [Call -> CallRecords] /\ \A d \in Call : rpcs[d].array <= latest
      /\ latest \in 0 .. MaxReplaced /\ arrays \in [0 .. MaxReplaced -> ServerLists] /\ MaxReplaced \in Nat
  BY <1>2, RoutingConstants DEF RoutingTypes
<1>4. /\ rec \in CallRecords /\ rec.array <= latest
      /\ rec = Routing!Idle
           \/ (rec.at \subseteq rpcs[c].at /\ rec.array = rpcs[c].array /\ rec.tried = rpcs[c].tried)
  <2>1. CASE left = {}
    BY <2>1, <1>3, IdleCall
  <2>2. CASE left # {}
    <3>1. rec = [rpcs[c] EXCEPT !.at = left] /\ rpcs[c] \in CallRecords
      BY <2>2, <1>3
    <3>2. rec \in CallRecords /\ rec.at \subseteq rpcs[c].at /\ rec.array = rpcs[c].array /\ rec.tried = rpcs[c].tried
      BY <3>1 DEF CallRecords
    <3> QED
      BY <3>2, <1>3
  <2> QED
    BY <2>1, <2>2
<1> HIDE DEF rec
<1>5. rpcs' \in [Call -> CallRecords] /\ \A d \in Call : rpcs'[d] = IF d = c THEN rec ELSE rpcs[d]
  BY <1>1, <1>3, <1>4
<1>6. \A d \in Call : rpcs'[d].array <= latest
  BY <1>3, <1>4, <1>5
<1>7. ASSUME NEW d \in Call, Tries(d) PROVE Tries(d)'
  BY <1>1, <1>4, <1>5, <1>7, IdleCall DEF Tries
<1>8. arrays' \in [0 .. MaxReplaced -> ServerLists]
  BY <1>1, <1>3
<1> QED
  BY <1>1, <1>2, <1>5, <1>6, <1>7, <1>8, CallKeeps

LEMMA SendFailsKeeps ==
  ASSUME RoutingInv, NEW c \in Call, NEW s \in Server, Routing!SendFails(c, s)
  PROVE  RoutingInv'
<1>1. Routing!FailsOver(c, s, rpcs[c].tried) /\ Untouched /\ latest' = latest /\ UNCHANGED Routing!params
  BY DEF Routing!SendFails, Routing!UnchangedServers, Untouched
<1>2. RoutingTypes /\ (Traced => \A d \in Call : Tries(d))
  BY DEF RoutingInv
<1>3. rpcs[c].tried \in SUBSET (Server \union {"none"}) /\ rpcs[c].tried \subseteq rpcs[c].tried
  BY <1>2 DEF RoutingTypes, CallRecords
<1>4. /\ arrays' \in [0 .. MaxReplaced -> ServerLists]
      /\ rpcs' \in [Call -> CallRecords] /\ \A d \in Call : rpcs'[d].array <= latest
      /\ Traced => \A d \in Call : Tries(d)'
  BY <1>1, <1>2, <1>3, FailsOverKeeps
<1> QED
  BY <1>1, <1>4, CallKeeps

\* Servers that come and go change no router but the ring.
LEMMA ServersKeep ==
  ASSUME RoutingInv, UNCHANGED <<opts, picks, turns, rrParam, wrrParam, laParam>>,
         ServerTypes', CallTypes', RingHas', Listed',
         Traced => \A c \in Call : Tries(c)'
  PROVE  RoutingInv'
<1>1. ParamTypes'
  BY DEF RoutingInv, RoutingTypes, ParamTypes
<1>2. RoutingTypes'
  BY <1>1, RoutingParts
<1>3. Turned'
  BY SameTurns DEF RoutingInv
<1> QED
  BY <1>2, <1>3 DEF RoutingInv

LEMMA ClientKeeps ==
  ASSUME RoutingInv, Routing!StartClient \/ Routing!StopClient
  PROVE  RoutingInv'
<1>1. rpc' \in {"inited", "started", "closed"}
  BY DEF Routing!StartClient, Routing!StopClient
<1>2. /\ UNCHANGED <<opts, proxies, list, known, onlines, weight, arrays, latest, rpcs>>
      /\ UNCHANGED <<rrParam, wrrParam, laParam, ring, picks, turns>>
  BY DEF Routing!StartClient, Routing!StopClient, Routing!servers, Routing!params
<1>3. RoutingTypes /\ RingHas /\ Listed /\ (Traced => \A c \in Call : Tries(c))
  BY DEF RoutingInv
<1>4. ServerTypes' /\ CallTypes'
  BY <1>1, <1>2, <1>3 DEF RoutingTypes, ServerTypes, CallTypes
<1>5. RingHas' /\ Listed'
  BY <1>2, <1>3 DEF RingHas, RingOK, Listed
<1>6. Traced => \A c \in Call : Tries(c)'
  BY <1>2, <1>3, SameTries
<1> QED
  BY <1>2, <1>4, <1>5, <1>6, ServersKeep

LEMMA AddServersKeeps ==
  ASSUME RoutingInv, NEW s \in Server, NEW w \in 0 .. MaxWeight, Routing!AddServers(s, w)
  PROVE  RoutingInv'
<1> DEFINE rec(c) == IF Routing!ArrayOf(c) = latest THEN [rpcs[c] EXCEPT !.tried = @ \ {s}] ELSE rpcs[c]
           new == Routing!ReplaceServer(arrays[latest], s)
<1>1. /\ proxies' \in BOOLEAN /\ list' = Routing!ReplaceServer(list, s)
      /\ known' = known \union {s} /\ onlines' = onlines \union {s} /\ weight' = [weight EXCEPT ![s] = w]
      /\ arrays' = [arrays EXCEPT ![latest] = new]
      /\ ring' = IF ring.made THEN Routing!AddNode(ring, s) ELSE ring
      /\ UNCHANGED <<rpc, opts, picks, turns, rrParam, wrrParam, laParam, latest>>
  <2>1. proxies' \in BOOLEAN /\ list' = Routing!ReplaceServer(list, s)
    BY DEF Routing!AddServers, Routing!GenProxies, RoutingInv, RoutingTypes
  <2>2. /\ known' = known \union {s} /\ onlines' = onlines \union {s} /\ weight' = [weight EXCEPT ![s] = w]
        /\ arrays' = [arrays EXCEPT ![latest] = new]
    BY DEF Routing!AddServers, Routing!AddServer
  <2>3. /\ ring' = IF ring.made THEN Routing!AddNode(ring, s) ELSE ring
        /\ UNCHANGED <<rpc, opts, picks, turns, rrParam, wrrParam, laParam, latest>>
    BY DEF Routing!AddServers, Routing!Heard, Routing!Unchanged
  <2> QED
    BY <2>1, <2>2, <2>3
<1>2. rpcs' = [c \in Call |-> rec(c)]
  BY DEF Routing!AddServers
<1>3. RoutingTypes /\ RingHas /\ Listed /\ (Traced => \A c \in Call : Tries(c))
  BY DEF RoutingInv
<1>4. /\ rpcs \in [Call -> CallRecords] /\ \A d \in Call : rpcs[d].array <= latest
      /\ latest \in 0 .. MaxReplaced /\ arrays \in [0 .. MaxReplaced -> ServerLists] /\ MaxReplaced \in Nat
      /\ list \in ServerLists /\ known \in SUBSET Server /\ onlines \in SUBSET Server /\ weight \in [Server -> 0 .. MaxWeight]
  BY <1>3, RoutingConstants DEF RoutingTypes, ServerWeights
<1>5. /\ new \in ServerLists
      /\ \A i \in DOMAIN new : new[i] = s \/ \E j \in DOMAIN arrays[latest] : new[i] = arrays[latest][j]
  BY <1>4, AddedKeeps
<1>6. /\ list' \in ServerLists
      /\ \A i \in DOMAIN list' : list'[i] = s \/ \E j \in DOMAIN list : list'[i] = list[j]
  BY <1>1, <1>4, AddedKeeps
<1> HIDE DEF new
<1>7. ServerTypes'
  <2>1. weight' \in ServerWeights /\ known' \in SUBSET Server /\ onlines' \in SUBSET Server
    BY <1>1, <1>4 DEF ServerWeights
  <2>2. rpc' \in {"inited", "started", "closed"} /\ opts' \in Options /\ latest' \in 0 .. MaxReplaced
    BY <1>1, <1>3 DEF RoutingTypes
  <2> QED
    BY <2>1, <2>2, <1>1, <1>6 DEF ServerTypes
<1>8. \A c \in Call : /\ rec(c) \in CallRecords /\ rec(c).at = rpcs[c].at /\ rec(c).array = rpcs[c].array
                      /\ rec(c).tried \subseteq rpcs[c].tried
                      /\ Routing!ArrayOf(c) = latest => s \notin rec(c).tried
  <2> SUFFICES ASSUME NEW c \in Call
               PROVE  /\ rec(c) \in CallRecords /\ rec(c).at = rpcs[c].at /\ rec(c).array = rpcs[c].array
                      /\ rec(c).tried \subseteq rpcs[c].tried
                      /\ Routing!ArrayOf(c) = latest => s \notin rec(c).tried
    OBVIOUS
  <2>0. rpcs[c] \in CallRecords
    BY <1>4
  <2>1. CASE Routing!ArrayOf(c) = latest
    <3>1. rec(c) = [rpcs[c] EXCEPT !.tried = rpcs[c].tried \ {s}]
      BY <2>1
    <3> QED
      BY <2>0, <3>1 DEF CallRecords
  <2>2. CASE Routing!ArrayOf(c) # latest
    BY <2>0, <2>2
  <2> QED
    BY <2>1, <2>2
<1> HIDE DEF rec
<1>9. CallTypes'
  <2>1. arrays' \in [0 .. MaxReplaced -> ServerLists]
    BY <1>1, <1>4, <1>5
  <2>2. rpcs' \in [Call -> CallRecords] /\ \A c \in Call : rpcs'[c].array <= latest'
    BY <1>1, <1>2, <1>4, <1>8
  <2> QED
    BY <2>1, <2>2 DEF CallTypes
<1>10. RingHas'
  BY <1>1, <1>3, NodeAdded DEF RingHas, RingOK
<1>11. Listed'
  BY <1>1, <1>3, <1>6 DEF Listed
<1>12. ASSUME Traced, NEW c \in Call PROVE Tries(c)'
  <2>1. Tries(c) /\ rpcs'[c] = rec(c) /\ rpcs[c].array \in -1 .. MaxReplaced
    BY <1>2, <1>3, <1>4, <1>12 DEF CallRecords
  <2>2. rpcs[c].array = -1 => rec(c).tried = {}
    BY <2>1, <1>8 DEF Tries
  <2>3. ASSUME rpcs[c].array >= 0
        PROVE  \A i \in DOMAIN arrays'[rpcs[c].array] : arrays'[rpcs[c].array][i] \notin rec(c).tried
    <3>1. \A i \in DOMAIN arrays[rpcs[c].array] : arrays[rpcs[c].array][i] \notin rpcs[c].tried
      BY <2>1, <2>3 DEF Tries
    <3>2. Routing!ArrayOf(c) = rpcs[c].array /\ rpcs[c].array \in 0 .. MaxReplaced
      BY <2>1, <2>3, <1>3, <1>12, ArrayIs
    <3>3. CASE rpcs[c].array = latest
      <4>1. arrays'[latest] = new /\ s \notin rec(c).tried /\ rec(c).tried \subseteq rpcs[c].tried
        BY <3>2, <3>3, <1>1, <1>4, <1>8
      <4> QED
        BY <4>1, <3>1, <3>3, <1>5
    <3>4. CASE rpcs[c].array # latest
      <4>1. arrays'[rpcs[c].array] = arrays[rpcs[c].array]
        BY <3>2, <3>4, <1>1, <1>4
      <4> QED
        BY <4>1, <3>1, <1>8
    <3> QED
      BY <3>3, <3>4
  <2>4. rec(c).at \intersect rec(c).tried = {}
    BY <2>1, <1>8 DEF Tries
  <2> QED
    BY <2>1, <2>2, <2>3, <2>4, <1>8 DEF Tries
<1> QED
  BY <1>1, <1>7, <1>9, <1>10, <1>11, <1>12, ServersKeep

LEMMA RemoveServersKeeps ==
  ASSUME RoutingInv, NEW s \in Server, Routing!RemoveServers(s)
  PROVE  RoutingInv'
<1>1. /\ list' = Routing!Drop(list, s) /\ onlines' = onlines \ {s}
      /\ ring' = IF ring.made THEN Routing!RemoveNode(ring, s) ELSE ring
      /\ UNCHANGED <<rpc, opts, picks, turns, rrParam, wrrParam, laParam, proxies, rpcs, known, weight, arrays, latest>>
  BY DEF Routing!RemoveServers, Routing!RemoveServer, Routing!Heard, Routing!Unchanged
<1>2. RoutingTypes /\ RingHas /\ Listed /\ (Traced => \A c \in Call : Tries(c))
  BY DEF RoutingInv
<1>3. list' \in ServerLists /\ Within(list', list) /\ \A i \in DOMAIN list' : list'[i] # s
  BY <1>1, <1>2, DropKeeps DEF RoutingTypes
<1>4. ServerTypes' /\ CallTypes'
  BY <1>1, <1>2, <1>3 DEF RoutingTypes, ServerTypes, CallTypes
<1>5. RingHas'
  BY <1>1, <1>2, NodeRemoved DEF RingHas, RingOK
<1>6. Listed'
  BY <1>1, <1>2, <1>3 DEF Listed, Within
<1>7. Traced => \A c \in Call : Tries(c)'
  BY <1>1, <1>2, SameTries
<1> QED
  BY <1>1, <1>4, <1>5, <1>6, <1>7, ServersKeep

LEMMA ReplaceServersKeeps ==
  ASSUME RoutingInv, NEW l \in ServerLists, NEW w \in 0 .. MaxWeight, Routing!ReplaceServers(l, w)
  PROVE  RoutingInv'
<1>1. /\ latest < MaxReplaced /\ list' = l /\ Routing!StationReplaces(l, w)
      /\ UNCHANGED <<rpc, opts, picks, turns, rrParam, wrrParam, laParam, ring, rpcs>>
  BY DEF Routing!ReplaceServers, Routing!Unchanged
<1>2. RoutingTypes /\ RingHas /\ Listed /\ (Traced => \A c \in Call : Tries(c))
  BY DEF RoutingInv
<1>3. /\ latest \in 0 .. MaxReplaced /\ MaxReplaced \in Nat /\ l \in Seq(Server)
      /\ arrays \in [0 .. MaxReplaced -> ServerLists]
      /\ rpcs \in [Call -> CallRecords] /\ \A c \in Call : rpcs[c].array <= latest
      /\ weight \in [Server -> 0 .. MaxWeight] /\ known \in SUBSET Server /\ onlines \in SUBSET Server
      /\ proxies \in BOOLEAN
  BY <1>2, RoutingConstants DEF RoutingTypes, ServerLists, ServerWeights
<1>4. RingHas'
  BY <1>1, <1>2 DEF RingHas, RingOK
<1>5. CASE l = <<>>
  <2>1. UNCHANGED <<proxies, known, onlines, weight, arrays, latest>>
    BY <1>1, <1>5 DEF Routing!StationReplaces
  <2>2. ServerTypes' /\ CallTypes'
    BY <1>1, <1>2, <2>1 DEF RoutingTypes, ServerTypes, CallTypes
  <2>3. Listed'
    BY <1>1, <1>5 DEF Listed
  <2>4. Traced => \A c \in Call : Tries(c)'
    BY <1>1, <1>2, <2>1, SameTries
  <2> QED
    BY <1>1, <1>4, <2>2, <2>3, <2>4, ServersKeep
<1>6. CASE l # <<>>
  <2>0. /\ proxies' = Routing!GenProxies(FALSE, l)
        /\ known' = known \union Routing!ToSet(l) /\ onlines' = Routing!ToSet(l)
        /\ weight' = [s \in Server |-> IF s \in Routing!ToSet(l) THEN w ELSE weight[s]]
        /\ arrays' = [arrays EXCEPT ![latest + 1] = l]
        /\ latest' = latest + 1
    BY <1>1, <1>6 DEF Routing!StationReplaces, Routing!Online
  <2>1. Routing!ToSet(l) \in SUBSET Server /\ \A i \in DOMAIN l : l[i] \in Routing!ToSet(l)
    BY <1>3 DEF Routing!ToSet
  <2>2. latest + 1 \in 0 .. MaxReplaced
    BY <1>1, <1>3
  <2>3. ServerTypes'
    <3>1. weight' \in ServerWeights /\ known' \in SUBSET Server /\ onlines' \in SUBSET Server /\ proxies' \in BOOLEAN
      BY <2>0, <2>1, <1>3 DEF ServerWeights, Routing!GenProxies
    <3>2. rpc' \in {"inited", "started", "closed"} /\ opts' \in Options /\ latest' \in 0 .. MaxReplaced
      BY <2>0, <2>2, <1>1, <1>2 DEF RoutingTypes
    <3> QED
      BY <3>1, <3>2, <1>1 DEF ServerTypes
  <2>4. \A c \in Call : rpcs[c].array \in -1 .. MaxReplaced /\ rpcs[c].array <= latest + 1 /\ rpcs[c].array # latest + 1
    <3> SUFFICES ASSUME NEW c \in Call
                 PROVE rpcs[c].array \in -1 .. MaxReplaced /\ rpcs[c].array <= latest + 1 /\ rpcs[c].array # latest + 1
      OBVIOUS
    <3>1. rpcs[c].array \in -1 .. MaxReplaced /\ rpcs[c].array <= latest
      BY <1>3 DEF CallRecords
    <3> QED
      BY <3>1, <1>3
  <2>5. CallTypes'
    <3>1. arrays' \in [0 .. MaxReplaced -> ServerLists]
      BY <2>0, <2>2, <1>3
    <3> QED
      BY <3>1, <2>0, <2>4, <1>1, <1>3 DEF CallTypes
  <2>6. Listed'
    BY <2>0, <2>1, <1>1 DEF Listed
  <2>7. ASSUME Traced, NEW c \in Call PROVE Tries(c)'
    <3>1. Tries(c) /\ rpcs'[c] = rpcs[c]
      BY <1>1, <1>2, <2>7
    <3>2. rpcs[c].array >= 0 => arrays'[rpcs[c].array] = arrays[rpcs[c].array]
      BY <2>0, <2>4, <1>3
    <3> QED
      BY <3>1, <3>2 DEF Tries
  <2> QED
    BY <1>1, <1>4, <2>3, <2>5, <2>6, <2>7, ServersKeep
<1> QED
  BY <1>5, <1>6

LEMMA RoutingInvStep == RoutingInv /\ [Routing!Next]_routingVars => RoutingInv'
<1> SUFFICES ASSUME RoutingInv, [Routing!Next]_routingVars PROVE RoutingInv'
  OBVIOUS
<1>0. opts \in Options /\ opts.servers \in SUBSET Server /\ \A w \in Routing!Weights : w \in 0 .. MaxWeight
  BY RoutingConstants DEF RoutingInv, RoutingTypes, Routing!Weights
<1>1. CASE Routing!StartClient \/ Routing!StopClient
  BY <1>1, ClientKeeps
<1>2. CASE \E s \in opts.servers, w \in Routing!Weights : Routing!AddServers(s, w)
  BY <1>0, <1>2, AddServersKeeps
<1>3. CASE \E s \in opts.servers : Routing!RemoveServers(s)
  BY <1>0, <1>3, RemoveServersKeeps
<1>4. CASE \E l \in Routing!Lists(opts.servers), w \in Routing!Weights : Routing!ReplaceServers(l, w)
  <2>1. \A l \in Routing!Lists(opts.servers) : l \in ServerLists
    BY <1>0, ListsAre
  <2> QED
    BY <2>1, <1>0, <1>4, ReplaceServersKeeps
<1>5. CASE \E c \in Call : Routing!ProxyCall(c) \/ Routing!NestedCall(c) \/ Routing!ToAll(c)
  BY <1>5, ProxyCallKeeps, NestedCallKeeps, ToAllKeeps
<1>6. CASE \E c \in Call, s \in Server : Routing!ToServer(c, s) \/ Routing!Reply(c, s) \/ Routing!SendFails(c, s)
  BY <1>6, ToServerKeeps, ReplyKeeps, SendFailsKeeps
<1>7. CASE UNCHANGED routingVars
  <2>1. UNCHANGED <<rpc, opts, proxies, list, known, onlines, weight, arrays, latest, rrParam, wrrParam, laParam,
                    ring, picks, turns, rpcs>>
    BY <1>7 DEF routingVars
  <2>2. RoutingTypes' /\ RingHas' /\ Listed'
    BY <2>1 DEF RoutingInv, RoutingTypes, RingHas, RingOK, Listed
  <2>3. Turned' /\ (Traced => \A c \in Call : Tries(c)')
    BY <2>1, SameTurns, SameTries DEF RoutingInv
  <2> QED
    BY <2>2, <2>3 DEF RoutingInv
<1> QED
  BY <1>1, <1>2, <1>3, <1>4, <1>5, <1>6, <1>7 DEF Routing!Next

-----------------------------------------------------------------------------
(* The ring *)

LEMMA GreatestFinite ==
  ASSUME NEW S \in SUBSET Nat, IsFiniteSet(S), S # {}
  PROVE  \E n \in S : \A k \in S : k <= n
<1> DEFINE Above(n) == {k \in S : k > n}
           C == {Cardinality(Above(n)) : n \in S}
<1>1. \A n \in S : Above(n) \subseteq S /\ IsFiniteSet(Above(n)) /\ Cardinality(Above(n)) \in Nat
  BY FS_Subset, FS_CardinalityType
<1>a. \A k, m \in S : k <= m \/ k > m
  OBVIOUS
<1>2. C \in SUBSET Nat /\ C # {}
  <2> HIDE DEF Above
  <2> QED
    BY <1>1
<1>3. PICK n \in S : \A k \in S : Cardinality(Above(n)) <= Cardinality(Above(k))
  <2> HIDE DEF C
  <2>1. PICK m \in C : \A k \in C : m <= k
    BY <1>2, LeastOf
  <2> USE DEF C
  <2> HIDE DEF Above
  <2> QED
    BY <2>1
<1>4. ASSUME NEW k \in S, k > n PROVE FALSE
  <2>1. Above(k) \subseteq Above(n) /\ k \in Above(n) /\ k \notin Above(k)
    <3>1. k \in Nat /\ n \in Nat /\ S \subseteq Nat
      OBVIOUS
    <3>2. \A x \in Nat : x > k => x > n
      BY <3>1, <1>4
    <3>3. Above(k) \subseteq Above(n)
      BY <3>1, <3>2
    <3>4. k \in Above(n)
      BY <1>4
    <3>5. ~ (k > k)
      BY <3>1
    <3>6. k \notin Above(k)
      BY <3>5
    <3> QED
      BY <3>3, <3>4, <3>6
  <2> HIDE DEF Above
  <2>2. /\ IsFiniteSet(Above(n)) /\ Cardinality(Above(k)) \in Nat /\ Cardinality(Above(n)) \in Nat
        /\ Cardinality(Above(n)) <= Cardinality(Above(k))
    BY <1>1, <1>3
  <2>3. Cardinality(Above(k)) < Cardinality(Above(n))
    BY <2>1, <2>2, FS_Subset
  <2> QED
    BY <2>2, <2>3
<1> QED
  BY <1>a, <1>4

\* The search finds the greatest digest below the one that is asked for, or the greatest.
Near(A, d) == IF {p \in A : p <= d} = {} THEN A ELSE {p \in A : p <= d}
Best(A, d) == CHOOSE p \in Near(A, d) : \A q \in Near(A, d) : q <= p
Node(A, f) == IF A = {} THEN "none" ELSE CHOOSE s \in Server : Best(A, Digest[f]) \in Point[s]

LEMMA BestIs ==
  ASSUME NEW A \in SUBSET Nat, IsFiniteSet(A), A # {}, NEW d \in Nat
  PROVE  Best(A, d) \in Near(A, d) /\ \A q \in Near(A, d) : q <= Best(A, d)
<1>1. Near(A, d) \in SUBSET A /\ Near(A, d) # {}
  BY DEF Near
<1>2. IsFiniteSet(Near(A, d))
  BY <1>1, FS_Subset
<1>3. \E n \in Near(A, d) : \A k \in Near(A, d) : k <= n
  BY <1>1, <1>2, GreatestFinite
<1> QED
  BY <1>3 DEF Best

\* What the larger ring finds in the smaller one, the smaller one finds too.
LEMMA BestStays ==
  ASSUME NEW B \in SUBSET Nat, IsFiniteSet(B), NEW A \in SUBSET B, NEW d \in Nat, Best(B, d) \in A
  PROVE  Best(A, d) = Best(B, d)
<1>1. A # {} /\ B # {} /\ A \in SUBSET Nat /\ IsFiniteSet(A)
  BY FS_Subset
<1>2. Best(A, d) \in Near(A, d) /\ \A q \in Near(A, d) : q <= Best(A, d)
  BY <1>1, BestIs
<1>3. Best(B, d) \in Near(B, d) /\ \A q \in Near(B, d) : q <= Best(B, d)
  BY <1>1, BestIs
<1> DEFINE a == Best(A, d)
           b == Best(B, d)
<1> HIDE DEF a, b
<1>4. b \in A /\ a \in Nat /\ b \in Nat
  BY <1>1, <1>2 DEF Near, a, b
<1>5. a \in Near(A, d) /\ b \in Near(B, d) /\ (\A q \in Near(A, d) : q <= a) /\ (\A q \in Near(B, d) : q <= b)
  BY <1>2, <1>3 DEF a, b
<1>6. b \in Near(A, d) /\ a \in Near(B, d)
  BY <1>4, <1>5 DEF Near
<1>7. b <= a /\ a <= b
  BY <1>5, <1>6
<1> QED
  BY <1>4, <1>7 DEF a, b

\* A ring that has no server twice is searched whole.
LEMMA SearchedAll ==
  ASSUME NEW r, RingOK(r), ~ Routing!Twice(r)
  PROVE  Routing!Searched(r) = r.at
<1> DEFINE Rank(m) == {k \in r.keys : Routing!Sorted(k, m)}
<1>1. /\ IsFiniteSet(r.keys) /\ r.at = {k[1] : k \in r.keys}
      /\ Cardinality(r.keys) = Cardinality(r.at) /\ Cardinality(r.keys) \in Nat
  BY RoutingSets, FS_CardinalityType DEF RingOK, Routing!Twice
<1>2. \A m : Rank(m) \subseteq r.keys
  OBVIOUS
<1>3. Routing!Searched(r) = {k[1] : k \in {m \in r.keys : Cardinality(Rank(m)) <= Cardinality(r.at)}}
  BY RoutingSets DEF Routing!Searched
<1> HIDE DEF Rank
<1>4. \A m : Cardinality(Rank(m)) <= Cardinality(r.at)
  BY <1>1, <1>2, FS_Subset
<1> QED
  BY <1>1, <1>3, <1>4

LEMMA NodeIs ==
  ASSUME NEW r, RingOK(r), ~ Routing!Twice(r), NEW f
  PROVE  Routing!GetNode(r, f) = Node(r.at, f)
<1>1. Routing!GetNodePosition(r, Digest[f]) = Best(r.at, Digest[f])
  BY SearchedAll DEF Routing!GetNodePosition, Best, Near
<1> QED
  BY <1>1 DEF Routing!GetNode, Node, Routing!NoServer

LEMMA AtFinite == ASSUME NEW r, RingOK(r) PROVE IsFiniteSet(r.at) /\ r.at \in SUBSET Nat
<1>1. IsFiniteSet(r.keys) /\ r.at = {k[1] : k \in r.keys} /\ r.at \in SUBSET Nat
  BY DEF RingOK
<1> DEFINE h == [k \in r.keys |-> k[1]]
<1>2. r.at = {h[k] : k \in r.keys}
  BY <1>1
<1> HIDE DEF h
<1>3. IsFiniteSet({h[k] : k \in r.keys})
  BY <1>1, ImageFinite
<1> QED
  BY <1>1, <1>2, <1>3

LEMMA PointNode ==
  ASSUME NEW A, NEW f, A # {}, NEW s \in Server, Best(A, Digest[f]) \in Point[s]
  PROVE  Node(A, f) = s
<1>1. ASSUME NEW t \in Server, Best(A, Digest[f]) \in Point[t] PROVE t = s
  <2>1. t # s => Point[t] \intersect Point[s] = {}
    BY RoutingConstants
  <2> QED
    BY <2>1, <1>1
<1> QED
  BY <1>1 DEF Node

LEMMA RingChanges ==
  ASSUME RoutingInv, [Routing!Next]_routingVars, ring.made, ring' # ring
  PROVE  \E s \in Server : ring' = Routing!AddNode(ring, s) \/ ring' = Routing!RemoveNode(ring, s)
<1>0. opts \in Options /\ opts.servers \in SUBSET Server
  BY RoutingConstants DEF RoutingInv, RoutingTypes
<1>1. CASE Routing!StartClient \/ Routing!StopClient
  BY <1>1 DEF Routing!StartClient, Routing!StopClient, Routing!params
<1>2. CASE \E s \in opts.servers, w \in Routing!Weights : Routing!AddServers(s, w)
  BY <1>0, <1>2 DEF Routing!AddServers, Routing!Heard
<1>3. CASE \E s \in opts.servers : Routing!RemoveServers(s)
  BY <1>0, <1>3 DEF Routing!RemoveServers, Routing!Heard
<1>4. CASE \E l \in Routing!Lists(opts.servers), w \in Routing!Weights : Routing!ReplaceServers(l, w)
  BY <1>4 DEF Routing!ReplaceServers
<1>5. CASE \E c \in Call : Routing!ProxyCall(c) \/ Routing!NestedCall(c) \/ Routing!ToAll(c)
  <2>1. PICK c \in Call : Routing!ProxyCall(c) \/ Routing!NestedCall(c) \/ Routing!ToAll(c)
    BY <1>5
  <2>2. CASE Routing!ProxyCall(c)
    <3>1. PICK s : Routing!GetRouteTarget(s)
      BY <2>2 DEF Routing!ProxyCall
    <3> QED
      BY <3>1 DEF Routing!GetRouteTarget, Routing!RdRoute, Routing!RrRoute, Routing!WrrRoute, Routing!LaRoute,
                  Routing!ChRoute, Routing!DefRoute
  <2>3. CASE Routing!NestedCall(c)
    BY <2>3 DEF Routing!NestedCall
  <2>4. CASE Routing!ToAll(c)
    BY <2>4 DEF Routing!ToAll, Routing!params
  <2> QED
    BY <2>1, <2>2, <2>3, <2>4
<1>6. CASE \E c \in Call, s \in Server : Routing!ToServer(c, s) \/ Routing!Reply(c, s) \/ Routing!SendFails(c, s)
  BY <1>6 DEF Routing!ToServer, Routing!Reply, Routing!SendFails, Routing!params
<1>7. CASE UNCHANGED routingVars
  BY <1>7 DEF routingVars
<1> QED
  BY <1>1, <1>2, <1>3, <1>4, <1>5, <1>6, <1>7 DEF Routing!Next

LEMMA FieldMoves ==
  ASSUME RingHas, RingHas', ~ Routing!Twice(ring), ~ Routing!Twice(ring'), NEW s \in Server,
         ring'.at = ring.at \union Point[s] \/ ring'.at = ring.at \ Point[s], NEW f \in Field
  PROVE  Routing!Moves(Node(ring.at, f), Node(ring'.at, f))
<1> DEFINE A == ring.at
           B == ring'.at
           d == Digest[f]
<1>1. IsFiniteSet(A) /\ IsFiniteSet(B) /\ A \in SUBSET Nat /\ B \in SUBSET Nat /\ d \in Nat
  BY AtFinite, RoutingConstants DEF RingHas
<1>2. CASE A = {} \/ B = {}
  BY <1>2 DEF Node, Routing!Moves, Routing!NoServer
<1>3. CASE A # {} /\ B # {}
  <2>1. Best(A, d) \in A /\ Best(B, d) \in B
    BY <1>1, <1>3, BestIs DEF Near
  <2>2. Best(A, d) = Best(B, d) => Node(A, f) = Node(B, f)
    BY <1>3 DEF Node
  <2>3. CASE B = A \union Point[s]
    <3>1. CASE Best(B, d) \in A
      <4>1. Best(A, d) = Best(B, d)
        BY <3>1, <2>3, <1>1, BestStays
      <4> QED
        BY <4>1, <2>2 DEF Routing!Moves
    <3>2. CASE Best(B, d) \notin A
      <4>1. Node(B, f) = s /\ ~ (Point[s] \subseteq A)
        BY <3>2, <2>1, <2>3, <1>3, PointNode
      <4> QED
        BY <4>1 DEF Routing!Moves
    <3> QED
      BY <3>1, <3>2
  <2>4. CASE B = A \ Point[s]
    <3>1. CASE Best(A, d) \in B
      <4>1. Best(A, d) = Best(B, d)
        BY <3>1, <2>4, <1>1, BestStays
      <4> QED
        BY <4>1, <2>2 DEF Routing!Moves
    <3>2. CASE Best(A, d) \notin B
      <4>1. Node(A, f) = s /\ ~ (Point[s] \subseteq B)
        BY <3>2, <2>1, <2>4, <1>3, PointNode
      <4> QED
        BY <4>1 DEF Routing!Moves
    <3> QED
      BY <3>1, <3>2
  <2> QED
    BY <2>3, <2>4
<1> QED
  BY <1>2, <1>3

\* What a step does to the ring moves what it has to.
LEMMA RingStep ==
  ASSUME RoutingInv, RoutingInv', [Routing!Next]_routingVars
  PROVE  ring.made /\ ring' # ring /\ ~ Routing!Twice(ring) /\ ~ Routing!Twice(ring)' =>
           \A f \in Field : Routing!Moves(Routing!GetNode(ring, f), Routing!GetNode(ring, f)')
<1> SUFFICES ASSUME ring.made, ring' # ring, ~ Routing!Twice(ring), ~ Routing!Twice(ring)', NEW f \in Field
             PROVE  Routing!Moves(Routing!GetNode(ring, f), Routing!GetNode(ring, f)')
  OBVIOUS
<1>1. PICK s \in Server : ring' = Routing!AddNode(ring, s) \/ ring' = Routing!RemoveNode(ring, s)
  BY RingChanges
<1>2. RingOK(ring) /\ RingOK(ring') /\ RingHas /\ RingHas'
  BY DEF RoutingInv, RingHas, RingOK
<1>3. ring'.at = ring.at \union Point[s] \/ ring'.at = ring.at \ Point[s]
  BY <1>1, <1>2, NodeAdded, NodeRemoved
<1>4. ~ Routing!Twice(ring')
  BY DEF Routing!Twice
<1>5. Routing!GetNode(ring, f) = Node(ring.at, f)
  BY <1>2, NodeIs
<1>6. Routing!GetNode(ring', f) = Node(ring'.at, f)
  BY <1>2, <1>4, NodeIs
<1>7. Routing!GetNode(ring, f)' = Routing!GetNode(ring', f)
  BY DEF Routing!GetNode
<1>8. Routing!Moves(Node(ring.at, f), Node(ring'.at, f))
  BY <1>2, <1>3, <1>4, FieldMoves
<1> QED
  BY <1>5, <1>6, <1>7, <1>8

LEMMA RoutingSafe ==
  ASSUME RoutingInv
  PROVE  Routing!TypeOK /\ Routing!ListedReachable /\ Routing!EveryTurn /\ Routing!NoReturn
<1>1. RoutingTypes /\ RingHas /\ Listed /\ (Traced => \A c \in Call : Tries(c)) /\ Turned
  BY DEF RoutingInv
<1>2. Routing!TypeOK
  <2>1. \A l \in ServerLists : l \in Seq(Server) /\ Routing!IsInjective(l)
    BY DEF ServerLists, Once, Routing!IsInjective
  <2>2. \A l \in {list} \union {arrays[g] : g \in DOMAIN arrays} : l \in Seq(Server) /\ Routing!IsInjective(l)
    BY <2>1, <1>1 DEF RoutingTypes
  <2>3. picks \in 0 .. MaxPicks /\ rrParam \in 0 .. MaxPicks
    BY <1>1, RoutingConstants DEF RoutingTypes
  <2>4. /\ wrrParam.index \in -1 .. Routing!Cardinality(Server) - 1 /\ wrrParam.weight \in 0 .. MaxWeight
    BY <1>1, RoutingSets DEF RoutingTypes
  <2>5. laParam.made \in BOOLEAN /\ laParam.count \in [Server -> Routing!Uncounted .. MaxPicks]
    <3>1. -1 .. picks \subseteq -1 .. MaxPicks
      BY <2>3, RoutingConstants
    <3>2. laParam \in [made : BOOLEAN, count : [Server -> -1 .. picks]]
      BY <1>1 DEF RoutingTypes
    <3> QED
      BY <3>1, <3>2 DEF Routing!Uncounted
  <2>6. ring.made \in BOOLEAN /\ ring.at = {k[1] : k \in ring.keys}
    BY <1>1 DEF RingHas, RingOK
  <2>7. \A c \in Call : rpcs[c].at \subseteq Server /\ rpcs[c].array \in -1 .. latest
    <3> SUFFICES ASSUME NEW c \in Call PROVE rpcs[c].at \subseteq Server /\ rpcs[c].array \in -1 .. latest
      OBVIOUS
    <3>1. rpcs[c] \in CallRecords /\ rpcs[c].array <= latest
      BY <1>1 DEF RoutingTypes
    <3>2. latest \in 0 .. MaxReplaced /\ MaxReplaced \in Nat
      BY <1>1, RoutingConstants DEF RoutingTypes
    <3> QED
      BY <3>1, <3>2 DEF CallRecords
  <2>8. /\ rpc \in {"inited", "started", "closed"} /\ opts \in Options /\ proxies \in BOOLEAN
        /\ known \subseteq Server /\ onlines \subseteq Server /\ weight \in [Server -> 0 .. MaxWeight]
        /\ latest \in DOMAIN arrays
    BY <1>1 DEF RoutingTypes, ServerWeights
  <2> QED
    BY <2>2, <2>3, <2>4, <2>5, <2>6, <2>7, <2>8 DEF Routing!TypeOK
<1>3. Routing!ListedReachable
  BY <1>1 DEF Listed, Routing!ListedReachable, Routing!Reachable, Routing!ToSet
<1>4. Routing!EveryTurn
  <2> SUFFICES ASSUME Len(turns.chosen) = Routing!Round, turns.list = arrays[latest], turns.weight = weight,
                      NEW s \in Routing!ToSet(arrays[latest])
               PROVE  Routing!Cardinality({k \in 1 .. Routing!Round : turns.chosen[k] = s}) = Routing!Share(s)
    BY DEF Routing!EveryTurn, Routing!current
  <2> DEFINE l == arrays[latest]
  <2>1. l \in ServerLists /\ weight \in ServerWeights /\ turns.chosen \in Seq(Server) /\ l \in Seq(Server)
    BY <1>1 DEF RoutingTypes, ServerLists
  <2>2. Len(turns.chosen) = Cardinality(TurnPlaces(l, weight))
    BY <1>1, RoundIs
  <2>3. PICK i \in 1 .. Len(l) : s = l[i]
    BY <2>1 DEF Routing!ToSet
  <2>4. CASE Len(turns.chosen) > 0
    <3>1. PICK q : Window(TurnPlaces(turns.list, turns.weight), turns.list, turns.chosen, q, Here)
      BY <1>1, <2>4 DEF Turned
    <3>2. Window(TurnPlaces(l, weight), l, turns.chosen, q, Here)
      BY <3>1
    <3>3. Cardinality({k \in 1 .. Len(turns.chosen) : turns.chosen[k] = l[i]}) = PlaceShare(weight, l[i])
      BY <3>2, <2>1, <2>2, RoundCounts
    <3> QED
      BY <3>3, <2>3, RoutingSets DEF Routing!Share, PlaceShare
  \* Nobody has a share.
  <2>5. CASE ~ (Len(turns.chosen) > 0)
    <3>1. Len(turns.chosen) = 0
      BY <2>1, <2>5
    <3>2. TurnPlaces(l, weight) = {}
      BY <3>1, <2>1, <2>2, PlacesAre, FS_EmptySet
    <3>3. PlaceShare(weight, s) \in 0 .. MaxWeight /\ MaxWeight \in Nat \ {0}
      <4>1. s \in Server
        BY <2>1, <2>3
      <4> QED
        BY <4>1, <2>1, RoutingConstants DEF PlaceShare, ServerWeights
    <3>4. PlaceShare(weight, s) = 0
      <4> SUFFICES ASSUME PlaceShare(weight, s) >= 1 PROVE FALSE
        BY <3>3
      <4>1. <<i, 1>> \in (1 .. Len(l)) \X (1 .. MaxWeight) /\ <<i, 1>>[2] <= PlaceShare(weight, l[<<i, 1>>[1]])
        BY <3>3, <2>3
      <4> QED
        BY <4>1, <3>2 DEF TurnPlaces
    <3>5. {k \in 1 .. Routing!Round : turns.chosen[k] = s} = {}
      BY <3>1
    <3>6. Routing!Cardinality({}) = 0
      BY RoutingSets, FS_EmptySet
    <3> QED
      BY <3>4, <3>5, <3>6 DEF Routing!Share, PlaceShare
  <2> QED
    BY <2>4, <2>5
<1>5. Routing!NoReturn
  BY <1>1 DEF Tries, Routing!NoReturn
<1> QED
  BY <1>2, <1>3, <1>4, <1>5

LEMMA RoutingInvInductive == Spec => []RoutingInv /\ [][Routing!Next]_routingVars
<1>1. Init => RoutingInv
  BY RoutingInit DEF Init
<1>2. [Next]_vars => [Routing!Next]_routingVars
  <2> SUFFICES ASSUME [Next]_vars PROVE [Routing!Next]_routingVars
    OBVIOUS
  <2>1. CASE part = "routing" /\ Routing!Next
    BY <2>1
  <2>2. CASE UNCHANGED routingVars
    BY <2>2
  <2> QED
    BY <2>1, <2>2 DEF Next, vars
<1> QED
  BY <1>1, <1>2, RoutingInvStep, PTL DEF Spec

\* Without failover no call is followed, and the array has what is listed.
Offered ==
  ~ opts.failover =>
    /\ Within(list, arrays[latest])
    /\ \A c \in Call : rpcs[c].at = {}

LEMMA OfferedInit == Routing!Init => Offered
BY IdleCall DEF Routing!Init, Offered, Within

\* A server that is added is put into both, one that is removed stays in the array.
LEMMA AddedHas ==
  ASSUME NEW l \in ServerLists, NEW s \in Server
  PROVE  /\ Within(l, Routing!ReplaceServer(l, s))
         /\ \E j \in DOMAIN Routing!ReplaceServer(l, s) : Routing!ReplaceServer(l, s)[j] = s
<1> DEFINE n == Len(l)
           r == Routing!ReplaceServer(l, s)
<1>1. l \in Seq(Server) /\ n \in Nat /\ DOMAIN l = 1 .. n
  BY DEF ServerLists
<1>2. CASE \E i \in 1 .. n : l[i] = s
  <2>1. r = l
    BY <1>1, <1>2 DEF Routing!ReplaceServer, Routing!ToSet
  <2> QED
    BY <2>1, <1>1, <1>2 DEF Within
<1>3. CASE \A i \in 1 .. n : l[i] # s
  <2>1. r = Append(l, s)
    BY <1>1, <1>3 DEF Routing!ReplaceServer, Routing!ToSet
  <2> HIDE DEF r
  <2>2. r \in Seq(Server) /\ Len(r) = n + 1 /\ r[n + 1] = s /\ \A i \in 1 .. n : r[i] = l[i]
    BY <2>1, <1>1, AppendProperties
  <2>3. DOMAIN r = 1 .. n + 1 /\ n + 1 \in 1 .. n + 1 /\ 1 .. n \subseteq 1 .. n + 1
    BY <2>2, <1>1
  <2>4. Within(l, r) /\ \E j \in DOMAIN r : r[j] = s
    BY <2>2, <2>3, <1>1 DEF Within
  <2> QED
    BY <2>4 DEF r
<1> QED
  BY <1>2, <1>3

\* Without failover a call changes no array, and is not followed.
LEMMA NotFollowed ==
  ASSUME ~ opts.failover, \A c \in Call : rpcs[c].at = {},
         NEW c \in Call,
         \/ Routing!ProxyCall(c) \/ Routing!NestedCall(c) \/ Routing!ToAll(c)
         \/ \E s \in Server : Routing!ToServer(c, s) \/ Routing!Reply(c, s) \/ Routing!SendFails(c, s)
  PROVE  UNCHANGED <<opts, list, latest, arrays, rpcs>>
<1>1. ~ Routing!ToAll(c) /\ \A s \in Server : ~ Routing!Reply(c, s) /\ ~ Routing!SendFails(c, s)
  BY DEF Routing!ToAll, Routing!Reply, Routing!SendFails
<1>2. CASE Routing!ProxyCall(c)
  <2>1. UNCHANGED <<opts, list, latest>>
    BY <1>2 DEF Routing!ProxyCall, Routing!UnchangedServers
  <2>2. UNCHANGED <<arrays, rpcs>>
    BY <1>2 DEF Routing!ProxyCall, Routing!RpcInvoke
  <2> QED
    BY <2>1, <2>2
<1>3. CASE Routing!NestedCall(c)
  BY <1>3 DEF Routing!NestedCall, Routing!RpcInvoke, Routing!UnchangedServers
<1>4. CASE \E s \in Server : Routing!ToServer(c, s)
  BY <1>4 DEF Routing!ToServer, Routing!RpcInvoke, Routing!UnchangedServers
<1> QED
  BY <1>1, <1>2, <1>3, <1>4

LEMMA OfferedStep ==
  ASSUME RoutingInv, Offered, [Routing!Next]_routingVars
  PROVE  Offered'
<1>1. /\ list \in ServerLists /\ arrays \in [0 .. MaxReplaced -> ServerLists] /\ latest \in 0 .. MaxReplaced
      /\ MaxReplaced \in Nat /\ arrays[latest] \in ServerLists
      /\ opts.servers \in SUBSET Server
  BY RoutingConstants DEF RoutingInv, RoutingTypes
<1>2. ASSUME UNCHANGED <<opts, list, latest, arrays, rpcs>> PROVE Offered'
  BY <1>2 DEF Offered, Within
<1>3. CASE Routing!StartClient \/ Routing!StopClient
  BY <1>2, <1>3 DEF Routing!StartClient, Routing!StopClient, Routing!servers
<1>4. CASE \E s \in opts.servers, w \in Routing!Weights : Routing!AddServers(s, w)
  <2>1. PICK s \in Server, w \in Routing!Weights : Routing!AddServers(s, w)
    BY <1>1, <1>4
  <2>2. /\ list' = Routing!ReplaceServer(list, s)
        /\ arrays' = [arrays EXCEPT ![latest] = Routing!ReplaceServer(arrays[latest], s)]
        /\ latest' = latest /\ opts' = opts
    BY <2>1 DEF Routing!AddServers, Routing!AddServer, Routing!Unchanged
  <2>3. \A c \in Call : rpcs'[c].at = rpcs[c].at
    <3>1. rpcs' = [c \in Call |-> IF Routing!ArrayOf(c) = latest THEN [rpcs[c] EXCEPT !.tried = @ \ {s}] ELSE rpcs[c]]
      BY <2>1 DEF Routing!AddServers
    <3>2. rpcs \in [Call -> CallRecords]
      BY DEF RoutingInv, RoutingTypes
    <3> QED
      BY <3>1, <3>2 DEF CallRecords
  <2>4. ASSUME Within(list, arrays[latest]) PROVE Within(list', arrays'[latest'])
    <3> DEFINE a == Routing!ReplaceServer(arrays[latest], s)
    <3>1. arrays'[latest'] = a
      BY <2>2, <1>1
    <3>2. Within(arrays[latest], a) /\ \E j \in DOMAIN a : a[j] = s
      BY <1>1, AddedHas
    <3>3. \A i \in DOMAIN list' : list'[i] = s \/ \E j \in DOMAIN list : list'[i] = list[j]
      BY <1>1, <2>2, AddedKeeps
    <3> HIDE DEF a
    <3> QED
      BY <2>4, <3>1, <3>2, <3>3 DEF Within
  <2> QED
    BY <2>2, <2>3, <2>4 DEF Offered
<1>5. CASE \E s \in opts.servers : Routing!RemoveServers(s)
  <2>1. PICK s \in Server : Routing!RemoveServers(s)
    BY <1>1, <1>5
  <2>2. list' = Routing!Drop(list, s) /\ UNCHANGED <<opts, arrays, latest, rpcs>>
    BY <2>1 DEF Routing!RemoveServers, Routing!RemoveServer, Routing!Unchanged
  <2>3. Within(list', list)
    BY <1>1, <2>2, DropKeeps
  <2> QED
    BY <2>2, <2>3 DEF Offered, Within
<1>6. CASE \E l \in Routing!Lists(opts.servers), w \in Routing!Weights : Routing!ReplaceServers(l, w)
  <2>1. PICK l \in Routing!Lists(opts.servers), w \in Routing!Weights : Routing!ReplaceServers(l, w)
    BY <1>6
  <2>2. latest < MaxReplaced /\ list' = l /\ Routing!StationReplaces(l, w) /\ UNCHANGED <<opts, rpcs>>
    BY <2>1 DEF Routing!ReplaceServers, Routing!Unchanged
  <2>3. CASE l = <<>>
    BY <2>2, <2>3 DEF Offered, Within
  <2>4. CASE l # <<>>
    <3>1. arrays' = [arrays EXCEPT ![latest + 1] = l] /\ latest' = latest + 1
      BY <2>2, <2>4 DEF Routing!StationReplaces
    <3>2. latest + 1 \in 0 .. MaxReplaced
      BY <1>1, <2>2
    <3>3. arrays'[latest'] = list'
      BY <1>1, <2>2, <3>1, <3>2
    <3> QED
      BY <2>2, <3>3 DEF Offered, Within
  <2> QED
    BY <2>3, <2>4
<1>7. CASE \E c \in Call : \/ Routing!ProxyCall(c) \/ Routing!NestedCall(c) \/ Routing!ToAll(c)
                          \/ \E s \in Server : Routing!ToServer(c, s) \/ Routing!Reply(c, s) \/ Routing!SendFails(c, s)
  <2>1. CASE opts.failover
    <3>1. opts' = opts
      BY <1>7 DEF Routing!ProxyCall, Routing!NestedCall, Routing!ToAll, Routing!ToServer, Routing!Reply,
                  Routing!SendFails, Routing!UnchangedServers
    <3> QED
      BY <2>1, <3>1 DEF Offered
  <2>2. CASE ~ opts.failover
    <3>1. UNCHANGED <<opts, list, latest, arrays, rpcs>>
      BY <1>7, <2>2, NotFollowed DEF Offered
    <3> QED
      BY <1>2, <3>1
  <2> QED
    BY <2>1, <2>2
<1>8. CASE UNCHANGED routingVars
  BY <1>2, <1>8 DEF routingVars
<1> QED
  BY <1>3, <1>4, <1>5, <1>6, <1>7, <1>8 DEF Routing!Next

LEMMA OfferedSafe == ASSUME RoutingInv, Offered PROVE Routing!ListedOffered
<1>1. list \in Seq(Server) /\ arrays[latest] \in Seq(Server)
  BY RoutingConstants DEF RoutingInv, RoutingTypes, ServerLists
<1>2. CASE opts.failover
  BY <1>2 DEF Routing!ListedOffered
<1>3. CASE ~ opts.failover
  <2>1. Within(list, arrays[latest])
    BY <1>3 DEF Offered
  <2>2. Routing!ToSet(list) \subseteq Routing!ToSet(arrays[latest])
    BY <1>1, <2>1 DEF Within, Routing!ToSet
  <2> QED
    BY <2>2 DEF Routing!ListedOffered, Routing!current
<1> QED
  BY <1>2, <1>3

\* The servers the application lists can be reached and chosen; rr and wrr give each server
\* of the station its turns, though it may have been removed; a call does not try again one
\* that failed, and the ring moves only what has to move (Router, ConsistentHash, failover).
THEOREM RoutesHoldCorrect == Spec => RoutesHold
<1>1. RoutingInv /\ Offered =>
        (part = "routing" => /\ Routing!TypeOK /\ Routing!ListedReachable /\ Routing!ListedOffered
                             /\ Routing!EveryTurn /\ Routing!NoReturn)
  BY RoutingSafe, OfferedSafe
<1>2. RoutingInv /\ RoutingInv' /\ [Routing!Next]_routingVars =>
        [ring.made /\ ring' # ring /\ ~ Routing!Twice(ring) /\ ~ Routing!Twice(ring)' =>
           \A f \in Field : Routing!Moves(Routing!GetNode(ring, f), Routing!GetNode(ring, f)')]_(Routing!vars)
  BY RingStep
<1>3. Spec => Routing!RingMoves
  BY <1>2, RoutingInvInductive, PTL DEF Routing!RingMoves
<1>4. Init => Offered
  BY OfferedInit DEF Init
<1>5. RoutingInv /\ Offered /\ [Routing!Next]_routingVars => Offered'
  BY OfferedStep
<1>6. Spec => []Offered
  BY <1>4, <1>5, RoutingInvInductive, PTL DEF Spec
<1>7. Spec => [](part = "routing" => /\ Routing!TypeOK /\ Routing!ListedReachable /\ Routing!ListedOffered
                                     /\ Routing!EveryTurn /\ Routing!NoReturn)
  BY <1>1, <1>6, RoutingInvInductive, PTL
<1> QED
  BY <1>3, <1>7, PTL DEF RoutesHold
=============================================================================
