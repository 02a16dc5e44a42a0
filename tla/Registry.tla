------------------------------- MODULE Registry -------------------------------
(***************************************************************************)
(* The master's register of its connections to server processes, and what  *)
(* it sends by it. The first process of an id is its record; a second one  *)
(* with that id is kept as a slave of it.                                  *)
(*                                                                         *)
(*   olemop-admin: master/masterAgent.js (idMap, slaveMap, typeMap),       *)
(*   master/masterSocket.js, util/utils.js                                 *)
(***************************************************************************)
EXTENDS Naturals, Sequences, SequencesExt, FiniteSetsExt

CONSTANTS
  Conn,         \* connections, each of one server process
  NoConn,
  Id,           \* server ids
  Type,         \* server types
  IdOf,         \* the id a process was started with, its type and its host and port
  TypeOf,
  AddressOf,
  NoAddress,
  Tokens,       \* adminServer.json of the master: its entries of type and token
  OwnTokens,    \* the same file where the server processes run
  NoToken

\* What is assumed of the constants.
RegistryAssumption ==
  /\ IdOf \in [Conn -> Id] /\ TypeOf \in [Id -> Type] /\ NoConn \notin Conn
  /\ IsFiniteSet(Id)

VARIABLES
  status,    \* of a connection: "none", "open", "registered", "closed"
  idMap,     \* id -> connection
  slaveMap,  \* id -> connections
  typeMap,   \* type -> connections
  sent,      \* messages of the last notification, per connection
  waiting,   \* a callback of requestServer is kept that nobody will call
  threw      \* a call threw

vars == <<status, idMap, slaveMap, typeMap, sent, waiting, threw>>

Nothing == [c \in Conn |-> 0]

TypeOK ==
  /\ status \in [Conn -> {"none", "open", "registered", "closed"}]
  /\ idMap \in [Id -> Conn \union {NoConn}]
  /\ slaveMap \in [Id -> Seq(Conn)] /\ typeMap \in [Type -> Seq(Conn)]
  /\ sent \in [Conn -> Nat] /\ waiting \in BOOLEAN /\ threw \in BOOLEAN

Init ==
  /\ status = [c \in Conn |-> "none"] /\ idMap = [i \in Id |-> NoConn]
  /\ slaveMap = [i \in Id |-> <<>>] /\ typeMap = [t \in Type |-> <<>>]
  /\ sent = Nothing /\ waiting = FALSE /\ threw = FALSE

Registered == {c \in Conn : status[c] = "registered"}

-----------------------------------------------------------------------------
(* Connections *)

AddConnection(c) ==
  LET i == IdOf[c] IN
  IF idMap[i] = NoConn
  THEN /\ idMap' = [idMap EXCEPT ![i] = c]
       /\ typeMap' = [typeMap EXCEPT ![TypeOf[i]] = Append(@, c)]
       /\ UNCHANGED slaveMap
  ELSE slaveMap' = [slaveMap EXCEPT ![i] = Append(@, c)] /\ UNCHANGED <<idMap, typeMap>>

CompareServer(a, b) == a = b

\* list without its first element that is one of conns.
WithoutFirst(list, conns) ==
  LET found == {k \in DOMAIN list : list[k] \in conns}
  IN IF found = {} THEN list ELSE RemoveAt(list, Min(found))

\* The record is removed if it has the address of the one that has gone, else
\* the first slave with that address.
\* Mutant: whichever process of the id has gone, the record is removed.
SameId(c, r) == TRUE
SameServer(c, r) == CompareServer(AddressOf[r], AddressOf[c])
RemoveConnection(c) ==
  LET i == IdOf[c]
      r == idMap[i]
      ofId == {d \in Conn : IdOf[d] = i}
      same == {d \in Conn : CompareServer(AddressOf[d], AddressOf[c])}
  IN IF r = NoConn THEN UNCHANGED <<idMap, slaveMap, typeMap>>
     ELSE IF SameServer(c, r)
     THEN /\ idMap' = [idMap EXCEPT ![i] = NoConn]
          /\ typeMap' = [typeMap EXCEPT ![TypeOf[i]] = WithoutFirst(@, ofId)]
          /\ UNCHANGED slaveMap
     ELSE slaveMap' = [slaveMap EXCEPT ![i] = WithoutFirst(@, same)] /\ UNCHANGED <<idMap, typeMap>>

\* defaultAuthServerMonitor and defaultAuthServerMaster: the token of the first
\* entry of the type, and whether an entry has both; without entries (no file)
\* every server is accepted.
TokenOf(t) ==
  LET of == {k \in DOMAIN OwnTokens : OwnTokens[k].type = t}
  IN IF of = {} THEN NoToken ELSE OwnTokens[Min(of)].token
AuthServer(t, token) == Tokens = <<>> \/ [type |-> t, token |-> token] \in Range(Tokens)

Connects(c) ==
  /\ status[c] = "none" /\ status' = [status EXCEPT ![c] = "open"]
  /\ UNCHANGED <<idMap, slaveMap, typeMap, waiting, threw>> /\ sent' = Nothing

Register(c) ==
  /\ status[c] = "open"
  /\ LET t == TypeOf[IdOf[c]] IN
     IF AuthServer(t, TokenOf(t))
     THEN status' = [status EXCEPT ![c] = "registered"] /\ AddConnection(c)
     ELSE status' = [status EXCEPT ![c] = "closed"] /\ UNCHANGED <<idMap, slaveMap, typeMap>>
  /\ sent' = Nothing /\ UNCHANGED <<waiting, threw>>

\* A reconnection is refused while the id has a record, and the socket is left open.
Reconnect(c) ==
  /\ status[c] = "open"
  /\ IF idMap[IdOf[c]] # NoConn THEN UNCHANGED <<status, idMap, slaveMap, typeMap>>
     ELSE status' = [status EXCEPT ![c] = "registered"] /\ AddConnection(c)
  /\ sent' = Nothing /\ UNCHANGED <<waiting, threw>>

Disconnect(c) ==
  /\ status[c] \in {"open", "registered"}
  /\ status' = [status EXCEPT ![c] = "closed"]
  /\ IF status[c] = "registered" THEN RemoveConnection(c)
     ELSE UNCHANGED <<idMap, slaveMap, typeMap>>
  /\ sent' = Nothing /\ UNCHANGED <<waiting, threw>>

-----------------------------------------------------------------------------
(* Messages *)

Times(list) == [c \in Conn |-> Cardinality({k \in DOMAIN list : list[k] = c})]
Records == SetToSeq({idMap[i] : i \in Id} \ {NoConn})

\* broadcastMonitors, broadcastCommand
Broadcast(list) == sent' = Times(list) /\ UNCHANGED <<status, idMap, slaveMap, typeMap, waiting, threw>>

NotifyAll == Broadcast(Records)
NotifyCommand == Broadcast(Records)
NotifyByType(t) == typeMap[t] # <<>> /\ Broadcast(typeMap[t])
NotifyById(i) == idMap[i] # NoConn /\ Broadcast(<<idMap[i]>>)
NotifySlavesById(i) == slaveMap[i] # <<>> /\ Broadcast(slaveMap[i])

\* A record has no host and port of its own, only its info does: it never compares
\* equal to an address. Without slaves the search for one throws.
RecordAddress == NoAddress
Found(i, a) == CompareServer(RecordAddress, a)
NotifyByServer(i, a) ==
  /\ idMap[i] # NoConn
  /\ IF Found(i, a) THEN sent' = Times(<<idMap[i]>>) /\ UNCHANGED threw
     ELSE sent' = Nothing /\ threw' = (threw \/ slaveMap[i] = <<>>)
  /\ UNCHANGED <<status, idMap, slaveMap, typeMap, waiting>>
RequestServer(i, a) ==
  /\ idMap[i] # NoConn
  /\ IF Found(i, a) THEN sent' = Times(<<idMap[i]>>) /\ UNCHANGED <<threw, waiting>>
     ELSE /\ sent' = Nothing /\ threw' = (threw \/ slaveMap[i] = <<>>)
          /\ waiting' = TRUE
  /\ UNCHANGED <<status, idMap, slaveMap, typeMap>>

Next ==
  \/ \E c \in Conn : Connects(c) \/ Register(c) \/ Reconnect(c) \/ Disconnect(c)
  \/ NotifyAll \/ NotifyCommand
  \/ \E t \in Type : NotifyByType(t)
  \/ \E i \in Id : NotifyById(i) \/ NotifySlavesById(i)
                   \/ \E a \in Range(AddressOf) : NotifyByServer(i, a) \/ RequestServer(i, a)

Spec == Init /\ [][Next]_vars

-----------------------------------------------------------------------------
(* Properties *)

\* The three maps agree: a record is a live connection of its id, the list of
\* a type is its records, once each, and a live connection whose address no
\* other one of its id has is a record or a slave.
MapsAgree ==
  /\ \A i \in Id : idMap[i] # NoConn => idMap[i] \in Registered /\ IdOf[idMap[i]] = i
  /\ \A t \in Type : /\ IsInjective(typeMap[t])
                     /\ Range(typeMap[t]) = {idMap[i] : i \in {j \in Id : TypeOf[j] = t}} \ {NoConn}
  /\ \A c \in Registered :
       (\A d \in Conn \ {c} : IdOf[d] = IdOf[c] => AddressOf[d] # AddressOf[c])
         => idMap[IdOf[c]] = c \/ c \in Range(slaveMap[IdOf[c]])

\* A message for all, for a type or for an id is sent to live connections, and
\* at most once to each; only a message for slaves may go to one that has left.
SentOnce == \A c \in Conn : sent[c] <= 1 /\ (sent[c] = 1 => c \in Registered \/ c \in Range(slaveMap[IdOf[c]]))
=============================================================================
