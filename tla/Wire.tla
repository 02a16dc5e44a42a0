-------------------------------- MODULE Wire --------------------------------
(***************************************************************************)
(* Which protos and which dictionary the two ends of a client connection   *)
(* use for a route. The server hot-loads its protos; a client gets them    *)
(* with the handshake, unless it says it has that version, and keeps them  *)
(* in the storage of its browser.                                          *)
(*                                                                         *)
(*   olemop/components/protobuf.js, dictionary.js, connector.js            *)
(*   olemop/connectors/common/coder.js, commands/handshake.js              *)
(*   client-js/olemop-jsclient.js                                          *)
(*                                                                         *)
(* The encodings themselves are in Codecs. Here a body is what it was made *)
(* of: JSON, or the version of the protos of its sender.                   *)
(***************************************************************************)
EXTENDS Integers, Sequences

CONSTANTS
  Route,
  ClientProtos,  \* [0 .. MaxVersion -> SUBSET Route]: routes with client protos
  ServerProtos,  \* the same for messages of the server
  Dict,          \* [1 .. MaxStarts -> SUBSET Route]: dictionary of a server's life
  MaxVersion,    \* bound: changes of each proto file
  MaxStarts,     \* bound: lives of the server
  MaxWire,       \* bound: messages on the wire in each direction
  MaxMsg         \* bound: messages that are sent

\* What is assumed of the constants.
WireAssumption ==
  /\ MaxVersion \in Nat /\ {MaxStarts, MaxWire} \subseteq Nat \ {0}
  /\ ClientProtos \in [0 .. MaxVersion -> SUBSET Route]
  /\ ServerProtos \in [0 .. MaxVersion -> SUBSET Route]

VARIABLES
  file,     \* versions in the proto files: [client, server]
  half,     \* files that are half written
  reads,    \* files that onUpdate is reading
  protos,   \* versions the server uses
  life,     \* lives of the server so far
  conn,     \* "closed", "opening", "shaking", "up"
  cprotos,  \* what the client has, or Unknown
  storage,  \* what the storage of its browser has
  cdict,    \* life of the server whose dictionary the client has; 0 for none
  fresh,    \* the files and the server have not changed since the handshake
  toServer, toClient,
  handled,  \* messages as the two ends took them
  sentCount

fileVars == <<file, half, reads>>
clientVars == <<cprotos, storage, cdict>>
linesVars == <<toServer, toClient>>
vars == <<fileVars, protos, life, conn, clientVars, fresh, linesVars, handled, sentCount>>

Which == {"client", "server"}
Version == [Which -> 0 .. MaxVersion]
Unknown == [w \in Which |-> -1]

TypeOK ==
  /\ file \in Version /\ protos \in Version
  /\ half \subseteq Which /\ reads \subseteq Which
  /\ life \in 1 .. MaxStarts /\ cdict \in 0 .. MaxStarts
  /\ conn \in {"closed", "opening", "shaking", "up"}
  /\ {cprotos, storage} \subseteq Version \union {Unknown}
  /\ fresh \in BOOLEAN
  /\ Len(toServer) <= MaxWire /\ Len(toClient) <= MaxWire

Init ==
  /\ file = [w \in Which |-> 0] /\ half = {} /\ reads = {}
  /\ protos = file /\ life = 1
  /\ conn = "closed" /\ cprotos = Unknown /\ storage = Unknown /\ cdict = 0
  /\ fresh = FALSE
  /\ toServer = <<>> /\ toClient = <<>> /\ handled = {} /\ sentCount = 0

-----------------------------------------------------------------------------
(* The proto files: fs.watch tells of each write, the file is read later   *)

Write(w, v, unfinished) ==
  /\ file' = [file EXCEPT ![w] = v]
  /\ half' = IF unfinished THEN half \union {w} ELSE half \ {w}
  /\ reads' = reads \union {w}
  /\ UNCHANGED <<protos, life, conn, clientVars, fresh, linesVars, handled, sentCount>>

FileChanges(w) == w \notin half /\ file[w] < MaxVersion /\ \E u \in BOOLEAN : Write(w, file[w] + 1, u)
FileFinished(w) == w \in half /\ Write(w, file[w], FALSE)

FailsAlways(w) == TRUE
ReadFails(w) == w \in half

\* What cannot be parsed leaves the protos as they are.
OnUpdate(w) ==
  /\ w \in reads /\ reads' = reads \ {w}
  /\ protos' = IF ReadFails(w) THEN protos ELSE [protos EXCEPT ![w] = file[w]]
  /\ fresh' = (fresh /\ protos' = protos)
  /\ UNCHANGED <<file, half, life, conn, clientVars, linesVars, handled, sentCount>>

\* The next life reads the files anew; its dictionary may be another one.
Restart ==
  /\ life < MaxStarts /\ half = {}
  /\ life' = life + 1
  /\ reads' = {} /\ protos' = file
  /\ conn' = "closed" /\ fresh' = FALSE
  /\ toServer' = <<>> /\ toClient' = <<>>
  /\ UNCHANGED <<file, half, clientVars, handled, sentCount>>

-----------------------------------------------------------------------------
(* Connecting *)

\* The storage is asked only when the client has no version yet.
Connect ==
  /\ conn = "closed" /\ conn' = "opening"
  /\ cprotos' = IF cprotos = Unknown THEN storage ELSE cprotos
  /\ toServer' = <<[kind |-> "handshake", version |-> cprotos']>>
  /\ toClient' = <<>>
  /\ UNCHANGED <<fileVars, protos, life, storage, cdict, fresh, handled, sentCount>>

GetProtos == protos

SendsIfNone(version) == version = Unknown
SendsProtos(version) == version # protos

\* The client never tells a version of the dictionary.
Handshake ==
  /\ conn = "opening" /\ toServer # <<>> /\ Head(toServer).kind = "handshake"
  /\ toServer' = Tail(toServer)
  /\ toClient' = <<[kind |-> "handshake", dict |-> life,
                    protos |-> IF SendsProtos(Head(toServer).version) THEN GetProtos ELSE Unknown]>>
  /\ fresh' = TRUE
  /\ conn' = "shaking"
  /\ UNCHANGED <<fileVars, protos, life, clientVars, handled, sentCount>>

InitData ==
  /\ conn = "shaking" /\ toClient # <<>> /\ Head(toClient).kind = "handshake"
  /\ toClient' = Tail(toClient)
  /\ cdict' = Head(toClient).dict
  /\ LET p == Head(toClient).protos
     IN IF p = Unknown THEN UNCHANGED <<cprotos, storage>>
        ELSE cprotos' = p /\ storage' = p
  /\ conn' = "up"
  /\ UNCHANGED <<fileVars, protos, life, fresh, toServer, handled, sentCount>>

\* The connection is lost with what is on it; the page may be loaded again.
Lost ==
  /\ conn # "closed" /\ conn' = "closed" /\ fresh' = FALSE
  /\ toServer' = <<>> /\ toClient' = <<>>
  /\ \/ UNCHANGED clientVars
     \/ cprotos' = Unknown /\ cdict' = 0 /\ UNCHANGED storage
  /\ UNCHANGED <<fileVars, protos, life, handled, sentCount>>

-----------------------------------------------------------------------------
(* Messages *)

\* An abbreviation is of a dictionary; a route that is not in it goes as it is.
Dictionary(dict) == IF dict = 0 THEN {} ELSE Dict[dict]
Abbreviated(r, dict) == IF r \in Dictionary(dict) THEN dict ELSE 0
Message(r, by, dict) == [kind |-> "data", route |-> r, by |-> by, dict |-> Abbreviated(r, dict)]
RouteOf(m, dict) == IF m.dict = 0 \/ m.dict = dict THEN m.route ELSE "other"

Way(routes, v, r) == IF v \in DOMAIN routes /\ r \in routes[v] THEN v ELSE MaxVersion + 1
IsJson(by) == by = MaxVersion + 1

\* A body made one way and read another: JSON.parse fails on bytes of protobuf,
\* protobuf on JSON or on the bytes of another version may read anything.
Readings(by, as) ==
  IF by = as THEN {"right"} ELSE IF IsJson(as) THEN {"unparsed"} ELSE {"wrong", "threw"}

Took(end, m, route, reading) ==
  handled' = {[end |-> end, was |-> m.route, route |-> route, reading |-> reading, fresh |-> fresh]}

DefaultEncode(r) ==
  /\ conn = "up" /\ Len(toServer) < MaxWire /\ sentCount < MaxMsg
  /\ toServer' = Append(toServer, Message(r, Way(ClientProtos, cprotos["client"], r), cdict))
  /\ sentCount' = sentCount + 1
  /\ UNCHANGED <<fileVars, protos, life, conn, clientVars, fresh, toClient, handled>>

\* What cannot be parsed as JSON becomes an empty body.
ServerDecode ==
  /\ conn = "up" /\ toServer # <<>> /\ toServer' = Tail(toServer)
  /\ LET m == Head(toServer)
         route == RouteOf(m, life)
     IN \E reading \in Readings(m.by, Way(ClientProtos, protos["client"], route)) :
          Took("server", m, route, IF reading = "unparsed" THEN "empty" ELSE reading)
  /\ UNCHANGED <<fileVars, protos, life, conn, clientVars, fresh, toClient, sentCount>>

ServerEncode(r) ==
  /\ conn = "up" /\ Len(toClient) < MaxWire /\ sentCount < MaxMsg
  /\ toClient' = Append(toClient, Message(r, Way(ServerProtos, protos["server"], r), life))
  /\ sentCount' = sentCount + 1
  /\ UNCHANGED <<fileVars, protos, life, conn, clientVars, fresh, toServer, handled>>

\* The protobuf of the browser has no decodeStr: with protos the client throws.
DeCompose ==
  /\ conn = "up" /\ toClient # <<>> /\ toClient' = Tail(toClient)
  /\ LET m == Head(toClient)
         route == RouteOf(m, cdict)
         as == Way(ServerProtos, cprotos["server"], route)
     IN IF ~IsJson(as) THEN Took("client", m, route, "threw")
        ELSE \E reading \in Readings(m.by, as) :
               Took("client", m, route, IF reading = "unparsed" THEN "threw" ELSE reading)
  /\ UNCHANGED <<fileVars, protos, life, conn, clientVars, fresh, toServer, sentCount>>

Next ==
  \/ \E w \in Which : FileChanges(w) \/ FileFinished(w) \/ OnUpdate(w)
  \/ Restart \/ Connect \/ Handshake \/ InitData \/ Lost
  \/ \E r \in Route : DefaultEncode(r) \/ ServerEncode(r)
  \/ ServerDecode \/ DeCompose

Spec == Init /\ [][Next]_vars
Fairness == \A w \in Which : WF_vars(OnUpdate(w))

-----------------------------------------------------------------------------
(* Properties *)

\* A client that is connected has the protos of the server, from wherever it
\* has them, unless they have changed since its handshake; and its dictionary.
SameProtos == conn = "up" => cdict = life /\ (fresh => cprotos = protos)

\* Until the protos change every request is read as it was written, and every
\* message the client does not throw on.
ReadAsWritten ==
  \A h \in handled : h.fresh =>
    /\ h.route = h.was
    /\ h.reading = "right" \/ (h.reading = "threw" /\ h.end = "client")

\* Once the files are left alone, and whole, the server has what is in them.
ProtosFollow == <>[](half = {} => protos = file)

=============================================================================
