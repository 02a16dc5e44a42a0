------------------------------- MODULE Codecs -------------------------------
(***************************************************************************)
(* The formats of client connections at work: one end encodes a message    *)
(* with the protos of its route, puts it into a message and that into a    *)
(* package; the other end takes it all apart again.                        *)
(*                                                                         *)
(*   protobuf/lib/encoder.js, decoder.js, client/protobuf.js               *)
(*   protocol/lib/protocol.js                                              *)
(***************************************************************************)
EXTENDS Protobuf

CONSTANTS
  Protos,   \* protos of routes
  Body,     \* [Protos -> set of messages]
  Header,   \* messages without their bodies
  MaxQueue  \* bound: packages that arrive at once

VARIABLES
  from,     \* the end that sends
  proto,
  sent,     \* messages that were sent, with their headers
  bytes,    \* of their packages, which arrive together
  got       \* what the other end made of them

vars == <<from, proto, sent, bytes, got>>

OtherEnd(end) == IF end = "node" THEN "browser" ELSE "node"

Init ==
  /\ from \in Ends /\ proto \in Protos
  /\ sent = <<>> /\ bytes = <<>> /\ got = <<>>

Encoded(body) == IF from = "node" THEN ServerEncode(body, proto) ELSE ClientEncode(body, proto)

\* A body that was not encoded is none at all; one that throws sends nothing.
Send(header, body) ==
  LET b == Encoded(body)
      message == MessageEncode(from, header @@ [body |-> b])
  IN /\ got = <<>> /\ Len(sent) < MaxQueue
     /\ b # Thrown /\ message # Refused
     /\ sent' = Append(sent, [header |-> header, body |-> body])
     /\ bytes' = bytes \o PackageEncode(PackageType.data, message)
     /\ UNCHANGED <<from, proto, got>>

Receive ==
  /\ sent # <<>> /\ got = <<>>
  /\ LET packages == PackageDecode(bytes)
         Message(k) == MessageDecode(OtherEnd(from), packages[k].body)
     IN got' = [k \in DOMAIN packages |->
                 [type |-> packages[k].type, message |-> Message(k),
                  body |-> Decode(OtherEnd(from), Message(k).body, proto)]]
  /\ UNCHANGED <<from, proto, sent, bytes>>

Again ==
  /\ got # <<>>
  /\ sent' = <<>> /\ bytes' = <<>> /\ got' = <<>>
  /\ UNCHANGED <<from, proto>>

Next == Receive \/ Again \/ \E h \in Header, b \in Body[proto] : Send(h, b)

Spec == Init /\ [][Next]_vars

-----------------------------------------------------------------------------
(* Properties *)

RECURSIVE Strings(_, _)
Strings(msg, p) ==
  UNION {LET f == p.fields[n]
             values == IF f.option = "repeated" THEN ToSet(msg[n]) ELSE {msg[n]}
         IN CASE f.type = "string" -> values
              [] IsNested(p, f.type) -> UNION {Strings(v, p.messages[f.type]) : v \in values}
              [] OTHER -> {} : n \in DOMAIN msg \intersect DOMAIN p.fields}

HasFloats(p) == \E n \in DOMAIN p.fields : p.fields[n].type \in {"float", "double"}

\* What is left of a message: fields of the protos, without empty arrays.
RECURSIVE Kept(_, _)
Kept(msg, p) ==
  LET names == {n \in DOMAIN msg \intersect DOMAIN p.fields : p.fields[n].option = "repeated" => msg[n] # <<>>}
      One(v, type) == IF IsNested(p, type) THEN Kept(v, p.messages[type]) ELSE v
  IN [n \in names |-> LET f == p.fields[n]
                      IN IF f.option = "repeated" THEN [k \in DOMAIN msg[n] |-> One(msg[n][k], f.type)]
                         ELSE One(msg[n], f.type)]

\* Pairs of surrogates are encoded differently by the two ends.
Plain(msg, p) == \A s \in Strings(msg, p) : \A k \in DOMAIN s : ~Surrogate(s[k])

\* The room an encoder takes is enough for every message without floats.
OnlyFloatsOverflow ==
  \A b \in Body[proto] : ~HasFloats(proto) /\ CheckMsg(b, proto) => Encoded(b) # Thrown

\* A request to the socket.io connector is read as it was sent, whatever the code
\* units of its route and body, and its answer is known by its id.
SioReadAsSent ==
  \A h \in Header : h.compressRoute = 0 /\ Len(h.route) <= 255 =>
    LET read == SioDecode(SioEncode(h.id, h.route, h.route))
    IN /\ read = [id |-> h.id, route |-> h.route, body |-> h.route]
       /\ "id" \in DOMAIN SioCompose(read.id, h.route, h.route) <=> h.id # 0

\* However many packages arrive at once, the other end reads the messages that
\* were sent: id, route or its code, flags, and the body as far as the protos
\* know it. Only bodies with floats may not fit the room of the encoder.
ReadAsSent ==
  /\ SioReadAsSent /\ OnlyFloatsOverflow
  /\ got # <<>> => Len(got) = Len(sent)
  /\ \A k \in DOMAIN got :
       /\ got[k].type = PackageType.data
       /\ \A f \in DOMAIN sent[k].header : got[k].message[f] = sent[k].header[f]
       /\ Plain(sent[k].body, proto) /\ CheckMsg(sent[k].body, proto)
          /\ (HasFloats(proto) => Fits(from, sent[k].body, proto)) =>
            ~got[k].body.failed /\ got[k].body.value = Kept(sent[k].body, proto)

=============================================================================
