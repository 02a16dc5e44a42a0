------------------------------ MODULE Protocol ------------------------------
(***************************************************************************)
(* The package and message format of client connections, and the strings   *)
(* in it (protocol/lib/protocol.js). The file runs on both ends: in node   *)
(* its byte arrays are Buffers, which know UTF-8, in a browser they are    *)
(* Uint8Arrays, and the file encodes UTF-16 code units one by one.         *)
(*                                                                         *)
(* A string is a sequence of code units, bytes are a sequence of 0 .. 255. *)
(***************************************************************************)
EXTENDS Integers, Sequences, FiniteSets, SequencesExt

CONSTANT MaxRoute   \* 255: bytes of a route
\* What is assumed of the constants.
RouteAssumption == MaxRoute \in 0 .. 255

Ends == {"node", "browser"}

\* Bytes of a code unit: one to three.
Unit(c) ==
  IF c <= 127 THEN <<c>>
  ELSE IF c <= 2047 THEN <<192 + c \div 64, 128 + (c % 64)>>
  ELSE <<224 + c \div 4096, 128 + ((c \div 64) % 64), 128 + (c % 64)>>

High(c) == c \in 55296 .. 56319
Low(c) == c \in 56320 .. 57343
Surrogate(c) == High(c) \/ Low(c)
Replacement == 65533

\* Code points of a string: a Buffer encodes pairs of surrogates as one.
RECURSIVE Points(_)
Points(s) ==
  IF s = <<>> THEN <<>>
  ELSE IF Len(s) > 1 /\ High(s[1]) /\ Low(s[2])
  THEN <<65536 + (s[1] - 55296) * 1024 + (s[2] - 56320)>> \o Points(SubSeq(s, 3, Len(s)))
  ELSE <<IF Surrogate(s[1]) THEN Replacement ELSE s[1]>> \o Points(Tail(s))

Quad(p) == <<240 + p \div 262144, 128 + ((p \div 4096) % 64), 128 + ((p \div 64) % 64), 128 + (p % 64)>>

BufferFrom(s) ==
  FoldLeft(LAMBDA b, p : b \o (IF p >= 65536 THEN Quad(p) ELSE Unit(p)), <<>>, Points(s))

StrEncode(end, s) ==
  IF end = "node" THEN BufferFrom(s) ELSE FoldLeft(LAMBDA b, c : b \o Unit(c), <<>>, s)

At(b, k) == IF k \in DOMAIN b THEN b[k] ELSE 0
TwoBytes(b) == (b[1] % 32) * 64 + (At(b, 2) % 64)
ThreeBytes(b) == (b[1] % 16) * 4096 + (At(b, 2) % 64) * 64 + (At(b, 3) % 64)
From(b, k) == SubSeq(b, k, Len(b))

\* Code units of bytes in a browser.
RECURSIVE UnitsOf(_)
UnitsOf(b) ==
  IF b = <<>> THEN <<>>
  ELSE IF b[1] < 128 THEN <<b[1]>> \o UnitsOf(From(b, 2))
  ELSE IF b[1] < 224 THEN <<TwoBytes(b)>> \o UnitsOf(From(b, 3))
  ELSE <<ThreeBytes(b) % 65536>> \o UnitsOf(From(b, 4))

Pair(b) ==
  LET p == (b[1] % 8) * 262144 + (b[2] % 64) * 4096 + (b[3] % 64) * 64 + (b[4] % 64) - 65536
  IN <<55296 + p \div 1024, 56320 + (p % 1024)>>

\* In node, where three bytes cannot make a surrogate.
RECURSIVE BufferToString(_)
BufferToString(b) ==
  IF b = <<>> THEN <<>>
  ELSE IF b[1] < 128 THEN <<b[1]>> \o BufferToString(From(b, 2))
  ELSE IF b[1] \in 192 .. 223 /\ Len(b) >= 2 THEN <<TwoBytes(b)>> \o BufferToString(From(b, 3))
  ELSE IF b[1] \in 224 .. 239 /\ Len(b) >= 3 /\ ~Surrogate(ThreeBytes(b))
  THEN <<ThreeBytes(b)>> \o BufferToString(From(b, 4))
  ELSE IF b[1] >= 240 /\ Len(b) >= 4 THEN Pair(b) \o BufferToString(From(b, 5))
  ELSE <<Replacement>> \o BufferToString(From(b, 2))

StrDecode(end, b) == IF end = "node" THEN BufferToString(b) ELSE UnitsOf(b)

-----------------------------------------------------------------------------
(* Packages *)

PackageType == [handshake |-> 1, ack |-> 2, heartbeat |-> 3, data |-> 4, kick |-> 5]

PackageEncode(type, body) ==
  <<type % 256, (Len(body) \div 65536) % 256, (Len(body) \div 256) % 256, Len(body) % 256>> \o body

LengthOf(b) == At(b, 2) * 65536 + At(b, 3) * 256 + At(b, 4)
BodyLength(b) == LengthOf(b)

\* As many packages as there are; what is missing of the last body is zero.
RECURSIVE PackageDecode(_)
PackageDecode(b) ==
  IF b = <<>> THEN <<>>
  ELSE LET length == BodyLength(b)
       IN <<[type |-> b[1], body |-> [k \in 1 .. length |-> At(b, 4 + k)]]>>
          \o PackageDecode(From(b, 5 + length))

-----------------------------------------------------------------------------
(* Messages *)

MessageType == [request |-> 0, notify |-> 1, response |-> 2, push |-> 3]
MsgHasId(type) == type \in {0, 2}
MsgHasRoute(type) == type \in {0, 1, 3}

RECURSIVE Base128(_)
Base128(n) == IF n < 128 THEN <<n>> ELSE <<(n % 128) + 128>> \o Base128(n \div 128)

RECURSIVE CaculateMsgIdBytes(_)
CaculateMsgIdBytes(id) == IF id < 128 THEN 1 ELSE 1 + CaculateMsgIdBytes(id \div 128)
MsgIdBytes(id) == CaculateMsgIdBytes(id)

EncodeMsgFlag(m) == m.type * 2 + m.compressRoute + 16 * m.compressGzip

Refused == <<-1>>   \* encode throws
EncodeMsgRoute(end, m) ==
  IF m.compressRoute = 1
  THEN IF m.code > 65535 THEN Refused ELSE <<m.code \div 256, m.code % 256>>
  ELSE LET route == StrEncode(end, m.route)
       IN IF Len(route) > MaxRoute THEN Refused ELSE <<Len(route)>> \o route

\* Bytes past the end of the array that was made are lost.
MessageEncode(end, m) ==
  LET id == IF MsgHasId(m.type) THEN Base128(m.id) ELSE <<>>
      route == IF MsgHasRoute(m.type) THEN EncodeMsgRoute(end, m) ELSE <<>>
      length == 1 + (IF MsgHasId(m.type) THEN MsgIdBytes(m.id) ELSE 0) + Len(route) + Len(m.body)
  IN IF route = Refused THEN Refused
     ELSE SubSeq(<<EncodeMsgFlag(m)>> \o id \o route \o m.body, 1, length)

\* A number of base 128 at the head of bytes, and how many bytes it takes.
Digits(b) ==
  LET last == CHOOSE k \in DOMAIN b : b[k] < 128 /\ \A j \in 1 .. k - 1 : b[j] >= 128
  IN SubSeq(b, 1, last)
RECURSIVE ValueOf(_)
ValueOf(d) == IF d = <<>> THEN 0 ELSE (d[1] % 128) + 128 * ValueOf(Tail(d))

MessageDecode(end, b) ==
  LET flag == b[1]
      type == (flag \div 2) % 8
      compressed == flag % 2
      digits == IF MsgHasId(type) THEN Digits(From(b, 2)) ELSE <<>>
      r == From(b, 2 + Len(digits))
      routeBytes == CASE ~MsgHasRoute(type) -> 0
                      [] MsgHasRoute(type) /\ compressed = 1 -> 2
                      [] OTHER -> 1 + r[1]
  IN [id |-> ValueOf(digits), type |-> type, compressRoute |-> compressed,
      compressGzip |-> (flag \div 16) % 2,
      code |-> IF routeBytes > 0 /\ compressed = 1 THEN r[1] * 256 + r[2] ELSE 0,
      route |-> IF routeBytes > 0 /\ compressed = 0 THEN StrDecode(end, SubSeq(r, 2, routeBytes)) ELSE <<>>,
      body |-> From(r, routeBytes + 1)]

-----------------------------------------------------------------------------
(* Messages of the socket.io connector: strings, with the text of the body *)

\* What a client sends: four code units of the id, one of the length of the route.
SioEncode(id, route, body) ==
  <<id \div 16777216, (id \div 65536) % 256, (id \div 256) % 256, id % 256, Len(route)>> \o route \o body

\* Of each code unit the low byte; ids below 2^31.
ParseIntField(str, offset, len) ==
  FoldLeft(LAMBDA n, c : n * 256 + (c % 256), 0, SubSeq(str, offset + 1, offset + len))

SioDecode(msg) ==
  LET routeLen == ParseIntField(msg, 4, 1)
  IN [id |-> ParseIntField(msg, 0, 4), route |-> SubSeq(msg, 6, 5 + routeLen), body |-> From(msg, 6 + routeLen)]

\* What the server sends: a response, or without a request id a push.
SioCompose(reqId, route, body) ==
  IF reqId # 0 THEN [id |-> reqId, body |-> body] ELSE [route |-> route, body |-> body]

=============================================================================
