------------------------------ MODULE Protobuf ------------------------------
(***************************************************************************)
(* The message encoding of routes that have protos (protobuf/lib): parser, *)
(* encoder and decoder, of the server and of the browser. The two ends     *)
(* have copies of the same code; they differ in how they treat strings     *)
(* and in the room an encoder takes for its result.                        *)
(*                                                                         *)
(* A message is a function from names to values, protos are a record of    *)
(* fields, a function from names to option, type and tag, and of nested    *)
(* messages. The bytes of a float or double are its value, and zeros.      *)
(***************************************************************************)
EXTENDS Protocol

\* Parser: of two fields with one tag the first counts.
Parse(decls, messages) ==
  LET kept == {k \in DOMAIN decls : \A j \in 1 .. k - 1 : decls[j].tag # decls[k].tag}
      names == {decls[k].name : k \in kept}
      DeclOf(n) == decls[CHOOSE k \in kept : decls[k].name = n /\ \A j \in kept : decls[j].name = n => j <= k]
  IN [fields |-> [n \in names |-> [option |-> DeclOf(n).option, type |-> DeclOf(n).type, tag |-> DeclOf(n).tag]],
      messages |-> messages]

Simple == {"uInt32", "sInt32", "int32", "float", "double"}
WireType(type) ==
  CASE type \in {"uInt32", "sInt32", "int32"} -> 0
    [] type = "double" -> 1
    [] type = "float" -> 5
    [] OTHER -> 2

IsNested(proto, type) == type \in DOMAIN proto.messages

-----------------------------------------------------------------------------
(* codec *)

EncodeUInt32(n) == Base128(n)
DoubledOnly(n) == n * 2
Doubled(n) == IF n < 0 THEN (-n) * 2 - 1 ELSE n * 2
EncodeSInt32(n) == EncodeUInt32(Doubled(n))
DecodeUInt32(digits) == ValueOf(digits)
DecodeSInt32(digits) ==
  LET n == DecodeUInt32(digits) IN IF n % 2 = 1 THEN -((n + 1) \div 2) ELSE n \div 2

\* The encoders and decoders of floats: four or eight bytes.
EncodeFloat(v, bytes) == [k \in 1 .. bytes |-> IF k = 1 THEN v ELSE 0]
DecodeFloat(b) == b[1]

\* byteLength: what Buffer.byteLength or the codec of the browser say.
ByteLength(end, s) == Len(StrEncode(end, s))

-----------------------------------------------------------------------------
(* The encoder. It writes into an array of the length of the message as    *)
(* JSON, in node twice as long, and every nested message into one of its   *)
(* own, which in a browser has no bounds.                                  *)

RECURSIVE Decimals(_)
Decimals(n) == IF n < 0 THEN 1 + Decimals(-n) ELSE IF n < 10 THEN 1 ELSE 1 + Decimals(n \div 10)

RECURSIVE JsonLength(_, _, _)
JsonValue(end, v, type, proto) ==
  CASE type \in Simple -> Decimals(v)
    [] type = "string" -> 2 + ByteLength(end, v)
    [] IsNested(proto, type) -> JsonLength(end, v, proto.messages[type])
    [] OTHER -> 2

\* Brackets, and the items with a separator between them.
Listed(lengths) == 1 + (IF lengths = <<>> THEN 1 ELSE FoldLeft(+, Len(lengths), lengths))

\* Names are one letter long.
JsonLength(end, msg, proto) ==
  Listed([k \in 1 .. Cardinality(DOMAIN msg) |->
    LET name == SetToSeq(DOMAIN msg)[k]
        type == IF name \in DOMAIN proto.fields THEN proto.fields[name].type ELSE "uInt32"
    IN 4 + IF name \in DOMAIN proto.fields /\ proto.fields[name].option = "repeated"
           THEN Listed([i \in DOMAIN msg[name] |-> JsonValue(end, msg[name][i], type, proto)])
           ELSE JsonValue(end, msg[name], type, proto)])

RECURSIVE CheckMsg(_, _)
CheckMsg(msg, proto) ==
  \A n \in DOMAIN proto.fields :
    LET f == proto.fields[n]
    IN /\ f.option = "required" => n \in DOMAIN msg
       /\ n \in DOMAIN msg /\ IsNested(proto, f.type) =>
            IF f.option = "repeated" THEN \A k \in DOMAIN msg[n] : CheckMsg(msg[n][k], proto.messages[f.type])
            ELSE CheckMsg(msg[n], proto.messages[f.type])

EncodeTag(type, tag) == EncodeUInt32(tag * 8 + WireType(type))
WithLength(b) == EncodeUInt32(Len(b)) \o b

WriteStr(end, s) == StrEncode(end, s)

RECURSIVE EncodeMsg(_, _, _)
EncodeProp(end, v, type, proto) ==
  CASE type = "uInt32" -> EncodeUInt32(v)
    [] type \in {"sInt32", "int32"} -> EncodeSInt32(v)
    [] type = "float" -> EncodeFloat(v, 4)
    [] type = "double" -> EncodeFloat(v, 8)
    [] type = "string" -> WithLength(WriteStr(end, v))
    [] IsNested(proto, type) -> WithLength(EncodeMsg(end, v, proto.messages[type]))
    [] OTHER -> <<>>

\* Simple values share a tag and a count, others have a tag each.
EncodeArray(end, values, f, proto) ==
  LET props == [k \in DOMAIN values |-> EncodeProp(end, values[k], f.type, proto)]
      tag == EncodeTag(f.type, f.tag)
  IN IF f.type \in Simple THEN tag \o EncodeUInt32(Len(values)) \o FlattenSeq(props)
     ELSE FlattenSeq([k \in DOMAIN props |-> tag \o props[k]])

\* Names without a field are left out, and so are empty arrays.
EncodeMsg(end, msg, proto) ==
  LET names == SetToSeq(DOMAIN msg \intersect DOMAIN proto.fields)
      Field(n) == LET f == proto.fields[n]
                  IN IF f.option # "repeated" THEN EncodeTag(f.type, f.tag) \o EncodeProp(end, msg[n], f.type, proto)
                     ELSE IF msg[n] = <<>> THEN <<>> ELSE EncodeArray(end, msg[n], f, proto)
  IN FlattenSeq([k \in DOMAIN names |-> Field(names[k])])

ServerRoom(msg, proto) == 2 * JsonLength("node", msg, proto)
ClientRoom(msg, proto) == JsonLength("browser", msg, proto)
Room(end, msg, proto) == IF end = "node" THEN ServerRoom(msg, proto) ELSE ClientRoom(msg, proto)

RECURSIVE Fits(_, _, _)
Fits(end, msg, proto) ==
  /\ Len(EncodeMsg(end, msg, proto)) <= Room(end, msg, proto)
  /\ end = "node" =>
       \A n \in DOMAIN msg \intersect DOMAIN proto.fields :
         LET f == proto.fields[n]
         IN IsNested(proto, f.type) =>
              IF f.option = "repeated" THEN \A k \in DOMAIN msg[n] : Fits(end, msg[n][k], proto.messages[f.type])
              ELSE Fits(end, msg[n], proto.messages[f.type])

Nothing == <<>>     \* encode returns null
Thrown == <<-2>>    \* encode throws

Take(b, n) == SubSeq(b, 1, IF n <= Len(b) THEN n ELSE Len(b))

\* In node a write past the end throws, in a browser it does nothing.
ServerEncode(msg, proto) ==
  IF ~CheckMsg(msg, proto) THEN Nothing
  ELSE IF Fits("node", msg, proto) THEN EncodeMsg("node", msg, proto) ELSE Thrown

ClientEncode(msg, proto) ==
  IF ~CheckMsg(msg, proto) THEN Nothing
  ELSE LET bytes == EncodeMsg("browser", msg, proto)
       IN Take(bytes, ClientRoom(msg, proto))

-----------------------------------------------------------------------------
(* The decoder: what it reads at the head of bytes, and the bytes after it *)

Read(v, b) == [value |-> v, rest |-> b, failed |-> FALSE]
Failed == [value |-> 0, rest |-> <<>>, failed |-> TRUE]
GetBytes(b) == IF \E k \in DOMAIN b : b[k] < 128 THEN Digits(b) ELSE <<>>

TagOf(head) == DecodeUInt32(head) \div 8
ReadStr(end, b) == StrDecode(end, b)

RECURSIVE DecodeFields(_, _, _, _)
DecodeProp(end, b, type, proto) ==
  LET digits == GetBytes(b)
      after == From(b, Len(digits) + 1)
      size == DecodeUInt32(digits)
  IN CASE type = "float" -> IF Len(b) < 4 THEN Failed ELSE Read(DecodeFloat(b), From(b, 5))
       [] type = "double" -> IF Len(b) < 8 THEN Failed ELSE Read(DecodeFloat(b), From(b, 9))
       [] digits = <<>> -> Failed
       [] type = "uInt32" -> Read(DecodeUInt32(digits), after)
       [] type \in {"sInt32", "int32"} -> Read(DecodeSInt32(digits), after)
       [] type = "string" -> Read(ReadStr(end, Take(after, size)), From(after, size + 1))
       [] IsNested(proto, type) ->
            LET inner == DecodeFields(end, Take(after, size), proto.messages[type], <<>>)
            IN IF inner.failed THEN Failed ELSE Read(inner.value, From(after, size + 1))
       [] OTHER -> Failed

RECURSIVE DecodeItems(_, _, _, _, _)
DecodeItems(end, b, type, proto, n) ==
  IF n = 0 THEN Read(<<>>, b)
  ELSE LET one == DecodeProp(end, b, type, proto)
           more == DecodeItems(end, one.rest, type, proto, n - 1)
       IN IF one.failed \/ more.failed THEN Failed ELSE Read(<<one.value>> \o more.value, more.rest)

DecodeArray(end, b, type, proto) ==
  IF type \notin Simple THEN DecodeItems(end, b, type, proto, 1)
  ELSE LET digits == GetBytes(b)
       IN DecodeItems(end, From(b, Len(digits) + 1), type, proto, DecodeUInt32(digits))

\* A tag that no field has makes the decoder throw.
DecodeFields(end, b, proto, msg) ==
  IF b = <<>> THEN Read(msg, b)
  ELSE LET head == GetBytes(b)
           names == {n \in DOMAIN proto.fields : proto.fields[n].tag = TagOf(head)}
       IN IF head = <<>> \/ names = {} THEN Failed
          ELSE LET n == CHOOSE m \in names : TRUE
                   f == proto.fields[n]
                   after == From(b, Len(head) + 1)
                   r == IF f.option = "repeated" THEN DecodeArray(end, after, f.type, proto)
                        ELSE DecodeProp(end, after, f.type, proto)
                   old == IF f.option = "repeated" /\ n \in DOMAIN msg THEN msg[n] \o r.value ELSE r.value
               IN IF r.failed THEN Failed ELSE DecodeFields(end, r.rest, proto, (n :> old) @@ msg)

ServerDecode(b, proto) == DecodeFields("node", b, proto, <<>>)
ClientDecode(b, proto) == DecodeFields("browser", b, proto, <<>>)
Decode(end, b, proto) == IF end = "node" THEN ServerDecode(b, proto) ELSE ClientDecode(b, proto)

=============================================================================
