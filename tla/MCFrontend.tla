------------------------------ MODULE MCFrontend ------------------------------
(***************************************************************************)
(* One session whose request meets the filters of an application, or those *)
(* of the framework too; two routes, of which a change of the files swaps  *)
(* which have protos; a dictionary that grows when the server restarts.    *)
(* Two servers of a type, or three that the ring has at two points each.   *)
(***************************************************************************)
EXTENDS Frontend, TLC

CONSTANTS s1, s2, s3, f1, f2, r1, r2

UsualDef == [p \in {"global", "front", "back"} |->
              IF p = "global" THEN <<"user">> ELSE <<"timeout", "user">>]
SerialDef == [p \in {"global", "front", "back"} |->
              CASE p = "global" -> <<"timeout", "toobusy">>
                [] p = "front" -> <<"serial">>
                [] p = "back" -> <<"toobusy">>]
ConfigurationsDef == {UsualDef, SerialDef}

ClientProtosDef == (0 :> {r1}) @@ (1 :> {r2})
ServerProtosDef == (0 :> {}) @@ (1 :> {r1})
PointDef == (s1 :> {1, 5}) @@ (s2 :> {2, 6}) @@ (s3 :> {4, 7})
DigestDef == (f1 :> 3) @@ (f2 :> 8)
Option(routers, failover, servers, weights) ==
  [router : routers, failover : {failover}, servers : {servers}, weights : weights]
OptionsDef == Option({"rr", "la", "df"}, FALSE, {s1, s2}, {{}}) \union Option({"rd"}, TRUE, {s1, s2}, {{}})
                \union Option({"wrr"}, FALSE, {s1, s2}, {{1, 2}, {0, 1}})
                \union Option({"ch"}, FALSE, {s1, s2, s3}, {{}})

DictDef == (1 :> {r1}) @@ (2 :> {r1, r2})
=============================================================================
