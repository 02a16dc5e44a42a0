------------------------------ MODULE MCCluster ------------------------------
(***************************************************************************)
(* Four kinds of processes of which one runs; two servers of the console,  *)
(* two of the admin agent, whose clients log in with one id on two         *)
(* connections; two processes of one server at one address, a third at     *)
(* another, and one server more; one agent that is measured, over two      *)
(* connections.                                                            *)
(***************************************************************************)
EXTENDS Cluster, TLC

CONSTANTS c1, c2, c3, c4, id1, id2, front, back, h1, h2, h3, k1, k2, m1, m2, x1

AdminIdOfDef == (c1 :> id1) @@ (c2 :> id1)

IdOfDef == (c1 :> id1) @@ (c2 :> id1) @@ (c3 :> id1) @@ (c4 :> id2)
TypeOfDef == (id1 :> front) @@ (id2 :> back)
AddressOfDef == (c1 :> h1) @@ (c2 :> h1) @@ (c3 :> h2) @@ (c4 :> h3)
TokensDef == <<[type |-> front, token |-> k1], [type |-> front, token |-> k2]>>
OwnTokensDef == <<[type |-> front, token |-> k1]>>

MachineOfDef == (m1 :> x1) @@ (m2 :> x1)
ReqOfDef == x1 :> {"enter"}
=============================================================================
