----------------------------- MODULE MCRpcLink -----------------------------
(* Two clients, one with two calls. *)
EXTENDS RpcLink, TLC

CONSTANTS m1, m2

CallsDef == (m1 :> 2) @@ (m2 :> 1)
=============================================================================
