----------------------------- MODULE RpcPromise ----------------------------
(***************************************************************************)
(* What a remote call promises its caller, whatever carries it.            *)
(*                                                                         *)
(* The callback of a call runs once, with the answer to that call or with  *)
(* an error.  Four weaknesses of single transports are parameters of the   *)
(* promise: repeats, a second callback with an error may follow; silent,   *)
(* the callback may never run; blank, it may be given neither an answer    *)
(* nor an error; mixed, the answer may be that of another call.  RpcLink   *)
(* implements this specification.                                          *)
(***************************************************************************)
EXTENDS Naturals, Sequences

CONSTANT Req    \* calls, each made at most once

VARIABLES called, outcome, repeats, silent, blank, mixed

vars == <<called, outcome, repeats, silent, blank, mixed>>

Answer(r) == [what |-> "answer", of |-> r]
Error(r) == [what |-> "error", of |-> r]
Empty(r) == [what |-> "empty", of |-> r]    \* no error and no result

Init ==
  /\ called = {}
  /\ outcome = [r \in Req |-> <<>>]
  /\ repeats \in BOOLEAN /\ silent \in BOOLEAN /\ blank \in BOOLEAN /\ mixed \in BOOLEAN

Call(r) ==
  /\ r \notin called
  /\ called' = called \union {r}
  /\ \/ outcome' = outcome
     \/ outcome' = [outcome EXCEPT ![r] = <<Error(r)>>]

Results(r) ==
  {Answer(r), Error(r)}
    \union (IF blank THEN {Empty(r)} ELSE {})
    \union (IF mixed THEN {Answer(s) : s \in Req} ELSE {})

\* One event may end several calls: a packet of answers, a connection lost.
Resolve ==
  /\ \E ended \in SUBSET {r \in called : outcome[r] = <<>>} :
       \E result \in [ended -> UNION {Results(r) : r \in ended}] :
         /\ \A r \in ended : result[r] \in Results(r)
         /\ outcome' = [r \in Req |-> IF r \in ended THEN <<result[r]>> ELSE outcome[r]]
  /\ called' = called

Repeat(r) ==
  /\ repeats
  /\ Len(outcome[r]) = 1
  /\ outcome' = [outcome EXCEPT ![r] = Append(@, Error(r))]
  /\ called' = called

Next ==
  /\ \/ \E r \in Req : Call(r) \/ Repeat(r)
     \/ Resolve
  /\ UNCHANGED <<repeats, silent, blank, mixed>>

\* Every call ends.
Ends == \A r \in Req : (r \in called /\ ~silent) ~> outcome[r] # <<>>

Safe == Init /\ [][Next]_vars

Spec == Safe /\ Ends
=============================================================================
