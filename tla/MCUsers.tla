------------------------------- MODULE MCUsers -------------------------------
(***************************************************************************)
(* Two frontend servers, and two sessions of one user at the second of     *)
(* them, the channel's server being the first; to the status plugin both   *)
(* sessions are at the first, and may be of two users.                     *)
(***************************************************************************)
EXTENDS Users, TLC

CONSTANTS f1, f2, u1, u2, s1, s2

HomeDef == [s \in {s1, s2} |-> f2]
UserDef == [s \in {s1, s2} |-> u1]
SchedulerDef == (f1 :> {"direct"}) @@ (f2 :> {"direct", "buffer"})

OnDef == [s \in {s1, s2} |-> f1]

\* One user, listed at f1, and added without a sid.
NoSid == ""
MemberDef == {<<f1, u1>>, <<NoSid, u1>>}
SidlessDef == {<<NoSid, u1>>}
=============================================================================
