------------------------------- MODULE Status -------------------------------
(***************************************************************************)
(* The status plugin: which frontend servers a user is connected to, kept  *)
(* in redis, one set of server ids per user.                               *)
(*                                                                         *)
(*   plugins/status-plugin: events/event.js, manager/statusManager.js,     *)
(*                          service/statusService.js, countDownLatch.js    *)
(*                                                                         *)
(* Each server has a connection of its own to redis, which runs the        *)
(* commands of a connection in order and fails them when it is broken.     *)
(* Sessions bind, unbind and close as the session service lets them.       *)
(***************************************************************************)
EXTENDS Naturals, Sequences

CONSTANTS
  Frontend, Session,
  On,              \* [Session -> Frontend]
  Uid, NoUid,
  CleanOnStartUp,  \* opts.cleanOnStartUp
  MaxStarts,       \* bound: starts of servers
  MaxPushes,       \* bound: calls of pushByUids
  MaxSent          \* bound: commands of a connection

\* What is assumed of the constants.
ConstantsAssumption == On \in [Session -> Frontend] /\ NoUid \notin Uid

VARIABLES
  state,   \* of the component: "down", "inited", "started", "closed"
  open,    \* sessions that are open
  uid,     \* user of each session
  sent,    \* commands of each server that redis has not answered
  redis,   \* redis: server ids by user
  marred,  \* pairs of server and user that the plugin is known to get wrong
  push,    \* the call of pushByUids that is under way
  starts, pushes

session == <<open, uid>>
vars == <<state, session, sent, redis, marred, push, starts, pushes>>

Command ==
  [op : {"add", "leave", "get"}, uid : Uid] \union [op : {"keys"}] \union [op : {"del"}, uids : SUBSET Uid]
NoPush == [by |-> "nobody"]

TypeOK ==
  /\ state \in [Frontend -> {"down", "inited", "started", "closed"}]
  /\ open \subseteq Session /\ uid \in [Session -> Uid \union {NoUid}]
  /\ sent \in [Frontend -> Seq(Command)]
  /\ redis \in [Uid -> SUBSET Frontend]
  /\ marred \subseteq Frontend \X Uid

Init ==
  /\ state = [f \in Frontend |-> "down"]
  /\ open = {} /\ uid = [s \in Session |-> NoUid]
  /\ sent = [f \in Frontend |-> <<>>]
  /\ redis = [u \in Uid |-> {}]
  /\ marred = {} /\ push = NoPush /\ starts = 0 /\ pushes = 0

Sent(f, commands) == sent' = [sent EXCEPT ![f] = @ \o commands]
Room(f) == Len(sent[f]) < MaxSent

-----------------------------------------------------------------------------
(* The component *)

Start(f) ==
  /\ state[f] = "down" /\ starts < MaxStarts
  /\ starts' = starts + 1
  /\ state' = [state EXCEPT ![f] = "inited"]
  /\ UNCHANGED <<session, sent, redis, marred, push, pushes>>

\* The connection is ready. The component is started before redis is cleaned.
Ready(f) ==
  /\ state[f] = "inited"
  /\ state' = [state EXCEPT ![f] = "started"]
  /\ Sent(f, IF CleanOnStartUp THEN <<[op |-> "keys"]>> ELSE <<>>)
  /\ UNCHANGED <<session, redis, marred, push, starts, pushes>>

Cleaning(f) == \E i \in 1 .. Len(sent[f]) : sent[f][i].op \in {"keys", "del"}

\* What is listed for a server that is gone stays.
Gone(f) ==
  /\ open' = {s \in open : On[s] # f}
  /\ uid' = [s \in Session |-> IF On[s] = f THEN NoUid ELSE uid[s]]
  /\ sent' = [sent EXCEPT ![f] = <<>>]
  /\ marred' = marred \union ({f} \X Uid)
  /\ push' = IF push.by = f THEN NoPush ELSE push
  /\ UNCHANGED <<redis, starts, pushes>>

Stop(f) == state[f] = "started" /\ state' = [state EXCEPT ![f] = "closed"] /\ Gone(f)
Crash(f) == state[f] # "down" /\ state' = [state EXCEPT ![f] = "down"] /\ Gone(f)

-----------------------------------------------------------------------------
(* The events of sessions *)

\* A server takes clients when its components have started.
Opens(s) ==
  /\ s \notin open /\ uid[s] = NoUid
  /\ state[On[s]] = "started" /\ ~Cleaning(On[s])
  /\ open' = open \union {s}
  /\ UNCHANGED <<state, uid, sent, redis, marred, push, starts, pushes>>

BindSession(s, u) ==
  /\ s \in open /\ uid[s] = NoUid /\ Room(On[s])
  /\ uid' = [uid EXCEPT ![s] = u]
  /\ Sent(On[s], <<[op |-> "add", uid |-> u]>>)
  /\ UNCHANGED <<state, open, redis, marred, push, starts, pushes>>

\* The plugin has no handler of unbind_session.
Unbinds(s) ==
  /\ s \in open /\ uid[s] # NoUid
  /\ uid' = [uid EXCEPT ![s] = NoUid]
  /\ marred' = marred \union {<<On[s], uid[s]>>}
  /\ UNCHANGED <<state, open, sent, redis, push, starts, pushes>>

Another(s) == \E t \in open \ {s} : On[t] = On[s] /\ uid[t] = uid[s]
NoOther(s) == FALSE
Stays(s) == Another(s)

\* The session has left the index of the session service when it says so.
CloseSession(s) ==
  /\ s \in open /\ Room(On[s])
  /\ open' = open \ {s}
  /\ Sent(On[s], IF uid[s] = NoUid \/ Stays(s) THEN <<>> ELSE <<[op |-> "leave", uid |-> uid[s]]>>)
  /\ uid' = [uid EXCEPT ![s] = NoUid]
  /\ UNCHANGED <<state, redis, marred, push, starts, pushes>>

-----------------------------------------------------------------------------
(* Redis *)

Answers(f, op) == sent[f] # <<>> /\ Head(sent[f]).op = op /\ sent' = [sent EXCEPT ![f] = Tail(@)]

\* Redis may have run a command that fails.
Added(f, fails) ==
  /\ Answers(f, "add")
  /\ LET u == Head(sent[f]).uid
     IN /\ \/ redis' = [redis EXCEPT ![u] = @ \union {f}]
           \/ fails /\ UNCHANGED redis
        /\ marred' = IF fails THEN marred \union {<<f, u>>} ELSE marred
  /\ UNCHANGED <<state, session, push, starts, pushes>>

Left(f, fails) ==
  /\ Answers(f, "leave")
  /\ LET u == Head(sent[f]).uid
     IN /\ \/ redis' = [redis EXCEPT ![u] = @ \ {f}]
           \/ fails /\ UNCHANGED redis
        /\ marred' = IF fails THEN marred \union {<<f, u>>} ELSE marred
  /\ UNCHANGED <<state, session, push, starts, pushes>>

\* The keys of every server are deleted, as they were when they were listed.
\* What the server itself left behind in an earlier life goes with them.
Listed(f, fails) ==
  /\ sent[f] # <<>> /\ Head(sent[f]).op = "keys"
  /\ LET us == {u \in Uid : redis[u] # {}}
     IN /\ sent' = [sent EXCEPT ![f] =
             IF fails \/ us = {} THEN Tail(@) ELSE Append(Tail(@), [op |-> "del", uids |-> us])]
        /\ marred' = IF us = {} /\ ~fails THEN marred \ ({f} \X Uid) ELSE marred
  /\ UNCHANGED <<state, session, redis, push, starts, pushes>>

Deleted(f, fails) ==
  /\ Answers(f, "del")
  /\ LET us == Head(sent[f]).uids
     IN /\ \/ redis' = [u \in Uid |-> IF u \in us THEN {} ELSE redis[u]]
           \/ fails /\ UNCHANGED redis
        /\ marred' = (IF fails THEN marred ELSE marred \ ({f} \X Uid)) \union ((Frontend \ {f}) \X us)
  /\ UNCHANGED <<state, session, push, starts, pushes>>

-----------------------------------------------------------------------------
(* pushByUids: the servers of every user, then one push *)

PushByUids(f, us) ==
  /\ state[f] = "started" /\ push = NoPush /\ pushes < MaxPushes /\ Room(f)
  /\ us # {}
  /\ \E order \in [1 .. 2 -> us] :
       /\ {order[i] : i \in 1 .. 2} = us
       /\ LET asked == IF us = {order[1]} THEN <<order[1]>> ELSE order
          IN /\ Sent(f, [i \in 1 .. Len(asked) |-> [op |-> "get", uid |-> asked[i]]])
             /\ push' = [by |-> f, latch |-> Len(asked), records |-> {}, errors |-> 0, returns |-> 0]
  /\ pushes' = pushes + 1
  /\ UNCHANGED <<state, session, redis, marred, starts>>

\* The call ends, with its push, when the last user is answered; an error calls
\* back at once and leaves the latch as it is.
Counted(p, u) ==
  LET q == [p EXCEPT !.latch = @ - 1, !.records = @ \union ({u} \X redis[u])]
  IN IF q.latch > 0 THEN q ELSE [q EXCEPT !.returns = @ + 1]

Got(f, fails) ==
  /\ Answers(f, "get")
  /\ push' = IF push.by # f THEN push
             ELSE IF fails THEN [push EXCEPT !.errors = @ + 1, !.returns = @ + 1]
             ELSE Counted(push, Head(sent[f]).uid)
  /\ UNCHANGED <<state, session, redis, marred, starts, pushes>>

Forget ==
  /\ push # NoPush
  /\ \A i \in 1 .. Len(sent[push.by]) : sent[push.by][i].op # "get"
  /\ push' = NoPush
  /\ UNCHANGED <<state, session, sent, redis, marred, starts, pushes>>

Next ==
  \/ \E f \in Frontend :
       \/ Start(f) \/ Ready(f) \/ Stop(f) \/ Crash(f)
       \/ \E us \in SUBSET Uid : PushByUids(f, us)
       \/ \E fails \in BOOLEAN : Added(f, fails) \/ Left(f, fails) \/ Listed(f, fails) \/ Deleted(f, fails) \/ Got(f, fails)
  \/ \E s \in Session : Opens(s) \/ CloseSession(s) \/ Unbinds(s) \/ \E u \in Uid : BindSession(s, u)
  \/ Forget

Spec == Init /\ [][Next]_vars

-----------------------------------------------------------------------------
(* Properties *)

Pending(f, u) == \E i \in 1 .. Len(sent[f]) : sent[f][i].op \in {"add", "leave"} /\ sent[f][i].uid = u
Bound(f, u) == \E s \in open : On[s] = f /\ uid[s] = u

\* Once its commands have run, redis lists a server for a user exactly when the
\* user has a session there, whichever of several sessions of the user closed;
\* but for failed commands, unbound users, servers that went without leaving,
\* and what the clean-up of another server deleted.
StatusAgrees ==
  \A f \in Frontend, u \in Uid :
    state[f] = "started" /\ ~Pending(f, u) /\ <<f, u>> \notin marred
      => (f \in redis[u] <=> Bound(f, u))

\* pushByUids calls back once, unless it could not find more than one user, and
\* only with the servers of every user or an error.
PushReturnsOnce ==
  push # NoPush => /\ push.returns <= 1 \/ push.returns = push.errors
                   /\ push.returns > 0 => push.latch = 0 \/ push.errors > 0

=============================================================================
