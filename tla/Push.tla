-------------------------------- MODULE Push --------------------------------
(***************************************************************************)
(* Pushing messages to users: a channel of one server, the frontend        *)
(* servers that hold the sessions of its members, and the push schedulers  *)
(* that write to their sockets.                                            *)
(*                                                                         *)
(*   core/common/service/channelService.js  Channel, pushMessageByUids,    *)
(*                                          broadcast                      *)
(*   core/common/remote/frontend/channelRemote.js                          *)
(*   core/components/pushScheduler.js, core/pushSchedulers                 *)
(*                                                                         *)
(* The group of a frontend server is an array of user ids, in which a user *)
(* may be several times: listed counts them.  An rpc takes the array by    *)
(* reference, and reads it when the mailbox encodes the message: after the *)
(* filters, and after the connection is made if it was not.  Until then    *)
(* the message is live.  An array is dropped when it is empty, so one that *)
(* a live message still refers to then stays empty.  Rpc may fail before   *)
(* or after the message has arrived, and calls back once.                  *)
(*                                                                         *)
(* A session is open until it closes, and bound to its user for a part of  *)
(* that time: what Sessions describes.  Its 'closed' event drops its queue *)
(* in the same turn.                                                       *)
(***************************************************************************)
EXTENDS Naturals, FiniteSets

CONSTANTS
  Frontend, Own,   \* frontend servers; the server of the channel may be one
  Uid,
  Session, Home, User,  \* sessions, their frontend servers and users
  Scheduler,       \* kinds of scheduler of a frontend server; its selector picks one
  Number,          \* pushes
  MaxListed        \* bound: how often a user is in a group

ConstantsAssumption ==
  /\ IsFiniteSet(Frontend) /\ IsFiniteSet(Uid) /\ IsFiniteSet(Session)
  /\ Home \in [Session -> Frontend]
  /\ User \in [Session -> Uid]
  /\ Scheduler \in [Frontend -> SUBSET {"direct", "buffer"}]
  /\ MaxListed \in Nat

VARIABLES
  listed,     \* Channel.groups
  records,    \* Channel.records: the frontend server of a member, Nowhere if none
  amount,     \* Channel.userAmount
  channel,    \* Channel.state
  pushes,     \* what was called: nothing yet, a push, a broadcast; a push that was refused
  binded,     \* pushes that are broadcasts to bound sessions only
  rpc,        \* messages to frontend servers
  waiting,    \* frontend servers whose callback a push waits for
  replies,    \* callbacks to run: the push, the server, the users who failed
  success,    \* pushes of which some server called back without an error
  thrown,     \* the callbacks that have thrown: the push and the server
  failIds,    \* users each push has failed for
  result,     \* what the callback of each push got
  session,    \* "open", "bound", "closed"
  running,    \* frontend servers whose scheduler has its timer
  queued,     \* sessions with a queue in the buffer scheduler
  queue,      \* how often each message is in it
  got,        \* how often each message was written to the socket
  owed        \* users listed since the push was called

chan == <<listed, records, amount, channel>>
push == <<pushes, binded, rpc, waiting, replies, success, thrown, failIds, result>>
front == <<session, running, queued, queue, got>>
vars == <<chan, push, front, owed>>

Nowhere == "nowhere"
Counts == [Uid -> Nat]
None == [u \in Uid |-> 0]

Rpc == [push : Number, to : Frontend, live : BOOLEAN, uids : Counts]

TypeOK ==
  /\ listed \in [Frontend -> Counts]
  /\ records \in [Uid -> Frontend \union {Nowhere}]
  /\ amount \in Nat
  /\ channel \in {"running", "destroyed"}
  /\ pushes \in [Number -> {"none", "push", "broadcast", "refused"}]
  /\ binded \subseteq Number
  /\ rpc \subseteq Rpc
  /\ waiting \in [Number -> SUBSET Frontend]
  /\ replies \subseteq [push : Number, from : Frontend, fails : SUBSET Uid]
  /\ success \subseteq Number
  /\ thrown \subseteq Number \X Frontend
  /\ failIds \in [Number -> SUBSET Uid]
  /\ result \in [Number -> {"none", "ok", "error"}]
  /\ session \in [Session -> {"open", "bound", "closed"}]
  /\ running \subseteq Frontend
  /\ queued \subseteq Session
  /\ queue \in [Session -> [Number -> Nat]]
  /\ got \in [Session -> [Number -> Nat]]
  /\ owed \in [Number -> [Frontend -> SUBSET Uid]]

\* A new buffer scheduler has no queues.
NoMessages == [k \in Number |-> 0]

\* afterStart: schedulers that have a start are started.
AfterStart == {f \in Frontend : "buffer" \in Scheduler[f]}

Init ==
  /\ listed = [f \in Frontend |-> None]
  /\ records = [u \in Uid |-> Nowhere]
  /\ amount = 0
  /\ channel = "running"
  /\ pushes = [k \in Number |-> "none"]
  /\ binded = {}
  /\ rpc = {}
  /\ waiting = [k \in Number |-> {}]
  /\ replies = {}
  /\ success = {}
  /\ thrown = {}
  /\ failIds = [k \in Number |-> {}]
  /\ result = [k \in Number |-> "none"]
  /\ session = [s \in Session |-> "open"]
  /\ running = AfterStart
  /\ queued = {}
  /\ queue = [s \in Session |-> NoMessages]
  /\ got = queue
  /\ owed = [k \in Number |-> [f \in Frontend |-> {}]]

Members(uids) == {u \in Uid : uids[u] > 0}

-----------------------------------------------------------------------------
(* The channel *)

\* Channel.add: a user may be added again, from any server.
Add(u, f) ==
  /\ channel = "running"
  /\ listed[f][u] < MaxListed
  /\ listed' = [listed EXCEPT ![f][u] = @ + 1]
  /\ records' = [records EXCEPT ![u] = f]
  /\ amount' = amount + 1
  /\ UNCHANGED <<channel, push, front, owed>>

RecordsWithout(u) == [records EXCEPT ![u] = Nowhere]

\* The group is dropped with its last member: messages that refer to it are empty.
Detach(f, groups) ==
  {IF m.live /\ m.to = f /\ Members(groups[f]) = {}
     THEN [m EXCEPT !.live = FALSE, !.uids = None] ELSE m : m \in rpc}

\* Channel.leave: one place of the user in the group, and the record of the user.
Leave(u, f) ==
  /\ listed[f][u] > 0
  /\ listed' = [listed EXCEPT ![f][u] = @ - 1]
  /\ records' = RecordsWithout(u)
  /\ amount' = amount - 1
  /\ rpc' = Detach(f, listed')
  /\ owed' = [k \in Number |-> IF \E m \in rpc : m.push = k /\ m.to = f /\ m.live
                                 THEN [owed[k] EXCEPT ![f] = @ \ {u}] ELSE owed[k]]
  /\ UNCHANGED <<channel, pushes, binded, waiting, replies, success, thrown, failIds, result,
                 front>>

\* Channel.destroy: nothing is added or pushed any more, nobody is removed.
Destroy ==
  /\ channel = "running"
  /\ channel' = "destroyed"
  /\ UNCHANGED <<listed, records, amount, push, front, owed>>

-----------------------------------------------------------------------------
(* A frontend server *)

\* channelRemote.pushMessage: the sessions of the users, each as often as its user
\* is named.
Pushed(f, uids) ==
  [s \in Session |-> IF Home[s] = f /\ session[s] = "bound" THEN uids[User[s]] ELSE 0]

Bound(f, u) == {s \in Session : Home[s] = f /\ session[s] = "bound" /\ User[s] = u}

\* doBroadcast.  The direct scheduler sends to bound sessions by their user, once
\* for every session, so several sessions of a user get the message several times.
Broadcast(f, kind, onlyBound) ==
  [s \in Session |->
     IF Home[s] # f \/ session[s] = "closed" \/ (onlyBound /\ session[s] # "bound") THEN 0
     ELSE IF onlyBound /\ kind = "direct" THEN Cardinality(Bound(f, User[s])) ELSE 1]

\* enqueue: the first message makes the queue.
Enqueued(times) == {s \in Session : times[s] > 0}

Plus(counts, k, times) == [s \in Session |-> [counts[s] EXCEPT ![k] = @ + times[s]]]

\* pushScheduler.schedule, by a scheduler of this kind.
ScheduleDirect(k, times) == got' = Plus(got, k, times) /\ UNCHANGED <<queued, queue>>
ScheduleBuffered(k, times) ==
  /\ queued' = queued \union Enqueued(times)
  /\ queue' = Plus(queue, k, times)
  /\ UNCHANGED got
Schedule(k, kind, times) ==
  IF kind = "direct" THEN ScheduleDirect(k, times) ELSE ScheduleBuffered(k, times)

\* The component has one scheduler, or several and a selector that picks one for
\* each message.
GetScheduler(f) == Scheduler[f]

\* Users who are named and have no session here.
Fails(f, uids) == {u \in Members(uids) : Bound(f, u) = {}}

Reply(k, f, fails) == [push |-> k, from |-> f, fails |-> fails]

\* ConnectorComponent.send: the message is encoded once and scheduled.
SendTo(m) ==
  \E kind \in GetScheduler(m.to) :
    Schedule(m.push, kind, IF pushes[m.push] = "broadcast" THEN Broadcast(m.to, kind, m.push \in binded)
                           ELSE Pushed(m.to, m.uids))

\* The message arrives and is scheduled; the reply goes back.
Deliver(m) ==
  /\ ~m.live
  /\ LET k == m.push
         b == pushes[k] = "broadcast"
     IN /\ SendTo(m)
        /\ replies' = IF m.to \in waiting[k] /\ <<k, m.to>> \notin thrown
                        THEN replies \union {Reply(k, m.to, IF b THEN {} ELSE Fails(m.to, m.uids))}
                        ELSE replies
  /\ rpc' = rpc \ {m}
  /\ UNCHANGED <<chan, pushes, binded, waiting, success, thrown, failIds, result,
                 session, running, owed>>

Bind(s) ==
  /\ session[s] = "open"
  /\ session' = [session EXCEPT ![s] = "bound"]
  /\ UNCHANGED <<chan, push, running, queued, queue, got, owed>>

QueuesWithout(s) == queued \ {s}

\* The session closes: onClose drops the queue, with what is in it.
Close(s) ==
  /\ session[s] # "closed"
  /\ session' = [session EXCEPT ![s] = "closed"]
  /\ queued' = QueuesWithout(s)
  /\ queue' = [queue EXCEPT ![s] = NoMessages]
  /\ UNCHANGED <<chan, push, running, got, owed>>

\* The queues of a server after a flush.
Flushed(f) == [s \in Session |-> IF Home[s] = f THEN NoMessages ELSE queue[s]]

Due(f) == \E s \in queued : Home[s] = f /\ \E k \in Number : queue[s][k] > 0

\* flush, by the timer: every queue that has messages is written to its socket.
Flush(f) ==
  /\ f \in running
  /\ Due(f)
  /\ got' = [s \in Session |-> IF Home[s] = f /\ s \in queued
                                 THEN [k \in Number |-> got[s][k] + queue[s][k]] ELSE got[s]]
  /\ queue' = Flushed(f)
  /\ UNCHANGED <<chan, push, session, running, queued, owed>>

\* Service.stop: the timer is cleared, the queues are not flushed.
StopScheduler(f) ==
  /\ f \in running
  /\ running' = running \ {f}
  /\ UNCHANGED <<chan, push, session, queued, queue, got, owed>>

-----------------------------------------------------------------------------
(* The pushes *)

\* _sendMessageByGroup, broadcast: every server gets its rpc; our own is called in
\* place, and calls back in the next tick.
Send(k, kind, to, live, groups) ==
  /\ pushes[k] = "none"
  /\ pushes' = [pushes EXCEPT ![k] = kind]
  /\ waiting' = [waiting EXCEPT ![k] = to]
  /\ result' = IF to = {} THEN [result EXCEPT ![k] = "ok"] ELSE result
  /\ rpc' = rpc \union {[push |-> k, to |-> f, live |-> live, uids |-> IF live THEN None ELSE groups[f]]
                          : f \in to \ {Own}}
  /\ IF Own \in to
       THEN /\ \E s \in Scheduler[Own] :
                 Schedule(k, s, IF kind = "broadcast" THEN Broadcast(Own, s, k \in binded')
                                ELSE Pushed(Own, groups[Own]))
            /\ replies' = replies \union
                 {Reply(k, Own, IF kind = "broadcast" THEN {} ELSE Fails(Own, groups[Own]))}
       ELSE UNCHANGED <<replies, queued, queue, got>>
  /\ UNCHANGED <<chan, success, thrown, failIds, session, running>>

\* On a destroyed channel the error is passed in the place of the callback, so that
\* nobody is called back.
Refuse(k) ==
  /\ channel = "destroyed" /\ pushes[k] = "none"
  /\ pushes' = [pushes EXCEPT ![k] = "refused"]
  /\ UNCHANGED <<chan, binded, rpc, waiting, replies, success, thrown, failIds, result, front, owed>>

\* Channel.pushMessage: to the servers that have a group.
PushMessage(k) == Refuse(k) \/
  /\ channel = "running"
  /\ Send(k, "push", {f \in Frontend : Members(listed[f]) # {}}, TRUE, listed)
  /\ owed' = [owed EXCEPT ![k] = [f \in Frontend |-> Members(listed[f])]]
  /\ UNCHANGED binded

\* ChannelService.pushMessageByUids: groups of its own.
PushMessageByUids(k, uids, f) ==
  /\ uids # {}
  /\ LET groups == [g \in Frontend |-> [u \in Uid |-> IF g = f /\ u \in uids THEN 1 ELSE 0]]
     IN /\ Send(k, "push", {f}, FALSE, groups)
        /\ owed' = [owed EXCEPT ![k] = [g \in Frontend |-> Members(groups[g])]]
  /\ UNCHANGED binded

\* ChannelService.broadcast, to all frontend servers.
BroadcastAll(k, onlyBound) ==
  /\ binded' = IF onlyBound THEN binded \union {k} ELSE binded
  /\ Send(k, "broadcast", Frontend, FALSE, [f \in Frontend |-> None])
  /\ UNCHANGED owed

\* The mailbox encodes a message, with the group as it is now.
Encode(m) ==
  /\ m.live
  /\ rpc' = (rpc \ {m}) \union {[m EXCEPT !.live = FALSE, !.uids = listed[m.to]]}
  /\ UNCHANGED <<chan, pushes, binded, waiting, replies, success, thrown, failIds, result,
                 front, owed>>

\* Mutant: the promise of a server reached by rpc is not resolved.
ResolveOwn(k, f) == IF f = Own THEN [waiting EXCEPT ![k] = @ \ {f}] ELSE waiting

Resolve(k, f) == [waiting EXCEPT ![k] = @ \ {f}]

\* The callback of a push gets an error only if no server succeeded.
Finish(k, f, ok) ==
  /\ waiting' = Resolve(k, f)
  /\ result' = IF Resolve(k, f)[k] # {} THEN result
               ELSE [result EXCEPT ![k] = IF ok THEN "ok" ELSE "error"]

\* Mutant: the users a server could not reach are forgotten.
NoFailIds(r) == failIds

FailIds(r) == [failIds EXCEPT ![r.push] = @ \union r.fails]

\* The callback of one server.
Callback(r) ==
  /\ replies' = replies \ {r}
  /\ IF r.from \in waiting[r.push]
       THEN /\ success' = success \union {r.push}
            /\ failIds' = FailIds(r)
            /\ Finish(r.push, r.from, TRUE)
       ELSE UNCHANGED <<waiting, success, failIds, result>>
  /\ UNCHANGED <<chan, pushes, binded, rpc, thrown, front, owed>>

\* Rpc fails for a server.  Of a broadcast that server is done with.  Of a push the
\* callback reads serverId, which is not defined there: it throws before resolve,
\* and the push waits for ever.
RpcFails(k, f) ==
  /\ f \in waiting[k] \ {Own}
  /\ <<k, f>> \notin thrown
  /\ rpc' \in {rpc, {m \in rpc : m.push # k \/ m.to # f}}
  /\ replies' = {r \in replies : r.push # k \/ r.from # f}
  /\ IF pushes[k] = "push"
       THEN /\ thrown' = thrown \union {<<k, f>>}
            /\ UNCHANGED <<waiting, result>>
       ELSE /\ Finish(k, f, k \in success)
            /\ UNCHANGED thrown
  /\ UNCHANGED <<chan, pushes, binded, success, failIds, front, owed>>

-----------------------------------------------------------------------------
Calls(k) ==
  \/ PushMessage(k)
  \/ \E uids \in SUBSET Uid, f \in Frontend : PushMessageByUids(k, uids, f)
  \/ \E onlyBound \in BOOLEAN : BroadcastAll(k, onlyBound)

Travels(k, f) == \E m \in rpc : m.push = k /\ m.to = f /\ (Encode(m) \/ Deliver(m))

Next ==
  \/ \E u \in Uid, f \in Frontend : Add(u, f) \/ Leave(u, f)
  \/ Destroy
  \/ \E s \in Session : Bind(s) \/ Close(s)
  \/ \E f \in Frontend : Flush(f) \/ StopScheduler(f)
  \/ \E k \in Number : Calls(k)
  \/ \E k \in Number, f \in Frontend : Travels(k, f) \/ RpcFails(k, f)
  \/ \E r \in replies : Callback(r)

\* An rpc gets through or fails, ticks run, and the timer of a scheduler fires: each
\* of them uses up something of a push, so that one condition is enough for all.
Moves ==
  \/ \E k \in Number, f \in Frontend : Travels(k, f)
  \/ \E r \in replies : Callback(r)
  \/ \E f \in Frontend : Flush(f)

Fairness == WF_vars(Moves)

Spec == Init /\ [][Next]_vars /\ Fairness

-----------------------------------------------------------------------------
(* Properties *)

\* The places of the groups.
Places == {p \in (Frontend \X Uid) \X (1 .. MaxListed) : p[2] <= listed[p[1][1]][p[1][2]]}

\* The record of a member names a server whose group has the user, and the amount
\* is the number of places, whoever is added twice or to two servers and leaves
\* once (add, leave).
MembersAgree ==
  /\ TypeOK
  /\ \A u \in Uid : records[u] # Nowhere => listed[records[u]][u] > 0
  /\ amount = Cardinality(Places)

\* A queue of the buffer scheduler belongs to a session that is not closed, whatever
\* arrives when it closes: none is left behind (enqueue, onClose).
QueuesHaveSessions ==
  /\ \A s \in queued : session[s] # "closed"
  /\ \A s \in Session, k \in Number : queue[s][k] > 0 => s \in queued

\* When a push has called back without an error, every user who stayed in the
\* channel until it was encoded is reported as failed, or has a session that got
\* the message or has it in its queue, or one that has closed since (pushMessage).
EveryMember ==
  \A k \in Number, f \in Frontend : result[k] = "ok" =>
    \A u \in owed[k][f] \ failIds[k] : \E s \in Session :
      /\ Home[s] = f /\ User[s] = u
      /\ session[s] = "closed" \/ got[s][k] + queue[s][k] > 0

\* A session gets a broadcast once at most, unless the direct scheduler sends it to
\* the bound sessions of a user who has several (doBroadcast).
BroadcastOnce ==
  \A k \in Number, s \in Session : pushes[k] = "broadcast" =>
    \/ got[s][k] + queue[s][k] <= 1
    \/ /\ k \in binded
       /\ "direct" \in Scheduler[Home[s]]
       /\ \E t \in Session \ {s} : User[t] = User[s] /\ Home[t] = Home[s]

\* In the end every push has called back, unless rpc has failed for one of its
\* servers, and what is in a queue has been written to the socket, unless the
\* session closes or the scheduler stops first (pushMessage, broadcast, flush).  A
\* push on a destroyed channel never calls back.
PushReturns ==
  <>[](/\ \A k \in Number :
           pushes[k] \notin {"none", "refused"} => result[k] # "none" \/ \E f \in Frontend : <<k, f>> \in thrown
       /\ \A k \in Number, s \in Session : queue[s][k] > 0 => Home[s] \notin running)
=============================================================================
