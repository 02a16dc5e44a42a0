------------------------------ MODULE Sessions ------------------------------
(***************************************************************************)
(* A frontend server's client connections: the connector component, which  *)
(* filters, counts and accepts sockets, the session service with its table *)
(* of sessions and its index of sessions by user, and the connection       *)
(* service, which counts connections and records logged-in users.          *)
(*                                                                         *)
(* One JavaScript thread: an action is a call or an event-loop turn.       *)
(* Session.closed postpones socket.disconnect() with process.nextTick, so  *)
(* network events wait until the disconnects that are due have run, while  *)
(* user code (the rest of the turn, callbacks in the next tick) may still  *)
(* call the services.  Arrays of sessions are sets here: the order of a    *)
(* user's sessions decides nothing but the order in which they are closed. *)
(***************************************************************************)
EXTENDS Naturals, FiniteSets

CONSTANTS
  Sid,            \* socket ids, never reused (curId++)
  Uid,            \* user ids
  NoUid,          \* null: a session that is not bound
  SingleSession,  \* opts.singleSession of the session service
  MaxConnections, \* curServer['max-connections']; 0 when it is not configured
  HostFilter,     \* opts.useHostFilter with a dynamic blacklist
  AsyncFilter     \* opts.blacklistFun, which answers through a callback

ASSUME ConstantsAssumption ==
  /\ NoUid \notin Uid
  /\ SingleSession \in BOOLEAN
  /\ MaxConnections \in Nat
  /\ HostFilter \in BOOLEAN
  /\ AsyncFilter \in BOOLEAN

VARIABLES
  socket,     \* per id: not yet connected, live, or its 'disconnect' emitted
  filtering,  \* sockets whose blacklistFun has not answered
  attached,   \* sockets that bindEvents gave a session and its listeners
  counted,    \* attached sockets whose close bindEvents has not yet noted
              \* (its local variable closed is false)
  sessions,   \* SessionService.sessions: the ids in the table
  uid,        \* Session.uid, which a closed session keeps
  uidMap,     \* SessionService.uidMap: the sessions bound to a user
  ended,      \* sessions in ST_CLOSED
  ticks,      \* sockets to disconnect in the next tick
  connCount,  \* ConnectionService.connCount
  logined     \* ConnectionService.logined: the users on record

table == <<sessions, uid, uidMap, ended>>
stats == <<connCount, logined>>
vars == <<socket, filtering, attached, counted, table, ticks, stats>>

TypeOK ==
  /\ socket \in [Sid -> {"new", "live", "gone"}]
  /\ filtering \subseteq Sid
  /\ attached \subseteq Sid
  /\ counted \subseteq attached
  /\ sessions \subseteq attached
  /\ uid \in [Sid -> Uid \cup {NoUid}]
  /\ uidMap \in [Uid -> SUBSET attached]
  /\ ended \subseteq attached
  /\ ticks \subseteq ended
  /\ connCount \in Nat
  /\ logined \subseteq Uid

Init ==
  /\ socket = [s \in Sid |-> "new"]
  /\ filtering = {}
  /\ attached = {}
  /\ counted = {}
  /\ sessions = {}
  /\ uid = [s \in Sid |-> NoUid]
  /\ uidMap = [u \in Uid |-> {}]
  /\ ended = {}
  /\ ticks = {}
  /\ connCount = 0
  /\ logined = {}

Idle == ticks = {}

-----------------------------------------------------------------------------
(* Accepting a socket.                                                     *)

\* bindEvents.  A socket over the limit is counted and disconnected before
\* any listener is there to count it down.
Attach(s) ==
  LET n == IF MaxConnections > 0 THEN connCount + 1 ELSE connCount IN
  /\ connCount' = n
  /\ IF MaxConnections > 0 /\ n > MaxConnections
       THEN /\ socket' = [socket EXCEPT ![s] = "gone"]
            /\ UNCHANGED <<attached, counted, sessions>>
       ELSE /\ attached' = attached \cup {s}
            /\ counted' = counted \cup {s}
            /\ sessions' = sessions \cup {s}
            /\ socket' = IF socket[s] = "new"
                           THEN [socket EXCEPT ![s] = "live"] ELSE socket
  /\ UNCHANGED <<uid, uidMap, ended, ticks, logined>>

\* hostFilter without blacklistFun lets the socket through at once.
Connect(s) ==
  /\ Idle
  /\ ~ AsyncFilter
  /\ socket[s] = "new"
  /\ Attach(s)
  /\ UNCHANGED filtering

\* hostFilter asks blacklistFun and waits for its callback.
ConnectFiltered(s) ==
  /\ Idle
  /\ AsyncFilter
  /\ socket[s] = "new"
  /\ socket' = [socket EXCEPT ![s] = "live"]
  /\ filtering' = filtering \cup {s}
  /\ UNCHANGED <<attached, counted, table, ticks, stats>>

\* The address of a new socket is on the dynamic blacklist.
ConnectBlacklisted(s) ==
  /\ Idle
  /\ HostFilter
  /\ socket[s] = "new"
  /\ socket' = [socket EXCEPT ![s] = "gone"]
  /\ UNCHANGED <<filtering, attached, counted, table, ticks, stats>>

\* blacklistFun answers: the socket is accepted, also when it failed or
\* returned no list, and whatever has become of the socket meanwhile.
FilterAccepts(s) ==
  /\ s \in filtering
  /\ filtering' = filtering \ {s}
  /\ Attach(s)

FilterRefuses(s) ==
  /\ s \in filtering
  /\ filtering' = filtering \ {s}
  /\ socket' = [socket EXCEPT ![s] = "gone"]
  /\ UNCHANGED <<attached, counted, table, ticks, stats>>

-----------------------------------------------------------------------------
(* Closing sessions and sockets.                                           *)

\* Mutant: closed() forgets the users' index.
EndSessionsOnly(S) ==
  /\ ended' = ended \cup S
  /\ sessions' = sessions \ S
  /\ ticks' = ticks \cup (S \ ended)
  /\ UNCHANGED uidMap

\* Mutant: closed() does not disconnect the socket.
EndKeepsSocket(S) ==
  /\ ended' = ended \cup S
  /\ sessions' = sessions \ S
  /\ uidMap' = [u \in Uid |-> uidMap[u] \ S]
  /\ UNCHANGED ticks

\* Session.closed and SessionService.remove for each session of S.
EndSessions(S) ==
  /\ ended' = ended \cup S
  /\ sessions' = sessions \ S
  /\ uidMap' = [u \in Uid |-> uidMap[u] \ S]
  /\ ticks' = ticks \cup (S \ ended)

\* Mutant: the record of the user stays.
CountDownConnection(s) ==
  /\ counted' = counted \ {s}
  /\ connCount' = IF s \in counted /\ connCount > 0 THEN connCount - 1
                                                    ELSE connCount
  /\ UNCHANGED logined

\* Mutant: every event of the socket counts it down.
CountDownEvery(s) ==
  /\ counted' = counted \ {s}
  /\ connCount' = IF s \in attached /\ connCount > 0 THEN connCount - 1
                                                     ELSE connCount
  /\ logined' = IF s \in counted THEN logined \ {uid[s]} ELSE logined

\* The 'disconnect' or 'error' listener of bindEvents: the first of them
\* counts the connection down and removes the record of its user.
CountDown(s) ==
  /\ counted' = counted \ {s}
  /\ connCount' = IF s \in counted /\ connCount > 0 THEN connCount - 1
                                                    ELSE connCount
  /\ logined' = IF s \in counted THEN logined \ {uid[s]} ELSE logined

\* The client leaves, or the heartbeat timer disconnects it.
SocketCloses(s) ==
  /\ Idle
  /\ socket[s] = "live"
  /\ socket' = [socket EXCEPT ![s] = "gone"]
  /\ EndSessions({s} \cap attached)
  /\ CountDown(s)
  /\ UNCHANGED <<filtering, attached, uid>>

\* The socket emits 'error' and is not closed yet.
SocketErrs(s) ==
  /\ Idle
  /\ socket[s] = "live"
  /\ s \in attached
  /\ EndSessions({s})
  /\ CountDown(s)
  /\ UNCHANGED <<socket, filtering, attached, uid>>

\* The postponed socket.disconnect(): it emits 'disconnect' unless the socket
\* is closed already.
Disconnect(s) ==
  /\ s \in ticks
  /\ ticks' = ticks \ {s}
  /\ IF socket[s] = "live"
       THEN /\ socket' = [socket EXCEPT ![s] = "gone"]
            /\ CountDown(s)
       ELSE UNCHANGED <<socket, counted, stats>>
  /\ UNCHANGED <<filtering, attached, table>>

-----------------------------------------------------------------------------
(* Calls of the session service.                                           *)

\* Someone can ask for s: its client has been heard.  (A session made for a
\* socket that was gone before is known to nobody.)
Heard(s) == s \in attached /\ (socket[s] = "gone" => s \in ended)

\* Mutant: singleSession is checked against the session only.
BindAlways(s, u) ==
  /\ Heard(s)
  /\ s \in sessions
  /\ uid[s] = NoUid
  /\ uid' = [uid EXCEPT ![s] = u]
  /\ uidMap' = [uidMap EXCEPT ![u] = @ \cup {s}]
  /\ logined' = logined \cup {u}
  /\ UNCHANGED <<socket, filtering, attached, counted, sessions, ended, ticks,
                 connCount>>

\* Every other case only passes an error, or nothing, to the callback.
Bind(s, u) ==
  /\ Heard(s)
  /\ s \in sessions
  /\ uid[s] = NoUid
  /\ SingleSession => uidMap[u] = {}
  /\ uid' = [uid EXCEPT ![s] = u]
  /\ uidMap' = [uidMap EXCEPT ![u] = @ \cup {s}]
  /\ logined' = logined \cup {u}
  /\ UNCHANGED <<socket, filtering, attached, counted, sessions, ended, ticks,
                 connCount>>

Unbind(s, u) ==
  /\ Heard(s)
  /\ s \in sessions
  /\ uid[s] = u
  /\ uid' = [uid EXCEPT ![s] = NoUid]
  /\ uidMap' = [uidMap EXCEPT ![u] = @ \ {s}]
  /\ logined' = logined \ {u}
  /\ UNCHANGED <<socket, filtering, attached, counted, sessions, ended, ticks,
                 connCount>>

Kick(u) ==
  /\ uidMap[u] # {}
  /\ EndSessions(uidMap[u])
  /\ UNCHANGED <<socket, filtering, attached, counted, uid, stats>>

KickBySessionId(s) ==
  /\ s \in sessions
  /\ EndSessions({s})
  /\ UNCHANGED <<socket, filtering, attached, counted, uid, stats>>

-----------------------------------------------------------------------------
Next ==
  \/ \E s \in Sid :
       \/ Connect(s)
       \/ ConnectFiltered(s)
       \/ ConnectBlacklisted(s)
       \/ FilterAccepts(s)
       \/ FilterRefuses(s)
       \/ SocketCloses(s)
       \/ SocketErrs(s)
       \/ Disconnect(s)
       \/ KickBySessionId(s)
  \/ \E s \in Sid, u \in Uid : Bind(s, u) \/ Unbind(s, u)
  \/ \E u \in Uid : Kick(u)

Spec == Init /\ [][Next]_vars

\* process.nextTick runs what it was given.
FairSpec == Spec /\ \A s \in Sid : WF_vars(Disconnect(s))

-----------------------------------------------------------------------------
(* Properties.                                                             *)

\* The index by user lists exactly the sessions in the table that carry the
\* user's id: a kick finds them all, finds no session that is gone (it would
\* throw), and a message to a user goes to each session once (bind, unbind,
\* remove, closed).
UidMapAgrees ==
  /\ \A u \in Uid : uidMap[u] = {s \in sessions : uid[s] = u}
  /\ sessions \cap ended = {}

\* With singleSession a user has one session at most, also right after a kick
\* whose disconnect is still due (bind, kick).
OneSessionPerUser ==
  SingleSession => \A s, t \in sessions : uid[s] = uid[t] /\ uid[s] # NoUid
                                            => s = t

\* No more sessions than max-connections, whatever the order of closes, errors
\* and kicks (bindEvents, decreaseConnectionCount).
AcceptedWithinLimit ==
  MaxConnections > 0 => Cardinality(sessions) <= MaxConnections

\* A user on record has a session, or one that is being disconnected
\* (addLoginedUser, removeLoginedUser): closes, errors, kicks and unbinds in
\* any order leave no record of a user who is gone.
NoStaleLogins ==
  Idle => \A u \in logined : uidMap[u] # {}

\* The table holds no session of a socket that is gone, provided that sockets
\* are accepted in the turn they arrive in (bindEvents, closed).
NoGhostSessions ==
  ~ AsyncFilter => \A s \in sessions : socket[s] = "live"

\* A closed session is disconnected at last (closed).
EndedIsDisconnected == \A s \in Sid : s \in ended ~> socket[s] = "gone"

\* What a connection was counted for goes with it: the limit, the logins and the
\* sessions agree, whatever the order of closes, errors, kicks and unbinds.
LoginsAgree == TypeOK /\ AcceptedWithinLimit /\ NoStaleLogins /\ NoGhostSessions

\* With several sessions per user and an asynchronous filter the index, the table
\* and the logins still agree (bind, unbind, closed, removeLoginedUser).
ManyAgree == UidMapAgrees /\ NoStaleLogins
=============================================================================
