--------------------------- MODULE SessionsProofs ---------------------------
(***************************************************************************)
(* The invariants of a frontend server's sessions, for every number of     *)
(* sockets and users, every limit and every configuration of the filters.  *)
(***************************************************************************)
EXTENDS Sessions, FiniteSetTheorems, TLAPS

-----------------------------------------------------------------------------
(* Typing, and what an id may have before it is accepted.                  *)

\* A socket is accepted once, has no user before, and someone who knows its
\* session has seen it live.
Accepted ==
  /\ filtering \cap attached = {}
  /\ ~ AsyncFilter => filtering = {}
  /\ \A s \in Sid : socket[s] = "new" => s \notin attached \cup filtering
  /\ \A s \in Sid \ attached : uid[s] = NoUid
  /\ sessions \cap ended = {}
  /\ sessions \subseteq counted
  /\ \A s \in counted : uid[s] # NoUid => socket[s] = "live"

TInv == TypeOK /\ Accepted

LEMMA TInvInit == Init => TInv
BY ConstantsAssumption DEF Init, TInv, TypeOK, Accepted

LEMMA TInvAttach ==
  ASSUME TInv, NEW s \in Sid, s \notin attached, Attach(s),
         filtering' = filtering \ {s},
         socket[s] \in {"new", "live"} \/ s \in filtering
  PROVE  TInv'
<1> DEFINE n == IF MaxConnections > 0 THEN connCount + 1 ELSE connCount
<1> USE DEF TInv
<1>1. n \in Nat /\ connCount' = n
  BY DEF TypeOK, Attach
<1>2. UNCHANGED <<uid, uidMap, ended, ticks, logined>>
  BY DEF Attach
<1>3. CASE MaxConnections > 0 /\ n > MaxConnections
  <2>1. /\ socket' = [socket EXCEPT ![s] = "gone"]
        /\ UNCHANGED <<attached, counted, sessions>>
    BY <1>3 DEF Attach
  <2>2. TypeOK'
    BY <1>1, <1>2, <2>1 DEF TypeOK
  <2>3. Accepted'
    BY <1>2, <2>1 DEF TypeOK, Accepted
  <2> QED
    BY <2>2, <2>3
<1>4. CASE ~ (MaxConnections > 0 /\ n > MaxConnections)
  <2>1. /\ attached' = attached \cup {s}
        /\ counted' = counted \cup {s}
        /\ sessions' = sessions \cup {s}
        /\ socket' = IF socket[s] = "new"
                       THEN [socket EXCEPT ![s] = "live"] ELSE socket
    BY <1>4 DEF Attach
  <2>2. /\ socket' \in [Sid -> {"new", "live", "gone"}]
        /\ socket'[s] # "new"
        /\ \A t \in Sid \ {s} : socket'[t] = socket[t]
    BY <2>1 DEF TypeOK
  <2>3. TypeOK'
    BY <1>1, <1>2, <2>1, <2>2 DEF TypeOK
  <2>4. uid[s] = NoUid /\ s \notin ended
    BY DEF Accepted, TypeOK
  <2>5. Accepted'
    BY <1>2, <2>1, <2>2, <2>4 DEF TypeOK, Accepted
  <2> QED
    BY <2>3, <2>5
<1> QED
  BY <1>3, <1>4

LEMMA TInvStep == TInv /\ [Next]_vars => TInv'
<1> SUFFICES ASSUME TInv, [Next]_vars PROVE TInv'
  OBVIOUS
<1> USE DEF TInv
<1>1. CASE UNCHANGED vars
  BY <1>1 DEF vars, table, stats, TypeOK, Accepted
<1>2. ASSUME NEW s \in Sid, Connect(s) PROVE TInv'
  <2>1. Attach(s) /\ socket[s] = "new" /\ s \notin attached
    BY <1>2 DEF Connect, Accepted
  <2>2. filtering' = filtering \ {s}
    BY <1>2 DEF Connect, Accepted
  <2> QED
    BY <2>1, <2>2, TInvAttach
<1>3. ASSUME NEW s \in Sid, ConnectFiltered(s) PROVE TInv'
  BY <1>3 DEF ConnectFiltered, table, stats, TypeOK, Accepted
<1>4. ASSUME NEW s \in Sid, ConnectBlacklisted(s) PROVE TInv'
  BY <1>4 DEF ConnectBlacklisted, table, stats, TypeOK, Accepted
<1>5. ASSUME NEW s \in Sid, FilterAccepts(s) PROVE TInv'
  <2>1. Attach(s) /\ s \in filtering /\ filtering' = filtering \ {s}
    BY <1>5 DEF FilterAccepts
  <2>2. s \notin attached
    BY <2>1 DEF Accepted
  <2> QED
    BY <2>1, <2>2, TInvAttach
<1>6. ASSUME NEW s \in Sid, FilterRefuses(s) PROVE TInv'
  BY <1>6 DEF FilterRefuses, table, stats, TypeOK, Accepted
<1>7. ASSUME NEW s \in Sid, SocketCloses(s) PROVE TInv'
  <2>1. TypeOK'
    BY <1>7 DEF SocketCloses, EndSessions, CountDown, TypeOK
  <2>2. Accepted'
    BY <1>7 DEF SocketCloses, EndSessions, CountDown, TypeOK, Accepted
  <2> QED
    BY <2>1, <2>2
<1>8. ASSUME NEW s \in Sid, SocketErrs(s) PROVE TInv'
  <2>1. TypeOK'
    BY <1>8 DEF SocketErrs, EndSessions, CountDown, TypeOK
  <2>2. Accepted'
    BY <1>8 DEF SocketErrs, EndSessions, CountDown, TypeOK, Accepted
  <2> QED
    BY <2>1, <2>2
<1>9. ASSUME NEW s \in Sid, Disconnect(s) PROVE TInv'
  <2>1. TypeOK'
    BY <1>9 DEF Disconnect, CountDown, table, stats, TypeOK
  <2>2. Accepted'
    BY <1>9 DEF Disconnect, CountDown, table, stats, TypeOK, Accepted
  <2> QED
    BY <2>1, <2>2
<1>10. ASSUME NEW s \in Sid, KickBySessionId(s) PROVE TInv'
  BY <1>10 DEF KickBySessionId, EndSessions, stats, TypeOK, Accepted
<1>11. ASSUME NEW s \in Sid, NEW u \in Uid, Bind(s, u) PROVE TInv'
  <2>1. socket[s] = "live"
    BY <1>11 DEF Bind, Heard, TypeOK, Accepted
  <2>2. TypeOK'
    BY <1>11 DEF Bind, TypeOK
  <2>3. Accepted'
    BY <1>11, <2>1 DEF Bind, TypeOK, Accepted
  <2> QED
    BY <2>2, <2>3
<1>12. ASSUME NEW s \in Sid, NEW u \in Uid, Unbind(s, u) PROVE TInv'
  <2>1. TypeOK'
    BY <1>12 DEF Unbind, TypeOK
  <2>2. Accepted'
    BY <1>12 DEF Unbind, TypeOK, Accepted
  <2> QED
    BY <2>1, <2>2
<1>13. ASSUME NEW u \in Uid, Kick(u) PROVE TInv'
  BY <1>13 DEF Kick, EndSessions, stats, TypeOK, Accepted
<1> QED
  BY <1>1, <1>2, <1>3, <1>4, <1>5, <1>6, <1>7, <1>8, <1>9, <1>10, <1>11, <1>12,
     <1>13 DEF Next

\* The services' tables and the sockets stay well typed, a session that is in
\* the table is neither closed nor counted down, and a known session has a
\* live socket (create, closed, bindEvents).
THEOREM TypeCorrect == Spec => []TypeOK
<1>1. TInv => TypeOK
  BY DEF TInv
<1> QED
  BY TInvInit, TInvStep, <1>1, PTL DEF Spec

-----------------------------------------------------------------------------
(* The index by user.                                                      *)

IndexInv == UidMapAgrees /\ OneSessionPerUser

LEMMA IndexInit == Init => IndexInv
BY ConstantsAssumption
   DEF Init, IndexInv, UidMapAgrees, OneSessionPerUser

\* Ending the sessions of S takes them from the table and from the index.
LEMMA IndexEnd ==
  ASSUME TInv, IndexInv, NEW S \in SUBSET attached, EndSessions(S),
         uid' = uid
  PROVE  IndexInv'
<1>1. UidMapAgrees'
  BY DEF TInv, TypeOK, IndexInv, UidMapAgrees, EndSessions
<1>2. OneSessionPerUser'
  BY DEF TInv, TypeOK, IndexInv, OneSessionPerUser, EndSessions
<1> QED
  BY <1>1, <1>2 DEF IndexInv

\* A session that is accepted is bound to nobody.
LEMMA IndexAttach ==
  ASSUME TInv, IndexInv, NEW s \in Sid, s \notin attached, Attach(s)
  PROVE  IndexInv'
<1>1. /\ UNCHANGED <<uid, uidMap, ended>>
      /\ sessions' = sessions \/ sessions' = sessions \cup {s}
  BY DEF Attach
<1>2. uid[s] = NoUid /\ s \notin ended
  BY DEF TInv, TypeOK, Accepted
<1>3. UidMapAgrees'
  BY <1>1, <1>2, ConstantsAssumption DEF IndexInv, UidMapAgrees
<1>4. OneSessionPerUser'
  BY <1>1, <1>2 DEF IndexInv, OneSessionPerUser
<1> QED
  BY <1>3, <1>4 DEF IndexInv

LEMMA IndexStep == TInv /\ IndexInv /\ [Next]_vars => IndexInv'
<1> SUFFICES ASSUME TInv, IndexInv, [Next]_vars PROVE IndexInv'
  OBVIOUS
<1>1. CASE UNCHANGED table
  BY <1>1 DEF table, IndexInv, UidMapAgrees, OneSessionPerUser
<1>2. ASSUME NEW s \in Sid, Connect(s) PROVE IndexInv'
  <2>1. Attach(s) /\ s \notin attached
    BY <1>2 DEF Connect, TInv, Accepted
  <2> QED
    BY <2>1, IndexAttach
<1>3. ASSUME NEW s \in Sid, ConnectFiltered(s) PROVE IndexInv'
  BY <1>1, <1>3 DEF ConnectFiltered
<1>4. ASSUME NEW s \in Sid, ConnectBlacklisted(s) PROVE IndexInv'
  BY <1>1, <1>4 DEF ConnectBlacklisted
<1>5. ASSUME NEW s \in Sid, FilterAccepts(s) PROVE IndexInv'
  <2>1. Attach(s) /\ s \notin attached
    BY <1>5 DEF FilterAccepts, TInv, Accepted
  <2> QED
    BY <2>1, IndexAttach
<1>6. ASSUME NEW s \in Sid, FilterRefuses(s) PROVE IndexInv'
  BY <1>1, <1>6 DEF FilterRefuses
<1>7. ASSUME NEW s \in Sid, SocketCloses(s) PROVE IndexInv'
  <2>1. EndSessions({s} \cap attached) /\ uid' = uid
    BY <1>7 DEF SocketCloses
  <2>2. {s} \cap attached \in SUBSET attached
    OBVIOUS
  <2> QED
    BY <2>1, <2>2, IndexEnd
<1>8. ASSUME NEW s \in Sid, SocketErrs(s) PROVE IndexInv'
  <2>1. EndSessions({s}) /\ uid' = uid /\ {s} \in SUBSET attached
    BY <1>8 DEF SocketErrs
  <2> QED
    BY <2>1, IndexEnd
<1>9. ASSUME NEW s \in Sid, Disconnect(s) PROVE IndexInv'
  BY <1>1, <1>9 DEF Disconnect
<1>10. ASSUME NEW s \in Sid, KickBySessionId(s) PROVE IndexInv'
  <2>1. EndSessions({s}) /\ uid' = uid /\ {s} \in SUBSET attached
    BY <1>10 DEF KickBySessionId, TInv, TypeOK
  <2> QED
    BY <2>1, IndexEnd
<1>11. ASSUME NEW s \in Sid, NEW u \in Uid, Bind(s, u) PROVE IndexInv'
  <2>1. /\ s \in sessions /\ uid[s] = NoUid
        /\ SingleSession => uidMap[u] = {}
        /\ uid' = [uid EXCEPT ![s] = u]
        /\ uidMap' = [uidMap EXCEPT ![u] = @ \cup {s}]
        /\ sessions' = sessions /\ ended' = ended
    BY <1>11 DEF Bind
  <2>2. u # NoUid
    BY ConstantsAssumption
  <2>3. UidMapAgrees'
    BY <2>1, <2>2, ConstantsAssumption
       DEF TInv, TypeOK, IndexInv, UidMapAgrees
  <2>4. SingleSession => \A t \in sessions : uid[t] # u
    BY <2>1 DEF IndexInv, UidMapAgrees
  <2>5. OneSessionPerUser'
    BY <2>1, <2>2, <2>4 DEF TInv, TypeOK, IndexInv, OneSessionPerUser
  <2> QED
    BY <2>3, <2>5 DEF IndexInv
<1>12. ASSUME NEW s \in Sid, NEW u \in Uid, Unbind(s, u) PROVE IndexInv'
  <2>1. /\ s \in sessions /\ uid[s] = u
        /\ uid' = [uid EXCEPT ![s] = NoUid]
        /\ uidMap' = [uidMap EXCEPT ![u] = @ \ {s}]
        /\ sessions' = sessions /\ ended' = ended
    BY <1>12 DEF Unbind
  <2>2. UidMapAgrees'
    BY <2>1, ConstantsAssumption DEF TInv, TypeOK, IndexInv, UidMapAgrees
  <2>3. OneSessionPerUser'
    BY <2>1 DEF TInv, TypeOK, IndexInv, OneSessionPerUser
  <2> QED
    BY <2>2, <2>3 DEF IndexInv
<1>13. ASSUME NEW u \in Uid, Kick(u) PROVE IndexInv'
  <2>1. EndSessions(uidMap[u]) /\ uid' = uid
    BY <1>13 DEF Kick
  <2>2. uidMap[u] \in SUBSET attached
    BY DEF TInv, TypeOK
  <2> QED
    BY <2>1, <2>2, IndexEnd
<1>14. CASE UNCHANGED vars
  BY <1>1, <1>14 DEF vars
<1> QED
  BY <1>2, <1>3, <1>4, <1>5, <1>6, <1>7, <1>8, <1>9, <1>10, <1>11, <1>12,
     <1>13, <1>14 DEF Next

\* The index by user and the table of sessions agree (bind, unbind, remove,
\* closed, kick).
THEOREM IndexCorrect == Spec => []UidMapAgrees
<1>1. IndexInv => UidMapAgrees
  BY DEF IndexInv
<1> QED
  BY TInvInit, TInvStep, IndexInit, IndexStep, <1>1, PTL DEF Spec

\* With singleSession no two sessions of the table carry the same user (bind).
THEOREM SingleSessionCorrect == Spec => []OneSessionPerUser
<1>1. IndexInv => OneSessionPerUser
  BY DEF IndexInv
<1> QED
  BY TInvInit, TInvStep, IndexInit, IndexStep, <1>1, PTL DEF Spec

-----------------------------------------------------------------------------
(* The connection limit.  The count may exceed the number of connections,   *)
(* but it is never below it.                                                *)

LimitInv ==
  /\ IsFiniteSet(counted)
  /\ MaxConnections > 0 =>
       /\ Cardinality(counted) <= connCount
       /\ Cardinality(counted) <= MaxConnections

LEMMA LimitInit == Init => LimitInv
BY FS_EmptySet, ConstantsAssumption DEF Init, LimitInv

LEMMA LimitAttach ==
  ASSUME TInv, LimitInv, NEW s \in Sid, s \notin attached, Attach(s)
  PROVE  LimitInv'
<1>1. /\ s \notin counted
      /\ connCount \in Nat
      /\ MaxConnections \in Nat
      /\ Cardinality(counted) \in Nat
  BY FS_CardinalityType, ConstantsAssumption DEF TInv, TypeOK, LimitInv
<1>2. CASE UNCHANGED counted
  <2>1. MaxConnections > 0 => connCount' = connCount + 1
    BY DEF Attach
  <2> QED
    BY <1>1, <1>2, <2>1 DEF LimitInv
<1>3. CASE counted' # counted
  <2>1. /\ counted' = counted \cup {s}
        /\ MaxConnections > 0 => /\ connCount' = connCount + 1
                                 /\ ~ (connCount + 1 > MaxConnections)
    BY <1>3 DEF Attach
  <2>2. IsFiniteSet(counted') /\ Cardinality(counted') = Cardinality(counted) + 1
    BY <1>1, <2>1, FS_AddElement DEF LimitInv
  <2> QED
    BY <1>1, <2>1, <2>2 DEF LimitInv
<1> QED
  BY <1>2, <1>3

LEMMA LimitCountDown ==
  ASSUME TInv, LimitInv, NEW s \in Sid, CountDown(s)
  PROVE  LimitInv'
<1>1. /\ connCount \in Nat
      /\ MaxConnections \in Nat
      /\ Cardinality(counted) \in Nat
  BY FS_CardinalityType, ConstantsAssumption DEF TInv, TypeOK, LimitInv
<1>2. /\ IsFiniteSet(counted')
      /\ Cardinality(counted') = IF s \in counted THEN Cardinality(counted) - 1
                                                  ELSE Cardinality(counted)
  BY FS_RemoveElement DEF CountDown, LimitInv
<1>3. CASE s \notin counted
  BY <1>1, <1>2, <1>3 DEF CountDown, LimitInv
<1>4. CASE s \in counted
  <2>1. connCount' = IF connCount > 0 THEN connCount - 1 ELSE connCount
    BY <1>4 DEF CountDown
  <2>2. Cardinality(counted') = Cardinality(counted) - 1
    BY <1>2, <1>4
  <2> QED
    BY <1>1, <1>2, <2>1, <2>2 DEF LimitInv
<1> QED
  BY <1>3, <1>4

LEMMA LimitStep == TInv /\ LimitInv /\ [Next]_vars => LimitInv'
<1> SUFFICES ASSUME TInv, LimitInv, [Next]_vars PROVE LimitInv'
  OBVIOUS
<1>1. CASE UNCHANGED <<counted, connCount>>
  BY <1>1 DEF LimitInv
<1>2. ASSUME NEW s \in Sid, Connect(s) \/ FilterAccepts(s) PROVE LimitInv'
  <2>1. Attach(s) /\ s \notin attached
    BY <1>2 DEF Connect, FilterAccepts, TInv, Accepted
  <2> QED
    BY <2>1, LimitAttach
<1>3. ASSUME NEW s \in Sid, SocketCloses(s) \/ SocketErrs(s) PROVE LimitInv'
  BY <1>3, LimitCountDown DEF SocketCloses, SocketErrs
<1>4. ASSUME NEW s \in Sid, Disconnect(s) PROVE LimitInv'
  <2>1. CountDown(s) \/ UNCHANGED <<counted, connCount>>
    BY <1>4 DEF Disconnect, stats
  <2> QED
    BY <1>1, <2>1, LimitCountDown
<1>5. ASSUME NEW s \in Sid,
             ConnectFiltered(s) \/ ConnectBlacklisted(s) \/ FilterRefuses(s)
               \/ KickBySessionId(s)
      PROVE  LimitInv'
  BY <1>1, <1>5 DEF ConnectFiltered, ConnectBlacklisted, FilterRefuses,
                    KickBySessionId, stats
<1>6. ASSUME NEW s \in Sid, NEW u \in Uid, Bind(s, u) \/ Unbind(s, u)
      PROVE  LimitInv'
  BY <1>1, <1>6 DEF Bind, Unbind
<1>7. ASSUME NEW u \in Uid, Kick(u) PROVE LimitInv'
  BY <1>1, <1>7 DEF Kick, stats
<1>8. CASE UNCHANGED vars
  BY <1>1, <1>8 DEF vars, stats
<1> QED
  BY <1>2, <1>3, <1>4, <1>5, <1>6, <1>7, <1>8 DEF Next

\* A server never has more sessions than max-connections (bindEvents,
\* decreaseConnectionCount).
THEOREM LimitCorrect == Spec => []AcceptedWithinLimit
<1>1. TInv /\ LimitInv => AcceptedWithinLimit
  <2> SUFFICES ASSUME TInv, LimitInv, MaxConnections > 0
               PROVE  Cardinality(sessions) <= MaxConnections
    BY DEF AcceptedWithinLimit
  <2>1. sessions \in SUBSET counted
    BY DEF TInv, Accepted
  <2>2. /\ IsFiniteSet(sessions)
        /\ Cardinality(sessions) <= Cardinality(counted)
    BY <2>1, FS_Subset DEF LimitInv
  <2>3. /\ Cardinality(sessions) \in Nat
        /\ Cardinality(counted) \in Nat
        /\ MaxConnections \in Nat
    BY <2>2, FS_CardinalityType, ConstantsAssumption DEF LimitInv
  <2> QED
    BY <2>2, <2>3 DEF LimitInv
<1> QED
  BY TInvInit, TInvStep, LimitInit, LimitStep, <1>1, PTL DEF Spec

-----------------------------------------------------------------------------
(* Login records and ghosts.                                                *)

\* Each user on record has a session that is counted, and in the table or
\* about to be disconnected.
LoginsInv ==
  \A u \in logined : \E s \in counted : uid[s] = u /\ s \in sessions \cup ticks

GhostInv == ~ AsyncFilter => \A s \in sessions : socket[s] = "live"

LEMMA LoginsInit == Init => LoginsInv /\ GhostInv
BY DEF Init, LoginsInv, GhostInv

LEMMA LoginsStep == TInv /\ IndexInv /\ LoginsInv /\ [Next]_vars => LoginsInv'
<1> SUFFICES ASSUME TInv, IndexInv, LoginsInv, [Next]_vars PROVE LoginsInv'
  OBVIOUS
<1> USE DEF TInv
<1>1. CASE UNCHANGED <<counted, sessions, ticks, uid, logined>>
  BY <1>1 DEF LoginsInv
<1>2. ASSUME NEW s \in Sid, Attach(s) PROVE LoginsInv'
  <2>1. /\ UNCHANGED <<uid, ticks, logined>>
        /\ counted \subseteq counted' /\ sessions \subseteq sessions'
    BY <1>2 DEF Attach
  <2> QED
    BY <2>1 DEF LoginsInv
<1>3. ASSUME NEW s \in Sid, SocketCloses(s) \/ SocketErrs(s) PROVE LoginsInv'
  <2>1. PICK S \in SUBSET {s} : EndSessions(S) /\ S \subseteq attached
    <3>1. SocketCloses(s) => EndSessions({s} \cap attached)
      BY DEF SocketCloses
    <3>2. SocketErrs(s) => EndSessions({s}) /\ s \in attached
      BY DEF SocketErrs
    <3> QED
      BY <1>3, <3>1, <3>2
  <2>2. CountDown(s) /\ uid' = uid
    BY <1>3 DEF SocketCloses, SocketErrs
  <2>3. (sessions \cup ticks) \ {s} \subseteq sessions' \cup ticks'
    BY <2>1 DEF EndSessions
  <2>4. CASE s \in counted
    <3>1. logined' = logined \ {uid[s]} /\ counted' = counted \ {s}
      BY <2>2, <2>4 DEF CountDown
    <3> QED
      BY <2>2, <2>3, <3>1 DEF LoginsInv
  <2>5. CASE s \notin counted
    <3>1. logined' = logined /\ counted' = counted
      BY <2>2, <2>5 DEF CountDown
    <3> QED
      BY <2>2, <2>3, <2>5, <3>1 DEF LoginsInv
  <2> QED
    BY <2>4, <2>5
<1>4. ASSUME NEW s \in Sid, Disconnect(s) PROVE LoginsInv'
  <2>1. ticks' = ticks \ {s} /\ UNCHANGED <<sessions, uid>>
    BY <1>4 DEF Disconnect, table
  <2>2. CASE socket[s] = "live" /\ s \in counted
    <3>1. logined' = logined \ {uid[s]} /\ counted' = counted \ {s}
      BY <1>4, <2>2 DEF Disconnect, CountDown
    <3> QED
      BY <2>1, <3>1 DEF LoginsInv
  <2>3. CASE socket[s] # "live" \/ s \notin counted
    <3>1. UNCHANGED <<logined, counted>>
      BY <1>4, <2>3 DEF Disconnect, CountDown, stats
    <3>2. \A u \in logined : ~ (s \in counted /\ uid[s] = u)
      BY <2>3, ConstantsAssumption DEF TypeOK, Accepted
    <3> QED
      BY <2>1, <3>1, <3>2 DEF LoginsInv
  <2> QED
    BY <2>2, <2>3
<1>5. ASSUME NEW S \in SUBSET sessions, EndSessions(S),
             UNCHANGED <<counted, uid, logined>>
      PROVE  LoginsInv'
  <2>1. S \cap ended = {}
    BY <1>5 DEF Accepted
  <2>2. sessions \cup ticks \subseteq sessions' \cup ticks'
    BY <1>5, <2>1 DEF EndSessions
  <2> QED
    BY <1>5, <2>2 DEF LoginsInv
<1>6. ASSUME NEW s \in Sid, NEW u \in Uid, Bind(s, u) PROVE LoginsInv'
  <2>1. /\ s \in sessions /\ s \in counted /\ uid[s] = NoUid
        /\ uid' = [uid EXCEPT ![s] = u] /\ logined' = logined \cup {u}
        /\ UNCHANGED <<counted, sessions, ticks>>
    BY <1>6 DEF Bind, Accepted
  <2>2. uid'[s] = u /\ \A t \in Sid \ {s} : uid'[t] = uid[t]
    BY <2>1 DEF TypeOK
  <2> QED
    BY <2>1, <2>2, ConstantsAssumption DEF LoginsInv, TypeOK
<1>7. ASSUME NEW s \in Sid, NEW u \in Uid, Unbind(s, u) PROVE LoginsInv'
  <2>1. /\ uid[s] = u /\ uid' = [uid EXCEPT ![s] = NoUid]
        /\ logined' = logined \ {u}
        /\ UNCHANGED <<counted, sessions, ticks>>
    BY <1>7 DEF Unbind
  <2>2. \A t \in Sid \ {s} : uid'[t] = uid[t]
    BY <2>1 DEF TypeOK
  <2> QED
    BY <2>1, <2>2 DEF LoginsInv, TypeOK
<1>8. ASSUME NEW s \in Sid, Connect(s) \/ FilterAccepts(s) PROVE LoginsInv'
  BY <1>2, <1>8 DEF Connect, FilterAccepts
<1>9. ASSUME NEW s \in Sid,
             ConnectFiltered(s) \/ ConnectBlacklisted(s) \/ FilterRefuses(s)
      PROVE  LoginsInv'
  BY <1>1, <1>9 DEF ConnectFiltered, ConnectBlacklisted, FilterRefuses, table,
                    stats
<1>10. ASSUME NEW s \in Sid, KickBySessionId(s) PROVE LoginsInv'
  BY <1>5, <1>10 DEF KickBySessionId, stats
<1>11. ASSUME NEW u \in Uid, Kick(u) PROVE LoginsInv'
  <2>1. uidMap[u] \in SUBSET sessions
    BY DEF IndexInv, UidMapAgrees
  <2> QED
    BY <1>5, <1>11, <2>1 DEF Kick, stats
<1>12. CASE UNCHANGED vars
  BY <1>1, <1>12 DEF vars, table, stats
<1> QED
  BY <1>3, <1>4, <1>6, <1>7, <1>8, <1>9, <1>10, <1>11, <1>12 DEF Next

\* Once the disconnects that are due have run, every user on the login record
\* has a session (addLoginedUser, removeLoginedUser, decreaseConnectionCount).
THEOREM LoginsCorrect == Spec => []NoStaleLogins
<1>1. TInv /\ IndexInv /\ LoginsInv => NoStaleLogins
  BY DEF TInv, TypeOK, IndexInv, UidMapAgrees, LoginsInv, NoStaleLogins, Idle
<1>2. Init => LoginsInv
  BY LoginsInit
<1> QED
  BY TInvInit, TInvStep, IndexInit, IndexStep, <1>2, LoginsStep, <1>1, PTL
     DEF Spec

LEMMA GhostStep == TInv /\ GhostInv /\ [Next]_vars => GhostInv'
<1> SUFFICES ASSUME TInv, GhostInv, [Next]_vars, ~ AsyncFilter,
                    NEW t \in sessions'
             PROVE  socket'[t] = "live"
  BY DEF GhostInv
<1> USE DEF TInv
<1>1. ASSUME UNCHANGED socket, sessions' \subseteq sessions
      PROVE  socket'[t] = "live"
  BY <1>1 DEF GhostInv
<1>2. ASSUME NEW s \in Sid, Connect(s) PROVE socket'[t] = "live"
  <2>1. Attach(s) /\ socket[s] = "new" /\ s \notin sessions
    BY <1>2 DEF Connect, TypeOK, Accepted
  <2>2. CASE sessions' = sessions
    <3>1. \A r \in Sid \ {s} : socket'[r] = socket[r]
      BY <2>1 DEF Attach, TypeOK
    <3> QED
      BY <2>1, <2>2, <3>1 DEF GhostInv, TypeOK
  <2>3. CASE sessions' # sessions
    <3>1. /\ sessions' = sessions \cup {s}
          /\ socket' = [socket EXCEPT ![s] = "live"]
      BY <2>1, <2>3 DEF Attach
    <3> QED
      BY <3>1 DEF GhostInv, TypeOK
  <2> QED
    BY <2>2, <2>3
<1>3. ASSUME NEW s \in Sid, ConnectFiltered(s) \/ FilterAccepts(s)
                              \/ FilterRefuses(s)
      PROVE  FALSE
  BY <1>3 DEF ConnectFiltered, FilterAccepts, FilterRefuses, Accepted
<1>4. ASSUME NEW s \in Sid, ConnectBlacklisted(s) PROVE socket'[t] = "live"
  <2>1. /\ socket[s] = "new" /\ sessions' = sessions
        /\ socket' = [socket EXCEPT ![s] = "gone"]
    BY <1>4 DEF ConnectBlacklisted, table
  <2> QED
    BY <2>1 DEF GhostInv, TypeOK
<1>5. ASSUME NEW s \in Sid, SocketCloses(s) PROVE socket'[t] = "live"
  <2>1. /\ socket' = [socket EXCEPT ![s] = "gone"]
        /\ sessions' = sessions \ ({s} \cap attached)
    BY <1>5 DEF SocketCloses, EndSessions
  <2>2. t \in sessions /\ t # s
    BY <2>1 DEF TypeOK
  <2> QED
    BY <2>1, <2>2 DEF GhostInv, TypeOK
<1>6. ASSUME NEW s \in Sid, SocketErrs(s) \/ KickBySessionId(s)
      PROVE  socket'[t] = "live"
  BY <1>1, <1>6 DEF SocketErrs, KickBySessionId, EndSessions
<1>7. ASSUME NEW s \in Sid, Disconnect(s) PROVE socket'[t] = "live"
  <2>1. /\ sessions' = sessions
        /\ \A r \in Sid \ {s} : socket'[r] = socket[r]
    BY <1>7 DEF Disconnect, table, TypeOK
  <2>2. t # s
    BY <1>7, <2>1 DEF Disconnect, TypeOK, Accepted
  <2> QED
    BY <2>1, <2>2 DEF GhostInv, TypeOK
<1>8. ASSUME NEW s \in Sid, NEW u \in Uid, Bind(s, u) \/ Unbind(s, u)
      PROVE  socket'[t] = "live"
  BY <1>1, <1>8 DEF Bind, Unbind
<1>9. ASSUME NEW u \in Uid, Kick(u) PROVE socket'[t] = "live"
  BY <1>1, <1>9 DEF Kick, EndSessions
<1>10. CASE UNCHANGED vars
  BY <1>1, <1>10 DEF vars, table
<1> QED
  BY <1>2, <1>3, <1>4, <1>5, <1>6, <1>7, <1>8, <1>9, <1>10 DEF Next

\* Without an asynchronous blacklistFun no session outlives its socket
\* (bindEvents, getSession, closed).
THEOREM GhostsCorrect == Spec => []NoGhostSessions
<1>1. GhostInv => NoGhostSessions
  BY DEF GhostInv, NoGhostSessions
<1>2. Init => GhostInv
  BY LoginsInit
<1> QED
  BY TInvInit, TInvStep, <1>2, GhostStep, <1>1, PTL DEF Spec

-----------------------------------------------------------------------------
\* What the services count and record agrees with the sessions, in every reachable
\* state (bindEvents, decreaseConnectionCount, removeLoginedUser, closed).
THEOREM LoginsAgreeCorrect == Spec => []LoginsAgree
<1>1. TypeOK /\ AcceptedWithinLimit /\ NoStaleLogins /\ NoGhostSessions => LoginsAgree
  BY DEF LoginsAgree
<1> QED
  BY TypeCorrect, LimitCorrect, LoginsCorrect, GhostsCorrect, <1>1, PTL

\* With several sessions per user and an asynchronous filter the index, the table
\* and the logins agree too (bind, unbind, closed, removeLoginedUser).
THEOREM ManyAgreeCorrect == Spec => []ManyAgree
<1>1. UidMapAgrees /\ NoStaleLogins => ManyAgree
  BY DEF ManyAgree
<1> QED
  BY IndexCorrect, LoginsCorrect, <1>1, PTL
=============================================================================
