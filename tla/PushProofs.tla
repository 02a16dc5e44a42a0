----------------------------- MODULE PushProofs -----------------------------
(***************************************************************************)
(* What is proved of the pushes to users, for any servers, users, sessions *)
(* and pushes: the channel and its groups agree, a queue belongs to a     *)
(* session, a push reaches every member who stays or reports him, and a    *)
(* broadcast comes once.                                                   *)
(*                                                                         *)
(* A push passes through three hands: the message under way, the reply of  *)
(* the server, and the callback that collects the replies.  What each of   *)
(* them holds covers every user the push is owed to (MessagesCover,        *)
(* RepliesCover, CallbacksCover).                                          *)
(***************************************************************************)
EXTENDS Users, FiniteSetTheorems, TLAPS

-----------------------------------------------------------------------------
(* The inductive invariant.                                                *)

\* How often a session got a message or is about to.
Total(s, k) == got[s][k] + queue[s][k]

\* A session of the user at this server got the message, has it in its queue, or
\* has closed since.
Reached(k, f, u) ==
  \E s \in Session : /\ Home[s] = f /\ User[s] = u
                     /\ session[s] = "closed" \/ Total(s, k) > 0

\* The channel: the groups stay within their bound.
GroupsBounded == \A f \in Frontend, u \in Uid : listed[f][u] <= MaxListed
RecordsListed == \A u \in Uid : records[u] # Push!Nowhere => listed[records[u]][u] > 0
AmountCounts == amount = Cardinality(Push!Places)

\* A push that nobody has called yet has left no trace.
Fresh ==
  \A k \in Number : pushes[k] = "none" =>
    /\ result[k] = "none" /\ waiting[k] = {}
    /\ \A m \in rpc : m.push # k
    /\ \A r \in replies : r.push # k
    /\ \A s \in Session : Total(s, k) = 0

\* Only a push is owed to users; who has called back waits for nobody.
OwedByPushes ==
  \A k \in Number : /\ pushes[k] # "push" => \A f \in Frontend : owed[k][f] = {}
                    /\ result[k] # "none" => waiting[k] = {}

\* One message goes to a server, and none to our own.
OneMessage ==
  /\ \A m \in rpc : m.to # Own
  /\ \A m, n \in rpc : m.push = n.push /\ m.to = n.to => m = n

\* A message names the users the push is owed to, or refers to a group that has them.
MessagesCover ==
  \A m \in rpc : \A u \in owed[m.push][m.to] :
    IF m.live THEN listed[m.to][u] > 0 ELSE m.uids[u] > 0

\* A reply reports the users whom the message did not reach.
RepliesCover ==
  \A r \in replies : \A u \in owed[r.push][r.from] : u \in r.fails \/ Reached(r.push, r.from, u)

\* A user is waited for, reached, or reported.
CallbacksCover ==
  \A k \in Number, f \in Frontend : \A u \in owed[k][f] :
    f \in waiting[k] \/ u \in failIds[k] \/ Reached(k, f, u)

\* The direct scheduler sends a broadcast several times to a user with several sessions.
Repeats(k, s) ==
  /\ k \in binded
  /\ "direct" \in Scheduler[Home[s]]
  /\ \E t \in Session \ {s} : User[t] = User[s] /\ Home[t] = Home[s]

\* While a broadcast is on its way to a server the sessions there have not got it.
BroadcastComes ==
  \A k \in Number, s \in Session : pushes[k] = "broadcast" /\ ~ Repeats(k, s) =>
    /\ Total(s, k) <= 1
    /\ \A m \in rpc : m.push = k /\ m.to = Home[s] => Total(s, k) = 0

PushInv ==
  /\ Push!TypeOK
  /\ GroupsBounded /\ RecordsListed /\ AmountCounts
  /\ Push!QueuesHaveSessions
  /\ Fresh /\ OwedByPushes /\ OneMessage
  /\ MessagesCover /\ RepliesCover /\ CallbacksCover /\ BroadcastComes

-----------------------------------------------------------------------------
(* The channel.                                                            *)

LEMMA PushFinite ==
  ASSUME NEW S
  PROVE  /\ Push!IsFiniteSet(S) <=> IsFiniteSet(S)
         /\ Push!Cardinality(S) = Cardinality(S)
<1>1. Push!IsFiniteSet(S) <=> IsFiniteSet(S)
  BY DEF Push!IsFiniteSet, IsFiniteSet
<1>2. Push!Cardinality(S) = Cardinality(S)
  BY Zenon DEF Push!Cardinality, Cardinality
<1> QED
  BY <1>1, <1>2

LEMMA PushConstants ==
  /\ IsFiniteSet(Frontend) /\ IsFiniteSet(Uid) /\ IsFiniteSet(Session)
  /\ Home \in [Session -> Frontend] /\ User \in [Session -> Uid]
  /\ Scheduler \in [Frontend -> SUBSET {"direct", "buffer"}] /\ MaxListed \in Nat
BY PushAssumption, PushFinite DEF Push!ConstantsAssumption

\* The places of the users named for each server.
PlacesOf(named) == {p \in (Frontend \X Uid) \X (1 .. MaxListed) : p[2] <= named[p[1][1]][p[1][2]]}

LEMMA PlacesFinite ==
  ASSUME NEW named
  PROVE  IsFiniteSet(PlacesOf(named)) /\ Cardinality(PlacesOf(named)) \in Nat
<1>1. IsFiniteSet(1 .. MaxListed)
  BY PushConstants, FS_Interval
<1>2. IsFiniteSet(Frontend \X Uid)
  BY PushConstants, FS_Product
<1>3. IsFiniteSet((Frontend \X Uid) \X (1 .. MaxListed))
  BY <1>1, <1>2, FS_Product
<1>4. PlacesOf(named) \subseteq (Frontend \X Uid) \X (1 .. MaxListed)
  BY DEF PlacesOf
<1> QED
  BY <1>3, <1>4, FS_Subset, FS_CardinalityType

\* One user more in a group is one place more.
LEMMA PlaceMore ==
  ASSUME NEW named \in [Frontend -> [Uid -> Nat]], NEW more \in [Frontend -> [Uid -> Nat]],
         NEW f \in Frontend, NEW u \in Uid, more[f][u] = named[f][u] + 1, more[f][u] <= MaxListed,
         \A g \in Frontend, v \in Uid : g # f \/ v # u => more[g][v] = named[g][v]
  PROVE  Cardinality(PlacesOf(more)) = Cardinality(PlacesOf(named)) + 1
<1> DEFINE n == more[f][u]
           p == <<<<f, u>>, n>>
<1>1. n \in 1 .. MaxListed /\ named[f][u] = n - 1 /\ n \in Nat
  <2>1. named[f][u] \in Nat /\ more[f][u] \in Nat /\ MaxListed \in Nat
    BY PushConstants
  <2> QED
    BY <2>1
<1>2. p \in (Frontend \X Uid) \X (1 .. MaxListed)
  BY <1>1
<1>3. p \notin PlacesOf(named)
  BY <1>1 DEF PlacesOf
<1>4. ASSUME NEW q \in (Frontend \X Uid) \X (1 .. MaxListed)
      PROVE  q \in PlacesOf(more) <=> q \in PlacesOf(named) \cup {p}
  <2>1. PICK g \in Frontend, v \in Uid, i \in 1 .. MaxListed : q = <<<<g, v>>, i>>
    OBVIOUS
  <2>2. /\ q \in PlacesOf(more) <=> i <= more[g][v]
        /\ q \in PlacesOf(named) <=> i <= named[g][v]
    BY <2>1 DEF PlacesOf
  <2>3. q = p <=> g = f /\ v = u /\ i = n
    <3>1. <<<<g, v>>, i>> = <<<<f, u>>, n>> <=> <<g, v>> = <<f, u>> /\ i = n
      BY Zenon
    <3>2. <<g, v>> = <<f, u>> <=> g = f /\ v = u
      BY Zenon
    <3> QED
      BY <2>1, <3>1, <3>2
  <2>4. CASE g = f /\ v = u
    <3>1. i <= n <=> i <= n - 1 \/ i = n
      BY <1>1
    <3> QED
      BY <1>1, <2>2, <2>3, <2>4, <3>1
  <2>5. CASE g # f \/ v # u
    BY <2>2, <2>3, <2>5
  <2> QED
    BY <2>4, <2>5
<1> HIDE DEF p
<1>5. PlacesOf(more) = PlacesOf(named) \cup {p}
  BY <1>2, <1>4 DEF PlacesOf
<1> QED
  BY <1>3, <1>5, PlacesFinite, FS_AddElement

LEMMA PlacesListed == Push!Places = PlacesOf(listed) /\ Push!Places' = PlacesOf(listed')
BY DEF Push!Places, PlacesOf

LEMMA PushInvInit == Push!Init => PushInv
<1> SUFFICES ASSUME Push!Init PROVE PushInv
  OBVIOUS
<1>1. Push!TypeOK
  BY DEF Push!Init, Push!TypeOK, Push!Counts, Push!None, Push!NoMessages, Push!AfterStart
<1>2. GroupsBounded /\ RecordsListed
  BY PushConstants DEF Push!Init, GroupsBounded, RecordsListed, Push!None
<1>3. AmountCounts
  <2>1. Push!Places = {}
    BY PushConstants DEF Push!Init, Push!Places, Push!None
  <2> QED
    BY <2>1, FS_EmptySet DEF Push!Init, AmountCounts
<1>4. Push!QueuesHaveSessions
  BY DEF Push!Init, Push!QueuesHaveSessions, Push!NoMessages
<1>5. Fresh
  BY DEF Push!Init, Fresh, Total, Push!NoMessages
<1>6. OwedByPushes /\ OneMessage /\ MessagesCover /\ RepliesCover /\ CallbacksCover
  BY DEF Push!Init, OwedByPushes, OneMessage, MessagesCover, RepliesCover, CallbacksCover
<1>7. BroadcastComes
  BY DEF Push!Init, BroadcastComes
<1> QED
  BY <1>1, <1>2, <1>3, <1>4, <1>5, <1>6, <1>7 DEF PushInv

\* What does not touch the sessions and their queues leaves who was reached.
LEMMA SessionsStay ==
  ASSUME UNCHANGED <<session, queued, queue, got>>
  PROVE  /\ \A s \in Session, k \in Number : Total(s, k)' = Total(s, k)
         /\ \A k \in Number, f \in Frontend, u \in Uid : Reached(k, f, u)' <=> Reached(k, f, u)
         /\ Push!QueuesHaveSessions => Push!QueuesHaveSessions'
BY DEF Total, Reached, Push!QueuesHaveSessions

LEMMA PushAdds ==
  ASSUME PushInv, NEW u \in Uid, NEW f \in Frontend, Push!Add(u, f)
  PROVE  PushInv'
<1>1. /\ listed \in [Frontend -> [Uid -> Nat]] /\ amount \in Nat
      /\ listed[f][u] < MaxListed /\ listed[f][u] \in Nat
      /\ listed' = [listed EXCEPT ![f][u] = @ + 1]
      /\ records' = [records EXCEPT ![u] = f]
      /\ amount' = amount + 1
      /\ UNCHANGED <<channel, pushes, binded, rpc, waiting, replies, success, thrown, failIds, result,
                     session, running, queued, queue, got, owed>>
  BY DEF PushInv, Push!TypeOK, Push!Counts, Push!Add, Push!push, Push!front
<1>2. /\ listed' \in [Frontend -> [Uid -> Nat]]
      /\ \A g \in Frontend, v \in Uid :
           listed'[g][v] = IF g = f /\ v = u THEN listed[f][u] + 1 ELSE listed[g][v]
  BY <1>1
<1>3. Push!TypeOK'
  <2>1. records' \in [Uid -> Frontend \union {Push!Nowhere}]
    BY <1>1 DEF PushInv, Push!TypeOK
  <2> QED
    BY <1>1, <1>2, <2>1 DEF PushInv, Push!TypeOK, Push!Counts, Push!Rpc
<1>4. GroupsBounded'
  BY <1>1, <1>2, PushConstants DEF PushInv, GroupsBounded
<1>5. RecordsListed'
  <2> SUFFICES ASSUME NEW v \in Uid, records'[v] # Push!Nowhere PROVE listed'[records'[v]][v] > 0
    BY DEF RecordsListed, Push!Nowhere
  <2>1. CASE v = u
    BY <1>1, <1>2, <2>1 DEF PushInv, Push!TypeOK
  <2>2. CASE v # u
    <3>1. records'[v] = records[v] /\ records[v] \in Frontend /\ listed[records[v]][v] > 0
      BY <1>1, <2>2 DEF PushInv, Push!TypeOK, RecordsListed
    <3> QED
      BY <1>2, <2>2, <3>1
  <2> QED
    BY <2>1, <2>2
<1>6. AmountCounts'
  <2>1. Cardinality(PlacesOf(listed')) = Cardinality(PlacesOf(listed)) + 1
    <3>1. listed'[f][u] = listed[f][u] + 1 /\ listed'[f][u] <= MaxListed
      BY <1>1, <1>2, PushConstants
    <3>2. \A g \in Frontend, v \in Uid : g # f \/ v # u => listed'[g][v] = listed[g][v]
      BY <1>2
    <3>3. listed \in [Frontend -> [Uid -> Nat]] /\ listed' \in [Frontend -> [Uid -> Nat]]
      BY <1>1, <1>2
    <3> QED
      BY ONLY <3>1, <3>2, <3>3, PlaceMore
  <2> QED
    BY <1>1, <2>1, PlacesListed DEF PushInv, AmountCounts
<1>7. MessagesCover'
  <2> SUFFICES ASSUME NEW m \in rpc, NEW v \in owed[m.push][m.to]
               PROVE  IF m.live THEN listed'[m.to][v] > 0 ELSE m.uids[v] > 0
    BY <1>1 DEF MessagesCover
  <2>1. m.push \in Number /\ m.to \in Frontend /\ v \in Uid
    BY DEF PushInv, Push!TypeOK, Push!Rpc
  <2> QED
    BY <1>1, <1>2, <2>1 DEF PushInv, MessagesCover
<1>8. Push!QueuesHaveSessions' /\ RepliesCover' /\ CallbacksCover'
  BY <1>1 DEF PushInv, Push!QueuesHaveSessions, RepliesCover, CallbacksCover, Reached, Total
<1>9. Fresh' /\ OwedByPushes' /\ OneMessage' /\ BroadcastComes'
  BY <1>1 DEF PushInv, Fresh, OwedByPushes, OneMessage, BroadcastComes, Repeats, Total
<1> QED
  BY <1>3, <1>4, <1>5, <1>6, <1>7, <1>8, <1>9 DEF PushInv
LEMMA PushLeaves ==
  ASSUME PushInv, NEW u \in Uid, NEW f \in Frontend, Push!Leave(u, f)
  PROVE  PushInv'
<1> DEFINE dropped(m) == m.live /\ m.to = f /\ Push!Members(listed'[f]) = {}
           left(m) == IF dropped(m) THEN [m EXCEPT !.live = FALSE, !.uids = Push!None] ELSE m
<1>1. /\ listed \in [Frontend -> [Uid -> Nat]] /\ amount \in Nat
      /\ listed[f][u] > 0 /\ listed[f][u] \in Nat /\ listed[f][u] <= MaxListed
      /\ listed' = [listed EXCEPT ![f][u] = @ - 1]
      /\ records' = [records EXCEPT ![u] = Push!Nowhere]
      /\ amount' = amount - 1
      /\ UNCHANGED <<channel, pushes, binded, waiting, replies, success, thrown, failIds, result,
                     session, running, queued, queue, got>>
  BY DEF PushInv, Push!TypeOK, Push!Counts, GroupsBounded, Push!Leave, Push!RecordsWithout, Push!front
<1>2. /\ listed' \in [Frontend -> [Uid -> Nat]]
      /\ \A g \in Frontend, v \in Uid :
           listed'[g][v] = IF g = f /\ v = u THEN listed[f][u] - 1 ELSE listed[g][v]
  BY <1>1
<1>3. rpc' = {left(m) : m \in rpc}
  BY DEF Push!Leave, Push!Detach
<1>4. rpc \subseteq Push!Rpc
  BY DEF PushInv, Push!TypeOK
<1>5. ASSUME NEW m \in rpc
      PROVE  /\ left(m) \in Push!Rpc
             /\ left(m).push = m.push /\ left(m).to = m.to
             /\ dropped(m) => left(m).live = FALSE /\ left(m).uids = Push!None
             /\ ~ dropped(m) => left(m) = m
  <2> HIDE DEF dropped
  <2>1. m \in Push!Rpc /\ Push!None \in Push!Counts
    BY <1>4 DEF Push!None, Push!Counts
  <2> QED
    BY <2>1 DEF Push!Rpc
<1>6. /\ owed \in [Number -> [Frontend -> SUBSET Uid]]
      /\ owed' \in [Number -> [Frontend -> SUBSET Uid]]
      /\ \A k \in Number, g \in Frontend : owed'[k][g] \subseteq owed[k][g]
      /\ \A m \in rpc : m.live /\ m.to = f => u \notin owed'[m.push][f]
  <2>1. owed \in [Number -> [Frontend -> SUBSET Uid]]
    BY DEF PushInv, Push!TypeOK
  <2>2. owed' = [k \in Number |-> IF \E m \in rpc : m.push = k /\ m.to = f /\ m.live
                                    THEN [owed[k] EXCEPT ![f] = @ \ {u}] ELSE owed[k]]
    BY DEF Push!Leave
  <2>3. \A m \in rpc : m.push \in Number
    BY <1>4 DEF Push!Rpc
  <2> QED
    BY <2>1, <2>2, <2>3
<1>7. /\ \A n \in rpc' : n \in Push!Rpc
      /\ \A n \in rpc' : \E m \in rpc : n = left(m)
  <2> HIDE DEF left
  <2> QED
    BY <1>3, <1>5
<1> HIDE DEF left, dropped
<1>8. ASSUME NEW n \in rpc' PROVE \E m \in rpc : m.push = n.push /\ m.to = n.to
  <2>1. PICK m \in rpc : n = left(m)
    BY <1>7
  <2> QED
    BY <1>5, <2>1
<1>9. Cardinality(PlacesOf(listed)) = Cardinality(PlacesOf(listed')) + 1
  <2>1. listed[f][u] = listed'[f][u] + 1 /\ listed[f][u] <= MaxListed
    BY <1>1, <1>2
  <2>2. \A g \in Frontend, v \in Uid : g # f \/ v # u => listed[g][v] = listed'[g][v]
    BY <1>2
  <2>3. listed \in [Frontend -> [Uid -> Nat]] /\ listed' \in [Frontend -> [Uid -> Nat]]
    BY <1>1, <1>2
  <2> QED
    BY ONLY <2>1, <2>2, <2>3, PlaceMore
<1>10. Push!TypeOK'
  <2>1. records' \in [Uid -> Frontend \union {Push!Nowhere}]
    BY <1>1 DEF PushInv, Push!TypeOK
  <2>3. amount = Cardinality(PlacesOf(listed)) /\ Cardinality(PlacesOf(listed')) \in Nat
    BY PlacesListed, PlacesFinite DEF PushInv, AmountCounts
  <2>4. amount' \in Nat
    BY <1>1, <1>9, <2>3
  <2>5. listed' \in [Frontend -> Push!Counts]
    BY <1>2 DEF Push!Counts
  <2>6. rpc' \subseteq Push!Rpc
    BY <1>7
  <2> QED
    BY <1>1, <1>6, <2>1, <2>4, <2>5, <2>6 DEF PushInv, Push!TypeOK, Push!Counts, Push!Rpc
<1>11. GroupsBounded'
  BY <1>1, <1>2, PushConstants DEF PushInv, GroupsBounded
<1>12. RecordsListed'
  <2> SUFFICES ASSUME NEW v \in Uid, records'[v] # Push!Nowhere PROVE listed'[records'[v]][v] > 0
    BY DEF RecordsListed, Push!Nowhere
  <2>1. v # u
    BY <1>1 DEF PushInv, Push!TypeOK
  <2>2. records'[v] = records[v] /\ records[v] \in Frontend /\ listed[records[v]][v] > 0
    BY <1>1, <2>1 DEF PushInv, Push!TypeOK, RecordsListed
  <2> QED
    BY <1>2, <2>1, <2>2
<1>13. AmountCounts'
  <2>2. Cardinality(PlacesOf(listed')) \in Nat
    BY PlacesFinite
  <2> QED
    BY <1>1, <1>9, <2>2, PlacesListed DEF PushInv, AmountCounts
<1>14. MessagesCover'
  <2> SUFFICES ASSUME NEW n \in rpc', NEW v \in owed'[n.push][n.to]
               PROVE  IF n.live THEN listed'[n.to][v] > 0 ELSE n.uids[v] > 0
    BY DEF MessagesCover
  <2>1. PICK m \in rpc : n = left(m)
    BY <1>7
  <2>2. /\ m.push = n.push /\ m.to = n.to /\ m.push \in Number /\ m.to \in Frontend
        /\ m.live \in BOOLEAN
    BY <1>4, <1>5, <2>1 DEF Push!Rpc
  <2>3. v \in owed[m.push][m.to] /\ v \in Uid
    BY <1>6, <2>2
  <2>4. m.live => listed[m.to][v] > 0
    BY <2>3 DEF PushInv, MessagesCover
  <2>5. ~ m.live => m.uids[v] > 0
    BY <2>3 DEF PushInv, MessagesCover
  <2>6. m.live => listed'[m.to][v] > 0
    <3> SUFFICES ASSUME m.live PROVE listed'[m.to][v] > 0
      OBVIOUS
    <3>1. m.to = f => v # u
      BY <1>6, <2>2
    <3>2. listed'[m.to][v] = listed[m.to][v]
      BY <1>2, <2>2, <2>3, <3>1
    <3> QED
      BY <2>4, <3>2
  <2>7. CASE dropped(m)
    <3>1. m.live /\ m.to = f /\ v \in Push!Members(listed'[f])
      BY <2>3, <2>6, <2>7 DEF dropped, Push!Members
    <3> QED
      BY <2>7, <3>1 DEF dropped
  <2>8. CASE ~ dropped(m)
    BY <1>5, <2>1, <2>5, <2>6, <2>8
  <2> QED
    BY <2>7, <2>8
<1>15. OneMessage'
  <2>1. ASSUME NEW n \in rpc' PROVE n.to # Own
    BY <1>8 DEF PushInv, OneMessage
  <2>2. ASSUME NEW n \in rpc', NEW o \in rpc', n.push = o.push, n.to = o.to PROVE n = o
    <3>1. PICK m \in rpc : n = left(m)
      BY <1>7
    <3>2. PICK l \in rpc : o = left(l)
      BY <1>7
    <3>3. m = l
      BY <1>5, <2>2, <3>1, <3>2 DEF PushInv, OneMessage
    <3> QED
      BY <3>1, <3>2, <3>3
  <2> QED
    BY <2>1, <2>2 DEF OneMessage
<1>16. RepliesCover' /\ CallbacksCover'
  <2>1. \A k \in Number, g \in Frontend, v \in Uid : Reached(k, g, v)' <=> Reached(k, g, v)
    BY <1>1, SessionsStay
  <2>2. \A r \in replies : r.push \in Number /\ r.from \in Frontend
    BY DEF PushInv, Push!TypeOK
  <2>3. RepliesCover'
    <3> SUFFICES ASSUME NEW r \in replies, NEW v \in owed'[r.push][r.from]
                 PROVE  v \in r.fails \/ Reached(r.push, r.from, v)'
      BY <1>1 DEF RepliesCover
    <3> QED
      BY <1>6, <2>1, <2>2 DEF PushInv, RepliesCover
  <2>4. CallbacksCover'
    <3> SUFFICES ASSUME NEW k \in Number, NEW g \in Frontend, NEW v \in owed'[k][g]
                 PROVE  g \in waiting[k] \/ v \in failIds[k] \/ Reached(k, g, v)'
      BY <1>1 DEF CallbacksCover
    <3> QED
      BY <1>6, <2>1 DEF PushInv, CallbacksCover
  <2> QED
    BY <2>3, <2>4
<1>17. Push!QueuesHaveSessions'
  BY <1>1, SessionsStay DEF PushInv
<1>18. Fresh'
  <2> SUFFICES ASSUME NEW k \in Number, pushes[k] = "none"
               PROVE  /\ result[k] = "none" /\ waiting[k] = {}
                      /\ \A n \in rpc' : n.push # k
                      /\ \A r \in replies : r.push # k
                      /\ \A s \in Session : Total(s, k)' = 0
    BY <1>1 DEF Fresh
  <2>1. \A n \in rpc' : n.push # k
    BY <1>1, <1>8 DEF PushInv, Fresh
  <2>2. \A s \in Session : Total(s, k)' = Total(s, k)
    BY <1>1, SessionsStay
  <2> HIDE DEF Total
  <2> QED
    BY <1>1, <2>1, <2>2 DEF PushInv, Fresh
<1>19. OwedByPushes'
  BY <1>1, <1>6 DEF PushInv, OwedByPushes
<1>20. BroadcastComes'
  <2> SUFFICES ASSUME NEW k \in Number, NEW s \in Session, pushes[k] = "broadcast", ~ Repeats(k, s)
               PROVE  /\ Total(s, k)' <= 1
                      /\ \A n \in rpc' : n.push = k /\ n.to = Home[s] => Total(s, k)' = 0
    BY <1>1 DEF BroadcastComes, Repeats
  <2>1. Total(s, k)' = Total(s, k)
    BY <1>1, SessionsStay
  <2>2. Total(s, k) <= 1 /\ \A m \in rpc : m.push = k /\ m.to = Home[s] => Total(s, k) = 0
    BY DEF PushInv, BroadcastComes
  <2> HIDE DEF Total
  <2> QED
    BY <1>5, <1>7, <2>1, <2>2
<1> QED
  BY <1>10, <1>11, <1>12, <1>13, <1>14, <1>15, <1>16, <1>17, <1>18, <1>19, <1>20 DEF PushInv

\* Sessions that close lose what is in their queues; messages move from queues to sockets.
LEMMA FrontMoves ==
  ASSUME PushInv, Push!TypeOK', Push!QueuesHaveSessions',
         UNCHANGED <<listed, records, amount, pushes, binded, rpc, waiting, replies, failIds, result, owed>>,
         \A s \in Session : session[s] = "closed" => session'[s] = "closed",
         \A s \in Session, k \in Number : \/ Total(s, k)' = Total(s, k)
                                          \/ session'[s] = "closed" /\ Total(s, k)' <= Total(s, k)
  PROVE  PushInv'
<1>1. \A s \in Session, k \in Number : Total(s, k) \in Nat /\ Total(s, k)' \in Nat
  BY DEF PushInv, Push!TypeOK, Total
<1>2. \A s \in Session, k \in Number : Total(s, k)' <= Total(s, k)
  BY <1>1
<1>3. ASSUME NEW k \in Number, NEW f \in Frontend, NEW u \in Uid, Reached(k, f, u)
      PROVE  Reached(k, f, u)'
  <2>1. PICK s \in Session : /\ Home[s] = f /\ User[s] = u
                             /\ session[s] = "closed" \/ Total(s, k) > 0
    BY <1>3 DEF Reached
  <2>2. session'[s] = "closed" \/ Total(s, k)' > 0
    BY <1>1, <2>1
  <2> QED
    BY <2>1, <2>2 DEF Reached
<1>4. GroupsBounded' /\ RecordsListed' /\ AmountCounts' /\ OwedByPushes' /\ OneMessage' /\ MessagesCover'
  BY PlacesListed DEF PushInv, GroupsBounded, RecordsListed, AmountCounts, OwedByPushes, OneMessage,
                      MessagesCover, Push!Nowhere
<1>5. Fresh'
  <2> SUFFICES ASSUME NEW k \in Number, pushes[k] = "none", NEW s \in Session PROVE Total(s, k)' = 0
    BY DEF PushInv, Fresh
  <2>1. Total(s, k) = 0
    BY DEF PushInv, Fresh
  <2> QED
    BY <1>1, <1>2, <2>1
<1>6. RepliesCover' /\ CallbacksCover'
  <2>1. \A r \in replies : r.push \in Number /\ r.from \in Frontend
    BY DEF PushInv, Push!TypeOK
  <2>2. \A k \in Number, f \in Frontend : owed[k][f] \subseteq Uid
    BY DEF PushInv, Push!TypeOK
  <2>3. RepliesCover'
    <3> SUFFICES ASSUME NEW r \in replies, NEW u \in owed[r.push][r.from]
                 PROVE  u \in r.fails \/ Reached(r.push, r.from, u)'
      BY DEF RepliesCover
    <3> QED
      BY <1>3, <2>1, <2>2 DEF PushInv, RepliesCover
  <2>4. CallbacksCover'
    <3> SUFFICES ASSUME NEW k \in Number, NEW f \in Frontend, NEW u \in owed[k][f]
                 PROVE  f \in waiting[k] \/ u \in failIds[k] \/ Reached(k, f, u)'
      BY DEF CallbacksCover
    <3> QED
      BY <1>3, <2>2 DEF PushInv, CallbacksCover
  <2> QED
    BY <2>3, <2>4
<1>7. BroadcastComes'
  <2> SUFFICES ASSUME NEW k \in Number, NEW s \in Session, pushes[k] = "broadcast", ~ Repeats(k, s)
               PROVE  /\ Total(s, k)' <= 1
                      /\ \A m \in rpc : m.push = k /\ m.to = Home[s] => Total(s, k)' = 0
    BY DEF BroadcastComes, Repeats
  <2>1. Total(s, k) <= 1 /\ \A m \in rpc : m.push = k /\ m.to = Home[s] => Total(s, k) = 0
    BY DEF PushInv, BroadcastComes
  <2>2. Total(s, k) \in Nat /\ Total(s, k)' \in Nat /\ Total(s, k)' <= Total(s, k)
    BY <1>1, <1>2
  <2> HIDE DEF Total
  <2> QED
    BY <2>1, <2>2
<1> QED
  BY <1>4, <1>5, <1>6, <1>7 DEF PushInv

LEMMA PushFront ==
  ASSUME PushInv
  PROVE  /\ Push!Destroy => PushInv'
         /\ \A s \in Session : Push!Bind(s) \/ Push!Close(s) => PushInv'
         /\ \A f \in Frontend : Push!Flush(f) \/ Push!StopScheduler(f) => PushInv'
<1>1. /\ session \in [Session -> {"open", "bound", "closed"}]
      /\ queue \in [Session -> [Number -> Nat]] /\ got \in [Session -> [Number -> Nat]]
      /\ queued \subseteq Session /\ running \subseteq Frontend
  BY DEF PushInv, Push!TypeOK
<1>2. \A s \in Session, k \in Number : queue[s][k] > 0 => s \in queued
  BY DEF PushInv, Push!QueuesHaveSessions
<1>3. CASE Push!Destroy
  <2>1. /\ channel' = "destroyed"
        /\ UNCHANGED <<listed, records, amount, pushes, binded, rpc, waiting, replies, success, thrown,
                       failIds, result, session, running, queued, queue, got, owed>>
    BY <1>3 DEF Push!Destroy, Push!push, Push!front
  <2>2. Push!TypeOK'
    BY <2>1 DEF PushInv, Push!TypeOK, Push!Counts, Push!Rpc
  <2>3. \A s \in Session, k \in Number : Total(s, k)' = Total(s, k)
    BY <2>1, SessionsStay
  <2> QED
    BY <2>1, <2>2, <2>3, SessionsStay, FrontMoves DEF PushInv
<1>4. ASSUME NEW s \in Session, Push!Bind(s) PROVE PushInv'
  <2>1. /\ session[s] = "open" /\ session' = [session EXCEPT ![s] = "bound"]
        /\ UNCHANGED <<listed, records, amount, channel, pushes, binded, rpc, waiting, replies, success, thrown,
                       failIds, result, running, queued, queue, got, owed>>
    BY <1>4 DEF Push!Bind, Push!push, Push!chan
  <2>2. Push!TypeOK' /\ Push!QueuesHaveSessions'
    BY <1>1, <2>1 DEF PushInv, Push!TypeOK, Push!Counts, Push!Rpc, Push!QueuesHaveSessions
  <2>3. \A t \in Session, k \in Number : Total(t, k)' = Total(t, k)
    BY <2>1 DEF Total
  <2>4. \A t \in Session : session[t] = "closed" => session'[t] = "closed"
    BY <1>1, <2>1
  <2> QED
    BY <2>1, <2>2, <2>3, <2>4, FrontMoves
<1>5. ASSUME NEW s \in Session, Push!Close(s) PROVE PushInv'
  <2>1. /\ session' = [session EXCEPT ![s] = "closed"]
        /\ queued' = queued \ {s}
        /\ queue' = [queue EXCEPT ![s] = Push!NoMessages]
        /\ UNCHANGED <<listed, records, amount, channel, pushes, binded, rpc, waiting, replies, success, thrown,
                       failIds, result, running, got, owed>>
    BY <1>5 DEF Push!Close, Push!QueuesWithout, Push!push, Push!chan
  <2>2. Push!NoMessages \in [Number -> Nat] /\ \A k \in Number : Push!NoMessages[k] = 0
    BY DEF Push!NoMessages
  <2>3. Push!TypeOK'
    <3>1. /\ session' \in [Session -> {"open", "bound", "closed"}]
          /\ queue' \in [Session -> [Number -> Nat]] /\ queued' \subseteq Session
      BY <1>1, <2>1, <2>2
    <3> QED
      BY <2>1, <3>1 DEF PushInv, Push!TypeOK, Push!Counts, Push!Rpc
  <2>4. Push!QueuesHaveSessions'
    <3>1. \A t \in queued' : session'[t] # "closed"
      BY <1>1, <2>1 DEF PushInv, Push!QueuesHaveSessions
    <3>2. \A t \in Session, k \in Number : queue'[t][k] > 0 => t \in queued'
      BY <1>1, <1>2, <2>1, <2>2
    <3> QED
      BY <3>1, <3>2 DEF Push!QueuesHaveSessions
  <2>5. \A t \in Session : session[t] = "closed" => session'[t] = "closed"
    BY <1>1, <2>1
  <2>6. ASSUME NEW t \in Session, NEW k \in Number
        PROVE  \/ Total(t, k)' = Total(t, k)
               \/ session'[t] = "closed" /\ Total(t, k)' <= Total(t, k)
    <3>1. CASE t = s
      BY <1>1, <2>1, <2>2, <3>1 DEF Total
    <3>2. CASE t # s
      BY <1>1, <2>1, <3>2 DEF Total
    <3> QED
      BY <3>1, <3>2
  <2> HIDE DEF Total
  <2> QED
    BY <2>1, <2>3, <2>4, <2>5, <2>6, FrontMoves
<1>6. ASSUME NEW f \in Frontend, Push!Flush(f) PROVE PushInv'
  <2>1. /\ got' = [s \in Session |-> IF Home[s] = f /\ s \in queued
                                     THEN [k \in Number |-> got[s][k] + queue[s][k]] ELSE got[s]]
        /\ queue' = [s \in Session |-> IF Home[s] = f THEN Push!NoMessages ELSE queue[s]]
        /\ UNCHANGED <<listed, records, amount, channel, pushes, binded, rpc, waiting, replies, success, thrown,
                       failIds, result, session, running, queued, owed>>
    BY <1>6 DEF Push!Flush, Push!Flushed, Push!push, Push!chan
  <2>2. Push!NoMessages \in [Number -> Nat] /\ \A k \in Number : Push!NoMessages[k] = 0
    BY DEF Push!NoMessages
  <2>3. Push!TypeOK'
    <3>1. got' \in [Session -> [Number -> Nat]]
      BY <1>1, <2>1
    <3>2. queue' \in [Session -> [Number -> Nat]]
      BY <1>1, <2>1, <2>2
    <3> QED
      BY <2>1, <3>1, <3>2 DEF PushInv, Push!TypeOK, Push!Counts, Push!Rpc
  <2>4. Push!QueuesHaveSessions'
    <3>1. \A t \in queued' : session'[t] # "closed"
      BY <2>1 DEF PushInv, Push!QueuesHaveSessions
    <3>2. \A t \in Session, k \in Number : queue'[t][k] > 0 => t \in queued'
      BY <1>1, <1>2, <2>1, <2>2
    <3> QED
      BY <3>1, <3>2 DEF Push!QueuesHaveSessions
  <2>5. ASSUME NEW t \in Session, NEW k \in Number PROVE Total(t, k)' = Total(t, k)
    <3>1. queue[t][k] \in Nat /\ got[t][k] \in Nat
      BY <1>1
    <3>2. CASE Home[t] = f
      <4>1. queue'[t][k] = 0
        BY <2>1, <2>2, <3>2
      <4>2. t \in queued => got'[t][k] = got[t][k] + queue[t][k]
        BY <2>1, <3>2
      <4>3. t \notin queued => got'[t][k] = got[t][k] /\ queue[t][k] = 0
        BY <1>2, <2>1, <3>1
      <4> QED
        BY <3>1, <4>1, <4>2, <4>3 DEF Total
    <3>3. CASE Home[t] # f
      BY <2>1, <3>3 DEF Total
    <3> QED
      BY <3>2, <3>3
  <2> HIDE DEF Total
  <2> QED
    BY <2>1, <2>3, <2>4, <2>5, FrontMoves
<1>7. ASSUME NEW f \in Frontend, Push!StopScheduler(f) PROVE PushInv'
  <2>1. /\ running' = running \ {f}
        /\ UNCHANGED <<listed, records, amount, channel, pushes, binded, rpc, waiting, replies, success, thrown,
                       failIds, result, session, queued, queue, got, owed>>
    BY <1>7 DEF Push!StopScheduler, Push!push, Push!chan
  <2>2. Push!TypeOK'
    BY <2>1 DEF PushInv, Push!TypeOK, Push!Counts, Push!Rpc
  <2>3. \A s \in Session, k \in Number : Total(s, k)' = Total(s, k)
    BY <2>1, SessionsStay
  <2> QED
    BY <2>1, <2>2, <2>3, SessionsStay, FrontMoves DEF PushInv
<1> QED
  BY <1>3, <1>4, <1>5, <1>6, <1>7

-----------------------------------------------------------------------------
(* Schedulers.                                                             *)

LEMMA ScheduleCounts ==
  ASSUME Push!TypeOK, Push!QueuesHaveSessions, session' = session,
         NEW k \in Number, NEW kind, NEW times \in [Session -> Nat], Push!Schedule(k, kind, times),
         \A s \in Session : times[s] > 0 => session[s] # "closed"
  PROVE  /\ queued' \subseteq Session
         /\ queue' \in [Session -> [Number -> Nat]] /\ got' \in [Session -> [Number -> Nat]]
         /\ Push!QueuesHaveSessions'
         /\ \A s \in Session, j \in Number : Total(s, j) \in Nat /\ Total(s, j)' \in Nat
         /\ \A s \in Session : Total(s, k)' = Total(s, k) + times[s]
         /\ \A s \in Session, j \in Number : j # k => Total(s, j)' = Total(s, j)
<1>1. /\ queue \in [Session -> [Number -> Nat]] /\ got \in [Session -> [Number -> Nat]]
      /\ queued \subseteq Session
  BY DEF Push!TypeOK
<1>2. ASSUME NEW counts \in [Session -> [Number -> Nat]]
      PROVE  /\ Push!Plus(counts, k, times) \in [Session -> [Number -> Nat]]
             /\ \A s \in Session : Push!Plus(counts, k, times)[s][k] = counts[s][k] + times[s]
             /\ \A s \in Session, j \in Number : j # k => Push!Plus(counts, k, times)[s][j] = counts[s][j]
  BY DEF Push!Plus
<1>3. CASE kind = "direct"
  <2>1. got' = Push!Plus(got, k, times) /\ queued' = queued /\ queue' = queue
    BY <1>3 DEF Push!Schedule, Push!ScheduleDirect
  <2>2. Push!QueuesHaveSessions'
    BY <2>1 DEF Push!QueuesHaveSessions
  <2>3. got' \in [Session -> [Number -> Nat]]
    BY <1>1, <1>2, <2>1
  <2>4. ASSUME NEW s \in Session, NEW j \in Number
        PROVE  /\ got[s][j] \in Nat /\ queue[s][j] \in Nat
               /\ got'[s][j] = IF j = k THEN got[s][j] + times[s] ELSE got[s][j]
    BY <1>1, <1>2, <2>1
  <2> QED
    BY <1>1, <2>1, <2>2, <2>3, <2>4 DEF Total
<1>4. CASE kind # "direct"
  <2>1. /\ queue' = Push!Plus(queue, k, times) /\ got' = got
        /\ queued' = queued \union {s \in Session : times[s] > 0}
    BY <1>4 DEF Push!Schedule, Push!ScheduleBuffered, Push!Enqueued
  <2>2. queue' \in [Session -> [Number -> Nat]]
    BY <1>1, <1>2, <2>1
  <2>3. ASSUME NEW s \in Session, NEW j \in Number
        PROVE  /\ got[s][j] \in Nat /\ queue[s][j] \in Nat
               /\ queue'[s][j] = IF j = k THEN queue[s][j] + times[s] ELSE queue[s][j]
    BY <1>1, <1>2, <2>1
  <2>4. Push!QueuesHaveSessions'
    <3>1. \A s \in queued' : session'[s] # "closed"
      BY <2>1 DEF Push!QueuesHaveSessions
    <3>2. ASSUME NEW s \in Session, NEW j \in Number, queue'[s][j] > 0 PROVE s \in queued'
      BY <2>1, <2>3, <3>2 DEF Push!QueuesHaveSessions
    <3> QED
      BY <3>1, <3>2 DEF Push!QueuesHaveSessions
  <2> QED
    BY <1>1, <2>1, <2>2, <2>3, <2>4 DEF Total
<1> QED
  BY <1>3, <1>4

\* How often a message goes to a session.
LEMMA PushedTimes ==
  ASSUME Push!TypeOK, NEW f \in Frontend, NEW uids \in Push!Counts
  PROVE  /\ Push!Pushed(f, uids) \in [Session -> Nat]
         /\ \A s \in Session : Push!Pushed(f, uids)[s] > 0 => session[s] # "closed"
         /\ \A u \in Uid : uids[u] > 0 =>
              \/ u \in Push!Fails(f, uids)
              \/ \E s \in Session : Home[s] = f /\ User[s] = u /\ Push!Pushed(f, uids)[s] > 0
         /\ Push!Fails(f, uids) \subseteq Uid
<1>1. User \in [Session -> Uid] /\ uids \in [Uid -> Nat]
  BY PushConstants DEF Push!Counts
<1>2. ASSUME NEW u \in Uid, uids[u] > 0, u \notin Push!Fails(f, uids)
      PROVE  \E s \in Session : Home[s] = f /\ User[s] = u /\ Push!Pushed(f, uids)[s] > 0
  <2>1. PICK s \in Push!Bound(f, u) : TRUE
    BY <1>2 DEF Push!Fails, Push!Members
  <2> QED
    BY <1>2, <2>1 DEF Push!Bound, Push!Pushed
<1> QED
  BY <1>1, <1>2 DEF Push!Pushed, Push!Fails, Push!Members

LEMMA BroadcastTimes ==
  ASSUME NEW f \in Frontend, NEW kind \in Scheduler[f], NEW k, NEW S
  PROVE  /\ Push!Broadcast(f, kind, k \in S) \in [Session -> Nat]
         /\ \A s \in Session : Push!Broadcast(f, kind, k \in S)[s] > 0
                                 => session[s] # "closed" /\ Home[s] = f
         /\ \A s \in Session :
              ~ (/\ k \in S /\ "direct" \in Scheduler[Home[s]]
                 /\ \E t \in Session \ {s} : User[t] = User[s] /\ Home[t] = Home[s])
                => Push!Broadcast(f, kind, k \in S)[s] <= 1
<1>1. ASSUME NEW s \in Session
      PROVE  Push!Cardinality(Push!Bound(f, User[s])) \in Nat
  <2>1. Push!Bound(f, User[s]) \subseteq Session
    BY DEF Push!Bound
  <2> QED
    BY <2>1, PushConstants, PushFinite, FS_Subset, FS_CardinalityType
<1>2. ASSUME NEW s \in Session,
             ~ \E t \in Session \ {s} : User[t] = User[s] /\ Home[t] = Home[s], Home[s] = f
      PROVE  Push!Cardinality(Push!Bound(f, User[s])) <= 1
  <2>1. Push!Bound(f, User[s]) \subseteq {s}
    BY <1>2 DEF Push!Bound
  <2>2. Cardinality({s}) = 1 /\ IsFiniteSet({s})
    BY FS_Singleton
  <2>3. Cardinality(Push!Bound(f, User[s])) <= 1
    BY <2>1, <2>2, FS_Subset
  <2> QED
    BY <2>3, PushFinite
<1>3. ASSUME NEW s \in Session
      PROVE  /\ Push!Broadcast(f, kind, k \in S)[s] \in Nat
             /\ Push!Broadcast(f, kind, k \in S)[s] > 0 => session[s] # "closed" /\ Home[s] = f
  BY <1>1 DEF Push!Broadcast
<1>4. ASSUME NEW s \in Session,
             ~ (/\ k \in S /\ "direct" \in Scheduler[Home[s]]
                /\ \E t \in Session \ {s} : User[t] = User[s] /\ Home[t] = Home[s])
      PROVE  Push!Broadcast(f, kind, k \in S)[s] <= 1
  <2>1. CASE Home[s] = f /\ k \in S /\ kind = "direct"
    <3>1. Push!Cardinality(Push!Bound(f, User[s])) <= 1
      BY <1>2, <1>4, <2>1
    <3> QED
      BY <1>1, <2>1, <3>1 DEF Push!Broadcast
  <2>2. CASE ~ (Home[s] = f /\ k \in S /\ kind = "direct")
    BY <2>2 DEF Push!Broadcast
  <2> QED
    BY <2>1, <2>2
<1> QED
  BY <1>3, <1>4 DEF Push!Broadcast

\* Who was reached is reached still.
LEMMA ReachedGrows ==
  ASSUME session' = session, NEW k \in Number,
         \A s \in Session : Total(s, k) \in Nat /\ Total(s, k)' \in Nat /\ Total(s, k)' >= Total(s, k)
  PROVE  \A f \in Frontend, u \in Uid : Reached(k, f, u) => Reached(k, f, u)'
<1> SUFFICES ASSUME NEW f \in Frontend, NEW u \in Uid, Reached(k, f, u) PROVE Reached(k, f, u)'
  OBVIOUS
<1>1. PICK s \in Session : /\ Home[s] = f /\ User[s] = u
                           /\ session[s] = "closed" \/ Total(s, k) > 0
  BY DEF Reached
<1>2. session'[s] = "closed" \/ Total(s, k)' > 0
  BY <1>1
<1> QED
  BY <1>1, <1>2 DEF Reached

-----------------------------------------------------------------------------
(* Messages.                                                               *)

LEMMA PushEncodes ==
  ASSUME PushInv, NEW m \in rpc, Push!Encode(m)
  PROVE  PushInv'
<1> DEFINE e == [m EXCEPT !.live = FALSE, !.uids = listed[m.to]]
<1>1. /\ m.live = TRUE /\ rpc' = (rpc \ {m}) \union {e}
      /\ UNCHANGED <<listed, records, amount, channel, pushes, binded, waiting, replies, success, thrown,
                     failIds, result, session, running, queued, queue, got, owed>>
  BY DEF Push!Encode, Push!chan, Push!front, PushInv, Push!TypeOK, Push!Rpc
<1>2. /\ rpc \subseteq Push!Rpc /\ m \in Push!Rpc /\ listed \in [Frontend -> Push!Counts]
  BY DEF PushInv, Push!TypeOK
<1>3. /\ e \in Push!Rpc /\ e.push = m.push /\ e.to = m.to /\ e.live = FALSE /\ e.uids = listed[m.to]
  BY <1>2 DEF Push!Rpc
<1> HIDE DEF e
<1>4. \A n \in rpc' : n = e \/ n \in rpc
  BY <1>1
<1>5. Push!TypeOK'
  <2>1. rpc' \subseteq Push!Rpc
    BY <1>1, <1>2, <1>3
  <2> QED
    BY <1>1, <2>1 DEF PushInv, Push!TypeOK, Push!Counts, Push!Rpc
<1>6. GroupsBounded' /\ RecordsListed' /\ AmountCounts' /\ OwedByPushes'
  BY <1>1, PlacesListed DEF PushInv, GroupsBounded, RecordsListed, AmountCounts, OwedByPushes, Push!Nowhere
<1>7. Push!QueuesHaveSessions' /\ RepliesCover' /\ CallbacksCover'
  BY <1>1 DEF PushInv, Push!QueuesHaveSessions, RepliesCover, CallbacksCover, Reached, Total
<1>8. \A n \in rpc' : \E o \in rpc : n.push = o.push /\ n.to = o.to
  BY <1>3, <1>4
<1>9. Fresh'
  BY <1>1, <1>8 DEF PushInv, Fresh, Total
<1>10. OneMessage'
  <2>1. \A n \in rpc' : n.to # Own
    BY <1>8 DEF PushInv, OneMessage
  <2>2. ASSUME NEW n \in rpc', NEW o \in rpc', n.push = o.push, n.to = o.to PROVE n = o
    BY <1>1, <1>3, <2>2 DEF PushInv, OneMessage
  <2> QED
    BY <2>1, <2>2 DEF OneMessage
<1>11. MessagesCover'
  <2> SUFFICES ASSUME NEW n \in rpc', NEW u \in owed[n.push][n.to]
               PROVE  IF n.live THEN listed[n.to][u] > 0 ELSE n.uids[u] > 0
    BY <1>1 DEF MessagesCover
  <2>1. CASE n \in rpc
    BY <2>1 DEF PushInv, MessagesCover
  <2>2. CASE n = e
    <3>1. listed[m.to][u] > 0
      BY <1>1, <1>3, <2>2 DEF PushInv, MessagesCover
    <3> QED
      BY <1>3, <2>2, <3>1
  <2> QED
    BY <1>4, <2>1, <2>2
<1>12. BroadcastComes'
  <2> SUFFICES ASSUME NEW k \in Number, NEW s \in Session, pushes[k] = "broadcast", ~ Repeats(k, s)
               PROVE  /\ Total(s, k)' <= 1
                      /\ \A n \in rpc' : n.push = k /\ n.to = Home[s] => Total(s, k)' = 0
    BY <1>1 DEF BroadcastComes, Repeats
  <2>1. Total(s, k)' = Total(s, k)
    BY <1>1, SessionsStay
  <2>2. Total(s, k) <= 1 /\ \A o \in rpc : o.push = k /\ o.to = Home[s] => Total(s, k) = 0
    BY DEF PushInv, BroadcastComes
  <2> HIDE DEF Total
  <2> QED
    BY <1>8, <2>1, <2>2
<1> QED
  BY <1>5, <1>6, <1>7, <1>9, <1>10, <1>11, <1>12 DEF PushInv

LEMMA PushDelivers ==
  ASSUME PushInv, NEW m \in rpc, Push!Deliver(m)
  PROVE  PushInv'
<1> DEFINE k == m.push
           f == m.to
           b == pushes[k] = "broadcast"
           reply == Push!Reply(k, f, IF b THEN {} ELSE Push!Fails(f, m.uids))
<1>1. /\ m.live = FALSE /\ k \in Number /\ f \in Frontend /\ m.uids \in Push!Counts
      /\ rpc \subseteq Push!Rpc /\ pushes \in [Number -> {"none", "push", "broadcast", "refused"}]
  BY DEF Push!Deliver, PushInv, Push!TypeOK, Push!Rpc
<1>2. /\ Push!SendTo(m) /\ rpc' = rpc \ {m}
      /\ replies' \subseteq replies \union {reply}
      /\ UNCHANGED <<listed, records, amount, channel, pushes, binded, waiting, success, thrown, failIds,
                     result, session, running, owed>>
  BY DEF Push!Deliver, Push!chan
<1>3. PICK kind \in Scheduler[f] :
        Push!Schedule(k, kind, IF b THEN Push!Broadcast(f, kind, k \in binded) ELSE Push!Pushed(f, m.uids))
  BY <1>2 DEF Push!SendTo, Push!GetScheduler
<1> DEFINE times == IF b THEN Push!Broadcast(f, kind, k \in binded) ELSE Push!Pushed(f, m.uids)
<1>4. /\ times \in [Session -> Nat]
      /\ \A s \in Session : times[s] > 0 => session[s] # "closed"
      /\ b => \A s \in Session : times[s] > 0 => Home[s] = f
      /\ b => \A s \in Session : ~ Repeats(k, s) => times[s] <= 1
      /\ ~ b => \A u \in Uid : m.uids[u] > 0 =>
                  \/ u \in Push!Fails(f, m.uids)
                  \/ \E s \in Session : Home[s] = f /\ User[s] = u /\ times[s] > 0
      /\ Push!Fails(f, m.uids) \subseteq Uid
  <2>1. /\ Push!Pushed(f, m.uids) \in [Session -> Nat]
        /\ \A s \in Session : Push!Pushed(f, m.uids)[s] > 0 => session[s] # "closed"
        /\ \A u \in Uid : m.uids[u] > 0 =>
             \/ u \in Push!Fails(f, m.uids)
             \/ \E s \in Session : Home[s] = f /\ User[s] = u /\ Push!Pushed(f, m.uids)[s] > 0
        /\ Push!Fails(f, m.uids) \subseteq Uid
    BY <1>1, PushedTimes DEF PushInv
  <2>2. /\ Push!Broadcast(f, kind, k \in binded) \in [Session -> Nat]
        /\ \A s \in Session : Push!Broadcast(f, kind, k \in binded)[s] > 0
                                => session[s] # "closed" /\ Home[s] = f
        /\ \A s \in Session : ~ Repeats(k, s) => Push!Broadcast(f, kind, k \in binded)[s] <= 1
    BY <1>1, BroadcastTimes DEF Repeats
  <2> QED
    BY <2>1, <2>2
<1>5. /\ b => k \in Number
      /\ owed[k][f] # {} => ~ b
  BY <1>1 DEF PushInv, OwedByPushes
<1> HIDE DEF times, b
<1>6. /\ queued' \subseteq Session
      /\ queue' \in [Session -> [Number -> Nat]] /\ got' \in [Session -> [Number -> Nat]]
      /\ Push!QueuesHaveSessions'
      /\ \A s \in Session, j \in Number : Total(s, j) \in Nat /\ Total(s, j)' \in Nat
      /\ \A s \in Session : Total(s, k)' = Total(s, k) + times[s]
      /\ \A s \in Session, j \in Number : j # k => Total(s, j)' = Total(s, j)
  <2>1. Push!Schedule(k, kind, times)
    BY <1>3 DEF times, b
  <2> QED
    BY <1>1, <1>2, <1>4, <2>1, ScheduleCounts DEF PushInv
<1> HIDE DEF Total
<1>7. \A s \in Session, j \in Number : Total(s, j)' >= Total(s, j)
  <2> SUFFICES ASSUME NEW s \in Session, NEW j \in Number PROVE Total(s, j)' >= Total(s, j)
    OBVIOUS
  <2>1. times[s] \in Nat
    BY <1>4
  <2>2. CASE j = k
    BY <1>6, <2>1, <2>2
  <2>3. CASE j # k
    BY <1>6, <2>3
  <2> QED
    BY <2>2, <2>3
<1>8. \A j \in Number, g \in Frontend, u \in Uid : Reached(j, g, u) => Reached(j, g, u)'
  BY <1>2, <1>6, <1>7, ReachedGrows
<1>9. reply \in [push : Number, from : Frontend, fails : SUBSET Uid]
  BY <1>1, <1>4 DEF Push!Reply
<1>10. reply.push = k /\ reply.from = f /\ reply.fails = IF b THEN {} ELSE Push!Fails(f, m.uids)
  BY DEF Push!Reply
<1> HIDE DEF reply
<1>11. Push!TypeOK'
  <2>1. rpc' \subseteq Push!Rpc
    BY <1>1, <1>2
  <2>2. replies' \subseteq [push : Number, from : Frontend, fails : SUBSET Uid]
    BY <1>2, <1>9 DEF PushInv, Push!TypeOK
  <2> QED
    BY <1>2, <1>6, <2>1, <2>2 DEF PushInv, Push!TypeOK, Push!Counts, Push!Rpc
<1>12. GroupsBounded' /\ RecordsListed' /\ AmountCounts' /\ OwedByPushes' /\ OneMessage' /\ MessagesCover'
  BY <1>2, PlacesListed DEF PushInv, GroupsBounded, RecordsListed, AmountCounts, OwedByPushes, OneMessage,
                            MessagesCover, Push!Nowhere
<1>13. Fresh'
  <2> SUFFICES ASSUME NEW j \in Number, pushes[j] = "none"
               PROVE  /\ result[j] = "none" /\ waiting[j] = {}
                      /\ \A n \in rpc' : n.push # j
                      /\ \A r \in replies' : r.push # j
                      /\ \A s \in Session : Total(s, j)' = 0
    BY <1>2 DEF Fresh
  <2>1. /\ result[j] = "none" /\ waiting[j] = {}
        /\ \A n \in rpc : n.push # j
        /\ \A r \in replies : r.push # j
        /\ \A s \in Session : Total(s, j) = 0
    BY DEF PushInv, Fresh
  <2>2. k # j
    BY <2>1
  <2> HIDE DEF k
  <2> QED
    BY <1>2, <1>6, <1>10, <2>1, <2>2
<1>14. CallbacksCover'
  <2> SUFFICES ASSUME NEW j \in Number, NEW g \in Frontend, NEW u \in owed[j][g]
               PROVE  g \in waiting[j] \/ u \in failIds[j] \/ Reached(j, g, u)'
    BY <1>2 DEF CallbacksCover
  <2>1. u \in Uid
    BY DEF PushInv, Push!TypeOK
  <2> QED
    BY <1>8, <2>1 DEF PushInv, CallbacksCover
<1>15. RepliesCover'
  <2> SUFFICES ASSUME NEW r \in replies', NEW u \in owed[r.push][r.from]
               PROVE  u \in r.fails \/ Reached(r.push, r.from, u)'
    BY <1>2 DEF RepliesCover
  <2>1. CASE r \in replies
    <3>1. r.push \in Number /\ r.from \in Frontend /\ u \in Uid
      BY <2>1 DEF PushInv, Push!TypeOK
    <3> QED
      BY <1>8, <2>1, <3>1 DEF PushInv, RepliesCover
  <2>2. CASE r = reply
    <3>1. u \in owed[k][f]
      BY <1>10, <2>2
    <3>2. ~ b /\ m.uids[u] > 0 /\ u \in Uid
      BY <1>1, <1>5, <3>1 DEF PushInv, MessagesCover, Push!TypeOK
    <3>3. CASE u \in Push!Fails(f, m.uids)
      BY <1>10, <2>2, <3>2, <3>3
    <3>4. ASSUME NEW s \in Session, Home[s] = f, User[s] = u, times[s] > 0
          PROVE  Reached(k, f, u)'
      <4>1. Total(s, k)' > 0
        BY <1>1, <1>4, <1>6, <3>4
      <4> QED
        BY <3>4, <4>1 DEF Reached
    <3>5. r.push = k /\ r.from = f
      BY <1>10, <2>2
    <3> QED
      BY <1>4, <3>2, <3>3, <3>4, <3>5
  <2> QED
    BY <1>2, <2>1, <2>2
<1>16. BroadcastComes'
  <2> SUFFICES ASSUME NEW j \in Number, NEW s \in Session, pushes[j] = "broadcast", ~ Repeats(j, s)
               PROVE  /\ Total(s, j)' <= 1
                      /\ \A n \in rpc' : n.push = j /\ n.to = Home[s] => Total(s, j)' = 0
    BY <1>2 DEF BroadcastComes, Repeats
  <2>1. Total(s, j) <= 1 /\ \A n \in rpc : n.push = j /\ n.to = Home[s] => Total(s, j) = 0
    BY DEF PushInv, BroadcastComes
  <2>2. CASE j # k
    <3>1. Total(s, j)' = Total(s, j)
      BY <1>6, <2>2
    <3> QED
      BY <1>2, <2>1, <3>1
  <2>3. CASE j = k /\ Home[s] # f
    <3>1. times[s] \in Nat /\ ~ times[s] > 0 /\ Total(s, k) \in Nat
      BY <1>1, <1>4, <1>6, <2>3 DEF b
    <3>2. Total(s, j)' = Total(s, j)
      BY <1>6, <2>3, <3>1
    <3> QED
      BY <1>2, <2>1, <3>2
  <2>4. CASE j = k /\ Home[s] = f
    <3>1. times[s] \in Nat /\ times[s] <= 1
      BY <1>4, <2>4 DEF b
    <3>2. Total(s, j) = 0
      BY <2>1, <2>4
    <3>3. Total(s, j)' <= 1
      BY <1>6, <2>4, <3>1, <3>2
    <3>4. \A n \in rpc' : ~ (n.push = j /\ n.to = Home[s])
      BY <1>2, <2>4 DEF PushInv, OneMessage
    <3> QED
      BY <3>3, <3>4
  <2> QED
    BY <2>2, <2>3, <2>4
<1> QED
  BY <1>6, <1>11, <1>12, <1>13, <1>14, <1>15, <1>16 DEF PushInv

-----------------------------------------------------------------------------
(* Callbacks.                                                              *)

\* A callback collects replies and touches neither channel nor sessions.
LEMMA Collects ==
  ASSUME PushInv, Push!TypeOK',
         UNCHANGED <<listed, records, amount, pushes, binded, session, queued, queue, got, owed>>,
         rpc' \subseteq rpc, replies' \subseteq replies,
         \A k \in Number : /\ pushes[k] = "none" => result'[k] = result[k] /\ waiting'[k] = waiting[k]
                           /\ result'[k] # "none" => waiting'[k] = {},
         CallbacksCover'
  PROVE  PushInv'
<1>1. GroupsBounded' /\ RecordsListed' /\ AmountCounts' /\ OneMessage' /\ MessagesCover'
  BY PlacesListed DEF PushInv, GroupsBounded, RecordsListed, AmountCounts, OneMessage, MessagesCover, Push!Nowhere
<1>2. Push!QueuesHaveSessions'
  BY DEF PushInv, Push!QueuesHaveSessions
<1>3. \A s \in Session, k \in Number : Total(s, k)' = Total(s, k)
  BY SessionsStay
<1>4. Fresh'
  BY <1>3 DEF PushInv, Fresh
<1>5. OwedByPushes'
  BY DEF PushInv, OwedByPushes
<1>6. RepliesCover'
  BY DEF PushInv, RepliesCover, Reached, Total
<1>7. BroadcastComes'
  <2> SUFFICES ASSUME NEW k \in Number, NEW s \in Session, pushes[k] = "broadcast", ~ Repeats(k, s)
               PROVE  /\ Total(s, k)' <= 1
                      /\ \A m \in rpc' : m.push = k /\ m.to = Home[s] => Total(s, k)' = 0
    BY DEF BroadcastComes, Repeats
  <2>1. Total(s, k) <= 1 /\ \A m \in rpc : m.push = k /\ m.to = Home[s] => Total(s, k) = 0
    BY DEF PushInv, BroadcastComes
  <2> HIDE DEF Total
  <2> QED
    BY <1>3, <2>1
<1> QED
  BY <1>1, <1>2, <1>4, <1>5, <1>6, <1>7 DEF PushInv

LEMMA FinishTypes ==
  ASSUME PushInv, NEW k \in Number, NEW f \in waiting[k], NEW ok, Push!Finish(k, f, ok)
  PROVE  /\ waiting' \in [Number -> SUBSET Frontend]
         /\ result' \in [Number -> {"none", "ok", "error"}]
         /\ waiting'[k] = waiting[k] \ {f}
         /\ \A j \in Number : j # k => waiting'[j] = waiting[j] /\ result'[j] = result[j]
         /\ \A j \in Number : result'[j] # "none" => waiting'[j] = {}
<1>1. waiting \in [Number -> SUBSET Frontend] /\ result \in [Number -> {"none", "ok", "error"}]
  BY DEF PushInv, Push!TypeOK
<1>2. /\ waiting' = [waiting EXCEPT ![k] = @ \ {f}]
      /\ result' = IF Push!Resolve(k, f)[k] # {} THEN result
                   ELSE [result EXCEPT ![k] = IF ok THEN "ok" ELSE "error"]
      /\ Push!Resolve(k, f)[k] = waiting[k] \ {f}
  BY <1>1 DEF Push!Finish, Push!Resolve
<1>3. result[k] = "none"
  BY DEF PushInv, OwedByPushes
<1>4. /\ waiting' \in [Number -> SUBSET Frontend] /\ waiting'[k] = waiting[k] \ {f}
      /\ \A j \in Number : j # k => waiting'[j] = waiting[j]
  BY <1>1, <1>2
<1>5. result' \in [Number -> {"none", "ok", "error"}]
      /\ \A j \in Number : j # k => result'[j] = result[j]
  <2>1. CASE waiting[k] \ {f} # {}
    BY <1>1, <1>2, <2>1
  <2>2. CASE waiting[k] \ {f} = {}
    BY <1>1, <1>2, <2>2
  <2> QED
    BY <2>1, <2>2
<1>6. ASSUME NEW j \in Number, result'[j] # "none" PROVE waiting'[j] = {}
  <2>1. CASE j # k
    BY <1>4, <1>5, <1>6, <2>1 DEF PushInv, OwedByPushes
  <2>2. CASE j = k
    BY <1>2, <1>3, <1>4, <1>6, <2>2
  <2> QED
    BY <2>1, <2>2
<1> QED
  BY <1>4, <1>5, <1>6

LEMMA PushCallsBack ==
  ASSUME PushInv, NEW r \in replies, Push!Callback(r)
  PROVE  PushInv'
<1> DEFINE k == r.push
           f == r.from
<1>1. /\ k \in Number /\ f \in Frontend /\ r.fails \subseteq Uid
      /\ failIds \in [Number -> SUBSET Uid] /\ waiting \in [Number -> SUBSET Frontend]
      /\ owed \in [Number -> [Frontend -> SUBSET Uid]]
  BY DEF PushInv, Push!TypeOK
<1>2. /\ replies' = replies \ {r}
      /\ UNCHANGED <<listed, records, amount, channel, pushes, binded, rpc, thrown, session, running,
                     queued, queue, got, owed>>
  BY DEF Push!Callback, Push!chan, Push!front
<1>3. \A j \in Number, g \in Frontend, u \in Uid : Reached(j, g, u)' <=> Reached(j, g, u)
  BY <1>2, SessionsStay
<1>4. CASE f \notin waiting[k]
  <2>1. UNCHANGED <<waiting, success, failIds, result>>
    BY <1>4 DEF Push!Callback
  <2>2. Push!TypeOK'
    BY <1>2, <2>1 DEF PushInv, Push!TypeOK, Push!Counts, Push!Rpc
  <2>3. CallbacksCover'
    BY <1>2, <2>1 DEF PushInv, CallbacksCover, Reached, Total
  <2>4. \A j \in Number : result'[j] # "none" => waiting'[j] = {}
    BY <2>1 DEF PushInv, OwedByPushes
  <2> QED
    BY <1>2, <2>1, <2>2, <2>3, <2>4, Collects
<1>5. CASE f \in waiting[k]
  <2>1. /\ success' = success \union {k}
        /\ failIds' = [failIds EXCEPT ![k] = @ \union r.fails]
        /\ Push!Finish(k, f, TRUE)
    BY <1>5 DEF Push!Callback, Push!FailIds
  <2>2. /\ waiting' \in [Number -> SUBSET Frontend]
        /\ result' \in [Number -> {"none", "ok", "error"}]
        /\ waiting'[k] = waiting[k] \ {f}
        /\ \A j \in Number : j # k => waiting'[j] = waiting[j] /\ result'[j] = result[j]
        /\ \A j \in Number : result'[j] # "none" => waiting'[j] = {}
    BY <1>1, <1>5, <2>1, FinishTypes
  <2>3. /\ failIds' \in [Number -> SUBSET Uid]
        /\ \A j \in Number : failIds[j] \subseteq failIds'[j]
        /\ r.fails \subseteq failIds'[k]
    BY <1>1, <2>1
  <2>4. Push!TypeOK'
    <3>1. success' \subseteq Number
      BY <1>1, <2>1 DEF PushInv, Push!TypeOK
    <3> QED
      BY <1>2, <2>2, <2>3, <3>1 DEF PushInv, Push!TypeOK, Push!Counts, Push!Rpc
  <2>5. CallbacksCover'
    <3> SUFFICES ASSUME NEW j \in Number, NEW g \in Frontend, NEW u \in owed[j][g]
                 PROVE  g \in waiting'[j] \/ u \in failIds'[j] \/ Reached(j, g, u)'
      BY <1>2 DEF CallbacksCover
    <3>1. u \in Uid
      BY <1>1
    <3>2. g \in waiting[j] \/ u \in failIds[j] \/ Reached(j, g, u)
      BY DEF PushInv, CallbacksCover
    <3>3. CASE j = k /\ g = f
      <4>1. u \in r.fails \/ Reached(k, f, u)
        BY <3>3 DEF PushInv, RepliesCover
      <4> QED
        BY <1>1, <1>3, <2>3, <3>1, <3>3, <4>1
    <3>4. CASE ~ (j = k /\ g = f)
      <4>1. g \in waiting[j] => g \in waiting'[j]
        BY <2>2, <3>4
      <4> QED
        BY <1>3, <2>3, <3>1, <3>2, <4>1
    <3> QED
      BY <3>3, <3>4
  <2>6. pushes[k] # "none"
    BY <1>1 DEF PushInv, Fresh
  <2>7. \A j \in Number : pushes[j] = "none" => result'[j] = result[j] /\ waiting'[j] = waiting[j]
    BY <2>2, <2>6
  <2> QED
    BY <1>2, <2>2, <2>4, <2>5, <2>7, Collects
<1> QED
  BY <1>4, <1>5

LEMMA PushRpcFails ==
  ASSUME PushInv, NEW k \in Number, NEW f \in Frontend, Push!RpcFails(k, f)
  PROVE  PushInv'
<1>1. /\ f \in waiting[k]
      /\ rpc' \subseteq rpc /\ replies' \subseteq replies
      /\ UNCHANGED <<listed, records, amount, channel, pushes, binded, success, failIds, session, running,
                     queued, queue, got, owed>>
  BY DEF Push!RpcFails, Push!chan, Push!front
<1>2. \A j \in Number, g \in Frontend, u \in Uid : Reached(j, g, u)' <=> Reached(j, g, u)
  BY <1>1, SessionsStay
<1>3. CASE pushes[k] = "push"
  <2>1. thrown' = thrown \union {<<k, f>>} /\ UNCHANGED <<waiting, result>>
    BY <1>3 DEF Push!RpcFails
  <2>2. Push!TypeOK'
    BY <1>1, <2>1 DEF PushInv, Push!TypeOK, Push!Counts, Push!Rpc
  <2>3. CallbacksCover'
    BY <1>1, <2>1 DEF PushInv, CallbacksCover, Reached, Total
  <2>4. \A j \in Number : result'[j] # "none" => waiting'[j] = {}
    BY <2>1 DEF PushInv, OwedByPushes
  <2> QED
    BY <1>1, <2>1, <2>2, <2>3, <2>4, Collects
<1>4. CASE pushes[k] # "push"
  <2>1. Push!Finish(k, f, k \in success) /\ thrown' = thrown
    BY <1>4 DEF Push!RpcFails
  <2>2. /\ waiting' \in [Number -> SUBSET Frontend]
        /\ result' \in [Number -> {"none", "ok", "error"}]
        /\ waiting'[k] = waiting[k] \ {f}
        /\ \A j \in Number : j # k => waiting'[j] = waiting[j] /\ result'[j] = result[j]
        /\ \A j \in Number : result'[j] # "none" => waiting'[j] = {}
    BY <1>1, <2>1, FinishTypes
  <2>3. Push!TypeOK'
    BY <1>1, <2>1, <2>2 DEF PushInv, Push!TypeOK, Push!Counts, Push!Rpc
  <2>4. CallbacksCover'
    <3> SUFFICES ASSUME NEW j \in Number, NEW g \in Frontend, NEW u \in owed[j][g]
                 PROVE  g \in waiting'[j] \/ u \in failIds[j] \/ Reached(j, g, u)'
      BY <1>1 DEF CallbacksCover
    <3>1. j # k /\ u \in Uid
      BY <1>4 DEF PushInv, OwedByPushes, Push!TypeOK
    <3> QED
      BY <1>2, <2>2, <3>1 DEF PushInv, CallbacksCover
  <2>5. pushes[k] # "none"
    BY <1>1 DEF PushInv, Fresh
  <2>6. \A j \in Number : pushes[j] = "none" => result'[j] = result[j] /\ waiting'[j] = waiting[j]
    BY <2>2, <2>5
  <2> QED
    BY <1>1, <2>2, <2>3, <2>4, <2>6, Collects
<1> QED
  BY <1>3, <1>4

-----------------------------------------------------------------------------
(* A push or broadcast is called.                                          *)

\* What a call does in place, if our own server is among those it goes to.
InPlace(k, kind, to, named) ==
  /\ Own \notin to => UNCHANGED <<replies, queued, queue, got>>
  /\ Own \in to =>
       /\ \E s \in Scheduler[Own] :
            Push!Schedule(k, s, IF kind = "broadcast" THEN Push!Broadcast(Own, s, k \in binded')
                                ELSE Push!Pushed(Own, named[Own]))
       /\ replies' = replies \union
            {Push!Reply(k, Own, IF kind = "broadcast" THEN {} ELSE Push!Fails(Own, named[Own]))}

\* What is true of it then: sessions here got the message, or the users are reported.
SentHere(k, kind, users) ==
  /\ queued' \subseteq Session
  /\ queue' \in [Session -> [Number -> Nat]] /\ got' \in [Session -> [Number -> Nat]]
  /\ Push!QueuesHaveSessions'
  /\ \A s \in Session, j \in Number : Total(s, j) \in Nat /\ Total(s, j)' \in Nat
  /\ \A s \in Session, j \in Number : j # k => Total(s, j)' = Total(s, j)
  /\ kind = "broadcast" => \A s \in Session : /\ Total(s, k)' > 0 => Home[s] = Own
                                              /\ ~ Repeats(k, s)' => Total(s, k)' <= 1
  /\ \A r \in replies' : r \in replies \/
       /\ r \in [push : Number, from : Frontend, fails : SUBSET Uid]
       /\ r.push = k /\ r.from = Own
       /\ \A u \in users : u \in r.fails \/ Reached(k, Own, u)'

LEMMA SendsOwn ==
  ASSUME PushInv, NEW k \in Number, NEW kind \in {"push", "broadcast"}, NEW to \in SUBSET Frontend,
         NEW named \in [Frontend -> Push!Counts],
         pushes[k] = "none", session' = session, InPlace(k, kind, to, named),
         NEW users \in SUBSET Uid, \A u \in users : Own \in to /\ named[Own][u] > 0,
         kind = "broadcast" => users = {}
  PROVE  SentHere(k, kind, users)
<1>1. /\ pushes[k] = "none" /\ session' = session
      /\ Own \notin to => UNCHANGED <<replies, queued, queue, got>>
      /\ Own \in to =>
           /\ \E s \in Scheduler[Own] :
                Push!Schedule(k, s, IF kind = "broadcast" THEN Push!Broadcast(Own, s, k \in binded')
                                    ELSE Push!Pushed(Own, named[Own]))
           /\ replies' = replies \union
                {Push!Reply(k, Own, IF kind = "broadcast" THEN {} ELSE Push!Fails(Own, named[Own]))}
  BY DEF InPlace
<1>2. \A s \in Session : Total(s, k) = 0
  BY <1>1 DEF PushInv, Fresh
<1>3. CASE Own \notin to
  <2>1. \A s \in Session, j \in Number : Total(s, j) \in Nat /\ Total(s, j)' = Total(s, j)
    BY <1>1, <1>3, SessionsStay DEF PushInv, Push!TypeOK, Total
  <2>2. Push!QueuesHaveSessions'
    BY <1>1, <1>3, SessionsStay DEF PushInv
  <2>3. /\ queued' \subseteq Session /\ replies' = replies
        /\ queue' \in [Session -> [Number -> Nat]] /\ got' \in [Session -> [Number -> Nat]]
    BY <1>1, <1>3 DEF PushInv, Push!TypeOK
  <2> HIDE DEF Total
  <2> QED
    BY <1>2, <2>1, <2>2, <2>3 DEF SentHere
<1>4. CASE Own \in to
  <2>1. PICK sched \in Scheduler[Own] :
          Push!Schedule(k, sched, IF kind = "broadcast" THEN Push!Broadcast(Own, sched, k \in binded')
                                  ELSE Push!Pushed(Own, named[Own]))
    BY <1>1, <1>4
  <2> DEFINE times == IF kind = "broadcast" THEN Push!Broadcast(Own, sched, k \in binded')
                      ELSE Push!Pushed(Own, named[Own])
             fails == IF kind = "broadcast" THEN {} ELSE Push!Fails(Own, named[Own])
  <2>2. Own \in Frontend /\ named[Own] \in Push!Counts
    BY <1>4
  <2>3. /\ times \in [Session -> Nat] /\ fails \in SUBSET Uid
        /\ \A s \in Session : times[s] > 0 => session[s] # "closed"
        /\ kind = "broadcast" => \A s \in Session : times[s] > 0 => Home[s] = Own
        /\ kind = "broadcast" => \A s \in Session : ~ Repeats(k, s)' => times[s] <= 1
        /\ kind # "broadcast" => \A u \in Uid : named[Own][u] > 0 =>
                  \/ u \in fails
                  \/ \E s \in Session : Home[s] = Own /\ User[s] = u /\ times[s] > 0
    <3>1. /\ Push!Pushed(Own, named[Own]) \in [Session -> Nat]
          /\ \A s \in Session : Push!Pushed(Own, named[Own])[s] > 0 => session[s] # "closed"
          /\ \A u \in Uid : named[Own][u] > 0 =>
               \/ u \in Push!Fails(Own, named[Own])
               \/ \E s \in Session : Home[s] = Own /\ User[s] = u /\ Push!Pushed(Own, named[Own])[s] > 0
          /\ Push!Fails(Own, named[Own]) \subseteq Uid
      BY <2>2, PushedTimes DEF PushInv
    <3>2. /\ Push!Broadcast(Own, sched, k \in binded') \in [Session -> Nat]
          /\ \A s \in Session : Push!Broadcast(Own, sched, k \in binded')[s] > 0
                                  => session[s] # "closed" /\ Home[s] = Own
          /\ \A s \in Session : ~ Repeats(k, s)' => Push!Broadcast(Own, sched, k \in binded')[s] <= 1
      BY <2>2, BroadcastTimes DEF Repeats
    <3>3. CASE kind = "broadcast"
      BY <3>2, <3>3
    <3>4. CASE kind # "broadcast"
      BY <3>1, <3>4
    <3> QED
      BY <3>3, <3>4
  <2>4. replies' = replies \union {Push!Reply(k, Own, fails)}
    BY <1>1, <1>4
  <2>5. Push!Schedule(k, sched, times)
    BY <2>1
  <2> HIDE DEF times, fails
  <2>6. /\ queued' \subseteq Session
        /\ queue' \in [Session -> [Number -> Nat]] /\ got' \in [Session -> [Number -> Nat]]
        /\ Push!QueuesHaveSessions'
        /\ \A s \in Session, j \in Number : Total(s, j) \in Nat /\ Total(s, j)' \in Nat
        /\ \A s \in Session : Total(s, k)' = Total(s, k) + times[s]
        /\ \A s \in Session, j \in Number : j # k => Total(s, j)' = Total(s, j)
    BY <1>1, <2>3, <2>5, ScheduleCounts DEF PushInv
  <2>7. \A s \in Session : Total(s, k)' = times[s]
    BY <1>2, <2>3, <2>6
  <2>8. \A u \in users : u \in fails \/ Reached(k, Own, u)'
    <3> SUFFICES ASSUME NEW u \in users, u \notin fails PROVE Reached(k, Own, u)'
      OBVIOUS
    <3>1. kind # "broadcast" /\ named[Own][u] > 0 /\ u \in Uid
      OBVIOUS
    <3>2. PICK s \in Session : Home[s] = Own /\ User[s] = u /\ times[s] > 0
      BY <2>3, <3>1
    <3>3. Total(s, k)' > 0
      BY <2>7, <3>2
    <3> QED
      BY <3>2, <3>3 DEF Reached
  <2>9. ASSUME NEW r \in replies', r \notin replies
        PROVE  /\ r \in [push : Number, from : Frontend, fails : SUBSET Uid]
               /\ r.push = k /\ r.from = Own
               /\ \A u \in users : u \in r.fails \/ Reached(k, Own, u)'
    <3>1. r = [push |-> k, from |-> Own, fails |-> fails]
      BY <2>4, <2>9 DEF Push!Reply
    <3>2. r.push = k /\ r.from = Own /\ r.fails = fails
      BY <3>1
    <3>3. r \in [push : Number, from : Frontend, fails : SUBSET Uid]
      BY <2>2, <2>3, <3>1
    <3> QED
      BY <2>8, <3>2, <3>3
  <2>10. kind = "broadcast" => \A s \in Session : /\ Total(s, k)' > 0 => Home[s] = Own
                                                  /\ ~ Repeats(k, s)' => Total(s, k)' <= 1
    BY <2>3, <2>7
  <2> HIDE DEF Total
  <2> QED
    BY <2>6, <2>9, <2>10 DEF SentHere
<1> QED
  BY <1>3, <1>4

\* What a call sends: the message of every server of to, and what the channel owes.
Sends(k, kind, to, named, msgs) ==
  /\ pushes[k] = "none" /\ pushes' = [pushes EXCEPT ![k] = kind]
  /\ waiting' = [waiting EXCEPT ![k] = to]
  /\ result' = IF to = {} THEN [result EXCEPT ![k] = "ok"] ELSE result
  /\ rpc' = rpc \union msgs
  /\ UNCHANGED <<listed, records, amount, channel, success, thrown, failIds, session, running>>
  /\ InPlace(k, kind, to, named)
  /\ \A m \in msgs : /\ m.push = k /\ m.to \in to \ {Own}
                     /\ IF m.live THEN named = listed ELSE m.uids = named[m.to]
  /\ \A m, n \in msgs : m.to = n.to => m = n
  /\ binded' \subseteq Number
  /\ \A j \in Number : j # k => (j \in binded' <=> j \in binded)
  /\ owed' \in [Number -> [Frontend -> SUBSET Uid]]
  /\ \A j \in Number : j # k => owed'[j] = owed[j]
  /\ kind = "broadcast" => \A f \in Frontend : owed'[k][f] = {}
  /\ \A f \in Frontend : \A u \in owed'[k][f] : f \in to /\ named[f][u] > 0

LEMMA PushSends ==
  ASSUME PushInv, NEW k \in Number, NEW kind \in {"push", "broadcast"}, NEW to \in SUBSET Frontend,
         NEW named \in [Frontend -> Push!Counts], NEW msgs \in SUBSET Push!Rpc,
         Sends(k, kind, to, named, msgs)
  PROVE  PushInv'
<1>0. /\ pushes[k] = "none" /\ pushes' = [pushes EXCEPT ![k] = kind]
      /\ waiting' = [waiting EXCEPT ![k] = to]
      /\ result' = IF to = {} THEN [result EXCEPT ![k] = "ok"] ELSE result
      /\ rpc' = rpc \union msgs
      /\ UNCHANGED <<listed, records, amount, channel, success, thrown, failIds, session, running>>
      /\ InPlace(k, kind, to, named)
      /\ \A m \in msgs : /\ m.push = k /\ m.to \in to \ {Own}
                         /\ IF m.live THEN named = listed ELSE m.uids = named[m.to]
      /\ \A m, n \in msgs : m.to = n.to => m = n
      /\ binded' \subseteq Number
      /\ \A j \in Number : j # k => (j \in binded' <=> j \in binded)
      /\ owed' \in [Number -> [Frontend -> SUBSET Uid]]
      /\ \A j \in Number : j # k => owed'[j] = owed[j]
      /\ kind = "broadcast" => \A f \in Frontend : owed'[k][f] = {}
      /\ \A f \in Frontend : \A u \in owed'[k][f] : f \in to /\ named[f][u] > 0
  BY DEF Sends
<1> USE <1>0
<1>1. /\ pushes \in [Number -> {"none", "push", "broadcast", "refused"}] /\ waiting \in [Number -> SUBSET Frontend]
      /\ result \in [Number -> {"none", "ok", "error"}] /\ rpc \subseteq Push!Rpc
      /\ failIds \in [Number -> SUBSET Uid] /\ listed \in [Frontend -> [Uid -> Nat]]
  BY DEF PushInv, Push!TypeOK, Push!Counts
<1>2. /\ pushes'[k] = kind /\ waiting'[k] = to
      /\ result'[k] # "none" => to = {}
      /\ \A j \in Number : j # k => /\ pushes'[j] = pushes[j] /\ waiting'[j] = waiting[j]
                                    /\ result'[j] = result[j]
      /\ pushes' \in [Number -> {"none", "push", "broadcast", "refused"}] /\ waiting' \in [Number -> SUBSET Frontend]
      /\ result' \in [Number -> {"none", "ok", "error"}]
  <2>1. result[k] = "none"
    BY DEF PushInv, Fresh
  <2>2. CASE to = {}
    BY <1>1, <2>2
  <2>3. CASE to # {}
    BY <1>1, <2>1, <2>3
  <2> QED
    BY <2>2, <2>3
<1>3. /\ \A m \in rpc : m.push # k /\ m.push \in Number /\ m.to \in Frontend
      /\ \A r \in replies : r.push # k /\ r.push \in Number /\ r.from \in Frontend
      /\ \A s \in Session : Total(s, k) = 0
  BY DEF PushInv, Fresh, Push!TypeOK, Push!Rpc
<1> DEFINE users == IF Own \in Frontend THEN owed'[k][Own] ELSE {}
<1>4. /\ users \in SUBSET Uid
      /\ \A u \in users : Own \in to /\ named[Own][u] > 0
      /\ kind = "broadcast" => users = {}
      /\ Own \in Frontend => users = owed'[k][Own]
  OBVIOUS
<1> HIDE DEF users
<1>5. SentHere(k, kind, users)
  BY <1>4, SendsOwn
<1>6. /\ queued' \subseteq Session
      /\ queue' \in [Session -> [Number -> Nat]] /\ got' \in [Session -> [Number -> Nat]]
      /\ Push!QueuesHaveSessions'
      /\ \A s \in Session, j \in Number : Total(s, j) \in Nat /\ Total(s, j)' \in Nat
      /\ \A s \in Session, j \in Number : j # k => Total(s, j)' = Total(s, j)
      /\ kind = "broadcast" => \A s \in Session : /\ Total(s, k)' > 0 => Home[s] = Own
                                                  /\ ~ Repeats(k, s)' => Total(s, k)' <= 1
      /\ \A r \in replies' : r \in replies \/
           /\ r \in [push : Number, from : Frontend, fails : SUBSET Uid]
           /\ r.push = k /\ r.from = Own
           /\ \A u \in users : u \in r.fails \/ Reached(k, Own, u)'
  BY <1>5 DEF SentHere
<1> HIDE DEF Total
<1>7. \A j \in Number, f \in Frontend, u \in Uid : j # k /\ Reached(j, f, u) => Reached(j, f, u)'
  <2> SUFFICES ASSUME NEW j \in Number, j # k
               PROVE  \A f \in Frontend, u \in Uid : Reached(j, f, u) => Reached(j, f, u)'
    OBVIOUS
  <2>1. \A s \in Session : Total(s, j) \in Nat /\ Total(s, j)' \in Nat /\ Total(s, j)' >= Total(s, j)
    BY <1>6
  <2> QED
    BY <2>1, ReachedGrows
<1>8. Push!TypeOK'
  <2>1. rpc' \subseteq Push!Rpc
    BY <1>1
  <2>2. replies' \subseteq [push : Number, from : Frontend, fails : SUBSET Uid]
    BY <1>6 DEF PushInv, Push!TypeOK
  <2> QED
    BY <1>2, <1>6, <2>1, <2>2 DEF PushInv, Push!TypeOK, Push!Counts, Push!Rpc
<1>9. GroupsBounded' /\ RecordsListed' /\ AmountCounts'
  BY PlacesListed DEF PushInv, GroupsBounded, RecordsListed, AmountCounts, Push!Nowhere
<1>10. Fresh'
  <2> SUFFICES ASSUME NEW j \in Number, pushes'[j] = "none"
               PROVE  /\ result'[j] = "none" /\ waiting'[j] = {}
                      /\ \A m \in rpc' : m.push # j
                      /\ \A r \in replies' : r.push # j
                      /\ \A s \in Session : Total(s, j)' = 0
    BY DEF Fresh
  <2>1. j # k
    BY <1>2
  <2>2. /\ result[j] = "none" /\ waiting[j] = {}
        /\ \A m \in rpc : m.push # j
        /\ \A r \in replies : r.push # j
        /\ \A s \in Session : Total(s, j) = 0
    BY <1>2, <2>1 DEF PushInv, Fresh
  <2>3. \A m \in rpc' : m.push # j
    BY <2>1, <2>2
  <2> QED
    BY <1>2, <1>6, <2>1, <2>2, <2>3
<1>11. OwedByPushes'
  <2> SUFFICES ASSUME NEW j \in Number
               PROVE  /\ pushes'[j] # "push" => \A f \in Frontend : owed'[j][f] = {}
                      /\ result'[j] # "none" => waiting'[j] = {}
    BY DEF OwedByPushes
  <2>1. CASE j = k
    BY <1>2, <2>1
  <2>2. CASE j # k
    BY <1>2, <2>2 DEF PushInv, OwedByPushes
  <2> QED
    BY <2>1, <2>2
<1>12. OneMessage'
  <2>1. ASSUME NEW m \in rpc' PROVE m.to # Own
    BY DEF PushInv, OneMessage
  <2>2. ASSUME NEW m \in rpc', NEW n \in rpc', m.push = n.push, m.to = n.to PROVE m = n
    <3>1. CASE m.push = k
      BY <1>3, <2>2, <3>1
    <3>2. CASE m.push # k
      <4>1. m \in rpc /\ n \in rpc
        BY <2>2, <3>2
      <4> QED
        BY <2>2, <4>1 DEF PushInv, OneMessage
    <3> QED
      BY <3>1, <3>2
  <2> QED
    BY <2>1, <2>2 DEF OneMessage
<1>13. MessagesCover'
  <2> SUFFICES ASSUME NEW m \in rpc', NEW u \in owed'[m.push][m.to]
               PROVE  IF m.live THEN listed[m.to][u] > 0 ELSE m.uids[u] > 0
    BY DEF MessagesCover
  <2>1. CASE m \in rpc
    <3>1. u \in owed[m.push][m.to]
      BY <1>3, <2>1
    <3> QED
      BY <2>1, <3>1 DEF PushInv, MessagesCover
  <2>2. ASSUME m \in msgs
        PROVE  IF m.live THEN listed[m.to][u] > 0 ELSE m.uids[u] > 0
    <3>1. /\ m.push = k /\ m.to \in to
          /\ IF m.live THEN named = listed ELSE m.uids = named[m.to]
      BY <2>2
    <3>2. named[m.to][u] > 0
      BY <3>1
    <3> QED
      BY <3>1, <3>2
  <2> QED
    BY <2>1, <2>2
<1>14. RepliesCover'
  <2> SUFFICES ASSUME NEW r \in replies', NEW u \in owed'[r.push][r.from]
               PROVE  u \in r.fails \/ Reached(r.push, r.from, u)'
    BY DEF RepliesCover
  <2>1. CASE r \in replies
    <3>1. r.push # k /\ r.push \in Number /\ r.from \in Frontend
      BY <1>3, <2>1
    <3>2. u \in owed[r.push][r.from] /\ u \in Uid
      BY <3>1
    <3>3. u \in r.fails \/ Reached(r.push, r.from, u)
      BY <2>1, <3>2 DEF PushInv, RepliesCover
    <3> QED
      BY <1>7, <3>1, <3>2, <3>3
  <2>2. CASE r \notin replies
    <3>1. /\ r \in [push : Number, from : Frontend, fails : SUBSET Uid]
          /\ r.push = k /\ r.from = Own
          /\ \A v \in users : v \in r.fails \/ Reached(k, Own, v)'
      BY <1>6, <2>2
    <3>2. u \in users
      BY <1>4, <3>1
    <3> QED
      BY <3>1, <3>2
  <2> QED
    BY <2>1, <2>2
<1>15. CallbacksCover'
  <2> SUFFICES ASSUME NEW j \in Number, NEW f \in Frontend, NEW u \in owed'[j][f]
               PROVE  f \in waiting'[j] \/ u \in failIds[j] \/ Reached(j, f, u)'
    BY DEF CallbacksCover
  <2>1. CASE j = k
    BY <1>2, <2>1
  <2>2. CASE j # k
    <3>1. u \in owed[j][f] /\ u \in Uid
      BY <2>2
    <3>2. f \in waiting[j] \/ u \in failIds[j] \/ Reached(j, f, u)
      BY <3>1 DEF PushInv, CallbacksCover
    <3> QED
      BY <1>2, <1>7, <2>2, <3>1, <3>2
  <2> QED
    BY <2>1, <2>2
<1>16. BroadcastComes'
  <2> SUFFICES ASSUME NEW j \in Number, NEW s \in Session, pushes'[j] = "broadcast", ~ Repeats(j, s)'
               PROVE  /\ Total(s, j)' <= 1
                      /\ \A m \in rpc' : m.push = j /\ m.to = Home[s] => Total(s, j)' = 0
    BY DEF BroadcastComes
  <2>1. CASE j # k
    <3>1. pushes[j] = "broadcast" /\ ~ Repeats(j, s)
      BY <1>2, <2>1 DEF Repeats
    <3>2. Total(s, j) <= 1 /\ \A m \in rpc : m.push = j /\ m.to = Home[s] => Total(s, j) = 0
      BY <3>1 DEF PushInv, BroadcastComes
    <3>3. \A m \in rpc' : m.push = j => m \in rpc
      BY <2>1
    <3>4. Total(s, j)' = Total(s, j)
      BY <1>6, <2>1
    <3> QED
      BY <3>2, <3>3, <3>4
  <2>2. CASE j = k
    <3>1. Total(s, k)' <= 1 /\ (Total(s, k)' > 0 => Home[s] = Own) /\ Total(s, k)' \in Nat
      BY <1>2, <1>6, <2>2
    <3>2. \A m \in rpc' : m.to # Own
      BY <1>12 DEF OneMessage
    <3> QED
      BY <2>2, <3>1, <3>2
  <2> QED
    BY <2>1, <2>2
<1> QED
  BY <1>6, <1>8, <1>9, <1>10, <1>11, <1>12, <1>13, <1>14, <1>15, <1>16 DEF PushInv

LEMMA PushCalls ==
  ASSUME PushInv, NEW k \in Number, Push!Calls(k)
  PROVE  PushInv'
<1>1. /\ listed \in [Frontend -> Push!Counts] /\ binded \subseteq Number
      /\ owed \in [Number -> [Frontend -> SUBSET Uid]]
  BY DEF PushInv, Push!TypeOK
\* Nobody is sent what was refused, and it is owed to nobody.
<1>0. CASE Push!Refuse(k)
  <2>1. /\ pushes[k] = "none" /\ pushes' = [pushes EXCEPT ![k] = "refused"]
        /\ UNCHANGED <<listed, records, amount, channel, binded, rpc, waiting, replies, success, thrown,
                       failIds, result, session, running, queued, queue, got, owed>>
    BY <1>0 DEF Push!Refuse, Push!chan, Push!front
  <2>2. /\ pushes \in [Number -> {"none", "push", "broadcast", "refused"}]
        /\ pushes' \in [Number -> {"none", "push", "broadcast", "refused"}]
        /\ pushes'[k] = "refused" /\ \A j \in Number : j # k => pushes'[j] = pushes[j]
    BY <2>1 DEF PushInv, Push!TypeOK
  <2>3. Push!TypeOK'
    BY <2>1, <2>2 DEF PushInv, Push!TypeOK
  <2>4. /\ \A s \in Session, j \in Number : Total(s, j)' = Total(s, j)
        /\ \A j \in Number, f \in Frontend, u \in Uid : Reached(j, f, u)' = Reached(j, f, u)
    BY <2>1 DEF Total, Reached
  <2>5. GroupsBounded' /\ RecordsListed' /\ AmountCounts' /\ Push!QueuesHaveSessions'
    BY <2>1 DEF PushInv, GroupsBounded, RecordsListed, AmountCounts, Push!QueuesHaveSessions, Push!Places
  <2>6. Fresh'
    BY <2>1, <2>2, <2>4 DEF PushInv, Fresh
  <2>7. OwedByPushes'
    BY <2>1, <2>2 DEF PushInv, OwedByPushes
  <2>8. OneMessage' /\ MessagesCover'
    BY <2>1 DEF PushInv, OneMessage, MessagesCover
  <2>9. RepliesCover'
    BY <2>1, <2>4 DEF PushInv, RepliesCover, Reached, Total
  <2>10. CallbacksCover'
    BY <2>1, <2>4 DEF PushInv, CallbacksCover, Reached, Total
  <2>11. BroadcastComes'
    BY <2>1, <2>2, <2>4 DEF PushInv, BroadcastComes, Repeats
  <2> QED
    BY <2>3, <2>5, <2>6, <2>7, <2>8, <2>9, <2>10, <2>11 DEF PushInv
<1>2. CASE Push!PushMessage(k) /\ ~ Push!Refuse(k)
  <2> DEFINE to == {f \in Frontend : Push!Members(listed[f]) # {}}
             o == [f \in Frontend |-> Push!Members(listed[f])]
             msg(f) == [push |-> k, to |-> f, live |-> TRUE, uids |-> Push!None]
             msgs == {msg(f) : f \in to \ {Own}}
  <2>1. /\ owed' = [owed EXCEPT ![k] = o] /\ binded' = binded
        /\ pushes[k] = "none" /\ pushes' = [pushes EXCEPT ![k] = "push"]
        /\ waiting' = [waiting EXCEPT ![k] = to]
        /\ result' = IF to = {} THEN [result EXCEPT ![k] = "ok"] ELSE result
        /\ rpc' = rpc \union msgs
        /\ InPlace(k, "push", to, listed)
        /\ UNCHANGED <<listed, records, amount, channel, success, thrown, failIds, session, running>>
    BY <1>2 DEF Push!PushMessage, Push!Send, Push!chan, InPlace
  <2>2. /\ o \in [Frontend -> SUBSET Uid] /\ to \in SUBSET Frontend
        /\ \A f \in Frontend : \A u \in o[f] : f \in to /\ listed[f][u] > 0
    BY DEF Push!Members
  <2> HIDE DEF to, o
  <2>3. Push!None \in Push!Counts
    BY DEF Push!None, Push!Counts
  <2>4. \A f \in Frontend : msg(f) \in Push!Rpc /\ msg(f).push = k /\ msg(f).to = f /\ msg(f).live
    BY <2>3 DEF Push!Rpc
  <2> HIDE DEF msg
  <2>5. msgs \in SUBSET Push!Rpc
    BY <2>2, <2>4
  <2>6. \A m \in msgs : /\ m.push = k /\ m.to \in to \ {Own}
                        /\ IF m.live THEN listed = listed ELSE m.uids = listed[m.to]
    BY <2>2, <2>4
  <2>7. \A m, n \in msgs : m.to = n.to => m = n
    BY <2>2, <2>4
  <2> HIDE DEF msgs
  <2>8. /\ owed' \in [Number -> [Frontend -> SUBSET Uid]] /\ owed'[k] = o
        /\ \A j \in Number : j # k => owed'[j] = owed[j]
    BY <1>1, <2>1, <2>2
  <2>9. \A f \in Frontend : \A u \in owed'[k][f] : f \in to /\ listed[f][u] > 0
    BY <2>2, <2>8
  <2>10. binded' \subseteq Number /\ \A j \in Number : j # k => (j \in binded' <=> j \in binded)
    BY <1>1, <2>1
  <2>11. "push" \in {"push", "broadcast"} /\ ("push" = "broadcast" => \A f \in Frontend : owed'[k][f] = {})
    OBVIOUS
  <2>12. Sends(k, "push", to, listed, msgs)
    BY ONLY <2>1, <2>5, <2>6, <2>7, <2>8, <2>9, <2>10, <2>11 DEF Sends
  <2> QED
    BY <1>1, <2>2, <2>5, <2>11, <2>12, PushSends
<1>3. ASSUME NEW uids \in SUBSET Uid, NEW f \in Frontend, Push!PushMessageByUids(k, uids, f)
      PROVE  PushInv'
  <2> DEFINE named == [g \in Frontend |-> [u \in Uid |-> IF g = f /\ u \in uids THEN 1 ELSE 0]]
             o == [g \in Frontend |-> Push!Members(named[g])]
             to == {f}
             msg(g) == [push |-> k, to |-> g, live |-> FALSE, uids |-> named[g]]
             msgs == {msg(g) : g \in to \ {Own}}
  <2>1. /\ owed' = [owed EXCEPT ![k] = o] /\ binded' = binded
        /\ pushes[k] = "none" /\ pushes' = [pushes EXCEPT ![k] = "push"]
        /\ waiting' = [waiting EXCEPT ![k] = to]
        /\ result' = IF to = {} THEN [result EXCEPT ![k] = "ok"] ELSE result
        /\ rpc' = rpc \union msgs
        /\ InPlace(k, "push", to, named)
        /\ UNCHANGED <<listed, records, amount, channel, success, thrown, failIds, session, running>>
    BY <1>3 DEF Push!PushMessageByUids, Push!Send, Push!chan, InPlace
  <2>2. named \in [Frontend -> Push!Counts]
    BY DEF Push!Counts
  <2>3. /\ o \in [Frontend -> SUBSET Uid] /\ to \in SUBSET Frontend
        /\ \A g \in Frontend : \A u \in o[g] : g \in to /\ named[g][u] > 0
    BY DEF Push!Members
  <2> HIDE DEF named, o, to
  <2>4. \A g \in Frontend : /\ msg(g) \in Push!Rpc /\ msg(g).push = k /\ msg(g).to = g
                             /\ ~ msg(g).live /\ msg(g).uids = named[g]
    BY <2>2 DEF Push!Rpc
  <2> HIDE DEF msg
  <2>5. msgs \in SUBSET Push!Rpc
    BY <2>3, <2>4
  <2>6. \A m \in msgs : /\ m.push = k /\ m.to \in to \ {Own}
                        /\ IF m.live THEN named = listed ELSE m.uids = named[m.to]
    BY <2>3, <2>4
  <2>7. \A m, n \in msgs : m.to = n.to => m = n
    BY <2>3, <2>4
  <2> HIDE DEF msgs
  <2>8. /\ owed' \in [Number -> [Frontend -> SUBSET Uid]] /\ owed'[k] = o
        /\ \A j \in Number : j # k => owed'[j] = owed[j]
    BY <1>1, <2>1, <2>3
  <2>9. \A g \in Frontend : \A u \in owed'[k][g] : g \in to /\ named[g][u] > 0
    BY <2>3, <2>8
  <2>10. binded' \subseteq Number /\ \A j \in Number : j # k => (j \in binded' <=> j \in binded)
    BY <1>1, <2>1
  <2>11. "push" \in {"push", "broadcast"} /\ ("push" = "broadcast" => \A g \in Frontend : owed'[k][g] = {})
    OBVIOUS
  <2>12. Sends(k, "push", to, named, msgs)
    BY ONLY <2>1, <2>3, <2>5, <2>6, <2>7, <2>8, <2>9, <2>10, <2>11 DEF Sends
  <2> QED
    BY <2>2, <2>3, <2>5, <2>11, <2>12, PushSends
<1>4. ASSUME NEW onlyBound \in BOOLEAN, Push!BroadcastAll(k, onlyBound)
      PROVE  PushInv'
  <2> DEFINE named == [f \in Frontend |-> Push!None]
             msg(g) == [push |-> k, to |-> g, live |-> FALSE, uids |-> named[g]]
             msgs == {msg(g) : g \in Frontend \ {Own}}
  <2>1. /\ owed' = owed /\ binded' = IF onlyBound THEN binded \union {k} ELSE binded
        /\ pushes[k] = "none" /\ pushes' = [pushes EXCEPT ![k] = "broadcast"]
        /\ waiting' = [waiting EXCEPT ![k] = Frontend]
        /\ result' = IF Frontend = {} THEN [result EXCEPT ![k] = "ok"] ELSE result
        /\ rpc' = rpc \union msgs
        /\ InPlace(k, "broadcast", Frontend, named)
        /\ UNCHANGED <<listed, records, amount, channel, success, thrown, failIds, session, running>>
    BY <1>4 DEF Push!BroadcastAll, Push!Send, Push!chan, InPlace
  <2>2. named \in [Frontend -> Push!Counts]
    BY DEF Push!Counts, Push!None
  <2> HIDE DEF named
  <2>3. \A g \in Frontend : /\ msg(g) \in Push!Rpc /\ msg(g).push = k /\ msg(g).to = g
                             /\ ~ msg(g).live /\ msg(g).uids = named[g]
    BY <2>2 DEF Push!Rpc
  <2> HIDE DEF msg
  <2>4. msgs \in SUBSET Push!Rpc
    BY <2>3
  <2>5. \A m \in msgs : /\ m.push = k /\ m.to \in Frontend \ {Own}
                        /\ IF m.live THEN named = listed ELSE m.uids = named[m.to]
    BY <2>3
  <2>6. \A m, n \in msgs : m.to = n.to => m = n
    BY <2>3
  <2> HIDE DEF msgs
  <2>7. \A f \in Frontend : owed'[k][f] = {}
    BY <2>1 DEF PushInv, OwedByPushes
  <2>8. binded' \subseteq Number /\ \A j \in Number : j # k => (j \in binded' <=> j \in binded)
    BY <1>1, <2>1
  <2>9. /\ owed' \in [Number -> [Frontend -> SUBSET Uid]]
        /\ \A j \in Number : j # k => owed'[j] = owed[j]
    BY <1>1, <2>1
  <2>10. \A f \in Frontend : \A u \in owed'[k][f] : f \in Frontend /\ named[f][u] > 0
    BY <2>7
  <2>11. "broadcast" \in {"push", "broadcast"} /\ Frontend \in SUBSET Frontend
    OBVIOUS
  <2>12. Sends(k, "broadcast", Frontend, named, msgs)
    BY ONLY <2>1, <2>4, <2>5, <2>6, <2>7, <2>8, <2>9, <2>10, <2>11 DEF Sends
  <2> QED
    BY <2>2, <2>4, <2>11, <2>12, PushSends
<1> QED
  BY <1>0, <1>2, <1>3, <1>4 DEF Push!Calls

-----------------------------------------------------------------------------
(* Every step, and the theorem.                                            *)

LEMMA PushInvStep == PushInv /\ [Push!Next]_pushVars => PushInv'
<1> SUFFICES ASSUME PushInv, [Push!Next]_pushVars PROVE PushInv'
  OBVIOUS
<1>1. CASE UNCHANGED pushVars
  <2>1. UNCHANGED <<listed, records, amount, channel, pushes, binded, rpc, waiting, replies, success,
                    thrown, failIds, result, session, running, queued, queue, got, owed>>
    BY <1>1 DEF pushVars
  <2>2. Push!TypeOK'
    BY <2>1 DEF PushInv, Push!TypeOK, Push!Counts, Push!Rpc
  <2>3. \A s \in Session, k \in Number : Total(s, k)' = Total(s, k)
    BY <2>1, SessionsStay
  <2> QED
    BY <2>1, <2>2, <2>3, SessionsStay, FrontMoves DEF PushInv
<1>2. ASSUME NEW k \in Number, NEW f \in Frontend, Push!Travels(k, f) PROVE PushInv'
  BY <1>2, PushEncodes, PushDelivers DEF Push!Travels
<1> QED
  BY <1>1, <1>2, PushAdds, PushLeaves, PushFront, PushCalls, PushCallsBack, PushRpcFails DEF Push!Next

LEMMA PushInvInductive == Spec => []PushInv
<1>1. Init => PushInv
  BY PushInvInit DEF Init
<1>2. PushInv /\ [Next]_vars => PushInv'
  <2> SUFFICES ASSUME PushInv, [Next]_vars PROVE PushInv'
    OBVIOUS
  <2>1. [Push!Next]_pushVars
    BY Zenon DEF Next, vars
  <2> QED
    BY <2>1, PushInvStep
<1> QED
  BY <1>1, <1>2, PTL DEF Spec

\* A push reaches the members who stay, or reports them; a broadcast reaches a session
\* once; the channel and the queues name members and sessions that are there
\* (Channel, BufferPushScheduler).
THEOREM EveryMemberCorrect == Spec => []EveryMember
<1>1. PushInv => Push!MembersAgree
  <2>1. PushInv => amount = Push!Cardinality(Push!Places)
    BY PushFinite DEF PushInv, AmountCounts
  <2> QED
    BY <2>1 DEF PushInv, RecordsListed, Push!MembersAgree
<1>2. PushInv => Push!EveryMember
  <2> SUFFICES ASSUME PushInv, NEW k \in Number, NEW f \in Frontend, result[k] = "ok",
                      NEW u \in owed[k][f] \ failIds[k]
               PROVE  \E s \in Session :
                        /\ Home[s] = f /\ User[s] = u
                        /\ session[s] = "closed" \/ got[s][k] + queue[s][k] > 0
    BY DEF Push!EveryMember
  <2>1. f \notin waiting[k]
    BY DEF PushInv, OwedByPushes
  <2>2. Reached(k, f, u)
    BY <2>1 DEF PushInv, CallbacksCover
  <2> QED
    BY <2>2 DEF Reached, Total
<1>3. PushInv => Push!BroadcastOnce
  BY DEF PushInv, BroadcastComes, Repeats, Total, Push!BroadcastOnce
<1>4. PushInv => EveryMember
  BY <1>1, <1>2, <1>3 DEF PushInv, EveryMember
<1> QED
  BY <1>4, PushInvInductive, PTL
=============================================================================
