------------------------------ MODULE Routing ------------------------------
(***************************************************************************)
(* How an rpc finds its server: the servers of one type as application,    *)
(* proxy component and mail station keep them, the routers of the client,  *)
(* the consistent hash ring, broadcasts, and the failure process.          *)
(*                                                                         *)
(*   olemop/application.js addServers, removeServers, replaceServers       *)
(*   olemop/components/proxy.js, rpc/rpc-client/client.js, router.js,      *)
(*   failureProcess.js, mailstation.js, util/consistentHash.js, proxy.js   *)
(*                                                                         *)
(* Mailboxes and their connections are in MailStation: here a reachable    *)
(* server replies, or the sending fails.                                   *)
(***************************************************************************)
EXTENDS Integers, Sequences, FiniteSets, SequencesExt

CONSTANTS
  Server,     \* servers of the type
  Call,       \* rpcs that may be on their way together
  Field,      \* values of the hash field, or uids
  Point,      \* [Server -> SUBSET Nat]: digests of the replicas of a server
  Digest,     \* [Field -> Nat]: digest of a field, crc32 of a uid
  Options,    \* clients: routerType ("df" is the route function), failMode, servers and weights
  Traced,     \* rpcDebugLog: only then a failure process has the callback
  MaxWeight,  \* bound: weights of servers, 0 is none
  MaxReplaced, \* bound: replacements
  MaxKeys,    \* bound: keys of the ring
  MaxPicks    \* bound: choices of a router that counts

\* What is assumed of the constants: digests of servers do not collide.
RoutingAssumption ==
  /\ IsFiniteSet(Server)
  /\ \A s \in Server : Point[s] \subseteq Nat /\ IsFiniteSet(Point[s])
  /\ \A s, t \in Server : s # t => Point[s] \intersect Point[t] = {}
  /\ \A f \in Field : Digest[f] \in Nat
  /\ Traced \in BOOLEAN
  /\ \A o \in Options : o.failover \in BOOLEAN /\ o.servers \subseteq Server /\ o.weights \subseteq 0 .. MaxWeight
  /\ MaxWeight \in Nat \ {0} /\ MaxReplaced \in Nat /\ MaxPicks \in Nat

VARIABLES
  client,    \* state of the rpc client, and of its station
  opts,      \* its options
  proxies,   \* client.proxies has the type
  list,      \* app.serverTypeMaps[type]
  known,     \* station.servers
  onlines,   \* station.onlines that are 1
  weight,    \* weights in station.servers
  arrays,    \* station.serversMap[type], now and before each replacement
  now,       \* which of the arrays is the current one
  rrParam, wrrParam, laParam, ring,
  calls,     \* rpcs on their way
  picks,     \* choices so far
  turns      \* the latest choices of rr or wrr, and of what they were made

servers == <<proxies, list, known, onlines, weight, arrays, now>>
params == <<rrParam, wrrParam, laParam, ring, picks, turns>>
vars == <<client, opts, servers, params, calls>>

NoServer == "none"
Uncounted == -1
Idle == [at |-> {}, array |-> -1, tried |-> {}, all |-> FALSE]
NoRing == [made |-> FALSE, keys |-> {}, at |-> {}]
NoTurns == [list |-> <<>>, weight |-> [s \in Server |-> 0], chosen |-> <<>>]
current == arrays[now]

TypeOK ==
  /\ client \in {"inited", "started", "closed"} /\ opts \in Options
  /\ proxies \in BOOLEAN
  /\ \A l \in {list} \union {arrays[g] : g \in DOMAIN arrays} : l \in Seq(Server) /\ IsInjective(l)
  /\ known \subseteq Server /\ onlines \subseteq Server
  /\ weight \in [Server -> 0 .. MaxWeight]
  /\ now \in DOMAIN arrays
  /\ rrParam \in 0 .. MaxPicks
  /\ wrrParam.index \in -1 .. Cardinality(Server) - 1 /\ wrrParam.weight \in 0 .. MaxWeight
  /\ laParam.made \in BOOLEAN /\ laParam.count \in [Server -> Uncounted .. MaxPicks]
  /\ ring.made \in BOOLEAN /\ ring.at = {k[1] : k \in ring.keys}
  /\ \A c \in Call : calls[c].at \subseteq Server /\ calls[c].array \in -1 .. now
  /\ picks \in 0 .. MaxPicks

\* The constructor of the client.
NewClient == client = "inited" /\ opts \in Options /\ proxies = FALSE

Init ==
  /\ NewClient
  /\ list = <<>> /\ known = {} /\ onlines = {}
  /\ weight = [s \in Server |-> 0]
  /\ arrays = [g \in 0 .. MaxReplaced |-> <<>>] /\ now = 0
  /\ rrParam = 0
  /\ wrrParam = [index |-> -1, weight |-> 0]
  /\ laParam = [made |-> FALSE, count |-> [s \in Server |-> Uncounted]]
  /\ ring = NoRing
  /\ calls = [c \in Call |-> Idle]
  /\ picks = 0
  /\ turns = NoTurns

-----------------------------------------------------------------------------
(* The ring: keys has a digest once for each time its server was added, at *)
(* has it once.                                                            *)

\* The constructor adds servers that are each listed once.
Ring(nodes) ==
  LET points == UNION {Point[s] : s \in nodes}
  IN [made |-> TRUE, keys |-> points \X {1}, at |-> points]

AddNode(r, s) ==
  [r EXCEPT !.keys = @ \union {<<p, Cardinality({k \in @ : k[1] = p}) + 1>> : p \in Point[s]},
            !.at = @ \union Point[s]]

RemoveNode(r, s) ==
  [r EXCEPT !.keys = {k \in @ : k[1] \notin Point[s]}, !.at = @ \ Point[s]]

Sorted(k, m) == k[1] < m[1] \/ (k[1] = m[1] /\ k[2] <= m[2])

\* The binary search looks at as many of the sorted keys as at has digests.
Searched(r) ==
  LET rank(m) == Cardinality({k \in r.keys : Sorted(k, m)})
  IN {k[1] : k \in {m \in r.keys : rank(m) <= Cardinality(r.at)}}

GetNodePosition(r, digest) ==
  LET searched == Searched(r)
      smaller == {p \in searched : p <= digest}
      found == IF smaller = {} THEN searched ELSE smaller
  IN CHOOSE p \in found : \A q \in found : q <= p

GetNode(r, f) ==
  LET key == GetNodePosition(r, Digest[f])
  IN IF r.at = {} THEN NoServer ELSE CHOOSE s \in Server : key \in Point[s]

Heard(changed) == ring' = IF ring.made THEN changed ELSE ring

-----------------------------------------------------------------------------
(* The client                                                              *)

\* The station has started, and its errors come to the failure process.
StartClient ==
  /\ client = "inited" /\ client' = "started"
  /\ UNCHANGED <<opts, servers, params, calls>>

\* What is on its way stays so until the mailboxes are closed.
StopClient ==
  /\ client = "started" /\ client' = "closed"
  /\ UNCHANGED <<opts, servers, params, calls>>

-----------------------------------------------------------------------------
(* Servers come and go                                                     *)

Reachable(s) == s \in known /\ s \in onlines

\* A server that is listed already keeps its place.
ReplaceServer(l, s) == IF s \in ToSet(l) THEN l ELSE Append(l, s)

\* A server is listed once.
Drop(l, s) == IF s \in ToSet(l) THEN RemoveAt(l, CHOOSE k \in DOMAIN l : l[k] = s) ELSE l

Unchanged == UNCHANGED <<client, opts, picks, turns, rrParam, wrrParam, laParam>>

\* With a tracer a call stays with the array it failed over in first.
ArrayOf(c) == IF Traced /\ calls[c].array >= 0 THEN calls[c].array ELSE now

\* genProxies: the type has its proxies from its first server on.
GenProxies(had, l) == had \/ l # <<>>

\* addServer of the station.
AddServer(s, w) ==
  /\ known' = known \union {s} /\ onlines' = onlines \union {s}
  /\ weight' = [weight EXCEPT ![s] = w]
  /\ arrays' = [arrays EXCEPT ![now] = ReplaceServer(@, s)]

AddServers(s, w) ==
  /\ proxies' = GenProxies(proxies, <<s>>)
  /\ list' = ReplaceServer(list, s)
  /\ AddServer(s, w)
  /\ ring.made => Cardinality(ring.keys) + Cardinality(Point[s]) <= MaxKeys
  /\ Heard(AddNode(ring, s))
  /\ calls' = [c \in Call |->
       IF ArrayOf(c) = now THEN [calls[c] EXCEPT !.tried = @ \ {s}] ELSE calls[c]]
  /\ Unchanged /\ UNCHANGED now

\* removeServer of the station: the server stays in its maps.
RemoveServer(s) ==
  /\ onlines' = onlines \ {s}
  /\ UNCHANGED <<known, weight, arrays, now>>

RemoveServers(s) ==
  /\ list' = Drop(list, s)
  /\ RemoveServer(s)
  /\ Heard(RemoveNode(ring, s))
  /\ Unchanged /\ UNCHANGED <<proxies, calls>>

Forgotten(l) == {}
Online(l) == ToSet(l)

\* replaceServers of the proxy component: nothing is done if none is left.
StationReplaces(l, w) ==
  IF l = <<>> THEN UNCHANGED <<proxies, known, onlines, weight, arrays, now>>
  ELSE /\ proxies' = GenProxies(FALSE, l)
       /\ known' = known \union ToSet(l) /\ onlines' = Online(l)
       /\ weight' = [s \in Server |-> IF s \in ToSet(l) THEN w ELSE weight[s]]
       /\ arrays' = [arrays EXCEPT ![now + 1] = l]
       /\ now' = now + 1

\* Nothing is told to the ring.
ReplaceServers(l, w) ==
  /\ now < MaxReplaced
  /\ list' = l
  /\ StationReplaces(l, w)
  /\ Unchanged /\ UNCHANGED <<ring, calls>>

-----------------------------------------------------------------------------
(* The routers: Choose(s, P) that s is chosen, and what becomes of params  *)

\* Only the latest turns matter: of as many as a round of the router has.
Share(s) == IF opts.router = "wrr" THEN weight[s] ELSE 1
Round == Cardinality({p \in (DOMAIN current) \X (1 .. MaxWeight) : p[2] <= Share(current[p[1]])})
TakesTurn(s) ==
  LET same == turns.list = current /\ turns.weight = weight
      all == Append(IF same THEN turns.chosen ELSE <<>>, s)
  IN turns' = [list |-> current, weight |-> weight, chosen |-> IF Len(all) > Round THEN Tail(all) ELSE all]

RdRoute(s) == s \in ToSet(current) /\ UNCHANGED <<rrParam, wrrParam, laParam, ring, turns>>

RrNext == rrParam + 1

\* The parameter is written after the callback.
RrRoute(s) ==
  /\ current # <<>>
  /\ s = current[(rrParam % Len(current)) + 1]
  /\ rrParam' = RrNext
  /\ TakesTurn(s)
  /\ UNCHANGED <<wrrParam, laParam, ring>>

Heaviest ==
  LET weights == {weight[s] : s \in ToSet(current)} \ {0}
  IN IF weights = {} THEN -1 ELSE CHOOSE w \in weights : \A v \in weights : v <= w

\* The weight a round of the list begins with: it goes down by one, round after
\* round, and to none of the rounds above the greatest weight a server belongs.
NextWeight(w) == IF w - 1 <= 0 \/ w - 1 > Heaviest THEN Heaviest ELSE w - 1

\* The first server the loop gets to that is heavy enough, in this round or the next.
NextHeavy ==
  LET i == (wrrParam.index + 1) % Len(current)
      w == wrrParam.weight
      heavy(u, from) == {k \in from .. Len(current) - 1 : weight[current[k + 1]] >= u}
      first(u, from) == CHOOSE k \in heavy(u, from) : \A m \in heavy(u, from) : k <= m
      stays == i # 0 /\ heavy(w, i) # {}
      u == IF stays THEN w ELSE NextWeight(w)
  IN [index |-> IF u <= 0 THEN i ELSE first(u, IF stays THEN i ELSE 0), weight |-> u]

WrrRoute(s) ==
  /\ current # <<>>
  /\ LET next == NextHeavy
     IN /\ next.weight > 0
        /\ s = current[next.index + 1]
        /\ wrrParam' = next
  /\ TakesTurn(s)
  /\ UNCHANGED <<rrParam, laParam, ring>>

\* Servers that came after the first call are never counted.
LaCounts == IF laParam.made THEN laParam.count
          ELSE [s \in Server |-> IF s \in ToSet(current) THEN 0 ELSE Uncounted]
Active(s) == IF LaCounts[s] = Uncounted THEN 0 ELSE LaCounts[s]

LaRoute(s) ==
  /\ s \in ToSet(current)
  /\ \A t \in ToSet(current) : Active(s) <= Active(t)
  /\ laParam' = [made |-> TRUE, count |-> [LaCounts EXCEPT ![s] = IF @ = Uncounted THEN @ ELSE @ + 1]]
  /\ UNCHANGED <<rrParam, wrrParam, ring, turns>>

\* The first call builds the ring, which then hears of the station.
ChRoute(s) ==
  LET r == IF ring.made THEN ring ELSE Ring(ToSet(current))
  IN /\ current # <<>>
     /\ \E f \in Field : s = GetNode(r, f)
     /\ ring' = r
     /\ UNCHANGED <<rrParam, wrrParam, laParam, turns>>

\* The default route function of the proxy component goes by the application.
DefRoute(s) ==
  /\ list # <<>>
  /\ \E f \in Field : s = list[(Digest[f] % Len(list)) + 1]
  /\ UNCHANGED <<rrParam, wrrParam, laParam, ring, turns>>

GetRouteTarget(s) ==
  /\ picks < MaxPicks
  /\ picks' = IF opts.router \in {"rr", "wrr", "la"} THEN picks + 1 ELSE picks
  /\ \/ opts.router = "rd" /\ RdRoute(s)
     \/ opts.router = "rr" /\ RrRoute(s)
     \/ opts.router = "wrr" /\ WrrRoute(s)
     \/ opts.router = "la" /\ LaRoute(s)
     \/ opts.router = "ch" /\ ChRoute(s)
     \/ opts.router = "df" /\ DefRoute(s)

-----------------------------------------------------------------------------
(* Calls                                                                   *)

\* The servers failover tries next: those it cannot reach are dropped too, and
\* a station that has stopped reaches none.
Rest(a, s) ==
  LET left == Drop(a, s)
      reachable == {k \in DOMAIN left : client = "started" /\ Reachable(left[k])}
  IN IF reachable = {} THEN <<>>
     ELSE SubSeq(left, CHOOSE k \in reachable : \A m \in reachable : k <= m, Len(left))

\* failover takes the server out of the array itself, for everyone.
FailsOver(c, s, tried) ==
  LET g == ArrayOf(c)
      rest == Rest(arrays[g], s)
  IN /\ arrays' = [arrays EXCEPT ![g] = rest]
     /\ calls' = [calls EXCEPT ![c] =
          IF rest = <<>> THEN Idle
          ELSE [at |-> {Head(rest)}, array |-> g, tried |-> tried \union {s}, all |-> FALSE]]

\* failfast answers with an error, if it has the callback: what becomes of such
\* a call changes nothing here, and it is not followed.
RpcInvoke(c, s) ==
  IF ~opts.failover THEN UNCHANGED <<arrays, calls>>
  ELSE IF s \in Server /\ Reachable(s)
  THEN UNCHANGED arrays /\ calls' = [calls EXCEPT ![c] = [Idle EXCEPT !.at = {s}]]
  ELSE FailsOver(c, s, {})

\* A function of the proxy is called.
Proxied(c) == client = "started" /\ proxies /\ calls[c] = Idle

UnchangedServers == UNCHANGED <<client, opts, proxies, list, known, onlines, weight, now>>

\* A router that finds no server answers with an error.
ProxyCall(c) ==
  /\ Proxied(c)
  /\ \E s \in Server \union {NoServer} : GetRouteTarget(s) /\ RpcInvoke(c, s)
  /\ UnchangedServers

\* rr: the call fails at once, and its callback calls again before rrParam is written.
NestedCall(c) ==
  /\ Proxied(c)
  /\ Traced /\ ~opts.failover /\ opts.router = "rr" /\ current # <<>>
  /\ LET s == current[(rrParam % Len(current)) + 1]
     IN ~Reachable(s) /\ RpcInvoke(c, s)
  /\ picks < MaxPicks /\ picks' = picks + 1
  /\ rrParam' = rrParam + 1 /\ turns' = NoTurns
  /\ UnchangedServers /\ UNCHANGED <<wrrParam, laParam, ring>>

ToServer(c, s) ==
  /\ Proxied(c)
  /\ RpcInvoke(c, s)
  /\ UnchangedServers /\ UNCHANGED params

\* toServer('*') goes to the servers the application lists.
ToAll(c) ==
  /\ Proxied(c) /\ list # <<>> /\ opts.failover
  /\ calls' = [calls EXCEPT ![c] = [at |-> ToSet(list), array |-> -1, tried |-> {}, all |-> TRUE]]
  /\ UnchangedServers /\ UNCHANGED <<arrays, params>>

\* async.each is done when all have answered.
Reply(c, s) ==
  /\ s \in calls[c].at
  /\ LET left == calls[c].at \ {s}
     IN calls' = [calls EXCEPT ![c] = IF left = {} THEN Idle ELSE [calls[c] EXCEPT !.at = left]]
  /\ UnchangedServers /\ UNCHANGED <<arrays, params>>

SendFails(c, s) ==
  /\ s \in calls[c].at /\ ~calls[c].all
  /\ FailsOver(c, s, calls[c].tried)
  /\ UnchangedServers /\ UNCHANGED params

\* The lists of some of the servers.
Lists(S) == UNION {{l \in [1 .. n -> S] : IsInjective(l)} : n \in 0 .. Cardinality(S)}

\* Only one router looks at weights.
Weights == IF opts.router = "wrr" THEN opts.weights ELSE {0}

Next ==
  \/ StartClient \/ StopClient
  \/ \E s \in opts.servers, w \in Weights : AddServers(s, w)
  \/ \E s \in opts.servers : RemoveServers(s)
  \/ \E l \in Lists(opts.servers), w \in Weights : ReplaceServers(l, w)
  \/ \E c \in Call : ProxyCall(c) \/ NestedCall(c) \/ ToAll(c)
  \/ \E c \in Call, s \in Server : ToServer(c, s) \/ Reply(c, s) \/ SendFails(c, s)

Spec == Init /\ [][Next]_vars

-----------------------------------------------------------------------------
(* Properties *)

\* What the application lists, and the default router goes by, the rpc client
\* can reach, whatever was added, removed and replaced before.
ListedReachable == \A s \in ToSet(list) : Reachable(s)

\* Without failover the routers that go by the array of the station have all of
\* these servers to choose from. (They may choose others: a server that was
\* removed stays in the array.)
ListedOffered == opts.failover \/ ToSet(list) \subseteq ToSet(current)

\* In a round of turns every server had as many as its weight says, or one,
\* wherever the router was when the servers last changed.
EveryTurn ==
  Len(turns.chosen) = Round /\ turns.list = current /\ turns.weight = weight =>
    \A s \in ToSet(current) : Cardinality({k \in 1 .. Round : turns.chosen[k] = s}) = Share(s)

\* A change of the ring moves a field only from the server that left, or to
\* the one that came; as long as no server is in it twice.
Twice(r) == Cardinality(r.keys) # Cardinality(r.at)
Moves(old, new) ==
  \/ old = new \/ old = NoServer \/ new = NoServer
  \/ ~(Point[old] \subseteq ring.at') \/ ~(Point[new] \subseteq ring.at)
RingMoves ==
  [][ring.made /\ ring' # ring /\ ~Twice(ring) /\ ~Twice(ring)' =>
       \A f \in Field : Moves(GetNode(ring, f), GetNode(ring, f)')]_vars

\* A traced call that failed over never comes back to a server that failed it,
\* though others change the array it goes by.
NoReturn == Traced => \A c \in Call : calls[c].at \intersect calls[c].tried = {}

=============================================================================
