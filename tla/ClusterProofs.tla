---------------------------- MODULE ClusterProofs ----------------------------
(***************************************************************************)
(* What is proved of the processes of a cluster, for any connections,      *)
(* servers, commands, agents, sockets, pages and bounds: the maps of the   *)
(* master's agent agree with its connections, and commands and requests    *)
(* are answered once; an agent of the load robot has one socket and runs a *)
(* command at most once, pages show the agents that the master lists, and  *)
(* a request is measured once; a client of the console gets whole profiles *)
(* and a module has one job; a process opens its components when all have  *)
(* started, and a stopped one starts none.                                 *)
(***************************************************************************)
EXTENDS Cluster, FiniteSetTheorems, SequenceTheorems, TLAPS

-----------------------------------------------------------------------------
(* Lists without repetition.                                               *)

Elements(list) == {list[k] : k \in 1 .. Len(list)}
Distinct(list) == \A a, b \in 1 .. Len(list) : list[a] = list[b] => a = b

LEMMA DistinctEmpty == Distinct(<<>>) /\ Elements(<<>>) = {}
BY DEF Distinct, Elements

LEMMA ElementsIn ==
  ASSUME NEW S, NEW list \in Seq(S)
  PROVE  Elements(list) \subseteq S
BY DEF Elements

LEMMA DistinctAppend ==
  ASSUME NEW S, NEW list \in Seq(S), NEW c \in S, Distinct(list), c \notin Elements(list)
  PROVE  /\ Append(list, c) \in Seq(S) /\ Distinct(Append(list, c))
         /\ Elements(Append(list, c)) = Elements(list) \union {c}
<1> DEFINE n == Len(list)
           more == Append(list, c)
<1>1. /\ n \in Nat /\ more \in Seq(S) /\ Len(more) = n + 1 /\ more[n + 1] = c
      /\ \A k \in 1 .. n : more[k] = list[k]
  OBVIOUS
<1>2. \A k \in 1 .. n : list[k] # c
  BY DEF Elements
<1>3. \A a, b \in 1 .. n : list[a] = list[b] => a = b
  BY DEF Distinct
<1>4. \A k \in 1 .. n + 1 : k \in 1 .. n \/ k = n + 1
  BY <1>1
<1> HIDE DEF more, n
<1>5. \A a, b \in 1 .. n + 1 : more[a] = more[b] => a = b
  BY <1>1, <1>2, <1>3, <1>4, Zenon
<1>6. /\ \A k \in 1 .. n + 1 : more[k] = c \/ \E j \in 1 .. n : more[k] = list[j]
      /\ \A k \in 1 .. n : k \in 1 .. n + 1 /\ list[k] = more[k]
      /\ n + 1 \in 1 .. n + 1 /\ c = more[n + 1]
  BY <1>1, <1>4
<1>7. {more[k] : k \in 1 .. n + 1} = {list[k] : k \in 1 .. n} \union {c}
  BY <1>6
<1>8. n = Len(list) /\ more = Append(list, c) /\ Len(Append(list, c)) = n + 1
  BY <1>1 DEF n, more
<1> QED
  BY <1>1, <1>5, <1>7, <1>8 DEF Distinct, Elements

\* A list from which one place is taken.
LEMMA DistinctWithout ==
  ASSUME NEW S, NEW list \in Seq(S), NEW m \in 1 .. Len(list)
  PROVE  LET rest == SubSeq(list, 1, m - 1) \o SubSeq(list, m + 1, Len(list))
         IN /\ rest \in Seq(S) /\ Len(rest) = Len(list) - 1
            /\ \A k \in 1 .. Len(list) - 1 : rest[k] = IF k < m THEN list[k] ELSE list[k + 1]
<1> DEFINE n == Len(list)
           s1 == SubSeq(list, 1, m - 1)
           s2 == SubSeq(list, m + 1, n)
<1>1. n \in Nat /\ m \in 1 .. n /\ \A k \in 1 .. n : list[k] \in S
  OBVIOUS
<1>2. /\ s1 \in Seq(S) /\ Len(s1) = m - 1
      /\ \A k \in 1 .. m - 1 : s1[k] = list[k]
  <2>1. 1 \in Int /\ m - 1 \in Int /\ \A k \in 1 .. m - 1 : list[k] \in S
    BY <1>1
  <2>2. /\ SubSeq(list, 1, m - 1) \in Seq(S)
        /\ Len(SubSeq(list, 1, m - 1)) = IF 1 <= m - 1 THEN m - 1 - 1 + 1 ELSE 0
        /\ \A k \in 1 .. m - 1 - 1 + 1 : SubSeq(list, 1, m - 1)[k] = list[1 + k - 1]
    BY <2>1, SubSeqProperties
  <2>3. \A k \in 1 .. m - 1 : k \in 1 .. m - 1 - 1 + 1 /\ 1 + k - 1 = k
    BY <1>1
  <2> QED
    BY <1>1, <2>2, <2>3
<1>3. /\ s2 \in Seq(S) /\ Len(s2) = n - m
      /\ \A k \in 1 .. n - m : s2[k] = list[m + k]
  <2>1. m + 1 \in Int /\ n \in Int /\ \A k \in m + 1 .. n : list[k] \in S
    BY <1>1
  <2>2. /\ SubSeq(list, m + 1, n) \in Seq(S)
        /\ Len(SubSeq(list, m + 1, n)) = IF m + 1 <= n THEN n - (m + 1) + 1 ELSE 0
        /\ \A k \in 1 .. n - (m + 1) + 1 : SubSeq(list, m + 1, n)[k] = list[(m + 1) + k - 1]
    BY <2>1, SubSeqProperties
  <2>3. \A k \in 1 .. n - m : k \in 1 .. n - (m + 1) + 1 /\ (m + 1) + k - 1 = m + k
    BY <1>1
  <2> QED
    BY <1>1, <2>2, <2>3
<1> HIDE DEF s1, s2, n
<1>4. /\ s1 \o s2 \in Seq(S) /\ Len(s1 \o s2) = Len(s1) + Len(s2)
      /\ \A k \in 1 .. Len(s1) + Len(s2) : (s1 \o s2)[k] = IF k <= Len(s1) THEN s1[k] ELSE s2[k - Len(s1)]
  BY <1>2, <1>3, ConcatProperties
<1>5. Len(s1) + Len(s2) = n - 1
  BY <1>1, <1>2, <1>3
<1>6. ASSUME NEW k \in 1 .. n - 1
      PROVE  (s1 \o s2)[k] = IF k < m THEN list[k] ELSE list[k + 1]
  <2>1. CASE k < m
    BY <1>1, <1>2, <1>4, <1>5, <2>1
  <2>2. CASE ~(k < m)
    <3>1. ~(k <= Len(s1)) /\ k - Len(s1) \in 1 .. n - m /\ m + (k - Len(s1)) = k + 1
      BY <1>1, <1>2, <2>2
    <3> QED
      BY <1>3, <1>4, <1>5, <2>2, <3>1
  <2> QED
    BY <2>1, <2>2
<1> QED
  BY <1>4, <1>5, <1>6 DEF s1, s2, n

\* One place taken from a list without repetition: the others stay.
LEMMA DistinctRest ==
  ASSUME NEW S, NEW list \in Seq(S), NEW m \in 1 .. Len(list), NEW rest \in Seq(S),
         Distinct(list), Len(rest) = Len(list) - 1,
         \A k \in 1 .. Len(list) - 1 : rest[k] = IF k < m THEN list[k] ELSE list[k + 1]
  PROVE  Distinct(rest) /\ Elements(rest) = Elements(list) \ {list[m]}
<1> DEFINE n == Len(list)
           place(k) == IF k < m THEN k ELSE k + 1
<1>1. n \in Nat /\ m \in 1 .. n /\ Len(rest) = n - 1
  OBVIOUS
<1>2. \A a, b \in 1 .. n : list[a] = list[b] => a = b
  BY DEF Distinct
<1>3. \A k \in 1 .. n - 1 : place(k) \in 1 .. n /\ place(k) # m /\ rest[k] = list[place(k)]
  BY <1>1
<1>4. \A a, b \in 1 .. n - 1 : place(a) = place(b) => a = b
  BY <1>1
<1>5. \A k \in 1 .. n : k # m => \E j \in 1 .. n - 1 : place(j) = k
  <2> SUFFICES ASSUME NEW k \in 1 .. n, k # m PROVE \E j \in 1 .. n - 1 : place(j) = k
    OBVIOUS
  <2>1. CASE k < m
    <3>1. k \in 1 .. n - 1 /\ place(k) = k
      BY <1>1, <2>1
    <3> QED
      BY <3>1
  <2>2. CASE k > m
    <3>1. k - 1 \in 1 .. n - 1 /\ place(k - 1) = k
      BY <1>1, <2>2
    <3> QED
      BY <3>1
  <2> QED
    BY <1>1, <2>1, <2>2
<1> HIDE DEF place, n
<1>6. \A a, b \in 1 .. n - 1 : rest[a] = rest[b] => a = b
  BY <1>2, <1>3, <1>4, Zenon
<1>7. \A k \in 1 .. n - 1 : rest[k] \in {list[j] : j \in 1 .. n} \ {list[m]}
  BY <1>1, <1>2, <1>3
<1>8. \A k \in 1 .. n : list[k] # list[m] => \E j \in 1 .. n - 1 : list[k] = rest[j]
  BY <1>3, <1>5
<1>9. {rest[k] : k \in 1 .. n - 1} = {list[k] : k \in 1 .. n} \ {list[m]}
  BY <1>7, <1>8
<1>10. n = Len(list)
  BY DEF n
<1> QED
  BY <1>1, <1>6, <1>9, <1>10 DEF Distinct, Elements

-----------------------------------------------------------------------------
(* The records of the master's agent: masterAgent.js.                      *)

\* A record is a live connection of its id; the list of a type is its records; slaves
\* are of their id and were registered; a live connection that is alone at its address
\* is a record or a slave; and a message went once to each it was for.
RecordsLive ==
  \A i \in Id : idMap[i] # NoConn => status[idMap[i]] = "registered" /\ IdOf[idMap[i]] = i
ListsRecords ==
  \A t \in Type :
    /\ Distinct(typeMap[t])
    /\ Elements(typeMap[t]) = {idMap[i] : i \in {j \in Id : TypeOf[j] = t}} \ {NoConn}
SlavesOfId ==
  \A i \in Id :
    /\ Distinct(slaveMap[i])
    /\ \A c \in Elements(slaveMap[i]) : IdOf[c] = i /\ status[c] \in {"registered", "closed"}
Alone(c) == \A d \in Conn \ {c} : IdOf[d] = IdOf[c] => AddressOf[d] # AddressOf[c]
AloneListed ==
  \A c \in Conn : status[c] = "registered" /\ Alone(c)
                    => idMap[IdOf[c]] = c \/ c \in Elements(slaveMap[IdOf[c]])
SentToLive ==
  \A c \in Conn : /\ sent[c] <= 1
                  /\ sent[c] = 1 => status[c] = "registered" \/ c \in Elements(slaveMap[IdOf[c]])

RegistryInv ==
  /\ Registry!TypeOK
  /\ RecordsLive /\ ListsRecords /\ SlavesOfId /\ AloneListed /\ SentToLive

\* The operators of the instances are those of the modules they extend.
LEMMA RegistrySame ==
  /\ \A S : Registry!IsFiniteSet(S) <=> IsFiniteSet(S)
  /\ \A S : Registry!Cardinality(S) = Cardinality(S)
<1>1. \A S : Registry!IsFiniteSet(S) <=> IsFiniteSet(S)
  BY DEF Registry!IsFiniteSet, IsFiniteSet
<1>2. \A S : Registry!Cardinality(S) = Cardinality(S)
  BY Zenon DEF Registry!Cardinality, Cardinality
<1> QED
  BY <1>1, <1>2

LEMMA RegistryConstants ==
  /\ IdOf \in [Conn -> Id] /\ TypeOf \in [Id -> Type] /\ NoConn \notin Conn /\ IsFiniteSet(Id)
BY RegistryAssumption, RegistrySame DEF Registry!RegistryAssumption

LEMMA ListOperators ==
  ASSUME NEW S, NEW list \in Seq(S)
  PROVE  /\ Registry!Range(list) = Elements(list)
         /\ Registry!IsInjective(list) <=> Distinct(list)
BY DEF Registry!Range, Registry!IsInjective, Elements, Distinct

LEMMA LeastNumber ==
  ASSUME NEW S \in SUBSET Nat, S # {}
  PROVE  \E n \in S : \A k \in S : n <= k
<1> DEFINE R == OpToRel(<, Nat)
<1>1. IsWellFoundedOn(R, Nat)
  BY NatLessThanWellFounded
<1>2. \A k, n \in Nat : k < n => <<k, n>> \in R
  BY DEF OpToRel
<1> HIDE DEF R
<1>3. PICK n \in S : \A k \in S : ~ (<<k, n>> \in R)
  BY <1>1, WFMin
<1>4. \A k \in S : ~ (k < n)
  BY <1>2, <1>3
<1>5. \A k \in S : n <= k
  BY <1>4
<1> QED
  BY <1>5

\* Of a list without repetition, one element of a set at most is taken.
LEMMA WithoutFirstTakes ==
  ASSUME NEW list \in Seq(Conn), NEW set, Distinct(list)
  PROVE  LET rest == Registry!WithoutFirst(list, set)
         IN /\ rest \in Seq(Conn) /\ Distinct(rest)
            /\ \/ \E c \in Elements(list) \intersect set : Elements(rest) = Elements(list) \ {c}
               \/ rest = list /\ Elements(list) \intersect set = {}
<1> DEFINE found == {k \in DOMAIN list : list[k] \in set}
<1>1. CASE found = {}
  <2>1. Registry!WithoutFirst(list, set) = list
    BY <1>1 DEF Registry!WithoutFirst
  <2>2. Elements(list) \intersect set = {}
    BY <1>1 DEF Elements
  <2> QED
    BY <2>1, <2>2
<1>2. CASE found # {}
  <2> DEFINE m == Registry!Min(found)
             rest == SubSeq(list, 1, m - 1) \o SubSeq(list, m + 1, Len(list))
  <2>1. found \in SUBSET Nat
    OBVIOUS
  <2>2. \E n \in found : \A k \in found : n <= k
    BY <1>2, <2>1, LeastNumber
  <2>3. m \in found
    BY <2>2 DEF Registry!Min
  <2>4. Registry!WithoutFirst(list, set) = rest
    BY <1>2 DEF Registry!WithoutFirst, Registry!RemoveAt
  <2> HIDE DEF m
  <2>5. m \in 1 .. Len(list) /\ list[m] \in set /\ list[m] \in Elements(list)
    BY <2>3 DEF Elements
  <2> HIDE DEF found
  <2>6. /\ rest \in Seq(Conn) /\ Len(rest) = Len(list) - 1
        /\ \A k \in 1 .. Len(list) - 1 : rest[k] = IF k < m THEN list[k] ELSE list[k + 1]
    BY <2>5, DistinctWithout
  <2> HIDE DEF rest
  <2>7. Distinct(rest) /\ Elements(rest) = Elements(list) \ {list[m]}
    BY <2>5, <2>6, DistinctRest
  <2> QED
    BY <2>4, <2>5, <2>6, <2>7
<1> QED
  BY <1>1, <1>2

LEMMA RegistryTypes ==
  ASSUME Registry!TypeOK
  PROVE  /\ status \in [Conn -> {"none", "open", "registered", "closed"}]
         /\ idMap \in [Id -> Conn \union {NoConn}]
         /\ slaveMap \in [Id -> Seq(Conn)] /\ typeMap \in [Type -> Seq(Conn)]
         /\ sent \in [Conn -> Nat] /\ waiting \in BOOLEAN /\ threw \in BOOLEAN
BY DEF Registry!TypeOK

\* What a message goes to once: the elements of a list without repetition.
LEMMA TimesCount ==
  ASSUME NEW list \in Seq(Conn), Distinct(list)
  PROVE  /\ Registry!Times(list) \in [Conn -> Nat]
         /\ \A c \in Conn : /\ Registry!Times(list)[c] <= 1
                            /\ Registry!Times(list)[c] = 1 => c \in Elements(list)
<1> SUFFICES ASSUME NEW c \in Conn
             PROVE  /\ Registry!Times(list)[c] \in Nat /\ Registry!Times(list)[c] <= 1
                    /\ Registry!Times(list)[c] = 1 => c \in Elements(list)
  BY DEF Registry!Times
<1> DEFINE places == {k \in DOMAIN list : list[k] = c}
<1>1. Registry!Times(list)[c] = Cardinality(places)
  BY RegistrySame DEF Registry!Times
<1>2. \A a, b \in places : a = b
  BY DEF Distinct
<1>3. places # {} => c \in Elements(list)
  BY DEF Elements
<1> HIDE DEF places
<1>4. CASE places = {}
  BY <1>1, <1>4, FS_EmptySet
<1>5. CASE places # {}
  <2>1. PICK k \in places : places = {k}
    BY <1>2, <1>5
  <2>2. Cardinality(places) = 1
    BY <2>1, FS_Singleton
  <2> QED
    BY <1>1, <1>3, <1>5, <2>2
<1> QED
  BY <1>4, <1>5

LEMMA RegistryQuiet ==
  /\ Registry!Nothing \in [Conn -> Nat]
  /\ \A c \in Conn : Registry!Nothing[c] = 0
BY DEF Registry!Nothing

LEMMA RegistryInit == Registry!Init => RegistryInv
<1> SUFFICES ASSUME Registry!Init PROVE RegistryInv
  OBVIOUS
<1>1. /\ status = [c \in Conn |-> "none"] /\ idMap = [i \in Id |-> NoConn]
      /\ slaveMap = [i \in Id |-> <<>>] /\ typeMap = [t \in Type |-> <<>>]
      /\ sent = Registry!Nothing /\ waiting = FALSE /\ threw = FALSE
  BY DEF Registry!Init
<1>2. <<>> \in Seq(Conn)
  OBVIOUS
<1>3. Registry!TypeOK
  BY <1>1, <1>2, RegistryQuiet DEF Registry!TypeOK
<1>4. RecordsLive /\ SentToLive /\ AloneListed
  BY <1>1, RegistryQuiet DEF RecordsLive, SentToLive, AloneListed
<1>5. ListsRecords
  BY <1>1, DistinctEmpty DEF ListsRecords
<1>6. SlavesOfId
  BY <1>1, DistinctEmpty DEF SlavesOfId
<1> QED
  BY <1>3, <1>4, <1>5, <1>6 DEF RegistryInv

\* A notification.
LEMMA RegistrySends ==
  ASSUME RegistryInv, UNCHANGED <<status, idMap, slaveMap, typeMap>>,
         sent' \in [Conn -> Nat], waiting' \in BOOLEAN, threw' \in BOOLEAN,
         \A c \in Conn :
           /\ sent'[c] <= 1
           /\ sent'[c] = 1 => status[c] = "registered" \/ c \in Elements(slaveMap[IdOf[c]])
  PROVE  RegistryInv'
<1>1. Registry!TypeOK'
  BY DEF RegistryInv, Registry!TypeOK
<1>2. SentToLive'
  BY DEF SentToLive
<1>3. RecordsLive' /\ ListsRecords' /\ SlavesOfId' /\ AloneListed'
  BY DEF RegistryInv, RecordsLive, ListsRecords, SlavesOfId, AloneListed
<1> QED
  BY <1>1, <1>2, <1>3 DEF RegistryInv

\* A server process registers: as the record of its id, or as a slave of it.
LEMMA RegistryAddsConnection ==
  ASSUME RegistryInv, NEW c \in Conn, status[c] = "open",
         status' = [status EXCEPT ![c] = "registered"], Registry!AddConnection(c),
         sent' = Registry!Nothing, UNCHANGED <<waiting, threw>>
  PROVE  RegistryInv'
<1> DEFINE i == IdOf[c]
<1>1. /\ status \in [Conn -> {"none", "open", "registered", "closed"}]
      /\ idMap \in [Id -> Conn \union {NoConn}]
      /\ slaveMap \in [Id -> Seq(Conn)] /\ typeMap \in [Type -> Seq(Conn)]
      /\ waiting \in BOOLEAN /\ threw \in BOOLEAN
      /\ i \in Id /\ TypeOf[i] \in Type /\ NoConn # c
  BY RegistryTypes, RegistryConstants DEF RegistryInv
<1>2. RecordsLive /\ ListsRecords /\ SlavesOfId /\ AloneListed
  BY DEF RegistryInv
<1>3. /\ status'[c] = "registered" /\ status' \in [Conn -> {"none", "open", "registered", "closed"}]
      /\ \A d \in Conn : d # c => status'[d] = status[d]
  BY <1>1
<1>4. SentToLive' /\ sent' \in [Conn -> Nat]
  BY RegistryQuiet DEF SentToLive
<1>5. \A j \in Id : idMap[j] # c
  BY <1>1, <1>2 DEF RecordsLive
<1>6. \A t \in Type : c \notin Elements(typeMap[t])
  BY <1>2, <1>5, <1>1 DEF ListsRecords
<1>7. \A j \in Id : c \notin Elements(slaveMap[j])
  BY <1>2 DEF SlavesOfId
<1> HIDE DEF i
<1>8. CASE idMap[i] = NoConn
  <2>1. /\ idMap' = [idMap EXCEPT ![i] = c] /\ slaveMap' = slaveMap
        /\ typeMap' = [typeMap EXCEPT ![TypeOf[i]] = Append(@, c)]
    BY <1>8 DEF Registry!AddConnection, i
  <2>2. /\ idMap'[i] = c /\ \A j \in Id : j # i => idMap'[j] = idMap[j]
        /\ idMap' \in [Id -> Conn \union {NoConn}]
    BY <1>1, <2>1
  <2>3. /\ Append(typeMap[TypeOf[i]], c) \in Seq(Conn)
        /\ Distinct(Append(typeMap[TypeOf[i]], c))
        /\ Elements(Append(typeMap[TypeOf[i]], c)) = Elements(typeMap[TypeOf[i]]) \union {c}
    <3>1. Distinct(typeMap[TypeOf[i]]) /\ typeMap[TypeOf[i]] \in Seq(Conn)
      BY <1>1, <1>2 DEF ListsRecords
    <3> QED
      BY <1>1, <1>6, <3>1, DistinctAppend
  <2>4. /\ typeMap' \in [Type -> Seq(Conn)]
        /\ typeMap'[TypeOf[i]] = Append(typeMap[TypeOf[i]], c)
        /\ \A t \in Type : t # TypeOf[i] => typeMap'[t] = typeMap[t]
    BY <1>1, <2>1, <2>3
  <2>5. Registry!TypeOK'
    BY <1>1, <1>3, <1>4, <2>1, <2>2, <2>4 DEF Registry!TypeOK
  <2>6. RecordsLive'
    BY <1>1, <1>2, <1>3, <2>2 DEF RecordsLive, i
  <2>7. ListsRecords'
    <3> SUFFICES ASSUME NEW t \in Type
                 PROVE  /\ Distinct(typeMap'[t])
                        /\ Elements(typeMap'[t]) = {idMap'[j] : j \in {n \in Id : TypeOf[n] = t}} \ {NoConn}
      BY DEF ListsRecords
    <3>1. /\ Distinct(typeMap[t])
          /\ Elements(typeMap[t]) = {idMap[j] : j \in {n \in Id : TypeOf[n] = t}} \ {NoConn}
      BY <1>2 DEF ListsRecords
    <3>2. CASE t = TypeOf[i]
      <4>1. {idMap'[j] : j \in {n \in Id : TypeOf[n] = t}} \ {NoConn}
              = ({idMap[j] : j \in {n \in Id : TypeOf[n] = t}} \ {NoConn}) \union {c}
        BY <1>1, <1>8, <2>2, <3>2
      <4> QED
        BY <2>3, <2>4, <3>1, <3>2, <4>1
    <3>3. CASE t # TypeOf[i]
      <4> DEFINE J == {n \in Id : TypeOf[n] = t}
      <4>1. \A j \in J : idMap'[j] = idMap[j]
        BY <2>2, <3>3
      <4>2. typeMap'[t] = typeMap[t]
        BY <2>4, <3>3
      <4>3. Elements(typeMap[t]) = {idMap[j] : j \in J} \ {NoConn}
        BY <3>1
      <4> HIDE DEF J
      <4>4. {idMap'[j] : j \in J} = {idMap[j] : j \in J}
        BY <4>1
      <4>5. Elements(typeMap'[t]) = {idMap'[j] : j \in J} \ {NoConn}
        BY <4>2, <4>3, <4>4
      <4> QED
        BY <3>1, <4>2, <4>5 DEF J
    <3> QED
      BY <3>2, <3>3
  <2>8. SlavesOfId'
    <3> SUFFICES ASSUME NEW j \in Id
                 PROVE  /\ Distinct(slaveMap[j])
                        /\ \A d \in Elements(slaveMap[j]) : IdOf[d] = j /\ status'[d] \in {"registered", "closed"}
      BY <2>1 DEF SlavesOfId
    <3>1. /\ Distinct(slaveMap[j])
          /\ \A d \in Elements(slaveMap[j]) : IdOf[d] = j /\ status[d] \in {"registered", "closed"}
      BY <1>2 DEF SlavesOfId
    <3>2. Elements(slaveMap[j]) \subseteq Conn
      BY <1>1 DEF Elements
    <3> QED
      BY <1>3, <3>1, <3>2
  <2>9. AloneListed'
    BY <1>1, <1>2, <1>3, <1>8, <2>1, <2>2, RegistryConstants DEF AloneListed, Alone, i
  <2> QED
    BY <1>4, <2>5, <2>6, <2>7, <2>8, <2>9 DEF RegistryInv
<1>9. CASE idMap[i] # NoConn
  <2>1. idMap' = idMap /\ typeMap' = typeMap /\ slaveMap' = [slaveMap EXCEPT ![i] = Append(@, c)]
    BY <1>9 DEF Registry!AddConnection, i
  <2>2. /\ Append(slaveMap[i], c) \in Seq(Conn) /\ Distinct(Append(slaveMap[i], c))
        /\ Elements(Append(slaveMap[i], c)) = Elements(slaveMap[i]) \union {c}
    <3>1. Distinct(slaveMap[i]) /\ slaveMap[i] \in Seq(Conn)
      BY <1>1, <1>2 DEF SlavesOfId
    <3> QED
      BY <1>1, <1>7, <3>1, DistinctAppend
  <2>3. /\ slaveMap' \in [Id -> Seq(Conn)] /\ slaveMap'[i] = Append(slaveMap[i], c)
        /\ \A j \in Id : j # i => slaveMap'[j] = slaveMap[j]
    BY <1>1, <2>1, <2>2
  <2>4. Registry!TypeOK'
    BY <1>1, <1>3, <1>4, <2>1, <2>3 DEF Registry!TypeOK
  <2>5. RecordsLive'
    BY <1>1, <1>2, <1>3, <2>1 DEF RecordsLive
  <2>6. ListsRecords'
    BY <1>2, <2>1 DEF ListsRecords
  <2>7. SlavesOfId'
    <3> SUFFICES ASSUME NEW j \in Id
                 PROVE  /\ Distinct(slaveMap'[j])
                        /\ \A d \in Elements(slaveMap'[j]) : IdOf[d] = j /\ status'[d] \in {"registered", "closed"}
      BY DEF SlavesOfId
    <3>1. /\ Distinct(slaveMap[j])
          /\ \A d \in Elements(slaveMap[j]) : IdOf[d] = j /\ status[d] \in {"registered", "closed"}
      BY <1>2 DEF SlavesOfId
    <3>2. Elements(slaveMap[j]) \subseteq Conn
      BY <1>1 DEF Elements
    <3>3. CASE j = i
      BY <1>3, <2>2, <2>3, <3>1, <3>2, <3>3 DEF i
    <3>4. CASE j # i
      BY <1>3, <2>3, <3>1, <3>2, <3>4
    <3> QED
      BY <3>3, <3>4
  <2>8. AloneListed'
    <3> SUFFICES ASSUME NEW d \in Conn, status'[d] = "registered", Alone(d)
                 PROVE  idMap[IdOf[d]] = d \/ d \in Elements(slaveMap'[IdOf[d]])
      BY <2>1 DEF AloneListed, Alone
    <3>1. CASE d = c
      BY <2>2, <2>3, <3>1 DEF i
    <3>2. CASE d # c
      <4>1. idMap[IdOf[d]] = d \/ d \in Elements(slaveMap[IdOf[d]])
        BY <1>2, <1>3, <3>2 DEF AloneListed
      <4>2. IdOf[d] \in Id
        BY RegistryConstants
      <4> QED
        BY <2>2, <2>3, <4>1, <4>2
    <3> QED
      BY <3>1, <3>2
  <2> QED
    BY <1>4, <2>4, <2>5, <2>6, <2>7, <2>8 DEF RegistryInv
<1> QED
  BY <1>8, <1>9

\* A connection closes: a record or a slave at its address is taken out.
LEMMA RegistryRemoves ==
  ASSUME RegistryInv, NEW c \in Conn, Registry!Disconnect(c)
  PROVE  RegistryInv'
<1> DEFINE i == IdOf[c]
<1>1. /\ status \in [Conn -> {"none", "open", "registered", "closed"}]
      /\ idMap \in [Id -> Conn \union {NoConn}]
      /\ slaveMap \in [Id -> Seq(Conn)] /\ typeMap \in [Type -> Seq(Conn)]
      /\ waiting \in BOOLEAN /\ threw \in BOOLEAN
      /\ i \in Id /\ TypeOf[i] \in Type /\ NoConn # c
  BY RegistryTypes, RegistryConstants DEF RegistryInv
<1>2. RecordsLive /\ ListsRecords /\ SlavesOfId /\ AloneListed
  BY DEF RegistryInv
<1>3. /\ status[c] \in {"open", "registered"} /\ status' = [status EXCEPT ![c] = "closed"]
      /\ IF status[c] = "registered" THEN Registry!RemoveConnection(c)
         ELSE UNCHANGED <<idMap, slaveMap, typeMap>>
      /\ sent' = Registry!Nothing /\ UNCHANGED <<waiting, threw>>
  BY DEF Registry!Disconnect
<1>4. /\ status'[c] = "closed" /\ status' \in [Conn -> {"none", "open", "registered", "closed"}]
      /\ \A d \in Conn : d # c => status'[d] = status[d]
  BY <1>1, <1>3
<1>5. SentToLive' /\ sent' \in [Conn -> Nat]
  BY <1>3, RegistryQuiet DEF SentToLive
<1>6. \A j \in Id : \A d \in Elements(slaveMap[j]) :
        d \in Conn /\ IdOf[d] = j /\ status[d] \in {"registered", "closed"}
  <2>1. \A j \in Id : Elements(slaveMap[j]) \subseteq Conn
    BY <1>1, ElementsIn
  <2> QED
    BY <1>2, <2>1 DEF SlavesOfId
<1> HIDE DEF i
<1>7. CASE /\ UNCHANGED <<idMap, slaveMap, typeMap>>
           /\ \A j \in Id : idMap[j] # c
  <2>1. Registry!TypeOK'
    BY <1>1, <1>3, <1>4, <1>5, <1>7 DEF Registry!TypeOK
  <2>2. RecordsLive'
    BY <1>1, <1>2, <1>4, <1>7 DEF RecordsLive
  <2>3. ListsRecords'
    BY <1>2, <1>7 DEF ListsRecords
  <2>4. SlavesOfId'
    BY <1>2, <1>4, <1>6, <1>7 DEF SlavesOfId
  <2>5. AloneListed'
    BY <1>2, <1>4, <1>7 DEF AloneListed, Alone
  <2> QED
    BY <1>5, <2>1, <2>2, <2>3, <2>4, <2>5 DEF RegistryInv
<1>8. CASE status[c] = "open"
  BY <1>1, <1>2, <1>3, <1>7, <1>8 DEF RecordsLive
<1>9. CASE status[c] = "registered" /\ idMap[i] = NoConn
  <2>1. UNCHANGED <<idMap, slaveMap, typeMap>>
    BY <1>3, <1>9 DEF Registry!RemoveConnection, i
  <2>2. \A j \in Id : idMap[j] = c => j = i
    BY <1>1, <1>2 DEF RecordsLive, i
  <2> QED
    BY <1>1, <1>7, <1>9, <2>1, <2>2
<1>10. CASE status[c] = "registered" /\ idMap[i] # NoConn /\ AddressOf[idMap[i]] = AddressOf[c]
  <2> DEFINE r == idMap[i]
             t0 == TypeOf[i]
             ofId == {d \in Conn : IdOf[d] = i}
             rest == Registry!WithoutFirst(typeMap[t0], ofId)
  <2>1. /\ idMap' = [idMap EXCEPT ![i] = NoConn] /\ slaveMap' = slaveMap
        /\ typeMap' = [typeMap EXCEPT ![t0] = rest]
    BY <1>3, <1>10 DEF Registry!RemoveConnection, Registry!SameServer, Registry!CompareServer, i
  <2>2. /\ idMap'[i] = NoConn /\ \A j \in Id : j # i => idMap'[j] = idMap[j]
        /\ idMap' \in [Id -> Conn \union {NoConn}]
    BY <1>1, <2>1
  <2>3. r \in Conn /\ IdOf[r] = i /\ \A j \in Id : idMap[j] = r => j = i
    BY <1>1, <1>2, <1>10 DEF RecordsLive
  <2>4. /\ Distinct(typeMap[t0])
        /\ Elements(typeMap[t0]) = {idMap[j] : j \in {n \in Id : TypeOf[n] = t0}} \ {NoConn}
    BY <1>1, <1>2 DEF ListsRecords
  <2>5. Elements(typeMap[t0]) \intersect ofId = {r}
    <3>1. r \in Elements(typeMap[t0]) /\ r \in ofId
      BY <1>1, <1>10, <2>3, <2>4
    <3>2. ASSUME NEW d \in Elements(typeMap[t0]), d \in ofId PROVE d = r
      <4>1. PICK j \in Id : d = idMap[j] /\ d # NoConn
        BY <2>4
      <4>2. IdOf[d] = j
        BY <1>2, <4>1 DEF RecordsLive
      <4> QED
        BY <3>2, <4>1, <4>2
    <3> QED
      BY <3>1, <3>2
  <2>6. rest \in Seq(Conn) /\ Distinct(rest) /\ Elements(rest) = Elements(typeMap[t0]) \ {r}
    <3>1. typeMap[t0] \in Seq(Conn)
      BY <1>1
    <3> HIDE DEF ofId, t0, r
    <3>2. /\ rest \in Seq(Conn) /\ Distinct(rest)
          /\ \/ \E d \in Elements(typeMap[t0]) \intersect ofId : Elements(rest) = Elements(typeMap[t0]) \ {d}
             \/ rest = typeMap[t0] /\ Elements(typeMap[t0]) \intersect ofId = {}
      BY <2>4, <3>1, WithoutFirstTakes
    <3> HIDE DEF rest
    <3> QED
      BY <2>5, <3>2
  <2> HIDE DEF rest, ofId
  <2>7. /\ typeMap' \in [Type -> Seq(Conn)] /\ typeMap'[t0] = rest
        /\ \A t \in Type : t # t0 => typeMap'[t] = typeMap[t]
    BY <1>1, <2>1, <2>6
  <2>8. Registry!TypeOK'
    BY <1>1, <1>3, <1>4, <1>5, <2>1, <2>2, <2>7 DEF Registry!TypeOK
  <2>9. RecordsLive'
    <3> SUFFICES ASSUME NEW j \in Id, idMap'[j] # NoConn
                 PROVE  status'[idMap'[j]] = "registered" /\ IdOf[idMap'[j]] = j
      BY DEF RecordsLive
    <3>1. j # i /\ idMap'[j] = idMap[j] /\ idMap[j] \in Conn
      BY <1>1, <2>2
    <3>2. status[idMap[j]] = "registered" /\ IdOf[idMap[j]] = j
      BY <1>2, <3>1 DEF RecordsLive
    <3> QED
      BY <1>4, <3>1, <3>2 DEF i
  <2>10. ListsRecords'
    <3> SUFFICES ASSUME NEW t \in Type
                 PROVE  /\ Distinct(typeMap'[t])
                        /\ Elements(typeMap'[t]) = {idMap'[j] : j \in {n \in Id : TypeOf[n] = t}} \ {NoConn}
      BY DEF ListsRecords
    <3>1. /\ Distinct(typeMap[t])
          /\ Elements(typeMap[t]) = {idMap[j] : j \in {n \in Id : TypeOf[n] = t}} \ {NoConn}
      BY <1>2 DEF ListsRecords
    <3>2. CASE t = t0
      <4>1. {idMap'[j] : j \in {n \in Id : TypeOf[n] = t}} \ {NoConn}
              = ({idMap[j] : j \in {n \in Id : TypeOf[n] = t}} \ {NoConn}) \ {r}
        <5> DEFINE ids == {n \in Id : TypeOf[n] = t}
        <5>1. \A j \in ids : /\ j = i => idMap'[j] = NoConn /\ idMap[j] = r
                             /\ j # i => idMap'[j] = idMap[j] /\ idMap[j] # r
          BY <2>2, <2>3
        <5> HIDE DEF ids, r
        <5>2. ASSUME NEW d \in {idMap'[j] : j \in ids} \ {NoConn}
              PROVE  d \in ({idMap[j] : j \in ids} \ {NoConn}) \ {r}
          BY <5>1
        <5>3. ASSUME NEW d \in ({idMap[j] : j \in ids} \ {NoConn}) \ {r}
              PROVE  d \in {idMap'[j] : j \in ids} \ {NoConn}
          BY <5>1
        <5>4. {idMap'[j] : j \in ids} \ {NoConn} = ({idMap[j] : j \in ids} \ {NoConn}) \ {r}
          BY <5>2, <5>3
        <5> QED
          BY <5>4 DEF ids
      <4> QED
        BY <2>6, <2>7, <3>1, <3>2, <4>1
    <3>3. CASE t # t0
      <4>1. \A j \in {n \in Id : TypeOf[n] = t} : idMap'[j] = idMap[j]
        BY <2>2, <3>3
      <4> QED
        BY <2>7, <3>1, <3>3, <4>1
    <3> QED
      BY <3>2, <3>3
  <2>11. SlavesOfId'
    BY <1>2, <1>4, <1>6, <2>1 DEF SlavesOfId
  <2>12. AloneListed'
    <3> SUFFICES ASSUME NEW d \in Conn, status'[d] = "registered", Alone(d)
                 PROVE  idMap'[IdOf[d]] = d \/ d \in Elements(slaveMap[IdOf[d]])
      BY <2>1 DEF AloneListed, Alone
    <3>1. d # c /\ status[d] = "registered" /\ IdOf[d] \in Id
      BY <1>4, RegistryConstants
    <3>2. idMap[IdOf[d]] = d \/ d \in Elements(slaveMap[IdOf[d]])
      BY <1>2, <3>1 DEF AloneListed
    <3>3. IdOf[d] = i => idMap[i] # d
      BY <1>10, <3>1 DEF Alone, i
    <3> QED
      BY <2>2, <3>1, <3>2, <3>3
  <2> QED
    BY <1>5, <2>8, <2>9, <2>10, <2>11, <2>12 DEF RegistryInv
<1>11. CASE status[c] = "registered" /\ idMap[i] # NoConn /\ AddressOf[idMap[i]] # AddressOf[c]
  <2> DEFINE same == {d \in Conn : AddressOf[d] = AddressOf[c]}
             rest == Registry!WithoutFirst(slaveMap[i], same)
  <2>1. idMap' = idMap /\ typeMap' = typeMap /\ slaveMap' = [slaveMap EXCEPT ![i] = rest]
    BY <1>3, <1>11 DEF Registry!RemoveConnection, Registry!SameServer, Registry!CompareServer, i
  <2>2. Distinct(slaveMap[i]) /\ slaveMap[i] \in Seq(Conn)
    BY <1>1, <1>2 DEF SlavesOfId
  <2>3. /\ rest \in Seq(Conn) /\ Distinct(rest)
        /\ \/ \E d \in Elements(slaveMap[i]) \intersect same : Elements(rest) = Elements(slaveMap[i]) \ {d}
           \/ rest = slaveMap[i]
    <3> HIDE DEF same
    <3> QED
      BY <2>2, WithoutFirstTakes
  <2> HIDE DEF rest
  <2>4. /\ slaveMap' \in [Id -> Seq(Conn)] /\ slaveMap'[i] = rest
        /\ \A j \in Id : j # i => slaveMap'[j] = slaveMap[j]
    BY <1>1, <2>1, <2>3
  <2>5. \A j \in Id : idMap[j] # c
    BY <1>1, <1>2, <1>11 DEF RecordsLive, i
  <2>6. Registry!TypeOK'
    BY <1>1, <1>3, <1>4, <1>5, <2>1, <2>4 DEF Registry!TypeOK
  <2>7. RecordsLive'
    BY <1>1, <1>2, <1>4, <2>1, <2>5 DEF RecordsLive
  <2>8. ListsRecords'
    BY <1>2, <2>1 DEF ListsRecords
  <2>9. SlavesOfId'
    <3> SUFFICES ASSUME NEW j \in Id
                 PROVE  /\ Distinct(slaveMap'[j])
                        /\ \A d \in Elements(slaveMap'[j]) : IdOf[d] = j /\ status'[d] \in {"registered", "closed"}
      BY DEF SlavesOfId
    <3>1. Elements(slaveMap'[j]) \subseteq Elements(slaveMap[j]) /\ Distinct(slaveMap'[j])
      BY <1>2, <2>3, <2>4 DEF SlavesOfId
    <3> QED
      BY <1>4, <1>6, <3>1
  <2>10. AloneListed'
    <3> SUFFICES ASSUME NEW d \in Conn, status'[d] = "registered", Alone(d)
                 PROVE  idMap[IdOf[d]] = d \/ d \in Elements(slaveMap'[IdOf[d]])
      BY <2>1 DEF AloneListed, Alone
    <3>1. d # c /\ status[d] = "registered" /\ IdOf[d] \in Id
      BY <1>4, RegistryConstants
    <3>2. idMap[IdOf[d]] = d \/ d \in Elements(slaveMap[IdOf[d]])
      BY <1>2, <3>1 DEF AloneListed
    <3>3. IdOf[d] = i => d \notin same
      BY <3>1 DEF Alone, i
    <3> QED
      BY <2>3, <2>4, <3>1, <3>2, <3>3
  <2> QED
    BY <1>5, <2>6, <2>7, <2>8, <2>9, <2>10 DEF RegistryInv
<1> QED
  BY <1>3, <1>8, <1>9, <1>10, <1>11

LEMMA RegistryConnections ==
  ASSUME RegistryInv, NEW c \in Conn,
         Registry!Connects(c) \/ Registry!Register(c) \/ Registry!Reconnect(c)
  PROVE  RegistryInv'
<1>1. /\ status \in [Conn -> {"none", "open", "registered", "closed"}]
      /\ idMap \in [Id -> Conn \union {NoConn}]
      /\ waiting \in BOOLEAN /\ threw \in BOOLEAN
  BY RegistryTypes DEF RegistryInv
<1>2. RecordsLive /\ ListsRecords /\ SlavesOfId /\ AloneListed
  BY DEF RegistryInv
<1>3. \A j \in Id : \A d \in Elements(slaveMap[j]) : d \in Conn /\ status[d] \in {"registered", "closed"}
  BY <1>2, RegistryTypes DEF RegistryInv, SlavesOfId, Elements
<1>4. ASSUME NEW st \in {"none", "open", "closed"}, status[c] \in {"none", "open"},
             status' = [status EXCEPT ![c] = st], sent' = Registry!Nothing,
             UNCHANGED <<idMap, slaveMap, typeMap, waiting, threw>>
      PROVE  RegistryInv'
  <2>1. /\ status' \in [Conn -> {"none", "open", "registered", "closed"}]
        /\ status'[c] = st /\ \A d \in Conn : d # c => status'[d] = status[d]
    BY <1>1, <1>4
  <2>2. SentToLive' /\ sent' \in [Conn -> Nat]
    BY <1>4, RegistryQuiet DEF SentToLive
  <2>3. Registry!TypeOK'
    BY <1>4, <2>1, <2>2 DEF RegistryInv, Registry!TypeOK
  <2>4. RecordsLive'
    BY <1>1, <1>2, <1>4, <2>1 DEF RecordsLive
  <2>5. ListsRecords'
    BY <1>2, <1>4 DEF ListsRecords
  <2>6. SlavesOfId'
    BY <1>2, <1>3, <1>4, <2>1 DEF SlavesOfId
  <2>7. AloneListed'
    BY <1>2, <1>4, <2>1 DEF AloneListed, Alone
  <2> QED
    BY <2>2, <2>3, <2>4, <2>5, <2>6, <2>7 DEF RegistryInv
<1>5. CASE Registry!Connects(c)
  BY <1>4, <1>5 DEF Registry!Connects
<1>6. CASE Registry!Register(c)
  <2>1. \/ /\ status[c] = "open" /\ status' = [status EXCEPT ![c] = "registered"]
           /\ Registry!AddConnection(c) /\ sent' = Registry!Nothing /\ UNCHANGED <<waiting, threw>>
        \/ /\ status[c] = "open" /\ status' = [status EXCEPT ![c] = "closed"]
           /\ sent' = Registry!Nothing /\ UNCHANGED <<idMap, slaveMap, typeMap, waiting, threw>>
    BY <1>6 DEF Registry!Register
  <2> QED
    BY <1>4, <2>1, RegistryAddsConnection
<1>7. CASE Registry!Reconnect(c)
  <2>1. \/ /\ status[c] = "open" /\ status' = [status EXCEPT ![c] = "registered"]
           /\ Registry!AddConnection(c) /\ sent' = Registry!Nothing /\ UNCHANGED <<waiting, threw>>
        \/ /\ sent' = Registry!Nothing /\ UNCHANGED <<status, idMap, slaveMap, typeMap, waiting, threw>>
    BY <1>7 DEF Registry!Reconnect
  <2> QED
    BY <1>1, <2>1, RegistryAddsConnection, RegistrySends, RegistryQuiet
<1> QED
  BY <1>5, <1>6, <1>7

\* The records of all ids, once each: Registry!Records.
LEMMA RecordsOnce ==
  ASSUME RegistryInv
  PROVE  /\ Registry!Records \in Seq(Conn) /\ Distinct(Registry!Records)
         /\ \A c \in Elements(Registry!Records) : status[c] = "registered"
<1> DEFINE S == {idMap[i] : i \in Id} \ {NoConn}
           n == Cardinality(S)
           f == Registry!SetToSeq(S)
<1>1. IsFiniteSet(S)
  <2>1. IsFiniteSet({idMap[i] : i \in Id})
    <3> DEFINE T == {idMap[i] : i \in Id}
    <3>1. idMap \in Surjection(Id, T)
      BY RegistryTypes DEF RegistryInv, Surjection
    <3>2. IsFiniteSet(T)
      BY <3>1, RegistryConstants, FS_Surjection DEF ExistsSurjection
    <3> QED
      BY <3>2
  <2> QED
    BY <2>1, FS_Difference
<1>2. S \subseteq Conn /\ \A c \in S : status[c] = "registered"
  BY RegistryTypes DEF RegistryInv, RecordsLive
<1>3. Registry!Records = f
  BY DEF Registry!Records
<1> HIDE DEF S
<1>4. n \in Nat /\ ExistsBijection(1 .. n, S)
  BY <1>1, FS_CardinalityType
<1>5. PICK g \in [1 .. n -> S] : \A a, b \in 1 .. n : g[a] = g[b] => a = b
  BY <1>4 DEF ExistsBijection, Bijection, Injection, IsInjective
<1>6. \E h \in [1 .. n -> S] : Registry!IsInjective(h)
  BY <1>5 DEF Registry!IsInjective
<1>7. f = CHOOSE h \in [1 .. n -> S] : Registry!IsInjective(h)
  BY RegistrySame DEF Registry!SetToSeq
<1>8. f \in [1 .. n -> S] /\ Registry!IsInjective(f)
  BY <1>6, <1>7
<1> HIDE DEF f, n
<1>9. f \in Seq(S) /\ f \in Seq(Conn)
  BY <1>2, <1>4, <1>8, SeqDef
<1>10. Distinct(f)
  BY <1>8, <1>9, ListOperators
<1>11. Elements(f) \subseteq S
  BY <1>9, ElementsIn
<1> QED
  BY <1>2, <1>3, <1>9, <1>10, <1>11

LEMMA RegistryNotifies ==
  ASSUME RegistryInv
  PROVE  /\ Registry!NotifyAll \/ Registry!NotifyCommand => RegistryInv'
         /\ \A t \in Type : Registry!NotifyByType(t) => RegistryInv'
         /\ \A i \in Id : Registry!NotifyById(i) \/ Registry!NotifySlavesById(i) => RegistryInv'
<1>1. /\ idMap \in [Id -> Conn \union {NoConn}]
      /\ slaveMap \in [Id -> Seq(Conn)] /\ typeMap \in [Type -> Seq(Conn)]
      /\ waiting \in BOOLEAN /\ threw \in BOOLEAN
  BY RegistryTypes DEF RegistryInv
<1>2. RecordsLive /\ ListsRecords /\ SlavesOfId
  BY DEF RegistryInv
<1>3. ASSUME NEW list \in Seq(Conn), Distinct(list), Registry!Broadcast(list),
             \A c \in Elements(list) : status[c] = "registered" \/ c \in Elements(slaveMap[IdOf[c]])
      PROVE  RegistryInv'
  <2>1. /\ UNCHANGED <<status, idMap, slaveMap, typeMap, waiting, threw>>
        /\ sent' = Registry!Times(list)
    BY <1>3 DEF Registry!Broadcast
  <2>2. /\ sent' \in [Conn -> Nat]
        /\ \A c \in Conn : /\ sent'[c] <= 1
                           /\ sent'[c] = 1 => status[c] = "registered" \/ c \in Elements(slaveMap[IdOf[c]])
    BY <1>3, <2>1, TimesCount
  <2> QED
    BY <1>1, <2>1, <2>2, RegistrySends
<1>4. ASSUME Registry!NotifyAll \/ Registry!NotifyCommand PROVE RegistryInv'
  BY <1>3, <1>4, RecordsOnce DEF Registry!NotifyAll, Registry!NotifyCommand
<1>5. ASSUME NEW t \in Type, Registry!NotifyByType(t) PROVE RegistryInv'
  <2>1. typeMap[t] \in Seq(Conn) /\ Distinct(typeMap[t])
    BY <1>1, <1>2 DEF ListsRecords
  <2>2. \A c \in Elements(typeMap[t]) : status[c] = "registered"
    BY <1>2 DEF ListsRecords, RecordsLive
  <2> QED
    BY <1>3, <1>5, <2>1, <2>2 DEF Registry!NotifyByType
<1>6. ASSUME NEW i \in Id, Registry!NotifyById(i) PROVE RegistryInv'
  <2>1. idMap[i] \in Conn /\ status[idMap[i]] = "registered"
    BY <1>1, <1>2, <1>6 DEF Registry!NotifyById, RecordsLive
  <2>2. /\ <<idMap[i]>> \in Seq(Conn) /\ Distinct(<<idMap[i]>>)
        /\ \A c \in Elements(<<idMap[i]>>) : c = idMap[i]
    BY <2>1 DEF Distinct, Elements
  <2> QED
    BY <1>3, <1>6, <2>1, <2>2 DEF Registry!NotifyById
<1>7. ASSUME NEW i \in Id, Registry!NotifySlavesById(i) PROVE RegistryInv'
  <2>1. /\ slaveMap[i] \in Seq(Conn) /\ Distinct(slaveMap[i])
        /\ \A c \in Elements(slaveMap[i]) : IdOf[c] = i
    BY <1>1, <1>2 DEF SlavesOfId
  <2>2. \A c \in Elements(slaveMap[i]) : c \in Elements(slaveMap[IdOf[c]])
    BY <2>1
  <2> QED
    BY <1>3, <1>7, <2>1, <2>2 DEF Registry!NotifySlavesById
<1> QED
  BY <1>4, <1>5, <1>6, <1>7

\* A message to one server process, by its address.
LEMMA RegistryAsks ==
  ASSUME RegistryInv, NEW i \in Id, NEW a,
         Registry!NotifyByServer(i, a) \/ Registry!RequestServer(i, a)
  PROVE  RegistryInv'
<1>1. idMap \in [Id -> Conn \union {NoConn}] /\ waiting \in BOOLEAN /\ threw \in BOOLEAN /\ RecordsLive
  BY RegistryTypes DEF RegistryInv
<1>2. /\ idMap[i] # NoConn /\ UNCHANGED <<status, idMap, slaveMap, typeMap>>
      /\ sent' = Registry!Times(<<idMap[i]>>) \/ sent' = Registry!Nothing
      /\ waiting' \in BOOLEAN /\ threw' \in BOOLEAN
  BY <1>1 DEF Registry!NotifyByServer, Registry!RequestServer
<1>3. idMap[i] \in Conn /\ status[idMap[i]] = "registered"
  BY <1>1, <1>2 DEF RecordsLive
<1>4. /\ <<idMap[i]>> \in Seq(Conn) /\ Distinct(<<idMap[i]>>)
      /\ \A c \in Elements(<<idMap[i]>>) : c = idMap[i]
  BY <1>3 DEF Distinct, Elements
<1>5. /\ sent' \in [Conn -> Nat]
      /\ \A c \in Conn : /\ sent'[c] <= 1
                         /\ sent'[c] = 1 => status[c] = "registered"
  <2> DEFINE list == <<idMap[i]>>
  <2>1. /\ list \in Seq(Conn) /\ Distinct(list) /\ \A c \in Elements(list) : status[c] = "registered"
        /\ sent' = Registry!Times(list) \/ sent' = Registry!Nothing
    BY <1>2, <1>3, <1>4
  <2> HIDE DEF list
  <2>2. CASE sent' = Registry!Times(list)
    BY <2>1, <2>2, TimesCount
  <2>3. CASE sent' = Registry!Nothing
    BY <2>3, RegistryQuiet
  <2> QED
    BY <2>1, <2>2, <2>3
<1> QED
  BY <1>2, <1>5, RegistrySends

LEMMA RegistryInvStep == RegistryInv /\ [Registry!Next]_registryVars => RegistryInv'
<1> SUFFICES ASSUME RegistryInv, [Registry!Next]_registryVars PROVE RegistryInv'
  OBVIOUS
<1>1. CASE UNCHANGED registryVars
  BY <1>1 DEF registryVars, RegistryInv, Registry!TypeOK, RecordsLive, ListsRecords, SlavesOfId,
              AloneListed, SentToLive
<1> QED
  BY <1>1, RegistryConnections, RegistryRemoves, RegistryNotifies, RegistryAsks DEF Registry!Next

\* The maps of the master's agent, and what it sends by them.
LEMMA RegistryInvInductive == Spec => []RegistryInv
<1>1. Init => RegistryInv
  BY RegistryInit DEF Init
<1>2. RegistryInv /\ [Next]_vars => RegistryInv'
  <2> SUFFICES ASSUME RegistryInv, [Next]_vars PROVE RegistryInv'
    OBVIOUS
  <2>1. [Registry!Next]_registryVars
    BY Zenon DEF Next, vars
  <2> QED
    BY <2>1, RegistryInvStep
<1> QED
  BY <1>1, <1>2, PTL DEF Spec

LEMMA RegistrySafe == RegistryInv => Registry!MapsAgree /\ Registry!SentOnce
<1> SUFFICES ASSUME RegistryInv PROVE Registry!MapsAgree /\ Registry!SentOnce
  OBVIOUS
<1>1. /\ idMap \in [Id -> Conn \union {NoConn}]
      /\ slaveMap \in [Id -> Seq(Conn)] /\ typeMap \in [Type -> Seq(Conn)]
  BY RegistryTypes DEF RegistryInv
<1>2. /\ \A t \in Type : /\ Registry!Range(typeMap[t]) = Elements(typeMap[t])
                         /\ Registry!IsInjective(typeMap[t]) <=> Distinct(typeMap[t])
      /\ \A i \in Id : Registry!Range(slaveMap[i]) = Elements(slaveMap[i])
  BY <1>1, ListOperators
<1>3. \A c \in Conn : IdOf[c] \in Id
  BY RegistryConstants
<1>4. \A i \in Id : idMap[i] # NoConn => idMap[i] \in Registry!Registered /\ IdOf[idMap[i]] = i
  BY <1>1 DEF RegistryInv, RecordsLive, Registry!Registered
<1>5. \A t \in Type : /\ Registry!IsInjective(typeMap[t])
                      /\ Registry!Range(typeMap[t]) = {idMap[i] : i \in {j \in Id : TypeOf[j] = t}} \ {NoConn}
  BY <1>2 DEF RegistryInv, ListsRecords
<1>6. \A c \in Registry!Registered :
        (\A d \in Conn \ {c} : IdOf[d] = IdOf[c] => AddressOf[d] # AddressOf[c])
          => idMap[IdOf[c]] = c \/ c \in Registry!Range(slaveMap[IdOf[c]])
  BY <1>2, <1>3 DEF RegistryInv, AloneListed, Alone, Registry!Registered
<1>7. Registry!SentOnce
  BY <1>2, <1>3 DEF RegistryInv, SentToLive, Registry!SentOnce, Registry!Registered
<1> QED
  BY <1>4, <1>5, <1>6, <1>7 DEF Registry!MapsAgree

-----------------------------------------------------------------------------
(* The clients of the master and their requests: masterAgent.js,           *)
(* consoleService.js, monitorAgent.js.                                     *)

\* A client that is logged in has its id.
LoginsKept == \A c \in AdminConn : conn[c] = "in" => clients[AdminIdOf[c]] = c

\* Of a request that was not made there is no trace; its callbacks are those it waits for.
Untouched ==
  \A r \in Request : kind[r] = "none" =>
    /\ r \notin unknown /\ pending[r] = {} /\ answersA[r] = 0
    /\ \A s \in Monitor : /\ ranA[<<r, s>>] = 0
                          /\ <<r, s>> \notin msgMapA \union sentA \union working \union repliesA \union lost
PendingAre == \A r \in Request, s \in Monitor : s \in pending[r] <=> <<r, s>> \in callbacks

\* A request that waits has not been answered, but for one to an unknown server
\* and for a script file that cannot be read.
Most(r) == IF r \in unknown \/ kind[r] = "unread" THEN 1 ELSE 0
AnswersCount ==
  \A r \in Request : answersA[r] <= Most(r) + 1 /\ (pending[r] # {} => answersA[r] <= Most(r))

\* What is sent to a server, or will be when it registers, it has not executed yet.
RanCount ==
  \A p \in Admin!Part : p \notin lost =>
    /\ ranA[p] <= 1
    /\ p \in sentA => ranA[p] = 0
    /\ p \in msgMapA /\ p[2] \notin idMapA => ranA[p] = 0

AdminInv ==
  /\ Admin!TypeOK
  /\ LoginsKept /\ Untouched /\ PendingAre /\ AnswersCount /\ RanCount
  /\ msgMapA = callbacks
  /\ \A p \in sentA : p[2] \in idMapA

LEMMA AdminConstants ==
  /\ AdminIdOf \in [AdminConn -> AdminId] /\ NoConn \notin AdminConn /\ MaxCuts \in Nat
BY AdminAssumption DEF Admin!AdminAssumption

LEMMA AdminTypes ==
  ASSUME Admin!TypeOK
  PROVE  /\ conn \in [AdminConn -> {"new", "register", "auth", "in", "closed"}]
         /\ clients \in [AdminId -> AdminConn \union {NoConn}]
         /\ idMapA \subseteq Monitor /\ kind \in [Request -> Admin!Kinds] /\ unknown \subseteq Request
         /\ pending \in [Request -> SUBSET Monitor] /\ answersA \in [Request -> 0 .. 2]
         /\ msgMapA \subseteq Admin!Part /\ sentA \subseteq Admin!Part /\ working \subseteq Admin!Part
         /\ repliesA \subseteq Admin!Part /\ callbacks \subseteq Admin!Part /\ lost \subseteq Admin!Part
         /\ ranA \in [Admin!Part -> Nat] /\ cuts \in 0 .. MaxCuts
BY DEF Admin!TypeOK

LEMMA PartIs ==
  /\ \A r \in Request, s \in Monitor : <<r, s>> \in Admin!Part
  /\ \A p \in Admin!Part : p[1] \in Request /\ p[2] \in Monitor /\ p = <<p[1], p[2]>>
BY DEF Admin!Part

LEMMA AdminInit == Admin!Init => AdminInv
<1> SUFFICES ASSUME Admin!Init PROVE AdminInv
  OBVIOUS
<1>1. /\ conn = [c \in AdminConn |-> "new"] /\ clients = [i \in AdminId |-> NoConn]
      /\ idMapA \subseteq Monitor /\ kind = [r \in Request |-> "none"] /\ unknown = {}
      /\ pending = [r \in Request |-> {}] /\ answersA = [r \in Request |-> 0]
      /\ msgMapA = {} /\ sentA = {} /\ working = {} /\ repliesA = {} /\ callbacks = {} /\ lost = {}
      /\ ranA = [p \in Admin!Part |-> 0] /\ cuts = 0
  BY DEF Admin!Init, Admin!NoClients
<1>2. "none" \in Admin!Kinds
  BY DEF Admin!Kinds
<1>3. Admin!TypeOK
  BY <1>1, <1>2, AdminConstants DEF Admin!TypeOK
<1>4. Untouched
  BY <1>1, PartIs DEF Untouched
<1>5. LoginsKept /\ PendingAre /\ AnswersCount /\ RanCount
  BY <1>1 DEF LoginsKept, PendingAre, AnswersCount, Most, RanCount
<1> QED
  BY <1>1, <1>3, <1>4, <1>5 DEF AdminInv

\* Logins.
LEMMA AdminLogins ==
  ASSUME AdminInv, NEW c \in AdminConn,
         \/ Admin!Connect(c) \/ Admin!Login(c) \/ Admin!Authorized(c)
         \/ Admin!Refused(c) \/ Admin!LeavesClient(c)
  PROVE  AdminInv'
<1>1. /\ conn \in [AdminConn -> {"new", "register", "auth", "in", "closed"}]
      /\ clients \in [AdminId -> AdminConn \union {NoConn}]
      /\ AdminIdOf \in [AdminConn -> AdminId] /\ NoConn \notin AdminConn
      /\ LoginsKept
  BY AdminTypes, AdminConstants DEF AdminInv
<1>2. UNCHANGED <<idMapA, kind, unknown, pending, answersA, msgMapA, sentA, working, repliesA,
                  callbacks, ranA, lost, cuts>>
  BY DEF Admin!Connect, Admin!Login, Admin!Authorized, Admin!Refused, Admin!LeavesClient,
         Admin!asked, Admin!agent
<1>3. \/ /\ conn[c] # "in" /\ UNCHANGED clients
         /\ \E st \in {"register", "auth", "closed"} : conn' = [conn EXCEPT ![c] = st]
      \/ /\ conn[c] # "in" /\ clients[AdminIdOf[c]] = NoConn
         /\ clients' = [clients EXCEPT ![AdminIdOf[c]] = c]
         /\ \E st \in {"in", "closed"} : conn' = [conn EXCEPT ![c] = st]
      \/ /\ conn[c] = "in" /\ conn' = [conn EXCEPT ![c] = "closed"]
         /\ clients' = [clients EXCEPT ![AdminIdOf[c]] = NoConn]
  BY <1>1 DEF Admin!Connect, Admin!Accepted, Admin!Login, Admin!Authorized, Admin!MayLogIn, Admin!Free,
              Admin!Refused, Admin!LeavesClient
<1>4. /\ conn' \in [AdminConn -> {"new", "register", "auth", "in", "closed"}]
      /\ clients' \in [AdminId -> AdminConn \union {NoConn}]
  BY <1>1, <1>3
<1>5. LoginsKept'
  BY <1>1, <1>3 DEF LoginsKept
<1>6. Admin!TypeOK'
  BY <1>2, <1>4 DEF AdminInv, Admin!TypeOK, Admin!Part
<1>7. Untouched' /\ PendingAre' /\ AnswersCount' /\ RanCount'
  BY <1>2 DEF AdminInv, Untouched, PendingAre, AnswersCount, Most, RanCount
<1> QED
  BY <1>2, <1>5, <1>6, <1>7 DEF AdminInv

\* A request of a client: it is kept for each server that is asked, and may be answered
\* at once when it waits for none, or the server is unknown.
LEMMA AdminAsks ==
  ASSUME AdminInv, NEW r \in Request, kind[r] = "none",
         NEW k \in Admin!Kinds, k # "none", kind' = [kind EXCEPT ![r] = k],
         NEW to \in SUBSET Monitor, Admin!RequestAll(r, to),
         NEW n \in 0 .. 2, answersA' = [answersA EXCEPT ![r] = n],
         n = 2 => to = {} /\ k = "unread",
         unknown' \in SUBSET Request, \A q \in Request : q # r => (q \in unknown' <=> q \in unknown),
         to # {} /\ n = 1 => r \in unknown',
         UNCHANGED <<conn, clients, idMapA, working, repliesA, ranA, lost, cuts>>
  PROVE  AdminInv'
<1> DEFINE parts == {r} \X to
           known == {r} \X (to \intersect idMapA)
<1>1. /\ idMapA \subseteq Monitor /\ kind \in [Request -> Admin!Kinds]
      /\ pending \in [Request -> SUBSET Monitor] /\ answersA \in [Request -> 0 .. 2]
      /\ msgMapA \subseteq Admin!Part /\ sentA \subseteq Admin!Part
      /\ working \subseteq Admin!Part /\ repliesA \subseteq Admin!Part
      /\ callbacks \subseteq Admin!Part /\ lost \subseteq Admin!Part
      /\ ranA \in [Admin!Part -> Nat]
      /\ cuts \in 0 .. MaxCuts
      /\ conn \in [AdminConn -> {"new", "register", "auth", "in", "closed"}]
      /\ clients \in [AdminId -> AdminConn \union {NoConn}]
  BY AdminTypes DEF AdminInv
<1>2. /\ LoginsKept /\ Untouched /\ PendingAre /\ AnswersCount /\ RanCount
      /\ msgMapA = callbacks /\ \A p \in sentA : p[2] \in idMapA
  BY DEF AdminInv
<1>3. /\ msgMapA' = msgMapA \union parts /\ callbacks' = callbacks \union parts
      /\ sentA' = sentA \union known /\ pending' = [pending EXCEPT ![r] = to]
  BY DEF Admin!RequestAll
<1>4. /\ \A p \in parts : p[1] = r /\ p[2] \in to /\ p \in Admin!Part
      /\ \A p \in known : p[1] = r /\ p[2] \in to /\ p[2] \in idMapA /\ p \in Admin!Part
      /\ \A q \in Request, s \in Monitor : <<q, s>> \in parts <=> q = r /\ s \in to
      /\ known \subseteq parts
  BY DEF Admin!Part
<1>5. /\ kind'[r] = k /\ kind' \in [Request -> Admin!Kinds]
      /\ \A q \in Request : q # r => kind'[q] = kind[q]
      /\ pending'[r] = to /\ pending' \in [Request -> SUBSET Monitor]
      /\ \A q \in Request : q # r => pending'[q] = pending[q]
      /\ answersA'[r] = n /\ answersA' \in [Request -> 0 .. 2]
      /\ \A q \in Request : q # r => answersA'[q] = answersA[q]
  BY <1>1, <1>3
<1>6. /\ r \notin unknown /\ pending[r] = {} /\ answersA[r] = 0
      /\ \A s \in Monitor : ranA[<<r, s>>] = 0 /\ <<r, s>> \notin msgMapA /\ <<r, s>> \notin sentA
  BY <1>2 DEF Untouched
<1> HIDE DEF parts, known
<1>7. Admin!TypeOK'
  BY <1>1, <1>3, <1>4, <1>5 DEF Admin!TypeOK, Admin!Part
<1>8. LoginsKept'
  BY <1>2 DEF LoginsKept
<1>9. Untouched'
  <2> SUFFICES ASSUME NEW q \in Request, kind'[q] = "none"
               PROVE  /\ q \notin unknown' /\ pending'[q] = {} /\ answersA'[q] = 0
                      /\ \A s \in Monitor :
                           /\ ranA[<<q, s>>] = 0
                           /\ <<q, s>> \notin msgMapA' \union sentA' \union working \union repliesA \union lost
    BY DEF Untouched
  <2>1. q # r /\ kind[q] = "none"
    BY <1>5
  <2>2. \A s \in Monitor : <<q, s>> \notin parts /\ <<q, s>> \notin known
    BY <1>4, <2>1
  <2>3. /\ q \notin unknown /\ pending[q] = {} /\ answersA[q] = 0
        /\ \A s \in Monitor :
             /\ ranA[<<q, s>>] = 0
             /\ <<q, s>> \notin msgMapA \union sentA \union working \union repliesA \union lost
    BY <1>2, <2>1 DEF Untouched
  <2> QED
    BY <1>3, <1>5, <2>1, <2>2, <2>3
<1>10. PendingAre'
  <2> SUFFICES ASSUME NEW q \in Request, NEW s \in Monitor
               PROVE  s \in pending'[q] <=> <<q, s>> \in callbacks'
    BY DEF PendingAre
  <2>1. s \in pending[q] <=> <<q, s>> \in callbacks
    BY <1>2 DEF PendingAre
  <2>2. <<q, s>> \in callbacks' <=> <<q, s>> \in callbacks \/ (q = r /\ s \in to)
    BY <1>3, <1>4
  <2> QED
    BY <1>5, <1>6, <2>1, <2>2
<1>11. AnswersCount'
  <2> SUFFICES ASSUME NEW q \in Request
               PROVE  /\ answersA'[q] <= Most(q)' + 1
                      /\ pending'[q] # {} => answersA'[q] <= Most(q)'
    BY DEF AnswersCount
  <2>1. CASE q = r
    BY <1>5, <2>1 DEF Most
  <2>2. CASE q # r
    <3>1. answersA[q] <= Most(q) + 1 /\ (pending[q] # {} => answersA[q] <= Most(q))
      BY <1>2 DEF AnswersCount
    <3>2. Most(q)' = Most(q)
      BY <1>5, <2>2 DEF Most
    <3> QED
      BY <1>5, <2>2, <3>1, <3>2
  <2> QED
    BY <2>1, <2>2
<1>12. RanCount'
  <2> SUFFICES ASSUME NEW p \in Admin!Part, p \notin lost
               PROVE  /\ ranA[p] <= 1
                      /\ p \in sentA' => ranA[p] = 0
                      /\ p \in msgMapA' /\ p[2] \notin idMapA => ranA[p] = 0
    BY DEF RanCount, Admin!Part
  <2>1. CASE p[1] = r
    <3>1. p = <<r, p[2]>> /\ p[2] \in Monitor
      BY <2>1, PartIs
    <3>2. ranA[p] = 0
      BY <1>6, <3>1
    <3> QED
      BY <3>2
  <2>2. CASE p[1] # r
    <3>1. (p \in sentA' => p \in sentA) /\ (p \in msgMapA' => p \in msgMapA)
      BY <1>3, <1>4, <2>2
    <3> QED
      BY <1>2, <3>1 DEF RanCount
  <2> QED
    BY <2>1, <2>2
<1>13. msgMapA' = callbacks' /\ \A p \in sentA' : p[2] \in idMapA
  BY <1>2, <1>3, <1>4
<1> QED
  BY <1>7, <1>8, <1>9, <1>10, <1>11, <1>12, <1>13 DEF AdminInv

LEMMA AdminClientHandler ==
  ASSUME AdminInv, NEW c \in AdminConn, NEW r \in Request, Admin!ClientHandler(c, r)
  PROVE  AdminInv'
<1>1. /\ idMapA \subseteq Monitor /\ pending \in [Request -> SUBSET Monitor]
      /\ answersA \in [Request -> 0 .. 2] /\ unknown \subseteq Request
  BY AdminTypes DEF AdminInv
<1>2. kind[r] = "none" => pending[r] = {} /\ answersA[r] = 0 /\ r \notin unknown
  BY DEF AdminInv, Untouched
<1>3. {"servers", "connections", "status", "show", "dump", "set", "log", "emptyLog", "unread", "mistyped",
       "local", "denied"} \subseteq Admin!Kinds \ {"none"}
  BY DEF Admin!Kinds
<1>4. \A k : Admin!Given(c, r, k) =>
        /\ kind[r] = "none" /\ kind' = [kind EXCEPT ![r] = k]
        /\ UNCHANGED <<conn, clients, idMapA, working, repliesA, ranA, lost, cuts>>
  BY DEF Admin!Given, Admin!Asks, Admin!logins
\* Nothing is asked, and the client is answered.
<1>5. ASSUME NEW k \in Admin!Kinds \ {"none"}, Admin!Given(c, r, k), Admin!NoRequest,
             NEW n \in 0 .. 2, n = 2 => k = "unread",
             answersA' = [answersA EXCEPT ![r] = @ + n], UNCHANGED unknown
      PROVE  AdminInv'
  <2>1. kind[r] = "none"
    BY <1>4, <1>5
  <2>2. Admin!RequestAll(r, {})
    <3>1. UNCHANGED <<pending, msgMapA, sentA, callbacks>>
      BY <1>5 DEF Admin!NoRequest
    <3>2. {r} \X {} = {} /\ {r} \X ({} \intersect idMapA) = {} /\ [pending EXCEPT ![r] = {}] = pending
      BY <1>1, <1>2, <2>1
    <3> QED
      BY <3>1, <3>2 DEF Admin!RequestAll
  <2>3. answersA' = [answersA EXCEPT ![r] = n]
    BY <1>1, <1>2, <1>5, <2>1
  <2>4. /\ kind' = [kind EXCEPT ![r] = k] /\ k \in Admin!Kinds /\ k # "none" /\ {} \in SUBSET Monitor
        /\ UNCHANGED <<conn, clients, idMapA, working, repliesA, ranA, lost, cuts>>
        /\ unknown' \in SUBSET Request /\ (n = 2 => {} = {} /\ k = "unread")
        /\ \A q \in Request : q # r => (q \in unknown' <=> q \in unknown)
    BY <1>1, <1>4, <1>5
  <2> QED
    BY <2>1, <2>2, <2>3, <2>4, AdminAsks
\* Some servers are asked; only without any is the client answered at once.
<1>6. ASSUME NEW k \in Admin!Kinds \ {"none"}, Admin!Given(c, r, k), NEW to \in SUBSET Monitor,
             Admin!AskAll(r, to)
      PROVE  AdminInv'
  <2>1. kind[r] = "none"
    BY <1>4, <1>6
  <2>2. PICK n \in 0 .. 1 : answersA' = [answersA EXCEPT ![r] = n] /\ (to # {} => n = 0)
    <3>1. CASE to = {}
      <4>1. answersA' = [answersA EXCEPT ![r] = 1]
        BY <1>1, <1>2, <1>6, <2>1, <3>1 DEF Admin!AskAll, Admin!Answered
      <4> QED
        BY <3>1, <4>1
    <3>2. CASE to # {}
      <4>1. answersA' = [answersA EXCEPT ![r] = 0]
        BY <1>1, <1>2, <1>6, <2>1, <3>2 DEF Admin!AskAll
      <4> QED
        BY <4>1
    <3> QED
      BY <3>1, <3>2
  <2>3. /\ kind' = [kind EXCEPT ![r] = k] /\ k \in Admin!Kinds /\ k # "none"
        /\ UNCHANGED <<conn, clients, idMapA, working, repliesA, ranA, lost, cuts>>
        /\ Admin!RequestAll(r, to) /\ unknown' \in SUBSET Request
        /\ \A q \in Request : q # r => (q \in unknown' <=> q \in unknown)
    BY <1>1, <1>4, <1>6 DEF Admin!AskAll
  <2>4. /\ to # {} /\ n = 1 => r \in unknown'
        /\ n \in 0 .. 2 /\ (n = 2 => to = {} /\ k = "unread")
    BY <2>2
  <2> QED
    BY <2>1, <2>2, <2>3, <2>4, AdminAsks
\* One server is asked.
<1>7. ASSUME NEW k \in Admin!Kinds \ {"none"}, Admin!Given(c, r, k), NEW s \in Monitor,
             Admin!RequestAll(r, {s}), unknown' \in SUBSET Request,
             \A q \in Request : q # r => (q \in unknown' <=> q \in unknown),
             \/ UNCHANGED answersA
             \/ Admin!Answered(r) /\ r \in unknown'
      PROVE  AdminInv'
  <2>1. kind[r] = "none"
    BY <1>4, <1>7
  <2>2. PICK n \in 0 .. 1 : answersA' = [answersA EXCEPT ![r] = n] /\ (n = 1 => r \in unknown')
    <3>1. CASE UNCHANGED answersA
      <4>1. answersA' = [answersA EXCEPT ![r] = 0]
        BY <1>1, <1>2, <2>1, <3>1
      <4> QED
        BY <4>1
    <3>2. CASE Admin!Answered(r) /\ r \in unknown'
      <4>1. answersA' = [answersA EXCEPT ![r] = 1]
        BY <1>1, <1>2, <2>1, <3>2 DEF Admin!Answered
      <4> QED
        BY <3>2, <4>1
    <3> QED
      BY <1>7, <3>1, <3>2
  <2>3. /\ kind' = [kind EXCEPT ![r] = k] /\ k \in Admin!Kinds /\ k # "none" /\ {s} \in SUBSET Monitor
        /\ UNCHANGED <<conn, clients, idMapA, working, repliesA, ranA, lost, cuts>>
        /\ n \in 0 .. 2 /\ (n = 2 => {s} = {} /\ k = "unread") /\ ({s} # {} /\ n = 1 => r \in unknown')
    BY <1>4, <1>7, <2>2
  <2> QED
    BY <1>7, <2>1, <2>2, <2>3, AdminAsks
<1>8. CASE Admin!ShowServers(c, r) \/ Admin!ShowConnections(c, r)
  <2>1. idMapA \in SUBSET Monitor /\ idMapA \intersect Frontend \in SUBSET Monitor
    BY <1>1
  <2> QED
    BY <1>3, <1>6, <1>8, <2>1 DEF Admin!ShowServers, Admin!ShowConnections
<1>9. CASE \/ Admin!Local(c, r) \/ Admin!Scripts(c, r) \/ Admin!Denied(c, r)
           \/ Admin!ScriptUnread(c, r) \/ Admin!ShowError(c, r)
  <2>1. CASE Admin!Local(c, r) \/ Admin!Scripts(c, r)
    BY <1>3, <1>5, <2>1 DEF Admin!Local, Admin!Scripts, Admin!Answered
  <2>2. CASE Admin!Denied(c, r)
    BY <1>3, <1>5, <2>2 DEF Admin!Denied, Admin!Answered
  <2>3. CASE Admin!ScriptUnread(c, r)
    BY <1>3, <1>5, <2>3 DEF Admin!ScriptUnread
  <2>4. CASE Admin!ShowError(c, r)
    <3>1. answersA' = [answersA EXCEPT ![r] = @ + 0]
      BY <1>1, <2>4 DEF Admin!ShowError
    <3>2. /\ Admin!Given(c, r, "mistyped") /\ Admin!NoRequest /\ UNCHANGED unknown
          /\ 0 \in 0 .. 2 /\ (0 = 2 => "mistyped" = "unread")
      BY <2>4 DEF Admin!ShowError
    <3> QED
      BY <1>3, <1>5, <3>1, <3>2
  <2> QED
    BY <1>9, <2>1, <2>2, <2>3, <2>4
<1>10. ASSUME NEW s \in Monitor, Admin!ConnectionsOf(c, r, s) PROVE AdminInv'
  BY <1>1, <1>3, <1>5, <1>7, <1>10 DEF Admin!ConnectionsOf, Admin!Answered
<1>11. ASSUME NEW s \in Monitor, NEW k \in Admin!Kinds \ {"none"}, Admin!Forward(c, r, s, k)
       PROVE  AdminInv'
  <2>1. /\ Admin!Given(c, r, k) /\ Admin!RequestAll(r, {s}) /\ unknown' \in SUBSET Request
        /\ \A q \in Request : q # r => (q \in unknown' <=> q \in unknown)
        /\ \/ UNCHANGED answersA
           \/ Admin!Answered(r) /\ r \in unknown'
    BY <1>1, <1>11 DEF Admin!Forward
  <2> QED
    BY <1>7, <2>1
<1>12. ASSUME NEW s \in Monitor, NEW k \in Admin!Kinds \ {"none"}, Admin!ForwardHopeful(c, r, s, k)
       PROVE  AdminInv'
  <2>1. /\ Admin!Given(c, r, k) /\ Admin!RequestAll(r, {s}) /\ unknown' \in SUBSET Request
        /\ \A q \in Request : q # r => (q \in unknown' <=> q \in unknown)
        /\ UNCHANGED answersA
    BY <1>1, <1>12 DEF Admin!ForwardHopeful
  <2> QED
    BY <1>7, <2>1
<1>13. ASSUME NEW k \in Admin!Kinds \ {"none"}, Admin!RefuseAll(c, r, k) PROVE AdminInv'
  BY <1>5, <1>13 DEF Admin!RefuseAll, Admin!Answered
<1>14. ASSUME NEW s \in Monitor,
              \/ Admin!ShowStatus(c, r, s) \/ Admin!Show(c, r, s) \/ Admin!Dump(c, r, s)
              \/ Admin!Set(c, r, s) \/ Admin!FetchLogs(c, r, s) \/ Admin!RunScript(c, r, s)
       PROVE  AdminInv'
  BY <1>3, <1>11, <1>12, <1>13, <1>14
     DEF Admin!ShowStatus, Admin!Show, Admin!Dump, Admin!Set, Admin!FetchLogs, Admin!RunScript
<1> QED
  BY <1>8, <1>9, <1>10, <1>14 DEF Admin!ClientHandler

\* What a step at the servers leaves alone.
LEMMA AdminServers ==
  ASSUME AdminInv, UNCHANGED <<conn, clients, kind, unknown>>,
         idMapA' \in SUBSET Monitor, pending' \in [Request -> SUBSET Monitor],
         answersA' \in [Request -> 0 .. 2], ranA' \in [Admin!Part -> Nat], cuts' \in 0 .. MaxCuts,
         msgMapA' = callbacks', callbacks' \subseteq callbacks,
         sentA' \subseteq sentA \union msgMapA, working' \subseteq working \union sentA,
         repliesA' \subseteq repliesA \union working, lost' \subseteq lost \union callbacks,
         lost \subseteq lost',
         \A p \in Admin!Part : ranA'[p] # ranA[p] => p \in sentA,
         \A p \in sentA' : p[2] \in idMapA',
         \A r \in Request : kind[r] = "none" => answersA'[r] = answersA[r] /\ pending'[r] = pending[r],
         PendingAre', AnswersCount', RanCount'
  PROVE  AdminInv'
<1>1. /\ kind \in [Request -> Admin!Kinds] /\ unknown \subseteq Request
      /\ msgMapA \subseteq Admin!Part /\ sentA \subseteq Admin!Part
      /\ working \subseteq Admin!Part /\ repliesA \subseteq Admin!Part
      /\ callbacks \subseteq Admin!Part /\ lost \subseteq Admin!Part
      /\ conn \in [AdminConn -> {"new", "register", "auth", "in", "closed"}]
      /\ clients \in [AdminId -> AdminConn \union {NoConn}]
  BY AdminTypes DEF AdminInv
<1>2. LoginsKept /\ Untouched /\ msgMapA = callbacks
  BY DEF AdminInv
<1>3. Admin!TypeOK'
  BY <1>1 DEF Admin!TypeOK, Admin!Part
<1>4. LoginsKept'
  BY <1>2 DEF LoginsKept
<1>5. Untouched'
  <2> SUFFICES ASSUME NEW q \in Request, kind[q] = "none"
               PROVE  /\ q \notin unknown /\ pending'[q] = {} /\ answersA'[q] = 0
                      /\ \A s \in Monitor :
                           /\ ranA'[<<q, s>>] = 0
                           /\ <<q, s>> \notin msgMapA' \union sentA' \union working' \union repliesA' \union lost'
    BY DEF Untouched
  <2>1. /\ q \notin unknown /\ pending[q] = {} /\ answersA[q] = 0
        /\ \A s \in Monitor :
             /\ ranA[<<q, s>>] = 0
             /\ <<q, s>> \notin msgMapA \union sentA \union working \union repliesA \union lost
    BY <1>2 DEF Untouched
  <2>2. pending'[q] = {} /\ answersA'[q] = 0
    BY <2>1
  <2>3. ASSUME NEW s \in Monitor
        PROVE  /\ ranA'[<<q, s>>] = 0
               /\ <<q, s>> \notin msgMapA' \union sentA' \union working' \union repliesA' \union lost'
    <3>1. /\ ranA[<<q, s>>] = 0 /\ <<q, s>> \notin msgMapA /\ <<q, s>> \notin sentA
          /\ <<q, s>> \notin working /\ <<q, s>> \notin repliesA /\ <<q, s>> \notin lost
      BY <2>1
    <3>2. <<q, s>> \in Admin!Part
      BY PartIs
    <3> QED
      BY <1>2, <3>1, <3>2
  <2> QED
    BY <2>1, <2>2, <2>3
<1> QED
  BY <1>3, <1>4, <1>5 DEF AdminInv

\* A server takes a request, answers it, or never does.
LEMMA AdminHandles ==
  ASSUME AdminInv, NEW p \in Admin!Part,
         Admin!Handle(p) \/ Admin!HandlerAnswers(p) \/ Admin!GetPsInfoFails(p)
  PROVE  AdminInv'
<1>1. /\ idMapA \in SUBSET Monitor /\ pending \in [Request -> SUBSET Monitor]
      /\ answersA \in [Request -> 0 .. 2] /\ ranA \in [Admin!Part -> Nat] /\ cuts \in 0 .. MaxCuts
      /\ msgMapA = callbacks /\ (\A q \in sentA : q[2] \in idMapA)
      /\ PendingAre /\ AnswersCount /\ RanCount
  BY AdminTypes DEF AdminInv
<1>2. /\ UNCHANGED <<conn, clients, idMapA, kind, unknown, pending, answersA, msgMapA, callbacks, lost, cuts>>
      /\ sentA' \subseteq sentA /\ working' \subseteq working \union sentA
      /\ repliesA' \subseteq repliesA \union working
  BY DEF Admin!Handle, Admin!HandlerAnswers, Admin!GetPsInfoFails, Admin!logins, Admin!asked
<1>3. \/ UNCHANGED <<ranA, sentA>>
      \/ p \in sentA /\ sentA' = sentA \ {p} /\ ranA' = [ranA EXCEPT ![p] = @ + 1]
  BY DEF Admin!Handle, Admin!HandlerAnswers, Admin!GetPsInfoFails
<1>4. ranA' \in [Admin!Part -> Nat] /\ \A q \in Admin!Part : ranA'[q] # ranA[q] => q \in sentA
  BY <1>1, <1>3
<1>5. PendingAre' /\ AnswersCount'
  BY <1>1, <1>2 DEF PendingAre, AnswersCount, Most
<1>6. RanCount'
  <2> SUFFICES ASSUME NEW q \in Admin!Part, q \notin lost
               PROVE  /\ ranA'[q] <= 1
                      /\ q \in sentA' => ranA'[q] = 0
                      /\ q \in msgMapA /\ q[2] \notin idMapA => ranA'[q] = 0
    BY <1>2 DEF RanCount, Admin!Part
  <2>1. /\ ranA[q] <= 1
        /\ q \in sentA => ranA[q] = 0
        /\ q \in msgMapA /\ q[2] \notin idMapA => ranA[q] = 0
    BY <1>1 DEF RanCount
  <2> QED
    BY <1>1, <1>3, <2>1
<1> QED
  BY <1>1, <1>2, <1>4, <1>5, <1>6, AdminServers

\* The answer of a server: only the one that takes the last server away answers the client.
LEMMA AdminOnMonitor ==
  ASSUME AdminInv, NEW p \in Admin!Part, Admin!OnMonitor(p)
  PROVE  AdminInv'
<1>1. /\ idMapA \in SUBSET Monitor /\ pending \in [Request -> SUBSET Monitor]
      /\ answersA \in [Request -> 0 .. 2] /\ ranA \in [Admin!Part -> Nat] /\ cuts \in 0 .. MaxCuts
      /\ unknown \subseteq Request
      /\ msgMapA = callbacks /\ (\A q \in sentA : q[2] \in idMapA)
      /\ PendingAre /\ AnswersCount /\ RanCount /\ Untouched
  BY AdminTypes DEF AdminInv
<1>2. /\ UNCHANGED <<conn, clients, idMapA, kind, unknown, sentA, working, ranA, lost, cuts>>
      /\ repliesA' \subseteq repliesA /\ p \in repliesA
  BY DEF Admin!OnMonitor, Admin!logins
<1>3. PICK r \in Request, s \in Monitor : p = <<r, s>>
  BY PartIs
<1>4. \/ UNCHANGED <<callbacks, msgMapA, pending, answersA>>
      \/ /\ p \in callbacks /\ callbacks' = callbacks \ {p} /\ msgMapA' = msgMapA \ {p}
         /\ pending' = [pending EXCEPT ![r] = @ \ {s}]
         /\ \/ pending[r] \subseteq {s} /\ answersA' = [answersA EXCEPT ![r] = @ + 1]
            \/ UNCHANGED answersA
  BY <1>3 DEF Admin!OnMonitor, Admin!Removed, Admin!Forgotten, Admin!Answered
<1>5. kind[r] # "none"
  BY <1>1, <1>2, <1>3 DEF Untouched
<1>6. CASE UNCHANGED <<callbacks, msgMapA, pending, answersA>>
  <2>1. PendingAre' /\ AnswersCount' /\ RanCount'
    BY <1>1, <1>2, <1>6 DEF PendingAre, AnswersCount, Most, RanCount
  <2> QED
    BY <1>1, <1>2, <1>6, <2>1, AdminServers
<1>7. ASSUME p \in callbacks, callbacks' = callbacks \ {p}, msgMapA' = msgMapA \ {p},
             pending' = [pending EXCEPT ![r] = @ \ {s}],
             \/ pending[r] \subseteq {s} /\ answersA' = [answersA EXCEPT ![r] = @ + 1]
             \/ UNCHANGED answersA
      PROVE  AdminInv'
  <2>1. /\ s \in pending[r] /\ answersA[r] <= Most(r)
        /\ \A q \in Request : /\ answersA[q] <= Most(q) + 1
                              /\ pending[q] # {} => answersA[q] <= Most(q)
    BY <1>1, <1>3, <1>7 DEF PendingAre, AnswersCount
  <2>2. Most(r) \in 0 .. 1
    BY DEF Most
  <2>3. /\ pending'[r] = pending[r] \ {s} /\ pending' \in [Request -> SUBSET Monitor]
        /\ \A q \in Request : q # r => pending'[q] = pending[q]
    BY <1>1, <1>7
  <2>4. /\ answersA' \in [Request -> 0 .. 2]
        /\ \A q \in Request : q # r => answersA'[q] = answersA[q]
        /\ \/ answersA'[r] = answersA[r]
           \/ answersA'[r] = answersA[r] + 1 /\ pending'[r] = {}
    <3>1. CASE pending[r] \subseteq {s} /\ answersA' = [answersA EXCEPT ![r] = @ + 1]
      BY <1>1, <2>1, <2>2, <2>3, <3>1
    <3>2. CASE UNCHANGED answersA
      BY <1>1, <3>2
    <3> QED
      BY <1>7, <3>1, <3>2
  <2>5. PendingAre'
    <3> SUFFICES ASSUME NEW q \in Request, NEW t \in Monitor
                 PROVE  t \in pending'[q] <=> <<q, t>> \in callbacks'
      BY DEF PendingAre
    <3>1. t \in pending[q] <=> <<q, t>> \in callbacks
      BY <1>1 DEF PendingAre
    <3>2. <<q, t>> = p <=> q = r /\ t = s
      BY <1>3
    <3> QED
      BY <1>7, <2>3, <3>1, <3>2
  <2>6. AnswersCount'
    <3> SUFFICES ASSUME NEW q \in Request
                 PROVE  /\ answersA'[q] <= Most(q) + 1
                        /\ pending'[q] # {} => answersA'[q] <= Most(q)
      BY <1>2 DEF AnswersCount, Most
    <3>1. CASE q = r
      BY <1>1, <2>1, <2>2, <2>3, <2>4, <3>1
    <3>2. CASE q # r
      BY <2>1, <2>3, <2>4, <3>2
    <3> QED
      BY <3>1, <3>2
  <2>7. RanCount'
    BY <1>1, <1>2, <1>7 DEF RanCount, Admin!Part
  <2>8. /\ msgMapA' = callbacks' /\ callbacks' \subseteq callbacks
        /\ \A q \in Request : kind[q] = "none" => answersA'[q] = answersA[q] /\ pending'[q] = pending[q]
    BY <1>1, <1>5, <1>7, <2>3, <2>4
  <2> QED
    BY <1>1, <1>2, <2>3, <2>4, <2>5, <2>6, <2>7, <2>8, AdminServers
<1> QED
  BY <1>4, <1>6, <1>7

\* A server goes, and is back: what was sent to it and is still kept is sent again.
LEMMA AdminReconnects ==
  ASSUME AdminInv, NEW s \in Monitor, Admin!Disconnects(s) \/ Admin!Registers(s)
  PROVE  AdminInv'
<1>1. /\ idMapA \in SUBSET Monitor /\ pending \in [Request -> SUBSET Monitor]
      /\ answersA \in [Request -> 0 .. 2] /\ ranA \in [Admin!Part -> Nat] /\ cuts \in 0 .. MaxCuts
      /\ callbacks \subseteq Admin!Part
      /\ msgMapA = callbacks /\ (\A q \in sentA : q[2] \in idMapA)
      /\ PendingAre /\ AnswersCount /\ RanCount
  BY AdminTypes DEF AdminInv
<1>2. UNCHANGED <<conn, clients, kind, unknown, pending, answersA, msgMapA, callbacks, ranA>>
  BY DEF Admin!Disconnects, Admin!Registers, Admin!logins, Admin!asked
<1>3. PendingAre' /\ AnswersCount'
  BY <1>1, <1>2 DEF PendingAre, AnswersCount, Most
<1>4. \A q \in Admin!Part : q \notin lost =>
        /\ ranA[q] <= 1
        /\ q \in sentA => ranA[q] = 0
        /\ q \in msgMapA /\ q[2] \notin idMapA => ranA[q] = 0
  BY <1>1 DEF RanCount
<1>5. CASE Admin!Disconnects(s)
  <2>1. /\ cuts' \in 0 .. MaxCuts /\ idMapA' = idMapA \ {s}
        /\ sentA' = {q \in sentA : q[2] # s} /\ repliesA' \subseteq repliesA
        /\ working' \subseteq working /\ lost' = lost \union {q \in callbacks : q[2] = s}
    BY <1>1, <1>5, AdminConstants DEF Admin!Disconnects
  <2>2. \A q \in sentA' : q[2] \in idMapA'
    BY <1>1, <2>1
  <2>3. RanCount'
    <3> SUFFICES ASSUME NEW q \in Admin!Part, q \notin lost'
                 PROVE  /\ ranA[q] <= 1
                        /\ q \in sentA' => ranA[q] = 0
                        /\ q \in msgMapA /\ q[2] \notin idMapA' => ranA[q] = 0
      BY <1>2 DEF RanCount, Admin!Part
    <3> QED
      BY <1>1, <1>4, <2>1
  <2> QED
    BY <1>1, <1>2, <1>3, <2>1, <2>2, <2>3, AdminServers
<1>6. CASE Admin!Registers(s)
  <2>1. /\ idMapA' = idMapA \union {s} /\ s \notin idMapA
        /\ sentA' = sentA \union {q \in msgMapA : q[2] = s}
        /\ UNCHANGED <<working, repliesA, lost, cuts>>
    BY <1>6 DEF Admin!Registers, Admin!Repushed
  <2>2. \A q \in sentA' : q[2] \in idMapA'
    BY <1>1, <2>1
  <2>3. RanCount'
    <3> SUFFICES ASSUME NEW q \in Admin!Part, q \notin lost
                 PROVE  /\ ranA[q] <= 1
                        /\ q \in sentA' => ranA[q] = 0
                        /\ q \in msgMapA /\ q[2] \notin idMapA' => ranA[q] = 0
      BY <1>2, <2>1 DEF RanCount, Admin!Part
    <3> QED
      BY <1>4, <2>1
  <2> QED
    BY <1>1, <1>2, <1>3, <2>1, <2>2, <2>3, AdminServers
<1> QED
  BY <1>5, <1>6

LEMMA AdminInvStep == AdminInv /\ [Admin!Next]_adminVars => AdminInv'
<1> SUFFICES ASSUME AdminInv, [Admin!Next]_adminVars PROVE AdminInv'
  OBVIOUS
<1>1. CASE UNCHANGED adminVars
  BY <1>1 DEF adminVars, AdminInv, Admin!TypeOK, Admin!Part, LoginsKept, Untouched, PendingAre,
              AnswersCount, Most, RanCount
<1> QED
  BY <1>1, AdminLogins, AdminClientHandler, AdminHandles, AdminOnMonitor, AdminReconnects DEF Admin!Next

\* The clients of the master, and their requests.
LEMMA AdminInvInductive == Spec => []AdminInv
<1>1. Init => AdminInv
  BY AdminInit DEF Init
<1>2. AdminInv /\ [Next]_vars => AdminInv'
  <2> SUFFICES ASSUME AdminInv, [Next]_vars PROVE AdminInv'
    OBVIOUS
  <2>1. [Admin!Next]_adminVars
    BY Zenon DEF Next, vars
  <2> QED
    BY <2>1, AdminInvStep
<1> QED
  BY <1>1, <1>2, PTL DEF Spec

LEMMA AdminSafe == AdminInv => Admin!OneLogin /\ Admin!AnsweredOnce /\ Admin!RanOnce
<1> SUFFICES ASSUME AdminInv PROVE Admin!OneLogin /\ Admin!AnsweredOnce /\ Admin!RanOnce
  OBVIOUS
<1>1. answersA \in [Request -> 0 .. 2] /\ ranA \in [Admin!Part -> Nat]
  BY AdminTypes DEF AdminInv
<1>2. Admin!OneLogin
  BY DEF AdminInv, LoginsKept, Admin!OneLogin
<1>3. Admin!AnsweredOnce
  BY <1>1 DEF AdminInv, AnswersCount, Most, Admin!AnsweredOnce
<1>4. Admin!RanOnce
  BY <1>1 DEF AdminInv, RanCount, Admin!RanOnce
<1> QED
  BY <1>2, <1>3, <1>4

-----------------------------------------------------------------------------

\* MapsAgree, for every set of clients, servers and connections, however often
\* connections come and go: the agent of the master (doAuthUser, addConnection,
\* removeConnection, notify) logs an id in once, its maps list the connections that are
\* registered, each once, and a message of it reaches each of them once.
THEOREM MapsAgreeCorrect == Spec => []MapsAgree
<1>1. AdminInv /\ RegistryInv => MapsAgree
  BY AdminSafe, RegistrySafe DEF MapsAgree, RegistryInv
<1> QED
  BY <1>1, AdminInvInductive, RegistryInvInductive, PTL

-----------------------------------------------------------------------------
(* The commands of operators and what is asked of the servers for them:    *)
(* console.js, countDownLatch.js, starter.js, masterAgent.js.              *)

\* What is on its way is kept until it is answered; nothing is there of a command
\* that was not given; of a process that was launched only its command is told.
AskedParts ==
  /\ \A r \in msgMapC \union answered \union toRun \union launchedC : signal[r.cmd] # "none"
  /\ \A r \in launchedC : signal[r.cmd] \in {"add", "cluster"}
  /\ sentC \subseteq msgMapC /\ repliesC \subseteq msgMapC
  /\ sentC \intersect repliesC = {} /\ answered \intersect msgMapC = {}
  /\ \A r \in sentC \union repliesC : r.to \in idMapC

\* A latch that still counts, or a stop that still waits, has not answered.
Excused(k) == signal[k] = "stop" \/ k \in late \/ (signal[k] = "add" /\ k \in failed)
Waits(k) == left[k] > 0 \/ (k \in timer /\ signal[k] = "stopAll")
LatchOf(k) ==
  /\ signal[k] \in {"none", "stopAll"} => left[k] = 0
  /\ signal[k] = "none" => answersC[k] = 0 /\ k \notin timer
  /\ ~Excused(k) => answersC[k] <= 1
  /\ ~Excused(k) /\ Waits(k) => answersC[k] = 0

ConsoleInv == Console!TypeOK /\ AskedParts /\ \A k \in Command : LatchOf(k)

LEMMA ConsoleTypes ==
  ASSUME Console!TypeOK
  PROVE  /\ proc \in [Server -> {"down", "new", "up", "ending"}]
         /\ idMapC \subseteq Server /\ stopServers \subseteq Server /\ restarting \subseteq Server
         /\ rerunning \subseteq Server /\ seen \subseteq Server
         /\ master \in {"up", "killing", "exited"} /\ signal \in [Command -> Console!Signals]
         /\ left \in [Command -> 0 .. Console!Cardinality(Server)]
         /\ timer \subseteq Command /\ late \subseteq Command
         /\ thrown \subseteq Command /\ failed \subseteq Command
         /\ answersC \in [Command -> Nat]
         /\ msgMapC \subseteq Console!Ask /\ sentC \subseteq Console!Ask
         /\ repliesC \subseteq Console!Ask /\ answered \subseteq Console!Ask
         /\ stopping \subseteq Server
         /\ toRun \subseteq Console!Ask /\ launchedC \subseteq Console!Ask
         /\ crashes \in 0 .. MaxCrashes
BY DEF Console!TypeOK

\* Every set of servers is finite.
LEMMA ServersCount ==
  /\ Console!Cardinality(Server) \in Nat
  /\ \A S \in SUBSET Server : Console!Cardinality(S) \in 0 .. Console!Cardinality(Server)
<1>1. \A S : Console!Cardinality(S) = Cardinality(S)
  BY Zenon DEF Console!Cardinality, Cardinality
<1>2. \A S : (Console!IsFiniteSet(S) <=> IsFiniteSet(S))
  BY DEF Console!IsFiniteSet, IsFiniteSet
<1>3. IsFiniteSet(Server)
  BY <1>2, ConsoleAssumption DEF Console!ConsoleAssumption
<1>4. Cardinality(Server) \in Nat
  BY <1>3, FS_CardinalityType
<1>5. \A S \in SUBSET Server : Cardinality(S) \in Nat /\ Cardinality(S) <= Cardinality(Server)
  BY <1>3, FS_Subset, FS_CardinalityType
<1> QED
  BY <1>1, <1>4, <1>5

LEMMA AsksAre ==
  ASSUME NEW k \in Command, NEW S \in SUBSET Server
  PROVE  /\ Console!Asks(k, S) \subseteq Console!Ask
         /\ \A r \in Console!Asks(k, S) : r.cmd = k /\ r.to \in S
         /\ \A T \in SUBSET S : Console!Asks(k, T) \subseteq Console!Asks(k, S)
         /\ S = {} => Console!Asks(k, S) = {}
BY DEF Console!Asks, Console!Ask

LEMMA ConsoleInit == Console!Init => ConsoleInv
<1> SUFFICES ASSUME Console!Init PROVE ConsoleInv
  OBVIOUS
<1>1. /\ \E on \in SUBSET Server :
            proc = [s \in Server |-> IF s \in on THEN "up" ELSE "down"] /\ idMapC = on /\ seen = on
      /\ stopServers = {} /\ restarting = {} /\ rerunning = {} /\ master = "up"
      /\ signal = [k \in Command |-> "none"] /\ left = [k \in Command |-> 0]
      /\ timer = {} /\ late = {} /\ thrown = {} /\ failed = {} /\ answersC = [k \in Command |-> 0]
      /\ msgMapC = {} /\ sentC = {} /\ repliesC = {} /\ answered = {} /\ stopping = {}
      /\ toRun = {} /\ launchedC = {} /\ crashes = 0
  BY DEF Console!Init
<1>2. "none" \in Console!Signals /\ MaxCrashes \in Nat
  BY ConsoleAssumption DEF Console!Signals, Console!ConsoleAssumption
<1>3. proc \in [Server -> {"down", "new", "up", "ending"}] /\ idMapC \subseteq Server /\ seen \subseteq Server
  BY <1>1
<1>4. left \in [Command -> 0 .. Console!Cardinality(Server)] /\ crashes \in 0 .. MaxCrashes
  BY <1>1, <1>2, ServersCount
<1>5. Console!TypeOK
  BY <1>1, <1>2, <1>3, <1>4 DEF Console!TypeOK
<1>6. AskedParts
  BY <1>1 DEF AskedParts
<1>7. \A k \in Command : LatchOf(k)
  BY <1>1 DEF LatchOf, Waits
<1> QED
  BY <1>5, <1>6, <1>7 DEF ConsoleInv

\* A command that is given: its latch, the servers that are asked and those it will run.
LEMMA ConsoleGives ==
  ASSUME ConsoleInv, NEW k \in Command, signal[k] = "none",
         NEW c \in Console!Signals, c # "none", signal' = [signal EXCEPT ![k] = c],
         NEW n \in 0 .. Console!Cardinality(Server), left' = [left EXCEPT ![k] = n],
         NEW m \in Nat, answersC' = [answersC EXCEPT ![k] = m],
         timer \subseteq timer', timer' \subseteq timer \union {k},
         NEW to \in SUBSET Server, NEW run \in SUBSET Server,
         msgMapC' = msgMapC \union Console!Asks(k, to),
         sentC' = sentC \union Console!Asks(k, to \intersect idMapC),
         toRun' = toRun \union Console!Asks(k, run),
         stopServers' \in SUBSET Server, stopping' \in SUBSET Server, thrown' \in SUBSET Command,
         UNCHANGED <<proc, idMapC, restarting, rerunning, seen, master, late, failed, repliesC, answered, launchedC, crashes>>,
         c # "stop" => m <= 1 /\ (n > 0 => m = 0),
         c = "stopAll" => n = 0 /\ m = 0
  PROVE  ConsoleInv'
<1>1. /\ signal \in [Command -> Console!Signals]
      /\ left \in [Command -> 0 .. Console!Cardinality(Server)] /\ timer \subseteq Command
      /\ answersC \in [Command -> Nat]
      /\ msgMapC \subseteq Console!Ask /\ sentC \subseteq Console!Ask /\ toRun \subseteq Console!Ask
      /\ answered \subseteq Console!Ask /\ launchedC \subseteq Console!Ask
      /\ repliesC \subseteq Console!Ask
  BY ConsoleTypes DEF ConsoleInv
<1>2. /\ signal'[k] = c /\ signal' \in [Command -> Console!Signals]
      /\ \A j \in Command : j # k => signal'[j] = signal[j]
      /\ left'[k] = n /\ left' \in [Command -> 0 .. Console!Cardinality(Server)]
      /\ \A j \in Command : j # k => left'[j] = left[j]
      /\ answersC'[k] = m /\ answersC' \in [Command -> Nat]
      /\ \A j \in Command : j # k => answersC'[j] = answersC[j]
  BY <1>1
<1>3. PICK A, B, R : /\ A = Console!Asks(k, to) /\ B = Console!Asks(k, to \intersect idMapC)
                     /\ R = Console!Asks(k, run)
  OBVIOUS
<1>4. /\ A \subseteq Console!Ask /\ B \subseteq A /\ R \subseteq Console!Ask
      /\ \A r \in A : r.cmd = k
      /\ \A r \in B : r.cmd = k /\ r.to \in idMapC
      /\ \A r \in R : r.cmd = k
  <2>1. to \intersect idMapC \in SUBSET Server /\ to \intersect idMapC \in SUBSET to
    OBVIOUS
  <2> QED
    BY <1>3, <2>1, AsksAre
<1>5. msgMapC' = msgMapC \union A /\ sentC' = sentC \union B /\ toRun' = toRun \union R
  BY <1>3
<1>6. AskedParts
  BY DEF ConsoleInv
<1>7. Console!TypeOK'
  <2>1. /\ timer' \subseteq Command /\ msgMapC' \subseteq Console!Ask /\ sentC' \subseteq Console!Ask
        /\ toRun' \subseteq Console!Ask
    BY <1>1, <1>4, <1>5
  <2> QED
    BY <1>2, <2>1 DEF ConsoleInv, Console!TypeOK, Console!Ask
<1>8. AskedParts'
  <2>1. \A r \in Console!Ask : r.cmd \in Command
    BY DEF Console!Ask
  <2>2. \A r \in Console!Ask : signal[r.cmd] # "none" => signal'[r.cmd] = signal[r.cmd] /\ r.cmd # k
    BY <1>2, <2>1
  <2>3. \A r \in msgMapC' \union answered \union toRun' \union launchedC : signal'[r.cmd] # "none"
    BY <1>1, <1>2, <1>4, <1>5, <1>6, <2>2 DEF AskedParts
  <2>4. \A r \in launchedC : signal'[r.cmd] \in {"add", "cluster"}
    BY <1>1, <1>6, <2>2 DEF AskedParts
  <2>5. \A r \in answered \union repliesC : r \notin A
    BY <1>4, <1>6 DEF AskedParts
  <2>6. /\ sentC' \subseteq msgMapC' /\ repliesC \subseteq msgMapC'
        /\ sentC' \intersect repliesC = {} /\ answered \intersect msgMapC' = {}
    BY <1>4, <1>5, <1>6, <2>5 DEF AskedParts
  <2>7. \A r \in sentC' \union repliesC : r.to \in idMapC
    BY <1>4, <1>5, <1>6 DEF AskedParts
  <2> QED
    BY <2>3, <2>4, <2>6, <2>7 DEF AskedParts
<1>9. ASSUME NEW j \in Command PROVE LatchOf(j)'
  <2>1. LatchOf(j)
    BY DEF ConsoleInv
  <2>2. CASE j = k
    BY <1>2, <2>2 DEF LatchOf, Excused, Waits
  <2>3. CASE j # k
    <3>1. (j \in timer' <=> j \in timer) /\ signal'[j] = signal[j] /\ left'[j] = left[j]
          /\ answersC'[j] = answersC[j]
      BY <1>2, <2>3
    <3> QED
      BY <2>1, <3>1 DEF LatchOf, Excused, Waits
  <2> QED
    BY <2>2, <2>3
<1> QED
  BY <1>7, <1>8, <1>9 DEF ConsoleInv

LEMMA ConsoleClientHandler ==
  ASSUME ConsoleInv, NEW k \in Command, Console!ClientHandler(k)
  PROVE  ConsoleInv'
<1>1. /\ idMapC \in SUBSET Server /\ stopServers \in SUBSET Server /\ stopping \in SUBSET Server
      /\ thrown \in SUBSET Command
      /\ left \in [Command -> 0 .. Console!Cardinality(Server)] /\ answersC \in [Command -> Nat]
      /\ Console!Cardinality(Server) \in Nat /\ \A S \in SUBSET Server : Console!Cardinality(S) \in 0 .. Console!Cardinality(Server)
  BY ConsoleTypes, ServersCount DEF ConsoleInv
<1>2. ASSUME NEW c, Console!Given(k, c)
      PROVE  /\ signal[k] = "none" /\ signal' = [signal EXCEPT ![k] = c]
             /\ left = [left EXCEPT ![k] = 0] /\ answersC = [answersC EXCEPT ![k] = 0]
  <2>1. signal[k] = "none" /\ signal' = [signal EXCEPT ![k] = c]
    BY <1>2 DEF Console!Given
  <2>2. left[k] = 0 /\ answersC[k] = 0
    BY <2>1 DEF ConsoleInv, LatchOf
  <2> QED
    BY <1>1, <2>1, <2>2
<1>3. /\ {} \in SUBSET Server /\ {} \intersect idMapC = {} /\ Console!Asks(k, {}) = {}
      /\ idMapC \intersect idMapC = idMapC
  BY AsksAre
<1>4. msgMapC = msgMapC \union {} /\ sentC = sentC \union {} /\ toRun = toRun \union {}
  OBVIOUS
<1>5. /\ {"kill", "list", "stop", "stopAll", "restart", "emptied", "add", "cluster", "notify"} \subseteq Console!Signals
      /\ 0 \in 0 .. Console!Cardinality(Server) /\ 0 \in Nat /\ 1 \in Nat
  BY <1>1 DEF Console!Signals
\* Servers are asked, a latch counts.
<1>6. ASSUME NEW c \in {"kill", "list", "restart"}, Console!Given(k, c),
             NEW to \in SUBSET Server, Console!AskServer(k, to), NEW n \in 0 .. Console!Cardinality(Server),
             left' = [left EXCEPT ![k] = n], timer' = Console!LatchTimer(k, n),
             NEW m \in Nat, answersC' = [answersC EXCEPT ![k] = m], m <= 1, n > 0 => m = 0,
             UNCHANGED <<proc, idMapC, stopServers, restarting, rerunning, seen, master, late, thrown, failed, toRun,
                         launchedC, crashes>>
      PROVE  ConsoleInv'
  <2>1. /\ msgMapC' = msgMapC \union Console!Asks(k, to)
        /\ sentC' = sentC \union Console!Asks(k, to \intersect idMapC)
        /\ UNCHANGED <<repliesC, answered, stopping>>
    BY <1>6 DEF Console!AskServer
  <2>2. timer \subseteq timer' /\ timer' \subseteq timer \union {k}
    BY <1>6 DEF Console!LatchTimer
  <2>3. /\ toRun' = toRun \union Console!Asks(k, {})
        /\ stopServers' \in SUBSET Server /\ stopping' \in SUBSET Server /\ thrown' \in SUBSET Command
    BY <1>1, <1>3, <1>6, <2>1
  <2>4. c \in Console!Signals /\ c # "none" /\ c # "stopAll"
    BY <1>5
  <2> QED
    BY <1>2, <1>3, <1>6, <2>1, <2>2, <2>3, <2>4, ConsoleGives
\* Nothing is asked of a server.
<1>7. ASSUME NEW c \in Console!Signals \ {"none"}, Console!Given(k, c),
             NEW m \in Nat, answersC' = [answersC EXCEPT ![k] = m],
             NEW n \in 0 .. Console!Cardinality(Server), left' = [left EXCEPT ![k] = n],
             timer' = timer \/ timer' = timer \union {k},
             NEW run \in SUBSET Server, toRun' = toRun \union Console!Asks(k, run),
             stopServers' \in SUBSET Server, stopping' \in SUBSET Server, thrown' \in SUBSET Command,
             UNCHANGED <<proc, idMapC, restarting, rerunning, seen, master, msgMapC, sentC, repliesC, answered, late,
                         failed, launchedC, crashes>>,
             c # "stop" => m <= 1 /\ (n > 0 => m = 0),
             c = "stopAll" => n = 0 /\ m = 0
      PROVE  ConsoleInv'
  <2>1. /\ msgMapC' = msgMapC \union Console!Asks(k, {})
        /\ sentC' = sentC \union Console!Asks(k, {} \intersect idMapC)
        /\ timer \subseteq timer' /\ timer' \subseteq timer \union {k}
    BY <1>3, <1>7
  <2> QED
    BY <1>2, <1>3, <1>7, <2>1, ConsoleGives
<1>8. ASSUME NEW c \in {"kill", "list"}, Console!AskAll(k, c) PROVE ConsoleInv'
  <2> DEFINE n == Console!Cardinality(idMapC)
             m == 0
  <2>1. /\ Console!Given(k, c) /\ Console!AskServer(k, idMapC)
        /\ left' = [left EXCEPT ![k] = n] /\ timer' = Console!LatchTimer(k, n)
        /\ UNCHANGED <<proc, idMapC, stopServers, restarting, rerunning, seen, master, answersC, late, thrown, failed,
                       toRun, launchedC, crashes>>
    BY <1>8 DEF Console!AskAll
  <2>2. idMapC \in SUBSET Server /\ n \in 0 .. Console!Cardinality(Server)
    BY <1>1
  <2>3. answersC' = [answersC EXCEPT ![k] = m]
    BY <1>2, <2>1
  <2>4. m \in Nat /\ m <= 1 /\ (n > 0 => m = 0)
    OBVIOUS
  <2> HIDE DEF n, m
  <2> QED
    BY <1>6, <2>1, <2>2, <2>3, <2>4
<1>9. ASSUME NEW ids \in SUBSET Server, Console!Restart(k, ids) PROVE ConsoleInv'
  <2> DEFINE to == IF ids = {} THEN idMapC ELSE ids
             n == Console!Cardinality(to \intersect idMapC)
             m == IF n > 0 THEN 0 ELSE 1
  <2>1. /\ Console!Given(k, "restart") /\ left' = [left EXCEPT ![k] = n]
        /\ timer' = Console!LatchTimer(k, n) /\ answersC' = [answersC EXCEPT ![k] = m]
        /\ Console!AskServer(k, to)
        /\ UNCHANGED <<proc, idMapC, stopServers, restarting, rerunning, seen, master, late, thrown, failed,
                       toRun, launchedC, crashes>>
    BY <1>9 DEF Console!Restart
  <2>2. to \in SUBSET Server /\ n \in 0 .. Console!Cardinality(Server)
    BY <1>1
  <2>3. m \in Nat /\ m <= 1 /\ (n > 0 => m = 0)
    OBVIOUS
  <2> HIDE DEF to, n, m
  <2> QED
    BY <1>6, <2>1, <2>2, <2>3
<1>10. ASSUME NEW ids \in SUBSET Server, Console!StopSome(k, ids) PROVE ConsoleInv'
  <2> DEFINE m == Console!Cardinality(ids \ idMapC) + 1
             n == 0
             run == {}
  <2>1. /\ Console!Given(k, "stop") /\ stopServers' = ids
        /\ stopping' = stopping \union (ids \intersect idMapC)
        /\ answersC' = [answersC EXCEPT ![k] = m]
        /\ UNCHANGED <<proc, idMapC, restarting, rerunning, seen, master, msgMapC, sentC, repliesC, answered,
                       left, timer, late, thrown, failed, toRun, launchedC, crashes>>
    BY <1>10 DEF Console!StopSome
  <2>2. m \in Nat
    <3>1. ids \ idMapC \in SUBSET Server
      OBVIOUS
    <3>2. Console!Cardinality(ids \ idMapC) \in 0 .. Console!Cardinality(Server)
      BY <1>1, <3>1
    <3> QED
      BY <3>2
  <2>3. /\ left' = [left EXCEPT ![k] = n] /\ n \in 0 .. Console!Cardinality(Server)
        /\ run \in SUBSET Server /\ toRun' = toRun \union Console!Asks(k, run)
        /\ stopServers' \in SUBSET Server /\ stopping' \in SUBSET Server /\ thrown' \in SUBSET Command
    BY <1>1, <1>2, <1>3, <2>1
  <2>4. "stop" \in Console!Signals \ {"none"}
    BY <1>5
  <2> HIDE DEF m, n, run
  <2> QED
    BY <1>7, <2>1, <2>2, <2>3, <2>4
<1>11. ASSUME Console!StopAll(k) PROVE ConsoleInv'
  <2> DEFINE m == 0
             n == 0
             run == {}
  <2>1. /\ Console!Given(k, "stopAll") /\ stopServers' = idMapC
        /\ stopping' = stopping \union idMapC /\ timer' = timer \union {k}
        /\ UNCHANGED <<proc, idMapC, restarting, rerunning, seen, master, msgMapC, sentC, repliesC, answered,
                       left, answersC, late, thrown, failed, toRun, launchedC, crashes>>
    BY <1>11 DEF Console!StopAll
  <2>2. /\ left' = [left EXCEPT ![k] = n] /\ answersC' = [answersC EXCEPT ![k] = m]
        /\ run \in SUBSET Server /\ toRun' = toRun \union Console!Asks(k, run)
        /\ stopServers' \in SUBSET Server /\ stopping' \in SUBSET Server /\ thrown' \in SUBSET Command
    BY <1>1, <1>2, <1>3, <2>1
  <2>3. /\ "stopAll" \in Console!Signals \ {"none"} /\ n = 0 /\ m = 0 /\ m \in Nat
        /\ n \in 0 .. Console!Cardinality(Server) /\ m <= 1
    BY <1>5
  <2> HIDE DEF m, n, run
  <2> QED
    BY <1>7, <2>1, <2>2, <2>3
<1>12. ASSUME NEW c \in {"restart", "add", "notify"}, Console!Given(k, c),
              answersC' = [answersC EXCEPT ![k] = 1],
              thrown' = thrown \/ thrown' = thrown \union {k},
              UNCHANGED <<proc, idMapC, stopServers, restarting, rerunning, seen, master, msgMapC, sentC, repliesC, answered,
                          stopping, left, timer, late, failed, toRun, launchedC, crashes>>
       PROVE  ConsoleInv'
  <2> DEFINE m == 1
             n == 0
             run == {}
  <2>1. /\ left' = [left EXCEPT ![k] = n] /\ answersC' = [answersC EXCEPT ![k] = m]
        /\ run \in SUBSET Server /\ toRun' = toRun \union Console!Asks(k, run)
        /\ stopServers' \in SUBSET Server /\ stopping' \in SUBSET Server /\ thrown' \in SUBSET Command
    BY <1>1, <1>2, <1>3, <1>12
  <2>2. /\ c \in Console!Signals \ {"none"} /\ c # "stopAll" /\ m \in Nat
        /\ n \in 0 .. Console!Cardinality(Server) /\ m <= 1 /\ (n > 0 => m = 0)
    BY <1>5
  <2> HIDE DEF m, n, run
  <2> QED
    BY <1>7, <1>12, <2>1, <2>2
<1>13. ASSUME Console!RestartNone(k) \/ Console!Notify(k) \/ Console!Malformed(k) PROVE ConsoleInv'
  <2>1. PICK c \in {"restart", "add", "notify"} : Console!Given(k, c)
    BY <1>13 DEF Console!RestartNone, Console!Notify, Console!Malformed
  <2>2. /\ answersC' = [answersC EXCEPT ![k] = 1]
        /\ thrown' = thrown \/ thrown' = thrown \union {k}
        /\ UNCHANGED <<proc, idMapC, stopServers, restarting, rerunning, seen, master, msgMapC, sentC, repliesC, answered,
                       stopping, left, timer, late, failed, toRun, launchedC, crashes>>
    BY <1>13 DEF Console!RestartNone, Console!Notify, Console!Malformed, Console!requests
  <2> QED
    BY <1>12, <2>1, <2>2
<1>16. ASSUME Console!RestartEmptied(k) PROVE ConsoleInv'
  <2> DEFINE m == 0
             n == 0
             run == {}
  <2>1. /\ Console!Given(k, "emptied") /\ thrown' = thrown \union {k}
        /\ UNCHANGED <<proc, idMapC, stopServers, restarting, rerunning, seen, master, msgMapC, sentC, repliesC,
                       answered, stopping, left, timer, answersC, late, failed, toRun, launchedC, crashes>>
    BY <1>16 DEF Console!RestartEmptied, Console!requests
  <2>2. /\ left' = [left EXCEPT ![k] = n] /\ answersC' = [answersC EXCEPT ![k] = m]
        /\ run \in SUBSET Server /\ toRun' = toRun \union Console!Asks(k, run)
        /\ stopServers' \in SUBSET Server /\ stopping' \in SUBSET Server /\ thrown' \in SUBSET Command
    BY <1>1, <1>2, <1>3, <2>1
  <2>3. /\ "emptied" \in Console!Signals \ {"none"} /\ n = 0 /\ m = 0 /\ m \in Nat
        /\ n \in 0 .. Console!Cardinality(Server) /\ m <= 1
    BY <1>5
  <2> HIDE DEF m, n, run
  <2> QED
    BY <1>7, <2>1, <2>2, <2>3
<1>14. ASSUME NEW ids \in SUBSET Server, NEW c \in {"add", "cluster"}, Console!StartServers(k, ids, c)
       PROVE  ConsoleInv'
  <2> DEFINE m == 0
             n == Console!Cardinality(ids)
  <2>1. /\ Console!Given(k, c) /\ left' = [left EXCEPT ![k] = n]
        /\ toRun' = toRun \union Console!Asks(k, ids)
        /\ UNCHANGED <<proc, idMapC, stopServers, restarting, rerunning, seen, master, msgMapC, sentC, repliesC, answered,
                       stopping, timer, answersC, late, thrown, failed, launchedC, crashes>>
    BY <1>14 DEF Console!StartServers, Console!requests
  <2>2. n \in 0 .. Console!Cardinality(Server) /\ m \in Nat /\ m <= 1 /\ m = 0
    BY <1>1
  <2>3. /\ answersC' = [answersC EXCEPT ![k] = m]
        /\ stopServers' \in SUBSET Server /\ stopping' \in SUBSET Server /\ thrown' \in SUBSET Command
    BY <1>1, <1>2, <2>1
  <2>4. c \in Console!Signals \ {"none"} /\ c # "stopAll"
    BY <1>5
  <2> HIDE DEF m, n
  <2> QED
    BY <1>7, <2>1, <2>2, <2>3, <2>4
<1>15. ASSUME Console!Add(k) PROVE ConsoleInv'
  BY <1>14, <1>15 DEF Console!Add, Console!StartServer, Console!StartCluster
<1> QED
  BY <1>8, <1>9, <1>10, <1>11, <1>13, <1>15, <1>16
     DEF Console!ClientHandler, Console!Kill, Console!List, Console!SendCronInfo, Console!Blacklist

\* What the servers and the connections do: no command is answered by it.
LEMMA ConsoleServers ==
  ASSUME ConsoleInv, UNCHANGED <<signal, left, timer, answersC, late, thrown, failed, toRun, launchedC>>,
         UNCHANGED <<msgMapC, answered>>,
         proc' \in [Server -> {"down", "new", "up", "ending"}], idMapC' \in SUBSET Server,
         stopServers' \in SUBSET Server, restarting' \in SUBSET Server, stopping' \in SUBSET Server,
         rerunning' \in SUBSET Server, seen' \in SUBSET Server,
         master' \in {"up", "killing", "exited"}, crashes' \in 0 .. MaxCrashes,
         sentC' \subseteq msgMapC, repliesC' \subseteq msgMapC, sentC' \intersect repliesC' = {},
         \A r \in sentC' \union repliesC' : r.to \in idMapC'
  PROVE  ConsoleInv'
<1>1. /\ AskedParts /\ \A k \in Command : LatchOf(k)
      /\ msgMapC \subseteq Console!Ask
  BY ConsoleTypes DEF ConsoleInv
<1>2. Console!TypeOK'
  BY <1>1 DEF ConsoleInv, Console!TypeOK, Console!Ask
<1>3. AskedParts'
  BY <1>1 DEF AskedParts
<1>4. ASSUME NEW k \in Command PROVE LatchOf(k)'
  BY <1>1 DEF LatchOf, Excused, Waits
<1> QED
  BY <1>2, <1>3, <1>4 DEF ConsoleInv

\* Servers that come, handle what they get, stop, end, and are run again.
LEMMA ConsoleMonitors ==
  ASSUME ConsoleInv,
         \/ \E r \in Console!Ask : Console!Handle(r)
         \/ \E s \in Server : \/ Console!Registers(s) \/ Console!HandleStop(s) \/ Console!Ends(s)
                              \/ Console!Crashes(s) \/ Console!Disconnect(s)
                              \/ Console!CheckPort(s) \/ Console!RunAgain(s)
         \/ Console!MasterExits
  PROVE  ConsoleInv'
<1>1. /\ proc \in [Server -> {"down", "new", "up", "ending"}] /\ idMapC \in SUBSET Server
      /\ stopServers \in SUBSET Server /\ restarting \in SUBSET Server /\ stopping \in SUBSET Server
      /\ rerunning \in SUBSET Server /\ seen \in SUBSET Server
      /\ master \in {"up", "killing", "exited"} /\ crashes \in 0 .. MaxCrashes /\ MaxCrashes \in Nat
      /\ sentC \subseteq msgMapC /\ repliesC \subseteq msgMapC /\ sentC \intersect repliesC = {}
      /\ \A r \in sentC \union repliesC : r.to \in idMapC
  BY ConsoleTypes, ConsoleAssumption DEF ConsoleInv, AskedParts, Console!ConsoleAssumption
<1>2. /\ UNCHANGED <<signal, left, timer, answersC, late, thrown, failed, toRun, launchedC>>
      /\ UNCHANGED <<msgMapC, answered>>
  BY DEF Console!Handle, Console!Registers, Console!HandleStop, Console!Ends, Console!Crashes,
         Console!Disconnect, Console!CheckPort, Console!RunAgain, Console!MasterExits, Console!requests, Console!commands
<1>3. ASSUME NEW r \in Console!Ask, Console!Handle(r) PROVE ConsoleInv'
  <2>1. /\ r \in sentC /\ sentC' = sentC \ {r} /\ (repliesC' = repliesC \/ repliesC' = repliesC \union {r})
        /\ \/ proc' = proc
           \/ proc' = [proc EXCEPT ![r.to] = "ending"]
        /\ UNCHANGED <<idMapC, stopServers, restarting, rerunning, seen, master, stopping, crashes>>
    BY <1>3 DEF Console!Handle
  <2>2. proc' \in [Server -> {"down", "new", "up", "ending"}]
    BY <1>1, <2>1
  <2>3. /\ sentC' \subseteq msgMapC /\ repliesC' \subseteq msgMapC /\ sentC' \intersect repliesC' = {}
        /\ \A q \in sentC' \union repliesC' : q.to \in idMapC'
    BY <1>1, <2>1
  <2> QED
    BY <1>1, <1>2, <2>1, <2>2, <2>3, ConsoleServers
<1>4. ASSUME NEW s \in Server, Console!Registers(s) PROVE ConsoleInv'
  <2>1. /\ s \notin idMapC /\ proc' = [proc EXCEPT ![s] = "up"] /\ idMapC' = idMapC \union {s}
        /\ seen' = seen \union {s} /\ sentC' = sentC \union {r \in msgMapC : r.to = s}
        /\ UNCHANGED <<stopServers, restarting, rerunning, master, repliesC, stopping, crashes>>
    BY <1>4 DEF Console!Registers
  <2>2. /\ proc' \in [Server -> {"down", "new", "up", "ending"}] /\ idMapC' \in SUBSET Server
        /\ seen' \in SUBSET Server
    BY <1>1, <2>1
  <2>3. /\ sentC' \subseteq msgMapC /\ repliesC' \subseteq msgMapC /\ sentC' \intersect repliesC' = {}
        /\ \A q \in sentC' \union repliesC' : q.to \in idMapC'
    BY <1>1, <2>1
  <2> QED
    BY <1>1, <1>2, <2>1, <2>2, <2>3, ConsoleServers
<1>5. ASSUME NEW s \in Server, Console!Disconnect(s) PROVE ConsoleInv'
  <2>1. /\ idMapC' = idMapC \ {s}
        /\ sentC' = {r \in sentC : r.to # s} /\ repliesC' = {r \in repliesC : r.to # s}
        /\ stopping' = stopping \ {s}
        /\ restarting' = restarting \/ restarting' = restarting \union {s}
        /\ UNCHANGED <<proc, stopServers, rerunning, seen, master, crashes>>
    BY <1>5 DEF Console!Disconnect
  <2>2. /\ idMapC' \in SUBSET Server /\ stopping' \in SUBSET Server /\ restarting' \in SUBSET Server
        /\ proc' \in [Server -> {"down", "new", "up", "ending"}]
    BY <1>1, <2>1
  <2>3. /\ sentC' \subseteq msgMapC /\ repliesC' \subseteq msgMapC /\ sentC' \intersect repliesC' = {}
        /\ \A q \in sentC' \union repliesC' : q.to \in idMapC'
    BY <1>1, <2>1
  <2> QED
    BY <1>1, <1>2, <2>1, <2>2, <2>3, ConsoleServers
<1>6. ASSUME UNCHANGED <<idMapC, stopServers, seen, sentC, repliesC>>, rerunning' \in SUBSET Server,
             proc' = proc \/ \E s \in Server, st \in {"down", "new", "ending"} : proc' = [proc EXCEPT ![s] = st],
             restarting' \subseteq restarting, stopping' \subseteq stopping,
             master' \in {"up", "killing", "exited"}, crashes' \in 0 .. MaxCrashes
      PROVE  ConsoleInv'
  <2>1. proc' \in [Server -> {"down", "new", "up", "ending"}]
    BY <1>1, <1>6
  <2>2. restarting' \in SUBSET Server /\ stopping' \in SUBSET Server
    BY <1>1, <1>6
  <2> QED
    BY <1>1, <1>2, <1>6, <2>1, <2>2, ConsoleServers
<1>7. ASSUME NEW s \in Server, Console!HandleStop(s) \/ Console!Ends(s) PROVE ConsoleInv'
  BY <1>1, <1>6, <1>7 DEF Console!HandleStop, Console!Ends, Console!requests
<1>8. ASSUME NEW s \in Server, Console!Crashes(s) PROVE ConsoleInv'
  <2>1. /\ proc' = [proc EXCEPT ![s] = "down"] /\ crashes' \in 0 .. MaxCrashes
        /\ UNCHANGED <<idMapC, stopServers, sentC, repliesC, restarting, rerunning, seen, stopping, master>>
    BY <1>1, <1>8 DEF Console!Crashes, Console!requests
  <2> QED
    BY <1>1, <1>6, <2>1
<1>9. ASSUME NEW s \in Server, Console!CheckPort(s) \/ Console!RunAgain(s) PROVE ConsoleInv'
  BY <1>1, <1>6, <1>9 DEF Console!CheckPort, Console!RunAgain, Console!RunProcess, Console!requests
<1>10. ASSUME Console!MasterExits PROVE ConsoleInv'
  BY <1>1, <1>6, <1>10 DEF Console!MasterExits, Console!requests
<1> QED
  BY <1>3, <1>4, <1>5, <1>7, <1>8, <1>9, <1>10

\* A step of one command that was given: what it leaves alone.
LEMMA ConsoleGoesOn ==
  ASSUME ConsoleInv, NEW k \in Command, signal[k] # "none", UNCHANGED signal,
         UNCHANGED <<idMapC, stopServers, restarting, rerunning, seen, stopping, crashes>>,
         proc' \in [Server -> {"down", "new", "up", "ending"}], master' \in {"up", "killing", "exited"},
         left' \in [Command -> 0 .. Console!Cardinality(Server)], answersC' \in [Command -> Nat],
         \A j \in Command : j # k => left'[j] = left[j] /\ answersC'[j] = answersC[j],
         timer' \subseteq timer, \A j \in timer : j # k => j \in timer',
         late' \in SUBSET Command, thrown' \in SUBSET Command, failed' \in SUBSET Command,
         late \subseteq late', failed \subseteq failed',
         sentC' = sentC, repliesC' \subseteq repliesC,
         answered' \in SUBSET Console!Ask,
         msgMapC' \subseteq msgMapC, sentC' \subseteq msgMapC', repliesC' \subseteq msgMapC',
         answered' \intersect msgMapC' = {},
         toRun' \in SUBSET Console!Ask, launchedC' \in SUBSET Console!Ask,
         \A r \in answered' \union toRun' \union launchedC' :
           r \in answered \union toRun \union launchedC \/ r.cmd = k,
         \A r \in launchedC' : r \in launchedC \/ signal[r.cmd] \in {"add", "cluster"},
         LatchOf(k)'
  PROVE  ConsoleInv'
<1>1. /\ AskedParts /\ \A j \in Command : LatchOf(j)
      /\ msgMapC \subseteq Console!Ask /\ repliesC \subseteq Console!Ask /\ timer \subseteq Command
  BY ConsoleTypes DEF ConsoleInv
<1>2. Console!TypeOK'
  BY <1>1 DEF ConsoleInv, Console!TypeOK, Console!Ask
<1>3. AskedParts'
  <2>1. \A r \in msgMapC' \union answered' \union toRun' \union launchedC' : signal[r.cmd] # "none"
    BY <1>1 DEF AskedParts
  <2>2. \A r \in launchedC' : signal[r.cmd] \in {"add", "cluster"}
    BY <1>1 DEF AskedParts
  <2>3. sentC' \intersect repliesC' = {} /\ \A r \in sentC' \union repliesC' : r.to \in idMapC
    BY <1>1 DEF AskedParts
  <2> QED
    BY <2>1, <2>2, <2>3 DEF AskedParts
<1>4. ASSUME NEW j \in Command PROVE LatchOf(j)'
  <2>1. CASE j = k
    BY <2>1
  <2>2. CASE j # k
    <3>1. /\ LatchOf(j) /\ (j \in timer' <=> j \in timer) /\ signal'[j] = signal[j]
          /\ left'[j] = left[j] /\ answersC'[j] = answersC[j]
          /\ (j \in late => j \in late') /\ (j \in failed => j \in failed')
      BY <1>1, <2>2
    <3> QED
      BY <3>1 DEF LatchOf, Excused, Waits
  <2> QED
    BY <2>1, <2>2
<1> QED
  BY <1>2, <1>3, <1>4 DEF ConsoleInv

\* The latch of a command counts an answer.
LEMMA LatchCountsDown ==
  ASSUME ConsoleInv, NEW k \in Command, signal[k] # "none", UNCHANGED <<signal, late>>,
         failed \subseteq failed', Console!Done(k)
  PROVE  /\ left' \in [Command -> 0 .. Console!Cardinality(Server)] /\ answersC' \in [Command -> Nat]
         /\ \A j \in Command : j # k => left'[j] = left[j] /\ answersC'[j] = answersC[j]
         /\ timer' \subseteq timer /\ \A j \in timer : j # k => j \in timer'
         /\ thrown' \in SUBSET Command
         /\ LatchOf(k)'
<1>1. /\ left \in [Command -> 0 .. Console!Cardinality(Server)] /\ answersC \in [Command -> Nat]
      /\ timer \subseteq Command /\ thrown \subseteq Command /\ Console!Cardinality(Server) \in Nat
      /\ LatchOf(k)
  BY ConsoleTypes, ServersCount DEF ConsoleInv
<1>2. CASE left[k] = 0
  <2>1. thrown' = thrown \union {k} /\ UNCHANGED <<left, timer, answersC>>
    BY <1>2 DEF Console!Done
  <2> QED
    BY <1>1, <2>1 DEF LatchOf, Excused, Waits
<1>3. CASE left[k] # 0
  <2>1. /\ left' = [left EXCEPT ![k] = @ - 1] /\ UNCHANGED thrown
        /\ \/ /\ left[k] = 1 /\ timer' = timer \ {k} /\ answersC' = [answersC EXCEPT ![k] = @ + 1]
           \/ left[k] # 1 /\ UNCHANGED <<timer, answersC>>
    BY <1>3 DEF Console!Done
  <2>2. /\ left'[k] = left[k] - 1 /\ left[k] \in 1 .. Console!Cardinality(Server)
        /\ left' \in [Command -> 0 .. Console!Cardinality(Server)]
        /\ \A j \in Command : j # k => left'[j] = left[j]
    BY <1>1, <1>3, <2>1
  <2>3. /\ answersC' \in [Command -> Nat] /\ answersC[k] \in Nat
        /\ \A j \in Command : j # k => answersC'[j] = answersC[j]
        /\ timer' \subseteq timer /\ \A j \in timer : j # k => j \in timer'
        /\ \/ left[k] = 1 /\ answersC'[k] = answersC[k] + 1
           \/ left[k] > 1 /\ answersC'[k] = answersC[k]
    BY <1>1, <2>1, <2>2
  <2>4. signal[k] # "stopAll"
    BY <1>1, <1>3 DEF LatchOf
  <2>5. ~Excused(k) => answersC[k] = 0
    BY <1>1, <2>2 DEF LatchOf, Waits
  <2>6. (~Excused(k))' => ~Excused(k)
    BY DEF Excused
  <2>7. LatchOf(k)'
    BY <2>2, <2>3, <2>4, <2>5, <2>6 DEF LatchOf, Waits
  <2> QED
    BY <1>1, <2>1, <2>2, <2>3, <2>7
<1> QED
  BY <1>2, <1>3

\* A latch that times out, and the last step of a stop of all.
LEMMA ConsoleTimers ==
  ASSUME ConsoleInv, NEW k \in Command, Console!Timers(k)
  PROVE  ConsoleInv'
<1>1. /\ proc \in [Server -> {"down", "new", "up", "ending"}] /\ master \in {"up", "killing", "exited"}
      /\ left \in [Command -> 0 .. Console!Cardinality(Server)] /\ answersC \in [Command -> Nat]
      /\ timer \subseteq Command /\ thrown \subseteq Command /\ late \subseteq Command /\ failed \subseteq Command
      /\ answered \subseteq Console!Ask /\ toRun \subseteq Console!Ask /\ launchedC \subseteq Console!Ask
      /\ AskedParts /\ LatchOf(k)
  BY ConsoleTypes DEF ConsoleInv
<1>2. /\ k \in timer /\ timer' = timer \ {k} /\ answersC' = [answersC EXCEPT ![k] = @ + 1]
      /\ master' \in {"up", "killing", "exited"}
      /\ \/ signal[k] # "stopAll" /\ late' = late \union {k}
         \/ signal[k] = "stopAll" /\ late' = late
      /\ UNCHANGED <<proc, idMapC, stopServers, restarting, rerunning, seen, msgMapC, sentC, repliesC, answered, stopping,
                     signal, left, thrown, failed, toRun, launchedC, crashes>>
  BY <1>1 DEF Console!Timers, Console!LatchTimeout, Console!StopMaster, Console!requests
<1>3. signal[k] # "none"
  BY <1>1, <1>2 DEF LatchOf
<1>4. /\ answersC' \in [Command -> Nat] /\ answersC'[k] = answersC[k] + 1
      /\ \A j \in Command : j # k => answersC'[j] = answersC[j]
  BY <1>1, <1>2
<1>5. LatchOf(k)'
  <2>1. CASE signal[k] # "stopAll"
    <3>1. Excused(k)'
      BY <1>2, <2>1 DEF Excused
    <3> QED
      BY <1>2, <1>3, <2>1, <3>1 DEF LatchOf
  <2>2. CASE signal[k] = "stopAll"
    <3>1. left[k] = 0 /\ (~Excused(k) => answersC[k] = 0)
      BY <1>1, <1>2, <2>2 DEF LatchOf, Waits
    <3>2. (~Excused(k))' => ~Excused(k)
      BY <1>2 DEF Excused
    <3> QED
      BY <1>2, <1>4, <2>2, <3>1, <3>2 DEF LatchOf, Waits
  <2> QED
    BY <2>1, <2>2
<1>6. /\ late' \in SUBSET Command /\ late \subseteq late'
      /\ sentC' \subseteq msgMapC' /\ repliesC' \subseteq msgMapC' /\ answered' \intersect msgMapC' = {}
  BY <1>1, <1>2 DEF AskedParts
<1> QED
  BY <1>1, <1>2, <1>3, <1>4, <1>5, <1>6, ConsoleGoesOn

\* A server is launched, a process that was launched fails, the answer of a server comes.
LEMMA ConsoleCounts ==
  ASSUME ConsoleInv, NEW r \in Console!Ask,
         Console!Run(r) \/ Console!LaunchedFails(r) \/ Console!Reply(r)
  PROVE  ConsoleInv'
<1> DEFINE k == r.cmd
<1>1. /\ proc \in [Server -> {"down", "new", "up", "ending"}] /\ master \in {"up", "killing", "exited"}
      /\ left \in [Command -> 0 .. Console!Cardinality(Server)] /\ answersC \in [Command -> Nat]
      /\ timer \subseteq Command /\ thrown \subseteq Command /\ late \subseteq Command /\ failed \subseteq Command
      /\ answered \subseteq Console!Ask /\ toRun \subseteq Console!Ask /\ launchedC \subseteq Console!Ask
      /\ AskedParts
  BY ConsoleTypes DEF ConsoleInv
<1>2. k \in Command /\ r.to \in Server
  BY DEF Console!Ask
<1>3. /\ r \in toRun \union launchedC \union repliesC
      /\ UNCHANGED <<idMapC, stopServers, restarting, rerunning, seen, stopping, crashes, signal, late, sentC>>
  BY DEF Console!Run, Console!LaunchedFails, Console!Reply, Console!requests
<1>4. signal[k] # "none" /\ LatchOf(k)
  BY <1>1, <1>2, <1>3 DEF ConsoleInv, AskedParts
<1>5. /\ sentC \subseteq msgMapC /\ repliesC \subseteq msgMapC /\ answered \intersect msgMapC = {}
      /\ sentC \intersect repliesC = {}
  BY <1>1 DEF AskedParts
<1> HIDE DEF k
<1>6. CASE Console!Run(r)
  <2>1. /\ toRun' = toRun \ {r} /\ Console!Done(k)
        /\ \/ UNCHANGED <<proc, launchedC>>
           \/ /\ proc' = [proc EXCEPT ![r.to] = "new"]
              /\ \/ launchedC' = launchedC
                 \/ signal[k] \in {"add", "cluster"} /\ launchedC' = launchedC \union {r}
        /\ UNCHANGED <<master, msgMapC, repliesC, answered, failed>>
    BY <1>6 DEF k, Console!Run, Console!SpawnProcess, Console!RunProcess, Console!requests
  <2>2. /\ proc' \in [Server -> {"down", "new", "up", "ending"}]
        /\ toRun' \in SUBSET Console!Ask /\ launchedC' \in SUBSET Console!Ask
        /\ \A q \in answered' \union toRun' \union launchedC' :
             q \in answered \union toRun \union launchedC \/ q.cmd = k
        /\ \A q \in launchedC' : q \in launchedC \/ signal[q.cmd] \in {"add", "cluster"}
    BY <1>1, <1>2, <2>1 DEF k
  <2>3. /\ left' \in [Command -> 0 .. Console!Cardinality(Server)] /\ answersC' \in [Command -> Nat]
        /\ \A j \in Command : j # k => left'[j] = left[j] /\ answersC'[j] = answersC[j]
        /\ timer' \subseteq timer /\ \A j \in timer : j # k => j \in timer'
        /\ thrown' \in SUBSET Command
        /\ LatchOf(k)'
    BY <1>2, <1>3, <1>4, <2>1, LatchCountsDown
  <2> QED
    BY <1>1, <1>2, <1>3, <1>4, <1>5, <2>1, <2>2, <2>3, ConsoleGoesOn
<1>7. CASE Console!LaunchedFails(r)
  <2>1. /\ r \in launchedC /\ launchedC' = launchedC \ {r} /\ failed' = failed \union {k}
        /\ \/ signal[k] = "cluster" /\ Console!Done(k)
           \/ /\ signal[k] # "cluster" /\ answersC' = [answersC EXCEPT ![k] = @ + 1]
              /\ UNCHANGED <<left, timer, thrown>>
        /\ UNCHANGED <<proc, master, msgMapC, repliesC, answered, toRun>>
    BY <1>7 DEF k, Console!LaunchedFails, Console!requests
  <2>2. /\ failed' \in SUBSET Command /\ launchedC' \in SUBSET Console!Ask
        /\ signal[k] \in {"add", "cluster"}
    BY <1>1, <1>2, <2>1 DEF k, AskedParts
  <2>3. /\ left' \in [Command -> 0 .. Console!Cardinality(Server)] /\ answersC' \in [Command -> Nat]
        /\ \A j \in Command : j # k => left'[j] = left[j] /\ answersC'[j] = answersC[j]
        /\ timer' \subseteq timer /\ \A j \in timer : j # k => j \in timer'
        /\ thrown' \in SUBSET Command
        /\ LatchOf(k)'
    <3>1. CASE Console!Done(k)
      BY <1>2, <1>3, <1>4, <2>1, <3>1, LatchCountsDown
    <3>2. CASE signal[k] = "add" /\ answersC' = [answersC EXCEPT ![k] = @ + 1] /\ UNCHANGED <<left, timer, thrown>>
      <4>1. Excused(k)'
        BY <1>3, <2>1, <3>2 DEF Excused
      <4>2. LatchOf(k)'
        BY <1>3, <3>2, <4>1 DEF LatchOf
      <4> QED
        BY <1>1, <1>2, <3>2, <4>2
    <3> QED
      BY <2>1, <2>2, <3>1, <3>2
  <2> QED
    BY <1>1, <1>2, <1>3, <1>4, <1>5, <2>1, <2>2, <2>3, ConsoleGoesOn
<1>8. CASE Console!Reply(r)
  <2>1. /\ r \in repliesC /\ repliesC' = repliesC \ {r} /\ msgMapC' = msgMapC \ {r}
        /\ answered' = answered \union {r}
        /\ \/ toRun' = toRun \union {r} /\ UNCHANGED <<left, timer, answersC, thrown>> /\ UNCHANGED master
           \/ /\ Console!Done(k) /\ master' = Console!LastAnswer(k) /\ toRun' = toRun
        /\ UNCHANGED <<proc, failed, launchedC>>
    BY <1>8 DEF k, Console!Reply, Console!NoDone, Console!Forgotten
  <2>2. /\ master' \in {"up", "killing", "exited"} /\ answered' \in SUBSET Console!Ask
        /\ toRun' \in SUBSET Console!Ask
        /\ \A q \in answered' \union toRun' \union launchedC' :
             q \in answered \union toRun \union launchedC \/ q.cmd = k
    BY <1>1, <1>2, <2>1 DEF k, Console!LastAnswer
  <2>3. /\ sentC \subseteq msgMapC' /\ repliesC' \subseteq msgMapC' /\ answered' \intersect msgMapC' = {}
    BY <1>5, <2>1
  <2>4. /\ left' \in [Command -> 0 .. Console!Cardinality(Server)] /\ answersC' \in [Command -> Nat]
        /\ \A j \in Command : j # k => left'[j] = left[j] /\ answersC'[j] = answersC[j]
        /\ timer' \subseteq timer /\ \A j \in timer : j # k => j \in timer'
        /\ thrown' \in SUBSET Command
        /\ LatchOf(k)'
    <3>1. CASE Console!Done(k)
      BY <1>2, <1>3, <1>4, <2>1, <3>1, LatchCountsDown
    <3>2. CASE UNCHANGED <<left, timer, answersC, thrown>>
      <4>1. LatchOf(k)'
        BY <1>3, <1>4, <2>1, <3>2 DEF LatchOf, Excused, Waits
      <4> QED
        BY <1>1, <3>2, <4>1
    <3> QED
      BY <2>1, <3>1, <3>2
  <2> QED
    BY <1>1, <1>2, <1>3, <1>4, <1>5, <2>1, <2>2, <2>3, <2>4, ConsoleGoesOn
<1> QED
  BY <1>6, <1>7, <1>8

LEMMA ConsoleInvStep == ConsoleInv /\ [Console!Next]_consoleVars => ConsoleInv'
<1> SUFFICES ASSUME ConsoleInv, [Console!Next]_consoleVars PROVE ConsoleInv'
  OBVIOUS
<1>1. CASE UNCHANGED consoleVars
  <2>1. Console!TypeOK'
    BY <1>1 DEF consoleVars, ConsoleInv, Console!TypeOK, Console!Ask
  <2>2. AskedParts' /\ \A k \in Command : LatchOf(k)'
    BY <1>1 DEF consoleVars, ConsoleInv, AskedParts, LatchOf, Excused, Waits
  <2> QED
    BY <2>1, <2>2 DEF ConsoleInv
<1> QED
  BY <1>1, ConsoleClientHandler, ConsoleTimers, ConsoleCounts, ConsoleMonitors DEF Console!Next

\* The commands of the console.
LEMMA ConsoleInvInductive == Spec => []ConsoleInv
<1>1. Init => ConsoleInv
  BY ConsoleInit DEF Init
<1>2. ConsoleInv /\ [Next]_vars => ConsoleInv'
  <2> SUFFICES ASSUME ConsoleInv, [Next]_vars PROVE ConsoleInv'
    OBVIOUS
  <2>1. [Console!Next]_consoleVars
    BY Zenon DEF Next, vars
  <2> QED
    BY <2>1, ConsoleInvStep
<1> QED
  BY <1>1, <1>2, PTL DEF Spec

LEMMA ConsoleSafe == ConsoleInv => Console!AskedOnce /\ Console!AnsweredOnce
<1> SUFFICES ASSUME ConsoleInv PROVE Console!AskedOnce /\ Console!AnsweredOnce
  OBVIOUS
<1>1. Console!AskedOnce
  BY DEF ConsoleInv, AskedParts, Console!AskedOnce
<1>2. Console!AnsweredOnce
  <2>1. answersC \in [Command -> Nat]
    BY ConsoleTypes DEF ConsoleInv
  <2> QED
    BY <2>1 DEF ConsoleInv, LatchOf, Excused, Console!AnsweredOnce
<1> QED
  BY <1>1, <1>2

-----------------------------------------------------------------------------

\* AnsweredOnce, for every set of servers, commands, clients and requests, however often
\* servers crash, are run again and reconnect: a latch that counted to its end, or timed
\* out, answers no second time (countDownLatch, console), the callback of a request is
\* taken out before it is called (masterAgent), and what is sent again when a server
\* registers is what nobody has answered (repushQosMessage).
THEOREM AnsweredOnceCorrect == Spec => []AnsweredOnce
<1>1. AdminInv /\ ConsoleInv => AnsweredOnce
  BY AdminSafe, ConsoleSafe DEF AnsweredOnce, AdminInv, ConsoleInv
<1> QED
  BY <1>1, AdminInvInductive, ConsoleInvInductive, PTL

-----------------------------------------------------------------------------
(* What the load robot measures and its pages show: monitor.js, stat.js,   *)
(* master/Server.js, WebClient.js, console/js/webclient.js.                *)

Profile == [run : Nat, num : Nat, sum : Nat, min : Nat, max : Nat]
Entry == {"add", "remove"} \X Node
AllRequests == UNION {ReqOf[a] : a \in Machine}

\* A page with the list q of events on their way to it and the set s of ids it shows
\* has got the node n, or will by what comes before place k.
Before(q, s, k, n) == n \in s \/ \E j \in 1 .. k - 1 : q[j] = <<"add", n>>
Gets(q, s, n) == Before(q, s, Len(q) + 1, n)
\* What it is told to remove it shows by then.
Ordered(q, s) == \A k \in 1 .. Len(q) : q[k][1] = "remove" => Before(q, s, k, q[k][2])

Links ==
  /\ listed = up /\ DOMAIN stat \subseteq up
  /\ toNode \in [Node -> Seq(0 .. MaxRuns)] /\ toMaster \in [Node -> Seq(Profile)]
  /\ \A n \in Node \ up : toNode[n] = <<>> /\ toMaster[n] = <<>>

Measures ==
  /\ prof \in [Machine -> Profile]
  /\ times \in [Machine -> SUBSET AllRequests] /\ issued \in [Machine -> SUBSET AllRequests]
Within(d) == d.num * d.min <= d.sum /\ d.sum <= d.num * d.max
MeasureOf(a) ==
  /\ times[a] \subseteq issued[a] /\ issued[a] \subseteq ReqOf[a]
  /\ prof[a].num + Cardinality(times[a]) <= Cardinality(issued[a])
  /\ Within(prof[a])

PageOf(p) ==
  /\ toPage[p] \in Seq(Entry) /\ (p \notin webClients => toPage[p] = <<>>)
  /\ counted[p] = Cardinality(shown[p])
  /\ \A n \in listed : p \in webClients => Gets(toPage[p], shown[p], n)
  /\ Ordered(toPage[p], shown[p])

ReportInv ==
  /\ Report!TypeOK /\ Links
  /\ Measures /\ \A a \in Machine : MeasureOf(a)
  /\ DOMAIN toPage = Page /\ \A p \in Page : PageOf(p)

LEMMA ReportSame ==
  /\ \A S : (Report!IsFiniteSet(S) <=> IsFiniteSet(S))
  /\ \A S : Report!Cardinality(S) = Cardinality(S)
<1>1. \A S : (Report!IsFiniteSet(S) <=> IsFiniteSet(S))
  BY DEF Report!IsFiniteSet, IsFiniteSet
<1>2. \A S : Report!Cardinality(S) = Cardinality(S)
  BY Zenon DEF Report!Cardinality, Cardinality
<1> QED
  BY <1>1, <1>2

LEMMA ReportConstants ==
  /\ IsFiniteSet(Node) /\ \A a \in Machine : IsFiniteSet(ReqOf[a])
  /\ MachineOf \in [Node -> Machine]
  /\ Span \subseteq Nat /\ MaxRuns \in Nat
BY ReportAssumption, ReportSame DEF Report!ReportAssumption

\* An event more for a page.
LEMMA PageAppend ==
  ASSUME NEW q \in Seq(Entry), NEW e \in Entry, NEW s
  PROVE  /\ Append(q, e) \in Seq(Entry)
         /\ \A n : Gets(q, s, n) => Gets(Append(q, e), s, n)
         /\ \A n : e = <<"add", n>> => Gets(Append(q, e), s, n)
         /\ Ordered(q, s) /\ (e[1] = "remove" => Gets(q, s, e[2])) => Ordered(Append(q, e), s)
<1> DEFINE r == Append(q, e)
<1>1. /\ r \in Seq(Entry) /\ Len(r) = Len(q) + 1 /\ Len(q) \in Nat
      /\ r[Len(q) + 1] = e /\ \A k \in 1 .. Len(q) : r[k] = q[k]
  OBVIOUS
<1> HIDE DEF r
<1>2. \A n : Gets(q, s, n) => Gets(r, s, n)
  BY <1>1 DEF Gets, Before
<1>3. \A n : e = <<"add", n>> => Gets(r, s, n)
  BY <1>1 DEF Gets, Before
<1>4. ASSUME Ordered(q, s), e[1] = "remove" => Gets(q, s, e[2]) PROVE Ordered(r, s)
  <2> SUFFICES ASSUME NEW k \in 1 .. Len(r), r[k][1] = "remove" PROVE Before(r, s, k, r[k][2])
    BY DEF Ordered
  <2>1. CASE k = Len(q) + 1
    BY <1>1, <1>4, <2>1 DEF Gets, Before
  <2>2. CASE k \in 1 .. Len(q)
    <3>1. Before(q, s, k, q[k][2])
      BY <1>1, <1>4, <2>2 DEF Ordered
    <3> QED
      BY <1>1, <2>2, <3>1 DEF Before
  <2> QED
    BY <1>1, <2>1, <2>2
<1> QED
  BY <1>1, <1>2, <1>3, <1>4 DEF r

\* A page reads an event.
LEMMA PageReadsOne ==
  ASSUME NEW q \in Seq(Entry), q # <<>>, NEW s, Ordered(q, s),
         NEW s2, s \subseteq s2, Head(q)[1] = "add" => Head(q)[2] \in s2
  PROVE  /\ Head(q) \in Entry /\ Tail(q) \in Seq(Entry)
         /\ Head(q)[1] = "remove" => Head(q)[2] \in s
         /\ \A n : Gets(q, s, n) => Gets(Tail(q), s2, n)
         /\ Ordered(Tail(q), s2)
<1> DEFINE r == Tail(q)
<1>1. /\ Head(q) \in Entry /\ Head(q) = q[1] /\ r \in Seq(Entry) /\ Len(q) \in Nat \ {0} /\ Len(r) = Len(q) - 1
      /\ \A k \in 1 .. Len(r) : r[k] = q[k + 1]
  BY HeadTailProperties
<1> HIDE DEF r
<1>2. \A k \in 1 .. Len(q) : \A n : Before(q, s, k + 1, n) => Before(r, s2, k, n)
  <2> SUFFICES ASSUME NEW k \in 1 .. Len(q), NEW n, Before(q, s, k + 1, n)
               PROVE  Before(r, s2, k, n)
    OBVIOUS
  <2>1. CASE n \in s
    BY <2>1 DEF Before
  <2>2. CASE \E j \in 1 .. (k + 1) - 1 : q[j] = <<"add", n>>
    <3>1. PICK j \in 1 .. k : q[j] = <<"add", n>>
      BY <2>2
    <3>2. CASE j = 1
      BY <1>1, <3>1, <3>2 DEF Before
    <3>3. CASE j # 1
      <4>1. j - 1 \in 1 .. k - 1 /\ j - 1 \in 1 .. Len(r) /\ (j - 1) + 1 = j
        BY <1>1, <3>1, <3>3
      <4>2. r[j - 1] = <<"add", n>>
        BY <1>1, <3>1, <4>1
      <4> QED
        BY <4>1, <4>2 DEF Before
    <3> QED
      BY <3>2, <3>3
  <2> QED
    BY <2>1, <2>2 DEF Before
<1>3. Head(q)[1] = "remove" => Head(q)[2] \in s
  <2>1. ASSUME Head(q)[1] = "remove" PROVE Before(q, s, 1, q[1][2])
    BY <1>1, <2>1 DEF Ordered
  <2> QED
    BY <1>1, <2>1 DEF Before
<1>4. \A n : Gets(q, s, n) => Gets(r, s2, n)
  <2>1. Len(q) \in 1 .. Len(q) /\ Len(q) = Len(r) + 1
    BY <1>1
  <2> QED
    BY <1>2, <2>1 DEF Gets
<1>5. Ordered(r, s2)
  <2> SUFFICES ASSUME NEW k \in 1 .. Len(r), r[k][1] = "remove" PROVE Before(r, s2, k, r[k][2])
    BY DEF Ordered
  <2>1. k + 1 \in 1 .. Len(q) /\ k \in 1 .. Len(q) /\ r[k] = q[k + 1]
    BY <1>1
  <2>2. Before(q, s, k + 1, q[k + 1][2])
    BY <2>1 DEF Ordered
  <2> QED
    BY <1>2, <2>1, <2>2
<1> QED
  BY <1>1, <1>3, <1>4, <1>5 DEF r

\* A page that connects is told every node.
LEMMA ListingTells ==
  ASSUME NEW S \in SUBSET Node, NEW s
  PROVE  /\ Report!Listing(S) \in Seq(Entry) /\ Ordered(Report!Listing(S), s)
         /\ \A n \in S : Gets(Report!Listing(S), s, n)
<1> DEFINE m == Cardinality(S)
           ids == Report!SetToSeq(S)
           list == Report!Listing(S)
<1>1. IsFiniteSet(S) /\ m \in Nat /\ ExistsBijection(1 .. m, S)
  BY ReportConstants, FS_Subset, FS_CardinalityType
<1>2. PICK g \in [1 .. m -> S] : \A a, b \in 1 .. m : g[a] = g[b] => a = b
  BY <1>1 DEF ExistsBijection, Bijection, Injection, IsInjective
<1>3. \E h \in [1 .. m -> S] : Report!IsInjective(h)
  BY <1>2 DEF Report!IsInjective
<1>4. ids = CHOOSE h \in [1 .. m -> S] : Report!IsInjective(h)
  BY ReportSame DEF Report!SetToSeq
<1>5. ids \in [1 .. m -> S] /\ Report!IsInjective(ids)
  BY <1>3, <1>4
<1>6. list = [k \in 1 .. m |-> <<"add", ids[k]>>]
  BY <1>5 DEF Report!Listing
<1> HIDE DEF ids
<1>7. ids \in Injection(1 .. m, S)
  BY <1>5 DEF Report!IsInjective, Injection, IsInjective
<1>8. IsFiniteSet(1 .. m) /\ Cardinality(1 .. m) = m
  BY <1>1, FS_Interval
<1>9. ids \in Surjection(1 .. m, S)
  BY <1>1, <1>7, <1>8, FS_Injection
<1>10. \A n \in S : \E k \in 1 .. m : ids[k] = n
  BY <1>9 DEF Surjection
<1> HIDE DEF m, list
<1>11. list \in Seq(Entry) /\ Len(list) = m
  <2>1. \A k \in 1 .. m : <<"add", ids[k]>> \in Entry
    BY <1>5 DEF Entry
  <2> QED
    BY <1>1, <1>6, <2>1
<1>12. \A k \in 1 .. Len(list) : list[k] = <<"add", ids[k]>>
  BY <1>6, <1>11
<1>13. Ordered(list, s)
  BY <1>12 DEF Ordered
<1>14. \A n \in S : Gets(list, s, n)
  BY <1>1, <1>10, <1>11, <1>12 DEF Gets, Before
<1> QED
  BY <1>11, <1>13, <1>14 DEF list

LEMMA ReportTypes ==
  ASSUME Report!TypeOK
  PROVE  /\ runs \in [Machine -> 0 .. MaxRuns] /\ commands \in 0 .. MaxRuns
         /\ up \subseteq Node /\ gone \subseteq Node /\ listed \subseteq Node /\ DOMAIN stat \subseteq Node
         /\ called \subseteq Node
         /\ phase \in {"idle", "ready", "running"}
         /\ webClients \subseteq Page /\ shown \in [Page -> SUBSET Node] /\ counted \in [Page -> Int]
BY DEF Report!TypeOK

LEMMA NoDataIs ==
  /\ Report!NoData \in Profile /\ Report!NoData.num = 0 /\ Within(Report!NoData)
  /\ \A d \in Profile : DOMAIN d = DOMAIN Report!NoData
BY DEF Report!NoData, Profile, Within

LEMMA ReportInit == Report!Init => ReportInv
<1> SUFFICES ASSUME Report!Init PROVE ReportInv
  OBVIOUS
<1>1. /\ runs = [a \in Machine |-> 0] /\ times = [a \in Machine |-> {}] /\ issued = [a \in Machine |-> {}]
      /\ prof = [a \in Machine |-> Report!NoData] /\ called = {}
      /\ toNode = [n \in Node |-> <<>>] /\ toMaster = [n \in Node |-> <<>>] /\ up = {} /\ gone = {}
      /\ listed = {} /\ stat = <<>> /\ phase = "idle" /\ commands = 0
      /\ webClients = {} /\ toPage = [p \in Page |-> <<>>]
      /\ shown = [p \in Page |-> {}] /\ counted = [p \in Page |-> 0]
  BY DEF Report!Init
<1>2. 0 \in 0 .. MaxRuns
  BY ReportConstants
<1>3. DOMAIN stat = {}
  BY <1>1
<1>4. Report!TypeOK
  BY <1>1, <1>2, <1>3 DEF Report!TypeOK
<1>5. Links /\ Measures
  BY <1>1, <1>3, NoDataIs DEF Links, Measures
<1>6. ASSUME NEW a \in Machine PROVE MeasureOf(a)
  BY <1>1, NoDataIs, FS_EmptySet DEF MeasureOf
<1>7. ASSUME NEW p \in Page PROVE PageOf(p)
  BY <1>1, FS_EmptySet DEF PageOf, Ordered
<1> QED
  BY <1>1, <1>4, <1>5, <1>6, <1>7 DEF ReportInv

\* What an agent measures and what is on its way: the pages do not change.
LEMMA ReportAgents ==
  ASSUME ReportInv, UNCHANGED <<up, gone, listed, webClients, toPage, shown, counted>>,
         runs' \in [Machine -> 0 .. MaxRuns], commands' \in 0 .. MaxRuns, phase' \in {"idle", "ready", "running"},
         called' \subseteq Node, DOMAIN stat' \subseteq up,
         toNode' \in [Node -> Seq(0 .. MaxRuns)], toMaster' \in [Node -> Seq(Profile)],
         \A n \in Node \ up : toNode'[n] = <<>> /\ toMaster'[n] = <<>>,
         Measures', \A a \in Machine : MeasureOf(a)'
  PROVE  ReportInv'
<1>1. /\ Links /\ up \subseteq Node /\ gone \subseteq Node /\ listed \subseteq Node
      /\ webClients \subseteq Page /\ shown \in [Page -> SUBSET Node] /\ counted \in [Page -> Int]
      /\ DOMAIN toPage = Page /\ \A p \in Page : PageOf(p)
  BY ReportTypes DEF ReportInv
<1>2. Links'
  BY <1>1 DEF Links
<1>3. \A a \in Machine : DOMAIN prof'[a] = DOMAIN Report!NoData
  BY NoDataIs DEF Measures
<1>4. \A a \in Machine : times'[a] \subseteq ReqOf[a] /\ issued'[a] \subseteq ReqOf[a]
  BY DEF MeasureOf
<1>5. DOMAIN stat' \subseteq Node
  BY <1>1
<1>6. Report!TypeOK'
  BY <1>1, <1>3, <1>4, <1>5 DEF Report!TypeOK, Report!NoData
<1>7. ASSUME NEW p \in Page PROVE PageOf(p)'
  BY <1>1, ZenonT(40) DEF PageOf, Gets, Before, Ordered
<1> QED
  BY <1>1, <1>2, <1>6, <1>7 DEF ReportInv

\* The monitor of one agent changes.
LEMMA ReportMeasures ==
  ASSUME ReportInv, NEW a \in Machine, NEW d \in Profile, Within(d),
         NEW begun \in SUBSET ReqOf[a], NEW open \in SUBSET begun,
         d.num + Cardinality(open) <= Cardinality(begun),
         prof' = [prof EXCEPT ![a] = d], times' = [times EXCEPT ![a] = open],
         issued' = [issued EXCEPT ![a] = begun]
  PROVE  Measures' /\ \A m \in Machine : MeasureOf(m)'
<1>1. /\ prof \in [Machine -> Profile]
      /\ times \in [Machine -> SUBSET AllRequests] /\ issued \in [Machine -> SUBSET AllRequests]
      /\ \A m \in Machine : MeasureOf(m)
  BY DEF ReportInv, Measures
<1>2. begun \in SUBSET AllRequests /\ open \in SUBSET AllRequests
  BY DEF AllRequests
<1>3. /\ Measures' /\ prof'[a] = d /\ times'[a] = open /\ issued'[a] = begun
      /\ \A m \in Node : m # a => prof'[m] = prof[m] /\ times'[m] = times[m] /\ issued'[m] = issued[m]
  BY <1>1, <1>2 DEF Measures
<1>4. ASSUME NEW m \in Machine PROVE MeasureOf(m)'
  <2>1. CASE m = a
    BY <1>3, <2>1 DEF MeasureOf, Within
  <2>2. CASE m # a
    <3>1. MeasureOf(m) /\ prof'[m] = prof[m] /\ times'[m] = times[m] /\ issued'[m] = issued[m]
      BY <1>1, <1>3, <2>2
    <3> QED
      BY <3>1 DEF MeasureOf, Within
  <2> QED
    BY <2>1, <2>2
<1> QED
  BY <1>3, <1>4

LEMMA Products ==
  ASSUME NEW a \in Nat, NEW b \in Nat, NEW c \in Nat, a <= b
  PROVE  c * a <= c * b
BY SMT

\* A span more: the average stays between the extremes.
LEMMA MeasuredWithin ==
  ASSUME NEW d \in Profile, NEW span \in Nat, Within(d)
  PROVE  /\ Report!Measured(d, span) \in Profile
         /\ Report!Measured(d, span).num = d.num + 1
         /\ Within(Report!Measured(d, span))
<1> DEFINE e == Report!Measured(d, span)
           low == IF d.num = 0 THEN span ELSE Report!Smaller(d.min, span)
           high == Report!Larger(d.max, span)
<1>1. /\ d.num \in Nat /\ d.sum \in Nat /\ d.min \in Nat /\ d.max \in Nat
      /\ d.num * d.min <= d.sum /\ d.sum <= d.num * d.max
  BY DEF Profile, Within
<1>2. e = [[[[d EXCEPT !.num = d.num + 1] EXCEPT !.sum = d.sum + span] EXCEPT !.max = high] EXCEPT !.min = low]
  BY DEF Report!Measured
<1>3. low \in Nat /\ high \in Nat /\ low <= span /\ span <= high /\ d.max <= high
  BY <1>1 DEF Report!Smaller, Report!Larger
<1>4. d.num * low <= d.sum
  <2>1. CASE d.num = 0
    BY <1>1, <1>3, <2>1
  <2>2. CASE d.num # 0
    <3>1. low <= d.min
      BY <1>1, <2>2 DEF Report!Smaller
    <3> HIDE DEF low
    <3>2. d.num * low <= d.num * d.min
      BY <1>1, <1>3, <3>1, Products
    <3>3. d.num * low \in Int /\ d.num * d.min \in Int
      BY <1>1, <1>3
    <3> QED
      BY <1>1, <3>2, <3>3
  <2> QED
    BY <2>1, <2>2
<1> HIDE DEF low, high, e
<1>5. e \in Profile /\ e.num = d.num + 1 /\ e.sum = d.sum + span /\ e.min = low /\ e.max = high
  <2> DEFINE d1 == [d EXCEPT !.num = d.num + 1]
             d2 == [d1 EXCEPT !.sum = d.sum + span]
             d3 == [d2 EXCEPT !.max = high]
  <2>1. d1 \in Profile /\ d1.num = d.num + 1
    BY <1>1 DEF Profile
  <2> HIDE DEF d1
  <2>2. d2 \in Profile /\ d2.num = d.num + 1 /\ d2.sum = d.sum + span
    BY <1>1, <2>1 DEF Profile
  <2> HIDE DEF d2
  <2>3. d3 \in Profile /\ d3.num = d.num + 1 /\ d3.sum = d.sum + span /\ d3.max = high
    BY <1>3, <2>2 DEF Profile
  <2>4. e = [d3 EXCEPT !.min = low]
    BY <1>2 DEF d1, d2
  <2> HIDE DEF d3
  <2> QED
    BY <1>3, <2>3, <2>4 DEF Profile
<1>6. d.sum <= d.num * high
  <2>1. d.num * d.max <= d.num * high
    BY <1>1, <1>3, Products
  <2>2. d.num * d.max \in Int /\ d.num * high \in Int
    BY <1>1, <1>3
  <2> QED
    BY <1>1, <2>1, <2>2
<1>7. (d.num + 1) * low = d.num * low + low /\ (d.num + 1) * high = d.num * high + high
  BY <1>1, <1>3
<1>8. d.num * low \in Int /\ d.num * high \in Int
  BY <1>1, <1>3
<1>9. d.num * low + low <= d.sum + span /\ d.sum + span <= d.num * high + high
  BY <1>1, <1>3, <1>4, <1>6, <1>8
<1>10. Within(e)
  <2>1. e.num * e.min <= e.sum
    BY <1>7, <1>9, <1>5
  <2>2. e.sum <= e.num * e.max
    BY <1>7, <1>9, <1>5
  <2> QED
    BY <2>1, <2>2 DEF Within
<1> QED
  BY <1>10, <1>5 DEF e

\* Actors emit, an agent runs, reports, and the master keeps what comes.
LEMMA ReportMonitors ==
  ASSUME ReportInv, NEW a \in Machine, NEW n,
         \/ Report!ActorEmits(a)
         \/ n \in Node /\ (Report!AgentRuns(a, n) \/ Report!Reports(a, n) \/ Report!MergeReport(n))
  PROVE  ReportInv'
<1>1. /\ runs \in [Machine -> 0 .. MaxRuns] /\ commands \in 0 .. MaxRuns
      /\ phase \in {"idle", "ready", "running"} /\ DOMAIN stat \subseteq up /\ called \subseteq Node
      /\ toNode \in [Node -> Seq(0 .. MaxRuns)] /\ toMaster \in [Node -> Seq(Profile)]
      /\ \A m \in Node \ up : toNode[m] = <<>> /\ toMaster[m] = <<>>
      /\ Measures /\ \A m \in Machine : MeasureOf(m)
  BY ReportTypes DEF ReportInv, Links
<1>2. /\ prof \in [Machine -> Profile]
      /\ times \in [Machine -> SUBSET AllRequests] /\ issued \in [Machine -> SUBSET AllRequests]
      /\ MeasureOf(a)
  BY <1>1 DEF Measures
<1>3. UNCHANGED <<up, gone, listed, webClients, toPage, shown, counted, commands, phase, called>>
  BY DEF Report!ActorEmits, Report!AgentRuns, Report!Reports, Report!MergeReport, Report!linkVars,
         Report!masterVars, Report!pageVars
<1>4. /\ IsFiniteSet(issued[a]) /\ IsFiniteSet(times[a])
      /\ Cardinality(issued[a]) \in Nat /\ Cardinality(times[a]) \in Nat
      /\ times[a] \in SUBSET issued[a] /\ issued[a] \in SUBSET ReqOf[a] /\ prof[a] \in Profile
      /\ Within(prof[a]) /\ prof[a].num \in Nat
      /\ prof[a].num + Cardinality(times[a]) <= Cardinality(issued[a])
  <2>1. times[a] \in SUBSET issued[a] /\ issued[a] \in SUBSET ReqOf[a]
    BY <1>2 DEF MeasureOf
  <2>2. IsFiniteSet(issued[a]) /\ IsFiniteSet(times[a])
    BY <2>1, ReportConstants, FS_Subset
  <2> QED
    BY <1>2, <2>1, <2>2, FS_CardinalityType DEF MeasureOf, Profile
\* Only the monitor of the agent changes.
<1>5. ASSUME Measures' /\ \A m \in Machine : MeasureOf(m)', UNCHANGED <<toMaster, stat>>,
             runs' \in [Machine -> 0 .. MaxRuns], toNode' \in [Node -> Seq(0 .. MaxRuns)],
             \A m \in Node \ up : toNode'[m] = <<>>
      PROVE  ReportInv'
  BY <1>1, <1>3, <1>5, ReportAgents
<1>6. CASE Report!ActorEmits(a)
  <2>1. UNCHANGED <<runs, toNode, toMaster, stat>>
    BY <1>6 DEF Report!ActorEmits, Report!linkVars, Report!masterVars
  <2>2. ASSUME Measures' /\ \A m \in Machine : MeasureOf(m)' PROVE ReportInv'
    BY <1>1, <1>5, <2>1, <2>2
  <2>3. ASSUME NEW r \in ReqOf[a] \ issued[a], Report!BeginTime(a, r),
               issued' = [issued EXCEPT ![a] = @ \union {r}], UNCHANGED prof
        PROVE  ReportInv'
    <3> DEFINE begun == issued[a] \union {r}
               open == times[a] \union {r}
               d == prof[a]
    <3>1. /\ Cardinality(begun) = Cardinality(issued[a]) + 1 /\ Cardinality(open) = Cardinality(times[a]) + 1
      BY <1>4, <2>3, FS_AddElement
    <3>2. /\ begun \in SUBSET ReqOf[a] /\ open \in SUBSET begun
          /\ d.num + Cardinality(open) <= Cardinality(begun) /\ d \in Profile /\ Within(d)
      BY <1>4, <2>3, <3>1
    <3>3. /\ times' = [times EXCEPT ![a] = open] /\ issued' = [issued EXCEPT ![a] = begun]
          /\ prof' = [prof EXCEPT ![a] = d]
      BY <1>2, <2>3 DEF Report!BeginTime
    <3> HIDE DEF begun, open, d
    <3>4. Measures' /\ \A m \in Machine : MeasureOf(m)'
      BY <3>2, <3>3, ReportMeasures
    <3> QED
      BY <2>2, <3>4
  <2>4. ASSUME NEW r \in issued[a], NEW span \in Span, Report!EndTime(a, r, span), UNCHANGED issued
        PROVE  ReportInv'
    <3>1. CASE r \notin times[a]
      <4>1. UNCHANGED <<times, prof, issued>>
        BY <2>4, <3>1 DEF Report!EndTime
      <4>2. Measures' /\ \A m \in Machine : MeasureOf(m)'
        BY <1>1, <4>1 DEF Measures, MeasureOf, Within
      <4> QED
        BY <2>2, <4>2
    <3>2. CASE r \in times[a]
      <4> DEFINE begun == issued[a]
                 open == times[a] \ {r}
                 d == Report!Measured(prof[a], span)
      <4>1. Cardinality(open) = Cardinality(times[a]) - 1
        BY <1>4, <3>2, FS_RemoveElement
      <4>2. span \in Nat
        BY ReportConstants
      <4>3. d \in Profile /\ d.num = prof[a].num + 1 /\ Within(d)
        BY <1>4, <4>2, MeasuredWithin
      <4>4. /\ times' = [times EXCEPT ![a] = open] /\ issued' = [issued EXCEPT ![a] = begun]
            /\ prof' = [prof EXCEPT ![a] = d]
        BY <1>2, <2>4, <3>2 DEF Report!EndTime
      <4> HIDE DEF d
      <4>5. /\ begun \in SUBSET ReqOf[a] /\ open \in SUBSET begun
            /\ d.num + Cardinality(open) <= Cardinality(begun)
        BY <1>4, <4>1, <4>3
      <4> HIDE DEF begun, open
      <4>6. Measures' /\ \A m \in Machine : MeasureOf(m)'
        BY <4>3, <4>4, <4>5, ReportMeasures
      <4> QED
        BY <2>2, <4>6
    <3> QED
      BY <3>1, <3>2
  <2> QED
    BY <1>6, <2>3, <2>4 DEF Report!ActorEmits
<1>7. CASE n \in Node /\ Report!AgentRuns(a, n)
  <2> DEFINE k == Head(toNode[n])
             d == [Report!NoData EXCEPT !.run = k]
             begun == issued[a]
             open == times[a]
  <2>1. /\ n \in up /\ toNode[n] # <<>> /\ toNode' = [toNode EXCEPT ![n] = Tail(@)]
        /\ prof' = [prof EXCEPT ![a] = d] /\ runs' = [runs EXCEPT ![a] = k]
        /\ UNCHANGED <<times, issued, toMaster, stat>>
    BY <1>7 DEF Report!AgentRuns, Report!Uses, Report!Clear, Report!masterVars
  <2>2. k \in 0 .. MaxRuns /\ Tail(toNode[n]) \in Seq(0 .. MaxRuns)
    BY <1>1, <1>7, <2>1, HeadTailProperties
  <2>3. /\ runs' \in [Machine -> 0 .. MaxRuns] /\ toNode' \in [Node -> Seq(0 .. MaxRuns)]
        /\ \A m \in Node \ up : toNode'[m] = <<>>
    BY <1>1, <1>7, <2>1, <2>2
  <2>4. d \in Profile /\ d.num = 0 /\ Within(d)
    BY <2>2, ReportConstants DEF Profile, Report!NoData, Within
  <2>5. times' = [times EXCEPT ![a] = open] /\ issued' = [issued EXCEPT ![a] = begun]
    BY <1>2, <2>1
  <2> HIDE DEF d
  <2>6. /\ begun \in SUBSET ReqOf[a] /\ open \in SUBSET begun
        /\ d.num + Cardinality(open) <= Cardinality(begun)
    BY <1>4, <2>4
  <2> HIDE DEF begun, open, k
  <2>7. Measures' /\ \A m \in Machine : MeasureOf(m)'
    BY <2>1, <2>4, <2>5, <2>6, ReportMeasures
  <2> QED
    BY <1>5, <2>1, <2>3, <2>7
<1>8. CASE n \in Node /\ (Report!Reports(a, n) \/ Report!MergeReport(n))
  <2>1. UNCHANGED <<runs, times, issued, prof, toNode>>
    BY <1>8 DEF Report!Reports, Report!MergeReport, Report!agentVars
  <2>2. Measures' /\ \A m \in Machine : MeasureOf(m)'
    BY <1>1, <2>1 DEF Measures, MeasureOf, Within
  <2>3. /\ toMaster' \in [Node -> Seq(Profile)] /\ DOMAIN stat' \subseteq up
        /\ \A m \in Node \ up : toMaster'[m] = <<>>
    <3>1. CASE Report!Reports(a, n)
      <4>1. /\ n \in up /\ toMaster' = [toMaster EXCEPT ![n] = Append(@, prof[a])] /\ UNCHANGED stat
        BY <3>1 DEF Report!Reports, Report!Uses, Report!GetData, Report!masterVars
      <4>2. Append(toMaster[n], prof[a]) \in Seq(Profile)
        BY <1>1, <1>4, <1>8
      <4> QED
        BY <1>1, <1>8, <4>1, <4>2
    <3>2. CASE Report!MergeReport(n)
      <4>1. /\ toMaster[n] # <<>> /\ toMaster' = [toMaster EXCEPT ![n] = Tail(@)]
            /\ stat' = Report!StatMerge(n, Head(toMaster[n]))
        BY <3>2 DEF Report!MergeReport
      <4>2. n \in up /\ Tail(toMaster[n]) \in Seq(Profile)
        BY <1>1, <1>8, <4>1, HeadTailProperties
      <4>3. DOMAIN stat' = DOMAIN stat \union {n}
        BY <4>1 DEF Report!StatMerge
      <4> QED
        BY <1>1, <1>8, <4>1, <4>2, <4>3
    <3> QED
      BY <1>8, <3>1, <3>2
  <2> QED
    BY <1>1, <1>3, <2>1, <2>2, <2>3, ReportAgents
<1> QED
  BY <1>6, <1>7, <1>8

\* The commands of a page.
LEMMA ReportCommands ==
  ASSUME ReportInv, Report!Run \/ Report!Ready
  PROVE  ReportInv'
<1>1. /\ runs \in [Machine -> 0 .. MaxRuns] /\ commands \in 0 .. MaxRuns
      /\ toNode \in [Node -> Seq(0 .. MaxRuns)] /\ toMaster \in [Node -> Seq(Profile)]
      /\ \A m \in Node \ up : toNode[m] = <<>> /\ toMaster[m] = <<>>
      /\ listed = up /\ DOMAIN stat \subseteq Node /\ up \subseteq Node /\ called \subseteq Node
      /\ Measures /\ \A m \in Machine : MeasureOf(m)
  BY ReportTypes DEF ReportInv, Links
<1>2. /\ UNCHANGED <<up, gone, listed, webClients, toPage, shown, counted, runs, times, issued, prof, toMaster>>
      /\ phase' \in {"idle", "ready", "running"} /\ stat' = Report!StatClear(Node)
      /\ called' \in {listed, called}
  BY DEF Report!Run, Report!Ready, Report!linkVars, Report!agentVars, Report!pageVars
<1>3. Measures' /\ \A m \in Machine : MeasureOf(m)'
  BY <1>1, <1>2 DEF Measures, MeasureOf, Within
<1>4. DOMAIN stat' \subseteq up /\ called' \subseteq Node
  BY <1>1, <1>2 DEF Report!StatClear
<1>5. /\ commands' \in 0 .. MaxRuns /\ toNode' \in [Node -> Seq(0 .. MaxRuns)]
      /\ \A m \in Node \ up : toNode'[m] = <<>>
  <2>1. CASE Report!Run
    <3>1. /\ commands' \in 0 .. MaxRuns
          /\ toNode' = [n \in Node |-> IF n \in listed THEN Append(toNode[n], commands') ELSE toNode[n]]
      BY <1>1, <2>1, ReportConstants DEF Report!Run
    <3>2. \A n \in Node : Append(toNode[n], commands') \in Seq(0 .. MaxRuns)
      BY <1>1, <3>1
    <3>3. toNode' \in [Node -> Seq(0 .. MaxRuns)]
      BY <1>1, <3>1, <3>2
    <3>4. \A m \in Node \ up : toNode'[m] = <<>>
      BY <1>1, <3>1
    <3> QED
      BY <3>1, <3>3, <3>4
  <2>2. CASE Report!Ready
    BY <1>1, <2>2 DEF Report!Ready, Report!linkVars
  <2> QED
    BY <2>1, <2>2
<1> QED
  BY <1>1, <1>2, <1>3, <1>4, <1>5, ReportAgents

\* Events more for a page, of one node, told once or twice.
LEMMA PageTold ==
  ASSUME NEW q \in Seq(Entry), NEW e \in Entry, NEW s, Ordered(q, s), e[1] = "remove" => Gets(q, s, e[2]),
         NEW msgs, msgs = <<e>> \/ msgs = <<e, e>>
  PROVE  /\ q \o msgs \in Seq(Entry)
         /\ \A n : Gets(q, s, n) => Gets(q \o msgs, s, n)
         /\ \A n : e = <<"add", n>> => Gets(q \o msgs, s, n)
         /\ Ordered(q \o msgs, s)
<1> DEFINE r == Append(q, e)
<1>1. /\ r \in Seq(Entry) /\ (\A n : Gets(q, s, n) => Gets(r, s, n))
      /\ (\A n : e = <<"add", n>> => Gets(r, s, n)) /\ Ordered(r, s)
  BY PageAppend
<1>2. e[1] = "remove" => Gets(r, s, e[2])
  BY <1>1
<1>3. CASE msgs = <<e>>
  <2>1. q \o msgs = r
    BY <1>3
  <2> QED
    BY <1>1, <2>1
<1>4. CASE msgs = <<e, e>>
  <2>1. q \o msgs = Append(r, e)
    BY <1>4
  <2> HIDE DEF r
  <2>2. /\ Append(r, e) \in Seq(Entry) /\ (\A n : Gets(r, s, n) => Gets(Append(r, e), s, n))
        /\ Ordered(Append(r, e), s)
    BY <1>1, <1>2, PageAppend
  <2> QED
    BY <1>1, <2>1, <2>2
<1> QED
  BY <1>3, <1>4

\* What is told of a node to every page.
LEMMA PagesTold ==
  ASSUME ReportInv, NEW e \in Entry, NEW msgs, msgs = <<e>> \/ msgs = <<e, e>>,
         Report!ToPages(msgs), UNCHANGED <<webClients, shown, counted>>,
         NEW more \in SUBSET Node, more \subseteq listed' , listed' \subseteq listed \union more,
         \A m \in more : e = <<"add", m>>,
         e[1] = "remove" => e[2] \in listed
  PROVE  DOMAIN toPage' = Page /\ \A p \in Page : PageOf(p)'
<1>1. toPage' = [p \in Page |-> IF p \in webClients THEN toPage[p] \o msgs ELSE toPage[p]]
  BY DEF Report!ToPages
<1>2. ASSUME NEW p \in Page PROVE PageOf(p)'
  <2>1. PageOf(p)
    BY DEF ReportInv
  <2>2. CASE p \notin webClients
    <3>1. toPage'[p] = toPage[p]
      BY <1>1, <2>2
    <3> QED
      BY <2>1, <2>2, <3>1 DEF PageOf
  <2>3. CASE p \in webClients
    <3>1. PICK q \in Seq(Entry), s \in {shown[p]} : q = toPage[p] /\ s = shown[p]
      BY <2>1 DEF PageOf
    <3>2. toPage'[p] = q \o msgs /\ shown'[p] = s
      BY <1>1, <2>3, <3>1
    <3>3. \A n \in listed : Gets(q, s, n)
      BY <2>1, <2>3, <3>1 DEF PageOf
    <3>4. Ordered(q, s)
      BY <2>1, <3>1 DEF PageOf
    <3>5. e[1] = "remove" => Gets(q, s, e[2])
      BY <3>3
    <3>6. /\ q \o msgs \in Seq(Entry)
          /\ \A n : Gets(q, s, n) => Gets(q \o msgs, s, n)
          /\ \A n : e = <<"add", n>> => Gets(q \o msgs, s, n)
          /\ Ordered(q \o msgs, s)
      BY <3>4, <3>5, PageTold
    <3>7. \A n \in listed' : Gets(toPage'[p], shown'[p], n)
      BY <3>2, <3>3, <3>6
    <3>8. Ordered(toPage'[p], shown'[p]) /\ toPage'[p] \in Seq(Entry)
      BY <3>2, <3>6
    <3>9. counted'[p] = Cardinality(shown'[p])
      BY <2>1 DEF PageOf
    <3> QED
      BY <2>3, <3>7, <3>8, <3>9 DEF PageOf
  <2> QED
    BY <2>2, <2>3
<1> QED
  BY <1>1, <1>2

\* A node comes, and is lost.
LEMMA ReportNodes ==
  ASSUME ReportInv, NEW n \in Node, Report!AnnounceNode(n) \/ Report!Disconnected(n)
  PROVE  ReportInv'
<1>1. /\ runs \in [Machine -> 0 .. MaxRuns] /\ commands \in 0 .. MaxRuns
      /\ up \subseteq Node /\ gone \subseteq Node /\ listed \subseteq Node /\ phase \in {"idle", "ready", "running"}
      /\ webClients \subseteq Page /\ shown \in [Page -> SUBSET Node] /\ counted \in [Page -> Int]
      /\ toNode \in [Node -> Seq(0 .. MaxRuns)] /\ toMaster \in [Node -> Seq(Profile)]
      /\ \A m \in Node \ up : toNode[m] = <<>> /\ toMaster[m] = <<>>
      /\ listed = up /\ DOMAIN stat \subseteq up /\ called \subseteq Node
      /\ Measures /\ \A m \in Machine : MeasureOf(m)
  BY ReportTypes DEF ReportInv, Links
<1>2. <<"add", n>> \in Entry /\ <<"remove", n>> \in Entry
  BY DEF Entry
\* What has to be shown of the rest.
<1>3. ASSUME Links', Measures', \A m \in Machine : MeasureOf(m)', UNCHANGED <<called, webClients, shown, counted>>,
             runs' \in [Machine -> 0 .. MaxRuns], commands' \in 0 .. MaxRuns,
             up' \subseteq Node, gone' \subseteq Node, phase' \in {"idle", "ready", "running"},
             DOMAIN toPage' = Page /\ \A p \in Page : PageOf(p)'
      PROVE  ReportInv'
  <2>1. /\ \A m \in Machine : DOMAIN prof'[m] = DOMAIN Report!NoData
    BY <1>3, NoDataIs DEF Measures
  <2>2. \A m \in Machine : times'[m] \subseteq ReqOf[m] /\ issued'[m] \subseteq ReqOf[m]
    BY <1>3 DEF MeasureOf
  <2>3. DOMAIN stat' \subseteq Node /\ listed' \subseteq Node
    BY <1>3 DEF Links
  <2>4. Report!TypeOK'
    BY <1>1, <1>3, <2>1, <2>2, <2>3 DEF Report!TypeOK, Report!NoData
  <2> QED
    BY <1>3, <2>4 DEF ReportInv
<1>4. CASE Report!AnnounceNode(n)
  <2>1. /\ up' = up \union {n} /\ listed' = listed \union {n} /\ Report!ToPages(<<<<"add", n>>>>)
        /\ UNCHANGED <<runs, times, issued, prof, toNode, toMaster, gone, stat, phase, commands,
                       called, webClients, shown, counted>>
    BY <1>4 DEF Report!AnnounceNode, Report!agentVars
  <2>2. Links'
    BY <1>1, <2>1 DEF Links
  <2>3. Measures' /\ \A m \in Machine : MeasureOf(m)'
    BY <1>1, <2>1 DEF Measures, MeasureOf, Within
  <2>4. DOMAIN toPage' = Page /\ \A p \in Page : PageOf(p)'
    <3> DEFINE e == <<"add", n>>
               msgs == <<e>>
               more == {n}
    <3>1. /\ e \in Entry /\ Report!ToPages(msgs) /\ msgs = <<e>> /\ more \in SUBSET Node /\ more \subseteq listed'
          /\ listed' \subseteq listed \union more /\ (\A m \in more : e = <<"add", m>>)
          /\ (e[1] = "remove" => e[2] \in listed)
      BY <1>2, <2>1
    <3> HIDE DEF e, msgs, more
    <3> QED
      BY <2>1, <3>1, PagesTold
  <2>5. up' \subseteq Node /\ gone' \subseteq Node
    BY <1>1, <2>1
  <2> QED
    BY <1>1, <1>3, <2>1, <2>2, <2>3, <2>4, <2>5
<1>5. CASE Report!Disconnected(n)
  <2>1. /\ n \in up /\ up' = up \ {n} /\ gone' = gone \union {n} /\ listed' = listed \ {n}
        /\ toNode' = [toNode EXCEPT ![n] = <<>>] /\ toMaster' = [toMaster EXCEPT ![n] = <<>>]
        /\ Report!ToPages(<<<<"remove", n>>, <<"remove", n>>>>) /\ stat' = Report!StatClear({n})
        /\ UNCHANGED <<commands, called, webClients, shown, counted>>
    BY <1>5 DEF Report!Disconnected
  <2>2. phase' \in {"idle", "ready", "running"} /\ UNCHANGED <<runs, times, issued, prof>>
    BY <1>1, <1>5 DEF Report!Disconnected, Report!agentVars
  <2>3. Links'
    <3>1. DOMAIN stat' = DOMAIN stat \ {n}
      BY <2>1 DEF Report!StatClear
    <3>2. toNode' \in [Node -> Seq(0 .. MaxRuns)] /\ toMaster' \in [Node -> Seq(Profile)]
      BY <1>1, <2>1
    <3>3. \A m \in Node \ up' : toNode'[m] = <<>> /\ toMaster'[m] = <<>>
      BY <1>1, <2>1
    <3>4. listed' = up' /\ DOMAIN stat' \subseteq up'
      BY <1>1, <2>1, <3>1
    <3> QED
      BY <3>2, <3>3, <3>4 DEF Links
  <2>4. Measures' /\ \A m \in Machine : MeasureOf(m)'
    BY <1>1, <2>2 DEF Measures, MeasureOf, Within
  <2>5. DOMAIN toPage' = Page /\ \A p \in Page : PageOf(p)'
    <3> DEFINE e == <<"remove", n>>
               msgs == <<e, e>>
               more == {}
    <3>1. /\ e \in Entry /\ Report!ToPages(msgs) /\ msgs = <<e, e>> /\ more \in SUBSET Node /\ more \subseteq listed'
          /\ listed' \subseteq listed \union more /\ (\A m \in more : e = <<"add", m>>)
          /\ (e[1] = "remove" => e[2] \in listed)
      BY <1>1, <1>2, <2>1
    <3> HIDE DEF e, msgs, more
    <3> QED
      BY <2>1, <3>1, PagesTold
  <2>6. /\ up' \subseteq Node /\ gone' \subseteq Node /\ runs' \in [Machine -> 0 .. MaxRuns] /\ commands' \in 0 .. MaxRuns
    BY <1>1, <2>1, <2>2, ReportConstants
  <2> QED
    BY <1>3, <2>1, <2>2, <2>3, <2>4, <2>5, <2>6
<1> QED
  BY <1>4, <1>5

\* A page connects, is lost, reads.
LEMMA ReportPages ==
  ASSUME ReportInv, NEW p \in Page,
         Report!AnnounceWebClient(p) \/ Report!PageLost(p) \/ Report!PageReads(p)
  PROVE  ReportInv'
<1>1. /\ webClients \subseteq Page /\ shown \in [Page -> SUBSET Node] /\ counted \in [Page -> Int]
      /\ DOMAIN toPage = Page /\ PageOf(p) /\ listed \subseteq Node
  BY ReportTypes DEF ReportInv
<1>2. UNCHANGED <<runs, times, issued, prof, toNode, toMaster, up, gone, listed, stat, phase, commands,
                  called>>
  BY DEF Report!AnnounceWebClient, Report!PageLost, Report!PageReads, Report!agentVars, Report!linkVars,
         Report!masterVars
\* Another page is what it was.
<1>3. ASSUME webClients' \in SUBSET Page, shown' \in [Page -> SUBSET Node], counted' \in [Page -> Int],
             DOMAIN toPage' = Page, PageOf(p)',
             \A o \in Page : o # p => /\ toPage'[o] = toPage[o] /\ shown'[o] = shown[o]
                                      /\ counted'[o] = counted[o] /\ (o \in webClients' <=> o \in webClients)
      PROVE  ReportInv'
  <2>1. Report!TypeOK'
    BY <1>2, <1>3 DEF ReportInv, Report!TypeOK, Report!NoData
  <2>2. Links' /\ Measures' /\ \A m \in Machine : MeasureOf(m)'
    BY <1>2 DEF ReportInv, Links, Measures, MeasureOf, Within
  <2>3. ASSUME NEW o \in Page PROVE PageOf(o)'
    <3>1. CASE o = p
      BY <1>3, <3>1
    <3>2. CASE o # p
      <4>1. /\ PageOf(o) /\ toPage'[o] = toPage[o] /\ shown'[o] = shown[o] /\ counted'[o] = counted[o]
            /\ (o \in webClients' <=> o \in webClients) /\ listed' = listed
        BY <1>2, <1>3, <3>2 DEF ReportInv
      <4> QED
        BY <4>1 DEF PageOf
    <3> QED
      BY <3>1, <3>2
  <2> QED
    BY <1>3, <2>1, <2>2, <2>3 DEF ReportInv
<1>4. CASE Report!AnnounceWebClient(p)
  <2>1. /\ webClients' = webClients \union {p} /\ toPage' = [toPage EXCEPT ![p] = Report!Listing(listed)]
        /\ UNCHANGED <<shown, counted>>
    BY <1>4 DEF Report!AnnounceWebClient
  <2>2. toPage'[p] = Report!Listing(listed) /\ DOMAIN toPage' = Page
    BY <1>1, <2>1
  <2>3. PageOf(p)'
    BY <1>1, <1>2, <2>1, <2>2, ListingTells DEF PageOf
  <2> QED
    BY <1>1, <1>3, <2>1, <2>2, <2>3
<1>5. CASE Report!PageLost(p)
  <2>1. /\ webClients' = webClients \ {p} /\ toPage' = [toPage EXCEPT ![p] = <<>>] /\ UNCHANGED <<shown, counted>>
    BY <1>5 DEF Report!PageLost
  <2>2. toPage'[p] = <<>> /\ DOMAIN toPage' = Page /\ p \notin webClients'
    BY <1>1, <2>1
  <2>3. PageOf(p)'
    BY <1>1, <2>1, <2>2 DEF PageOf, Ordered
  <2> QED
    BY <1>1, <1>3, <2>1, <2>2, <2>3
<1>6. CASE Report!PageReads(p)
  <2> DEFINE q == toPage[p]
             s == shown[p]
             e == Head(q)
  <2>1. /\ q # <<>> /\ toPage' = [toPage EXCEPT ![p] = Tail(q)] /\ UNCHANGED webClients
        /\ \/ e[1] = "add" /\ Report!AddNode(p, e[2])
           \/ e[1] # "add" /\ Report!RemoveNode(p, e[2])
    BY <1>6 DEF Report!PageReads
  <2>2. /\ q \in Seq(Entry) /\ Ordered(q, s) /\ counted[p] = Cardinality(s)
        /\ \A n \in listed : p \in webClients => Gets(q, s, n)
        /\ p \in webClients
    BY <1>1, <2>1 DEF PageOf
  <2>3. s \subseteq Node /\ IsFiniteSet(s)
    BY <1>1, ReportConstants, FS_Subset
  <2>4. e \in Entry /\ e[1] \in {"add", "remove"} /\ e[2] \in Node
    BY <2>1, <2>2, HeadTailProperties DEF Entry
  <2>5. Head(q)[1] = "add" => Head(q)[2] \in s \union {e[2]}
    OBVIOUS
  <2>6. e[1] = "remove" => e[2] \in s
    <3>1. s \subseteq s \union {e[2]}
      OBVIOUS
    <3> QED
      BY <2>1, <2>2, <2>5, <3>1, PageReadsOne
  <2>7. \E s2 : /\ shown' = [shown EXCEPT ![p] = s2] /\ counted' = [counted EXCEPT ![p] = Cardinality(s2)]
                /\ s \subseteq s2 /\ s2 \subseteq s \union {e[2]} /\ (e[1] = "add" => e[2] \in s2)
    <3>1. CASE e[2] \in s
      <4>1. UNCHANGED <<shown, counted>>
        BY <2>1, <3>1 DEF Report!AddNode, Report!RemoveNode
      <4>2. shown' = [shown EXCEPT ![p] = s] /\ counted' = [counted EXCEPT ![p] = Cardinality(s)]
        BY <1>1, <2>2, <4>1
      <4>3. s \subseteq s /\ s \subseteq s \union {e[2]}
        OBVIOUS
      <4> HIDE DEF s, e
      <4> QED
        BY <3>1, <4>2, <4>3
    <3>2. CASE e[2] \notin s
      <4>1. e[1] = "add"
        BY <2>4, <2>6, <3>2
      <4>2. shown' = [shown EXCEPT ![p] = s \union {e[2]}] /\ counted' = [counted EXCEPT ![p] = @ + 1]
        BY <2>1, <3>2, <4>1 DEF Report!AddNode
      <4>3. Cardinality(s \union {e[2]}) = counted[p] + 1
        BY <2>2, <2>3, <3>2, FS_AddElement
      <4> DEFINE s2 == s \union {e[2]}
      <4>4. /\ shown' = [shown EXCEPT ![p] = s2] /\ counted' = [counted EXCEPT ![p] = Cardinality(s2)]
            /\ s \subseteq s2 /\ s2 \subseteq s \union {e[2]} /\ e[2] \in s2
        BY <4>2, <4>3
      <4> HIDE DEF s2, s, e
      <4> QED
        BY <4>4
    <3> QED
      BY <3>1, <3>2
  <2>8. PICK s2 : /\ shown' = [shown EXCEPT ![p] = s2] /\ counted' = [counted EXCEPT ![p] = Cardinality(s2)]
                  /\ s \subseteq s2 /\ s2 \subseteq s \union {e[2]} /\ (e[1] = "add" => e[2] \in s2)
    BY <2>7
  <2>9. s2 \in SUBSET Node /\ Cardinality(s2) \in Nat
    <3>1. s2 \in SUBSET Node
      BY <2>3, <2>4, <2>8
    <3> QED
      BY <3>1, ReportConstants, FS_Subset, FS_CardinalityType
  <2>10. /\ Tail(q) \in Seq(Entry) /\ Ordered(Tail(q), s2)
         /\ \A n : Gets(q, s, n) => Gets(Tail(q), s2, n)
    BY <2>1, <2>2, <2>8, PageReadsOne
  <2> HIDE DEF q, s, e
  <2>11. /\ toPage'[p] = Tail(q) /\ shown'[p] = s2 /\ counted'[p] = Cardinality(s2) /\ DOMAIN toPage' = Page
         /\ shown' \in [Page -> SUBSET Node] /\ counted' \in [Page -> Int]
         /\ \A o \in Page : o # p => /\ toPage'[o] = toPage[o] /\ shown'[o] = shown[o]
                                     /\ counted'[o] = counted[o]
    BY <1>1, <2>1, <2>8, <2>9
  <2>12. PageOf(p)'
    <3>1. \A n \in listed' : Gets(toPage'[p], shown'[p], n)
      BY <1>2, <2>2, <2>10, <2>11
    <3>2. /\ toPage'[p] \in Seq(Entry) /\ Ordered(toPage'[p], shown'[p])
          /\ counted'[p] = Cardinality(shown'[p]) /\ p \in webClients'
      BY <2>1, <2>2, <2>10, <2>11
    <3> QED
      BY <3>1, <3>2 DEF PageOf
  <2> QED
    BY <1>1, <1>3, <2>1, <2>11, <2>12
<1> QED
  BY <1>4, <1>5, <1>6

LEMMA ReportInvStep == ReportInv /\ [Report!Next]_reportVars => ReportInv'
<1> SUFFICES ASSUME ReportInv, [Report!Next]_reportVars PROVE ReportInv'
  OBVIOUS
<1>1. CASE UNCHANGED reportVars
  <2>1. Report!TypeOK'
    BY <1>1 DEF reportVars, ReportInv, Report!TypeOK, Report!NoData
  <2>2. Links' /\ Measures' /\ \A m \in Machine : MeasureOf(m)'
    BY <1>1 DEF reportVars, ReportInv, Links, Measures, MeasureOf, Within
  <2>3. DOMAIN toPage' = Page /\ \A p \in Page : PageOf(p)'
    BY <1>1 DEF reportVars, ReportInv, PageOf
  <2> QED
    BY <2>1, <2>2, <2>3 DEF ReportInv
<1>2. ASSUME NEW n \in Node, Report!MergeReport(n) PROVE ReportInv'
  <2>1. MachineOf[n] \in Machine
    BY ReportConstants
  <2> QED
    BY <1>2, <2>1, ReportMonitors
<1>3. ASSUME NEW a \in Machine, Report!ActorEmits(a) PROVE ReportInv'
  BY <1>3, ReportMonitors
<1>4. ASSUME NEW a \in Machine, NEW n \in Node, Report!AgentRuns(a, n) \/ Report!Reports(a, n)
      PROVE  ReportInv'
  BY <1>4, ReportMonitors
<1> QED
  BY <1>1, <1>2, <1>3, <1>4, ReportCommands, ReportNodes, ReportPages DEF Report!Next

\* What the robot measures and its pages show.
LEMMA ReportInvInductive == Spec => []ReportInv
<1>1. Init => ReportInv
  BY ReportInit DEF Init
<1>2. ReportInv /\ [Next]_vars => ReportInv'
  <2> SUFFICES ASSUME ReportInv, [Next]_vars PROVE ReportInv'
    OBVIOUS
  <2>1. [Report!Next]_reportVars
    BY Zenon DEF Next, vars
  <2> QED
    BY <2>1, ReportInvStep
<1> QED
  BY <1>1, <1>2, PTL DEF Spec

LEMMA ReportSafe == ReportInv => Report!PagesShow /\ Report!MeasuredOnce
<1> SUFFICES ASSUME ReportInv PROVE Report!PagesShow /\ Report!MeasuredOnce
  OBVIOUS
<1>1. Report!PagesShow
  <2> SUFFICES ASSUME NEW p \in Page
               PROVE  /\ p \in webClients /\ toPage[p] = <<>> => listed \subseteq shown[p]
                      /\ counted[p] = Report!Cardinality(shown[p])
    BY DEF Report!PagesShow
  <2>1. PageOf(p)
    BY DEF ReportInv
  <2>2. counted[p] = Report!Cardinality(shown[p])
    BY <2>1, ReportSame DEF PageOf
  <2>3. ASSUME p \in webClients, toPage[p] = <<>> PROVE listed \subseteq shown[p]
    <3>1. \A n \in listed : Gets(<<>>, shown[p], n)
      BY <2>1, <2>3 DEF PageOf
    <3> QED
      BY <3>1 DEF Gets, Before
  <2> QED
    BY <2>2, <2>3
<1>2. Report!MeasuredOnce
  <2>1. \A a \in Machine : /\ prof[a].num + Report!Cardinality(times[a]) <= Report!Cardinality(issued[a])
                           /\ Within(prof[a])
    BY ReportSame DEF ReportInv, MeasureOf
  <2>2. DOMAIN Report!WebReport \subseteq up
    BY DEF Report!WebReport, ReportInv, Links
  <2> QED
    BY <2>1, <2>2 DEF Report!MeasuredOnce, Within
<1> QED
  BY <1>1, <1>2

-----------------------------------------------------------------------------
(* The agents of the robot: Agent.js, master/Server.js, NodeClient.js.     *)

\* What a socket announces is an id of its own agent.
IsOf(id, s) == id = Robot!Undefined \/ (id \in Robot!Socket /\ id[1] = s[1])
RunsIn(q) == Cardinality({k \in 1 .. Len(q) : q[k] = "run"})

\* Of every agent.
SocketOf(s) ==
  /\ client[s] = "connecting" => s \notin server
  /\ heard[s] # {} => s \in server
  /\ \A k \in 1 .. Len(told[s]) : IsOf(told[s][k], s)
  /\ \A id \in heard[s] : IsOf(id, s)
  /\ client[s] # "down" => s[1] \in alive /\ current[s[1]] # 0
Nodes ==
  /\ IsFiniteSet(DOMAIN nodes)
  /\ \A id \in DOMAIN nodes : id \in heard[nodes[id]]
AgentOf(a) == a \notin alive => timersR[a] = 0

\* Of an agent that was not restarted while a reconnection was pending: one socket is in
\* use, and no other while a timer will make one; it announces itself once; it is told to
\* run as often as the master commanded it, at most.
SingleSocket(s) ==
  /\ client[s] # "down" => s[2] = current[s[1]] /\ timersR[s[1]] = 0
  /\ told[s] # <<>> => told[s] = <<s>> /\ s \in server /\ heard[s] = {}
  /\ heard[s] \subseteq {s}
  /\ \A k \in 1 .. Len(inbox[s]) : inbox[s][k] # "exists"
  /\ client[s] = "up" /\ s \in server => ranR[s[1]] + RunsIn(inbox[s]) <= commanded
Single(a) ==
  /\ timersR[a] <= 1 /\ (timersR[a] = 1 => reconnecting[a] /\ ~connected[a])
  /\ a \notin exitedR /\ ranR[a] <= commanded

Counts == ranR \in [Agent -> Nat] /\ commanded \in Nat

RobotInv ==
  /\ Robot!TypeOK /\ Counts /\ Nodes
  /\ \A s \in Robot!Socket : SocketOf(s)
  /\ \A a \in Agent : AgentOf(a)
  /\ \A s \in Robot!Socket : s[1] \notin overlapped => SingleSocket(s)
  /\ \A a \in Agent \ overlapped : Single(a)

LEMMA RobotSame ==
  /\ \A S : Robot!Cardinality(S) = Cardinality(S)
  /\ MaxSockets \in Nat /\ MaxTimers \in Nat
<1>1. \A S : Robot!Cardinality(S) = Cardinality(S)
  BY Zenon DEF Robot!Cardinality, Cardinality
<1> QED
  BY <1>1, RobotAssumption DEF Robot!RobotAssumption

Messages == {"run", "disconnect", "exit", "exists"}

LEMMA RobotTypes ==
  ASSUME Robot!TypeOK
  PROVE  /\ alive \subseteq Agent /\ exitedR \subseteq Agent /\ overlapped \subseteq Agent
         /\ current \in [Agent -> 0 .. MaxSockets] /\ timersR \in [Agent -> 0 .. MaxTimers]
         /\ connected \in [Agent -> BOOLEAN] /\ reconnecting \in [Agent -> BOOLEAN]
         /\ client \in [Robot!Socket -> {"down", "connecting", "up"}]
         /\ told \in [Robot!Socket -> Seq(Robot!Ids)] /\ heard \in [Robot!Socket -> SUBSET Robot!Ids]
         /\ inbox \in [Robot!Socket -> Seq(Messages)]
         /\ server \subseteq Robot!Socket
         /\ DOMAIN nodes \subseteq Robot!Ids /\ \A id \in DOMAIN nodes : nodes[id] \in Robot!Socket
         /\ statusR \in {"idle", "ready", "running"}
BY DEF Robot!TypeOK, Messages

LEMMA RobotTyped ==
  ASSUME alive' \subseteq Agent, exitedR' \subseteq Agent, overlapped' \subseteq Agent,
         current' \in [Agent -> 0 .. MaxSockets], timersR' \in [Agent -> 0 .. MaxTimers],
         connected' \in [Agent -> BOOLEAN], reconnecting' \in [Agent -> BOOLEAN],
         client' \in [Robot!Socket -> {"down", "connecting", "up"}],
         told' \in [Robot!Socket -> Seq(Robot!Ids)], heard' \in [Robot!Socket -> SUBSET Robot!Ids],
         inbox' \in [Robot!Socket -> Seq(Messages)],
         server' \subseteq Robot!Socket,
         DOMAIN nodes' \subseteq Robot!Ids, \A id \in DOMAIN nodes' : nodes'[id] \in Robot!Socket,
         statusR' \in {"idle", "ready", "running"}
  PROVE  Robot!TypeOK'
BY DEF Robot!TypeOK, Messages

LEMMA SocketIs ==
  /\ \A s \in Robot!Socket : s[1] \in Agent /\ s[2] \in 1 .. MaxSockets /\ s = <<s[1], s[2]>>
  /\ \A a \in Agent, i \in 1 .. MaxSockets : <<a, i>> \in Robot!Socket
  /\ \A a \in Agent : <<a, 0>> \notin Robot!Socket
  /\ Robot!Undefined \notin Robot!Socket /\ Robot!Undefined \in Robot!Ids
  /\ Robot!Socket \subseteq Robot!Ids
  /\ \A s \in Robot!Socket, id \in Robot!Ids : IsOf(id, s) => id = Robot!Undefined \/ id[1] = s[1]
BY DEF Robot!Socket, Robot!Slot, Robot!Undefined, Robot!Ids, IsOf

\* How often a list of messages says "run".
LEMMA RunsCount ==
  ASSUME NEW q \in Seq(Messages)
  PROVE  /\ RunsIn(q) \in Nat /\ RunsIn(<<>>) = 0
         /\ \A m \in Messages : /\ Append(q, m) \in Seq(Messages)
                                /\ RunsIn(Append(q, m)) = IF m = "run" THEN RunsIn(q) + 1 ELSE RunsIn(q)
         /\ q # <<>> => /\ Tail(q) \in Seq(Messages) /\ Head(q) \in Messages
                        /\ RunsIn(q) = IF Head(q) = "run" THEN RunsIn(Tail(q)) + 1 ELSE RunsIn(Tail(q))
<1> DEFINE S == {k \in 1 .. Len(q) : q[k] = "run"}
<1>1. Len(q) \in Nat
  OBVIOUS
<1>2. IsFiniteSet(S) /\ Cardinality(S) \in Nat
  <2>1. S \in SUBSET (1 .. Len(q)) /\ IsFiniteSet(1 .. Len(q))
    BY <1>1, FS_Interval
  <2> HIDE DEF S
  <2>2. IsFiniteSet(S)
    BY <2>1, FS_Subset
  <2> QED
    BY <2>2, FS_CardinalityType
<1>3. RunsIn(<<>>) = 0
  <2>1. {k \in 1 .. Len(<<>>) : <<>>[k] = "run"} = {}
    OBVIOUS
  <2> QED
    BY <2>1, FS_EmptySet DEF RunsIn
<1>4. ASSUME NEW m \in Messages
      PROVE  /\ Append(q, m) \in Seq(Messages)
             /\ RunsIn(Append(q, m)) = IF m = "run" THEN RunsIn(q) + 1 ELSE RunsIn(q)
  <2> DEFINE r == Append(q, m)
             T == {k \in 1 .. Len(r) : r[k] = "run"}
  <2>1. /\ r \in Seq(Messages) /\ Len(r) = Len(q) + 1 /\ r[Len(q) + 1] = m
        /\ \A k \in 1 .. Len(q) : r[k] = q[k]
    OBVIOUS
  <2> HIDE DEF r
  <2>2. T = IF m = "run" THEN S \union {Len(q) + 1} ELSE S
    BY <1>1, <2>1
  <2>3. Len(q) + 1 \notin S
    BY <1>1
  <2>4. Cardinality(T) = IF m = "run" THEN Cardinality(S) + 1 ELSE Cardinality(S)
    <3> DEFINE n == Len(q) + 1
    <3> HIDE DEF S, T, n
    <3>1. Cardinality(S \union {n}) = Cardinality(S) + 1
      BY <1>2, <2>3, FS_AddElement DEF n
    <3>2. T = IF m = "run" THEN S \union {n} ELSE S
      BY <2>2 DEF n
    <3> QED
      BY <3>1, <3>2
  <2> QED
    BY <2>1, <2>4 DEF RunsIn, r
<1>5. ASSUME q # <<>>
      PROVE  /\ Tail(q) \in Seq(Messages) /\ Head(q) \in Messages
             /\ RunsIn(q) = IF Head(q) = "run" THEN RunsIn(Tail(q)) + 1 ELSE RunsIn(Tail(q))
  <2> DEFINE r == Tail(q)
             T == {k \in 1 .. Len(r) : r[k] = "run"}
             f == [k \in T |-> k + 1]
  <2>1. /\ r \in Seq(Messages) /\ Len(r) = Len(q) - 1 /\ Head(q) \in Messages /\ Head(q) = q[1]
        /\ Len(q) >= 1
        /\ \A k \in 1 .. Len(r) : r[k] = q[k + 1]
    BY <1>5, HeadTailProperties
  <2> HIDE DEF r
  <2>2. IsFiniteSet(T) /\ Cardinality(T) \in Nat
    <3>a. Len(r) \in Nat /\ T \in SUBSET (1 .. Len(r))
      BY <1>1, <2>1
    <3> HIDE DEF T
    <3>1. IsFiniteSet(1 .. Len(r))
      BY <3>a, FS_Interval
    <3>2. IsFiniteSet(T)
      BY <3>a, <3>1, FS_Subset
    <3> QED
      BY <3>2, FS_CardinalityType
  <2>3. f \in Bijection(T, S \ {1})
    <3>1. \A k \in T : k \in Nat /\ k + 1 \in S \ {1}
      BY <1>1, <2>1
    <3>2. \A j \in S \ {1} : j - 1 \in T /\ (j - 1) + 1 = j
      <4> SUFFICES ASSUME NEW j \in S, j # 1 PROVE j - 1 \in T /\ (j - 1) + 1 = j
        OBVIOUS
      <4>1. j \in 2 .. Len(q) /\ j - 1 \in 1 .. Len(r) /\ (j - 1) + 1 = j
        BY <1>1, <2>1
      <4>2. r[j - 1] = q[j]
        BY <2>1, <4>1
      <4> QED
        BY <4>1, <4>2
    <3> HIDE DEF S, T
    <3>3. f \in [T -> S \ {1}] /\ \A k \in T : f[k] = k + 1
      BY <3>1
    <3>4. \A j, k \in T : f[j] = f[k] => j = k
      BY <3>1, <3>3
    <3>5. \A j \in S \ {1} : \E k \in T : f[k] = j
      BY <3>2, <3>3
    <3> HIDE DEF f
    <3> QED
      BY <3>3, <3>4, <3>5 DEF Bijection, Injection, Surjection, IsInjective
  <2>4. Cardinality(S \ {1}) = Cardinality(T)
    <3> HIDE DEF S, T, f
    <3>1. ExistsBijection(T, S \ {1})
      BY <2>3 DEF ExistsBijection
    <3> QED
      BY <2>2, <3>1, FS_Bijection
  <2>5. 1 \in S <=> Head(q) = "run"
    BY <1>1, <2>1
  <2>6. Cardinality(S) = IF Head(q) = "run" THEN Cardinality(T) + 1 ELSE Cardinality(T)
    <3> HIDE DEF S, T, f
    <3>1. CASE 1 \in S
      <4>1. Cardinality(S \ {1}) = Cardinality(S) - 1
        BY <1>2, <3>1, FS_RemoveElement
      <4> QED
        BY <1>2, <2>2, <2>4, <2>5, <3>1, <4>1
    <3>2. CASE 1 \notin S
      <4>1. S \ {1} = S
        BY <3>2
      <4> QED
        BY <1>2, <2>2, <2>4, <2>5, <3>2, <4>1
    <3> QED
      BY <3>1, <3>2
  <2> QED
    BY <2>1, <2>6 DEF RunsIn, r
<1> QED
  BY <1>2, <1>3, <1>4, <1>5 DEF RunsIn

\* A step of agents A leaves the others and their sockets alone, but for messages that are
\* not answers to an id taken and say "run" no oftener than the master commanded it.
QuietBox(s) ==
  /\ (\A k \in 1 .. Len(inbox[s]) : inbox[s][k] # "exists") =>
       \A k \in 1 .. Len(inbox'[s]) : inbox'[s][k] # "exists"
  /\ RunsIn(inbox'[s]) + commanded <= RunsIn(inbox[s]) + commanded'
SocketStays(s) ==
  /\ client'[s] = client[s] /\ told'[s] = told[s] /\ heard'[s] = heard[s]
  /\ s \in server' <=> s \in server
AgentStays(b) ==
  /\ b \in alive' <=> b \in alive
  /\ b \in exitedR' <=> b \in exitedR
  /\ b \in overlapped' <=> b \in overlapped
  /\ current'[b] = current[b] /\ timersR'[b] = timersR[b] /\ ranR'[b] = ranR[b]
  /\ connected'[b] = connected[b] /\ reconnecting'[b] = reconnecting[b]
OthersStay(A) ==
  /\ \A b \in Agent \ A : AgentStays(b)
  /\ \A s \in Robot!Socket : s[1] \notin A => SocketStays(s) /\ (s[1] \notin overlapped => QuietBox(s))
SocketFine(s) == SocketOf(s)' /\ (s[1] \notin overlapped' => SingleSocket(s)')
AgentFine(a) == AgentOf(a)' /\ (a \notin overlapped' => Single(a)')

LEMMA SocketStaysFine ==
  ASSUME RobotInv, Robot!TypeOK', Counts', commanded <= commanded',
         NEW s \in Robot!Socket, SocketStays(s), AgentStays(s[1]), s[1] \notin overlapped => QuietBox(s)
  PROVE  SocketFine(s)
<1>1. s[1] \in Agent
  BY SocketIs
<1>2. SocketOf(s) /\ (s[1] \notin overlapped => SingleSocket(s))
  BY DEF RobotInv
<1>3. SocketOf(s)'
  BY <1>2 DEF SocketStays, AgentStays, SocketOf
<1>4. ASSUME s[1] \notin overlapped' PROVE SingleSocket(s)'
  <2>1. s[1] \notin overlapped /\ SingleSocket(s) /\ QuietBox(s)
    BY <1>2, <1>4 DEF AgentStays
  <2>2. RunsIn(inbox[s]) \in Nat /\ RunsIn(inbox'[s]) \in Nat
    <3>1. inbox[s] \in Seq(Messages) /\ inbox'[s] \in Seq(Messages)
      BY RobotTypes DEF RobotInv, Robot!TypeOK, Messages
    <3> QED
      BY <3>1, RunsCount
  <2>3. ranR[s[1]] \in Nat /\ commanded \in Nat /\ commanded' \in Nat
    BY <1>1 DEF RobotInv, Counts
  <2>4. client'[s] = "up" /\ s \in server' => ranR'[s[1]] + RunsIn(inbox'[s]) <= commanded'
    <3> SUFFICES ASSUME client[s] = "up", s \in server
                 PROVE  ranR[s[1]] + RunsIn(inbox'[s]) <= commanded'
      BY DEF SocketStays, AgentStays
    <3>1. ranR[s[1]] + RunsIn(inbox[s]) <= commanded
      BY <2>1 DEF SingleSocket
    <3>2. RunsIn(inbox'[s]) + commanded <= RunsIn(inbox[s]) + commanded'
      BY <2>1 DEF QuietBox
    <3> QED
      BY <2>2, <2>3, <3>1, <3>2
  <2>5. \A k \in 1 .. Len(inbox'[s]) : inbox'[s][k] # "exists"
    BY <2>1 DEF SingleSocket, QuietBox
  <2>6. /\ client'[s] # "down" => s[2] = current'[s[1]] /\ timersR'[s[1]] = 0
        /\ told'[s] # <<>> => told'[s] = <<s>> /\ s \in server' /\ heard'[s] = {}
        /\ heard'[s] \subseteq {s}
    BY <2>1 DEF SingleSocket, SocketStays, AgentStays
  <2> QED
    BY <2>4, <2>5, <2>6 DEF SingleSocket
<1> QED
  BY <1>3, <1>4 DEF SocketFine

LEMMA AgentStaysFine ==
  ASSUME RobotInv, Counts', commanded <= commanded', NEW b \in Agent, AgentStays(b)
  PROVE  AgentFine(b)
<1>1. AgentOf(b) /\ (b \notin overlapped => Single(b)) /\ ranR[b] \in Nat /\ commanded \in Nat
  BY DEF RobotInv, Counts
<1>2. AgentOf(b)'
  BY <1>1 DEF AgentStays, AgentOf
<1>3. ASSUME b \notin overlapped' PROVE Single(b)'
  <2>1. Single(b)
    BY <1>1, <1>3 DEF AgentStays
  <2>2. ranR'[b] <= commanded'
    BY <1>1, <2>1 DEF AgentStays, Single, Counts
  <2> QED
    BY <2>1, <2>2 DEF AgentStays, Single
<1> QED
  BY <1>2, <1>3 DEF AgentFine

LEMMA RobotStep ==
  ASSUME RobotInv, NEW A, OthersStay(A), commanded <= commanded',
         Robot!TypeOK', Counts', Nodes',
         \A s \in Robot!Socket : s[1] \in A => SocketFine(s),
         \A a \in Agent : a \in A => AgentFine(a)
  PROVE  RobotInv'
<1>1. \A s \in Robot!Socket : SocketFine(s)
  <2> SUFFICES ASSUME NEW s \in Robot!Socket, s[1] \notin A PROVE SocketFine(s)
    OBVIOUS
  <2>1. s[1] \in Agent
    BY SocketIs
  <2> QED
    BY <2>1, SocketStaysFine DEF OthersStay
<1>2. \A a \in Agent : AgentFine(a)
  BY AgentStaysFine DEF OthersStay
<1>3. /\ \A s \in Robot!Socket : SocketOf(s)' /\ (s[1] \notin overlapped' => SingleSocket(s)')
      /\ \A a \in Agent : AgentOf(a)' /\ (a \notin overlapped' => Single(a)')
  BY <1>1, <1>2 DEF SocketFine, AgentFine
<1> QED
  BY <1>3 DEF RobotInv

\* Sockets are closed by their agents.
LEMMA Closes ==
  ASSUME Robot!TypeOK, NEW S, Robot!Closed(S)
  PROVE  /\ client' \in [Robot!Socket -> {"down", "connecting", "up"}]
         /\ told' \in [Robot!Socket -> Seq(Robot!Ids)]
         /\ \A s \in Robot!Socket :
              /\ s \in S => client'[s] = "down"
              /\ s \notin S => client'[s] = client[s]
              /\ told'[s] = told[s] \/ (told'[s] = <<>> /\ s \in S /\ s \notin server)
<1>1. /\ client' = [s \in Robot!Socket |-> IF s \in S THEN "down" ELSE client[s]]
      /\ told' = [s \in Robot!Socket |-> IF s \in S /\ s \notin server THEN <<>> ELSE told[s]]
  BY DEF Robot!Closed
<1>2. /\ client \in [Robot!Socket -> {"down", "connecting", "up"}]
      /\ told \in [Robot!Socket -> Seq(Robot!Ids)]
  BY DEF Robot!TypeOK
<1>3. <<>> \in Seq(Robot!Ids)
  OBVIOUS
<1> QED
  BY <1>1, <1>2, <1>3

\* A socket is made by an agent that has none in use.
LEMMA Connects ==
  ASSUME Robot!TypeOK, NEW a \in Agent, Robot!Connect(a)
  PROVE  \E i \in 1 .. MaxSockets :
           /\ client[<<a, i>>] = "down" /\ <<a, i>> \notin server
           /\ current' \in [Agent -> 0 .. MaxSockets] /\ current'[a] = i
           /\ \A b \in Agent \ {a} : current'[b] = current[b]
           /\ client' \in [Robot!Socket -> {"down", "connecting", "up"}]
           /\ client'[<<a, i>>] = "connecting"
           /\ told' \in [Robot!Socket -> Seq(Robot!Ids)] /\ told'[<<a, i>>] = <<>>
           /\ \A s \in Robot!Socket : s # <<a, i>> => client'[s] = client[s] /\ told'[s] = told[s]
<1>1. PICK i \in Robot!Unused(a) :
        /\ current' = [current EXCEPT ![a] = i]
        /\ client' = [client EXCEPT ![<<a, i>>] = "connecting"]
        /\ told' = [told EXCEPT ![<<a, i>>] = <<>>]
  BY DEF Robot!Connect
<1>2. i \in 1 .. MaxSockets /\ client[<<a, i>>] = "down" /\ <<a, i>> \notin server
  BY DEF Robot!Unused, Robot!Slot
<1>3. /\ client \in [Robot!Socket -> {"down", "connecting", "up"}]
      /\ told \in [Robot!Socket -> Seq(Robot!Ids)]
      /\ current \in [Agent -> 0 .. MaxSockets]
  BY DEF Robot!TypeOK
<1> DEFINE c == <<a, i>>
<1>4. c \in Robot!Socket
  BY <1>2, SocketIs
<1>5. i \in 0 .. MaxSockets /\ <<>> \in Seq(Robot!Ids)
  BY <1>2, RobotSame
<1>6. /\ current' \in [Agent -> 0 .. MaxSockets] /\ current'[a] = i
      /\ \A b \in Agent \ {a} : current'[b] = current[b]
  BY <1>1, <1>3, <1>5
<1>7. client' = [client EXCEPT ![c] = "connecting"] /\ told' = [told EXCEPT ![c] = <<>>]
  BY <1>1
<1> HIDE DEF c
<1>8. /\ client' \in [Robot!Socket -> {"down", "connecting", "up"}]
      /\ client'[c] = "connecting"
      /\ told' \in [Robot!Socket -> Seq(Robot!Ids)] /\ told'[c] = <<>>
      /\ \A s \in Robot!Socket : s # c => client'[s] = client[s] /\ told'[s] = told[s]
  BY <1>3, <1>4, <1>5, <1>7
<1> QED
  BY <1>2, <1>6, <1>8 DEF c

LEMMA ConnectFine ==
  ASSUME RobotInv, NEW a \in Agent, Robot!Connect(a), a \in alive',
         heard' = heard, server' = server,
         a \notin overlapped' =>
           /\ a \notin overlapped /\ timersR'[a] = 0
           /\ \A s \in Robot!Socket : s[1] = a => client[s] = "down" /\ QuietBox(s)
  PROVE  \A s \in Robot!Socket : s[1] = a => SocketFine(s)
<1>1. Robot!TypeOK
  BY DEF RobotInv
<1>2. PICK i \in 1 .. MaxSockets :
           /\ client[<<a, i>>] = "down" /\ <<a, i>> \notin server
           /\ current'[a] = i
           /\ client'[<<a, i>>] = "connecting" /\ told'[<<a, i>>] = <<>>
           /\ \A s \in Robot!Socket : s # <<a, i>> => client'[s] = client[s] /\ told'[s] = told[s]
  BY <1>1, Connects
<1> DEFINE c == <<a, i>>
<1>3. /\ c \in Robot!Socket /\ c[1] = a /\ c[2] = i /\ client[c] = "down" /\ c \notin server
      /\ client'[c] = "connecting" /\ told'[c] = <<>>
      /\ \A s \in Robot!Socket : s # c => client'[s] = client[s] /\ told'[s] = told[s]
      /\ current'[a] = i /\ i # 0
  BY <1>2, SocketIs, RobotSame
<1> HIDE DEF c
<1> SUFFICES ASSUME NEW s \in Robot!Socket, s[1] = a PROVE SocketFine(s)
  OBVIOUS
<1>4. SocketOf(s)
  BY DEF RobotInv
<1>5. SocketOf(s)'
  <2>1. CASE s = c
    BY <1>3, <1>4, <2>1 DEF SocketOf
  <2>2. CASE s # c
    BY <1>3, <1>4, <2>2 DEF SocketOf
  <2> QED
    BY <2>1, <2>2
<1>6. ASSUME a \notin overlapped' PROVE SingleSocket(s)'
  <2>1. SingleSocket(s) /\ timersR'[a] = 0 /\ client[s] = "down" /\ QuietBox(s)
    BY <1>6 DEF RobotInv
  <2>2. client'[s] # "up"
    BY <1>3, <2>1
  <2>3. client'[s] # "down" => s[2] = current'[s[1]] /\ timersR'[s[1]] = 0
    BY <1>3, <2>1
  <2>4. told'[s] # <<>> => told'[s] = <<s>> /\ s \in server' /\ heard'[s] = {}
    BY <1>3, <2>1 DEF SingleSocket
  <2>5. \A k \in 1 .. Len(inbox'[s]) : inbox'[s][k] # "exists"
    BY <2>1 DEF SingleSocket, QuietBox
  <2>6. heard'[s] \subseteq {s}
    BY <2>1 DEF SingleSocket
  <2> QED
    BY <2>2, <2>3, <2>4, <2>5, <2>6 DEF SingleSocket
<1> QED
  BY <1>5, <1>6 DEF SocketFine

\* An agent closes sockets, and all it has if it is without a pending reconnection.
LEMMA CloseFine ==
  ASSUME RobotInv, NEW a \in Agent, NEW S, Robot!Closed(S),
         heard' = heard, server' = server,
         \A s \in Robot!Socket : s[1] = a /\ client[s] # "down" /\ s \notin S =>
           a \in alive' /\ current'[a] # 0,
         a \notin overlapped' =>
           /\ a \notin overlapped
           /\ \A s \in Robot!Socket : s[1] = a /\ client[s] # "down" => s \in S
           /\ \A s \in Robot!Socket : s[1] = a =>
                 \A k \in 1 .. Len(inbox'[s]) : inbox'[s][k] # "exists"
  PROVE  \A s \in Robot!Socket : s[1] = a => SocketFine(s)
<1> SUFFICES ASSUME NEW s \in Robot!Socket, s[1] = a PROVE SocketFine(s)
  OBVIOUS
<1>1. SocketOf(s) /\ Robot!TypeOK
  BY DEF RobotInv
<1>2. /\ s \in S => client'[s] = "down"
      /\ s \notin S => client'[s] = client[s]
      /\ told'[s] = told[s] \/ (told'[s] = <<>> /\ s \in S /\ s \notin server)
  BY <1>1, Closes
<1>3. SocketOf(s)'
  <2>1. \A k \in 1 .. Len(told'[s]) : IsOf(told'[s][k], s)
    BY <1>1, <1>2 DEF SocketOf
  <2>2. client'[s] # "down" => client[s] # "down" /\ s \notin S /\ client'[s] = client[s]
    BY <1>2
  <2> QED
    BY <1>1, <2>1, <2>2 DEF SocketOf
<1>4. ASSUME a \notin overlapped' PROVE SingleSocket(s)'
  <2>1. SingleSocket(s) /\ client'[s] = "down"
    <3>1. SingleSocket(s)
      BY <1>4 DEF RobotInv
    <3>2. CASE client[s] = "down"
      BY <1>2, <3>1, <3>2
    <3>3. CASE client[s] # "down"
      BY <1>2, <1>4, <3>1, <3>3
    <3> QED
      BY <3>2, <3>3
  <2>2. told'[s] # <<>> => told'[s] = <<s>> /\ s \in server' /\ heard'[s] = {}
    BY <1>2, <2>1 DEF SingleSocket
  <2>3. heard'[s] \subseteq {s}
    BY <2>1 DEF SingleSocket
  <2> QED
    BY <1>4, <2>1, <2>2, <2>3 DEF SingleSocket
<1> QED
  BY <1>3, <1>4 DEF SocketFine

LEMMA QuietMessage ==
  ASSUME Robot!TypeOK, Counts, NEW s \in Robot!Socket,
         NEW m \in Messages \ {"exists"}, inbox'[s] = inbox[s] \/ inbox'[s] = Append(inbox[s], m),
         commanded' = IF m = "run" THEN commanded + 1 ELSE commanded
  PROVE  QuietBox(s)
<1>1. inbox[s] \in Seq(Messages) /\ commanded \in Nat
  BY RobotTypes DEF Counts
<1>2. RunsIn(inbox[s]) \in Nat
  BY <1>1, RunsCount
<1>3. CASE inbox'[s] = inbox[s]
  BY <1>1, <1>2, <1>3 DEF QuietBox
<1>4. CASE inbox'[s] = Append(inbox[s], m)
  <2> DEFINE q == inbox[s]
             r == Append(q, m)
  <2>1. q \in Seq(Messages) /\ inbox'[s] = r /\ m \in Messages /\ m # "exists"
    BY <1>1, <1>4
  <2>2. RunsIn(r) = IF m = "run" THEN RunsIn(q) + 1 ELSE RunsIn(q)
    <3> HIDE DEF q
    <3> QED
      BY <2>1, RunsCount
  <2>3. \A k \in 1 .. Len(r) : r[k] = q[k] \/ r[k] = m
    <3> HIDE DEF q
    <3> QED
      BY <2>1
  <2>4. \A k \in 1 .. Len(r) : k \notin 1 .. Len(q) => r[k] = m
    <3> HIDE DEF q
    <3> QED
      BY <2>1
  <2>5. (\A k \in 1 .. Len(q) : q[k] # "exists") => \A k \in 1 .. Len(r) : r[k] # "exists"
    <3> HIDE DEF q, r
    <3> QED
      BY <2>1, <2>3, <2>4
  <2> QED
    BY <1>1, <1>2, <2>1, <2>2, <2>5 DEF QuietBox
<1> QED
  BY <1>3, <1>4

LEMMA Quiet ==
  ASSUME Robot!TypeOK, Counts, commanded' = commanded, NEW s \in Robot!Socket,
         inbox'[s] = inbox[s] \/ inbox'[s] = Append(inbox[s], "disconnect")
  PROVE  QuietBox(s)
<1>1. "disconnect" \in Messages \ {"exists"} /\ "disconnect" # "run"
  BY DEF Messages
<1> QED
  BY <1>1, QuietMessage

LEMMA RobotAgentStep ==
  ASSUME RobotInv, NEW a \in Agent, commanded' = commanded,
         \A b \in Agent \ {a} : AgentStays(b),
         \A s \in Robot!Socket : s[1] # a => SocketStays(s) /\ inbox'[s] = inbox[s],
         Robot!TypeOK', ranR' \in [Agent -> Nat], Nodes',
         \A s \in Robot!Socket : s[1] = a => SocketFine(s),
         AgentFine(a)
  PROVE  RobotInv'
<1>1. Robot!TypeOK /\ Counts /\ commanded \in Nat
  BY DEF RobotInv, Counts
<1>2. OthersStay({a})
  BY <1>1, Quiet DEF OthersStay
<1>3. commanded <= commanded' /\ Counts'
  BY <1>1 DEF Counts
<1> QED
  BY <1>2, <1>3, RobotStep

LEMMA RobotTimerFires ==
  ASSUME RobotInv, NEW a \in Agent, Robot!TimerFires(a) PROVE RobotInv'
<1>1. /\ timersR[a] > 0 /\ timersR' = [timersR EXCEPT ![a] = @ - 1]
      /\ IF connected[a] THEN UNCHANGED <<current, client, told>> ELSE Robot!Connect(a)
      /\ alive' = alive /\ connected' = connected /\ reconnecting' = reconnecting /\ ranR' = ranR
      /\ exitedR' = exitedR /\ overlapped' = overlapped
      /\ server' = server /\ heard' = heard /\ nodes' = nodes /\ inbox' = inbox
      /\ statusR' = statusR /\ commanded' = commanded
  BY DEF Robot!TimerFires, Robot!masterVars
<1>2. Robot!TypeOK /\ Counts /\ Nodes /\ AgentOf(a)
  BY DEF RobotInv
<1>3. /\ timersR[a] \in 0 .. MaxTimers /\ MaxTimers \in Nat
      /\ timersR' \in [Agent -> 0 .. MaxTimers] /\ timersR'[a] = timersR[a] - 1
      /\ \A b \in Agent \ {a} : timersR'[b] = timersR[b]
  <2>1. timersR \in [Agent -> 0 .. MaxTimers] /\ MaxTimers \in Nat
    BY <1>2, RobotSame DEF Robot!TypeOK
  <2>2. timersR[a] \in 0 .. MaxTimers /\ timersR[a] - 1 \in 0 .. MaxTimers
    BY <1>1, <2>1
  <2> QED
    BY <1>1, <2>1, <2>2
<1>4. a \in alive
  BY <1>1, <1>2, <1>3 DEF AgentOf
<1>5. ASSUME a \notin overlapped'
      PROVE  /\ a \notin overlapped /\ timersR[a] = 1 /\ timersR'[a] = 0 /\ ~connected[a]
             /\ \A s \in Robot!Socket : s[1] = a => client[s] = "down" /\ QuietBox(s)
             /\ a \notin exitedR /\ ranR[a] <= commanded
  <2>1. a \notin overlapped /\ Single(a)
    BY <1>1, <1>5 DEF RobotInv
  <2>2. timersR[a] = 1
    BY <1>1, <1>3, <2>1 DEF Single
  <2>3. \A s \in Robot!Socket : s[1] = a => client[s] = "down"
    BY <2>1, <2>2 DEF RobotInv, SingleSocket
  <2>4. \A s \in Robot!Socket : QuietBox(s)
    BY <1>1, <1>2, Quiet
  <2> QED
    BY <1>3, <2>1, <2>2, <2>3, <2>4 DEF Single
<1>6. AgentFine(a)
  BY <1>1, <1>3, <1>4, <1>5 DEF AgentFine, AgentOf, Single
<1>7. Nodes'
  BY <1>1, <1>2 DEF Nodes
<1>8. CASE connected[a]
  <2>1. current' = current /\ client' = client /\ told' = told
    BY <1>1, <1>8
  <2>2. Robot!TypeOK'
    BY <1>1, <1>2, <1>3, <2>1, RobotTypes, RobotTyped
  <2>3. a \in overlapped'
    BY <1>5, <1>8
  <2>4. \A s \in Robot!Socket : s[1] = a => SocketFine(s)
    <3> SUFFICES ASSUME NEW s \in Robot!Socket, s[1] = a PROVE SocketFine(s)
      OBVIOUS
    <3>1. SocketOf(s)
      BY DEF RobotInv
    <3>2. SocketOf(s)'
      BY <1>1, <2>1, <3>1 DEF SocketOf
    <3> QED
      BY <2>3, <3>2 DEF SocketFine
  <2>5. \A b \in Agent \ {a} : AgentStays(b)
    BY <1>1, <1>3, <2>1 DEF AgentStays
  <2>6. \A s \in Robot!Socket : s[1] # a => SocketStays(s) /\ inbox'[s] = inbox[s]
    BY <1>1, <2>1 DEF SocketStays
  <2> QED
    BY <1>1, <1>2, <1>6, <1>7, <2>2, <2>4, <2>5, <2>6, RobotAgentStep DEF Counts
<1>9. CASE ~connected[a]
  <2>1. Robot!Connect(a)
    BY <1>1, <1>9
  <2>2. /\ current' \in [Agent -> 0 .. MaxSockets]
        /\ \A b \in Agent \ {a} : current'[b] = current[b]
        /\ client' \in [Robot!Socket -> {"down", "connecting", "up"}]
        /\ told' \in [Robot!Socket -> Seq(Robot!Ids)]
        /\ \A s \in Robot!Socket : s[1] # a => client'[s] = client[s] /\ told'[s] = told[s]
    <3>1. PICK i \in 1 .. MaxSockets :
             /\ current' \in [Agent -> 0 .. MaxSockets]
             /\ \A b \in Agent \ {a} : current'[b] = current[b]
             /\ client' \in [Robot!Socket -> {"down", "connecting", "up"}]
             /\ told' \in [Robot!Socket -> Seq(Robot!Ids)]
             /\ \A s \in Robot!Socket : s # <<a, i>> => client'[s] = client[s] /\ told'[s] = told[s]
      BY <1>2, <2>1, Connects
    <3>2. \A s \in Robot!Socket : s[1] # a => s # <<a, i>>
      OBVIOUS
    <3> QED
      BY <3>1, <3>2
  <2>3. Robot!TypeOK'
    BY <1>1, <1>2, <1>3, <2>2, RobotTypes, RobotTyped
  <2>4. \A s \in Robot!Socket : s[1] = a => SocketFine(s)
    BY <1>1, <1>4, <1>5, <2>1, ConnectFine
  <2>5. \A b \in Agent \ {a} : AgentStays(b)
    BY <1>1, <1>3, <2>2 DEF AgentStays
  <2>6. \A s \in Robot!Socket : s[1] # a => SocketStays(s) /\ inbox'[s] = inbox[s]
    BY <1>1, <2>2 DEF SocketStays
  <2> QED
    BY <1>1, <1>2, <1>6, <1>7, <2>3, <2>4, <2>5, <2>6, RobotAgentStep DEF Counts
<1> QED
  BY <1>8, <1>9

\* this.socket of an agent.
LEMMA ThisIs ==
  ASSUME Robot!TypeOK, NEW a \in Agent
  PROVE  /\ \A s \in Robot!This(a) : s[1] = a
         /\ \A s \in Robot!Socket : s[1] = a /\ s[2] = current[a] => s \in Robot!This(a)
<1>1. \A s \in Robot!This(a) : s = <<a, current[a]>>
  BY DEF Robot!This
<1>2. \A s \in Robot!Socket : s[1] = a /\ s[2] = current[a] => s = <<a, current[a]>> /\ s # <<a, 0>>
  BY SocketIs
<1> QED
  BY <1>1, <1>2 DEF Robot!This

LEMMA Reconnects ==
  ASSUME RobotInv, NEW a \in Agent, a \in alive,
         timersR[a] < MaxTimers, timersR' = [timersR EXCEPT ![a] = @ + 1],
         reconnecting' = [reconnecting EXCEPT ![a] = TRUE],
         connected' = [connected EXCEPT ![a] = FALSE], Robot!Closed(Robot!This(a)),
         alive' = alive, current' = current, ranR' = ranR, exitedR' = exitedR,
         server' = server, heard' = heard, nodes' = nodes, inbox' = inbox,
         statusR' = statusR, commanded' = commanded,
         overlapped' \subseteq Agent,
         \A b \in Agent \ {a} : b \in overlapped' <=> b \in overlapped,
         a \notin overlapped' => a \notin overlapped /\ timersR[a] = 0
  PROVE  RobotInv'
<1>1. Robot!TypeOK /\ Counts /\ Nodes
  BY DEF RobotInv
<1>2. /\ timersR' \in [Agent -> 0 .. MaxTimers] /\ timersR'[a] = timersR[a] + 1
      /\ \A b \in Agent \ {a} : timersR'[b] = timersR[b]
  <2>1. timersR \in [Agent -> 0 .. MaxTimers] /\ MaxTimers \in Nat
    BY <1>1, RobotSame DEF Robot!TypeOK
  <2>2. timersR[a] \in 0 .. MaxTimers /\ timersR[a] + 1 \in 0 .. MaxTimers
    BY <2>1
  <2> QED
    BY <2>1, <2>2
<1>3. /\ reconnecting' \in [Agent -> BOOLEAN] /\ connected' \in [Agent -> BOOLEAN]
      /\ reconnecting'[a] = TRUE /\ connected'[a] = FALSE
      /\ \A b \in Agent \ {a} : reconnecting'[b] = reconnecting[b] /\ connected'[b] = connected[b]
  <2>1. reconnecting \in [Agent -> BOOLEAN] /\ connected \in [Agent -> BOOLEAN]
    BY <1>1, RobotTypes
  <2> QED
    BY <2>1
<1>4. /\ client' \in [Robot!Socket -> {"down", "connecting", "up"}]
      /\ told' \in [Robot!Socket -> Seq(Robot!Ids)]
      /\ \A s \in Robot!Socket : s[1] # a => client'[s] = client[s] /\ told'[s] = told[s]
  <2>1. \A s \in Robot!Socket : s[1] # a => s \notin Robot!This(a)
    BY <1>1, ThisIs
  <2> QED
    BY <1>1, <2>1, Closes
<1>5. ASSUME a \notin overlapped'
      PROVE  /\ a \notin overlapped /\ timersR'[a] = 1
             /\ \A s \in Robot!Socket : s[1] = a =>
                  /\ client[s] # "down" => s[2] = current[a]
                  /\ \A k \in 1 .. Len(inbox[s]) : inbox[s][k] # "exists"
             /\ a \notin exitedR /\ ranR[a] <= commanded
  <2>1. a \notin overlapped /\ Single(a)
    BY <1>5 DEF RobotInv
  <2>2. \A s \in Robot!Socket : s[1] = a => SingleSocket(s)
    BY <2>1 DEF RobotInv
  <2> QED
    BY <1>2, <1>5, <2>1, <2>2 DEF Single, SingleSocket
<1>6. AgentFine(a)
  BY <1>3, <1>5 DEF AgentFine, AgentOf, Single
<1>7. \A s \in Robot!Socket : s[1] = a => SocketFine(s)
  <2>1. \A s \in Robot!Socket : s[1] = a /\ client[s] # "down" => a \in alive' /\ current'[a] # 0
    BY DEF RobotInv, SocketOf
  <2>2. a \notin overlapped' =>
           /\ a \notin overlapped
           /\ \A s \in Robot!Socket : s[1] = a /\ client[s] # "down" => s \in Robot!This(a)
           /\ \A s \in Robot!Socket : s[1] = a =>
                 \A k \in 1 .. Len(inbox'[s]) : inbox'[s][k] # "exists"
    BY <1>1, <1>5, ThisIs
  <2> DEFINE S == Robot!This(a)
  <2>3. /\ Robot!Closed(S)
        /\ \A s \in Robot!Socket : s[1] = a /\ client[s] # "down" /\ s \notin S =>
             a \in alive' /\ current'[a] # 0
        /\ a \notin overlapped' =>
             /\ a \notin overlapped
             /\ \A s \in Robot!Socket : s[1] = a /\ client[s] # "down" => s \in S
             /\ \A s \in Robot!Socket : s[1] = a =>
                  \A k \in 1 .. Len(inbox'[s]) : inbox'[s][k] # "exists"
    BY <2>1, <2>2
  <2> HIDE DEF S
  <2> QED
    BY <2>3, CloseFine
<1>8. Robot!TypeOK'
  BY <1>1, <1>2, <1>3, <1>4, RobotTypes, RobotTyped
<1>9. Nodes'
  BY <1>1 DEF Nodes
<1>10. \A b \in Agent \ {a} : AgentStays(b)
  BY <1>2, <1>3 DEF AgentStays
<1>11. \A s \in Robot!Socket : s[1] # a => SocketStays(s) /\ inbox'[s] = inbox[s]
  BY <1>4 DEF SocketStays
<1> QED
  BY <1>1, <1>6, <1>7, <1>8, <1>9, <1>10, <1>11, RobotAgentStep DEF Counts

LEMMA RobotStutters ==
  ASSUME RobotInv, alive' = alive, current' = current, connected' = connected,
         reconnecting' = reconnecting, timersR' = timersR, client' = client, told' = told,
         ranR' = ranR, exitedR' = exitedR, overlapped' = overlapped,
         server' = server, heard' = heard, nodes' = nodes, inbox' = inbox,
         statusR' = statusR, commanded' = commanded
  PROVE  RobotInv'
<1>1. Robot!TypeOK' /\ Counts' /\ Nodes'
  BY DEF RobotInv, Robot!TypeOK, Counts, Nodes
<1>2. \A s \in Robot!Socket : SocketOf(s)' /\ (s[1] \notin overlapped' => SingleSocket(s)')
  BY DEF RobotInv, SocketOf, SingleSocket
<1>3. \A a \in Agent : AgentOf(a)' /\ (a \notin overlapped' => Single(a)')
  BY DEF RobotInv, AgentOf, Single
<1> QED
  BY <1>1, <1>2, <1>3 DEF RobotInv

LEMMA RobotHeartbeatFails ==
  ASSUME RobotInv, NEW a \in Agent, Robot!HeartbeatFails(a) PROVE RobotInv'
<1>1. /\ a \in alive
      /\ IF reconnecting[a]
         THEN connected' = [connected EXCEPT ![a] = FALSE]
              /\ UNCHANGED <<reconnecting, timersR, client, told>>
         ELSE Robot!Reconnect(a, FALSE)
      /\ alive' = alive /\ current' = current /\ ranR' = ranR
      /\ exitedR' = exitedR /\ overlapped' = overlapped
      /\ server' = server /\ heard' = heard /\ nodes' = nodes /\ inbox' = inbox
      /\ statusR' = statusR /\ commanded' = commanded
  BY DEF Robot!HeartbeatFails, Robot!masterVars
<1>2. Robot!TypeOK /\ Counts /\ Nodes /\ commanded \in Nat
  BY DEF RobotInv, Counts
<1>3. CASE reconnecting[a]
  <2>1. /\ connected' = [connected EXCEPT ![a] = FALSE]
        /\ reconnecting' = reconnecting /\ timersR' = timersR /\ client' = client /\ told' = told
    BY <1>1, <1>3
  <2>2. /\ connected' \in [Agent -> BOOLEAN] /\ connected'[a] = FALSE
        /\ \A b \in Agent \ {a} : connected'[b] = connected[b]
    BY <1>2, <2>1, RobotTypes
  <2>3. Robot!TypeOK' /\ Nodes'
    BY <1>1, <1>2, <2>1, <2>2, RobotTypes, RobotTyped DEF Nodes
  <2>4. AgentOf(a) /\ (a \notin overlapped => Single(a))
    BY DEF RobotInv
  <2>5. AgentFine(a)
    BY <1>1, <2>1, <2>2, <2>4 DEF AgentFine, AgentOf, Single
  <2>6. \A b \in Agent \ {a} : AgentStays(b)
    BY <1>1, <2>1, <2>2 DEF AgentStays
  <2>7. \A s \in Robot!Socket : s[1] = a => SocketFine(s)
    BY <1>1, <2>1 DEF RobotInv, SocketFine, SocketOf, SingleSocket
  <2>8. \A s \in Robot!Socket : s[1] # a => SocketStays(s) /\ inbox'[s] = inbox[s]
    BY <1>1, <2>1 DEF SocketStays
  <2> QED
    BY <1>1, <1>2, <2>3, <2>5, <2>6, <2>7, <2>8, RobotAgentStep DEF Counts
<1>4. CASE ~reconnecting[a]
  <2>1. /\ timersR[a] < MaxTimers /\ timersR' = [timersR EXCEPT ![a] = @ + 1]
        /\ reconnecting' = [reconnecting EXCEPT ![a] = TRUE]
        /\ connected' = [connected EXCEPT ![a] = FALSE] /\ Robot!Closed(Robot!This(a))
    BY <1>1, <1>4 DEF Robot!Reconnect
  <2>2. a \notin overlapped => timersR[a] = 0
    BY <1>2, <1>4, RobotTypes DEF RobotInv, Single
  <2>3. overlapped' \subseteq Agent
    BY <1>1, <1>2, RobotTypes
  <2> QED
    BY <1>1, <2>1, <2>2, <2>3, Reconnects
<1> QED
  BY <1>3, <1>4

LEMMA RobotActorError ==
  ASSUME RobotInv, NEW a \in Agent, Robot!ActorError(a) PROVE RobotInv'
<1>1. /\ a \in alive /\ Robot!Reconnect(a, FALSE)
      /\ alive' = alive /\ current' = current /\ ranR' = ranR
      /\ exitedR' = exitedR /\ overlapped' = overlapped
      /\ server' = server /\ heard' = heard /\ nodes' = nodes /\ inbox' = inbox
      /\ statusR' = statusR /\ commanded' = commanded
  BY DEF Robot!ActorError, Robot!masterVars
<1>2. Robot!TypeOK
  BY DEF RobotInv
<1>3. CASE reconnecting[a]
  <2>1. reconnecting' = reconnecting /\ connected' = connected /\ timersR' = timersR
        /\ client' = client /\ told' = told
    BY <1>1, <1>3 DEF Robot!Reconnect
  <2> QED
    BY <1>1, <2>1, RobotStutters
<1>4. CASE ~reconnecting[a]
  <2>1. /\ timersR[a] < MaxTimers /\ timersR' = [timersR EXCEPT ![a] = @ + 1]
        /\ reconnecting' = [reconnecting EXCEPT ![a] = TRUE]
        /\ connected' = [connected EXCEPT ![a] = FALSE] /\ Robot!Closed(Robot!This(a))
    BY <1>1, <1>4 DEF Robot!Reconnect
  <2>2. a \notin overlapped => timersR[a] = 0
    BY <1>2, <1>4, RobotTypes DEF RobotInv, Single
  <2>3. overlapped' \subseteq Agent
    BY <1>1, <1>2, RobotTypes
  <2> QED
    BY <1>1, <2>1, <2>2, <2>3, Reconnects
<1> QED
  BY <1>3, <1>4

LEMMA RobotRestart ==
  ASSUME RobotInv, NEW a \in Agent, Robot!Restart(a) PROVE RobotInv'
<1>1. /\ a \in alive /\ Robot!Reconnect(a, TRUE)
      /\ overlapped' = IF reconnecting[a] \/ timersR[a] > 0 THEN overlapped \union {a} ELSE overlapped
      /\ alive' = alive /\ current' = current /\ ranR' = ranR /\ exitedR' = exitedR
      /\ server' = server /\ heard' = heard /\ nodes' = nodes /\ inbox' = inbox
      /\ statusR' = statusR /\ commanded' = commanded
  BY DEF Robot!Restart, Robot!masterVars
<1>2. Robot!TypeOK
  BY DEF RobotInv
<1>3. /\ timersR[a] < MaxTimers /\ timersR' = [timersR EXCEPT ![a] = @ + 1]
      /\ reconnecting' = [reconnecting EXCEPT ![a] = TRUE]
      /\ connected' = [connected EXCEPT ![a] = FALSE] /\ Robot!Closed(Robot!This(a))
  BY <1>1 DEF Robot!Reconnect
<1>4. timersR[a] \in 0 .. MaxTimers /\ MaxTimers \in Nat
  BY <1>2, RobotTypes, RobotSame
<1>5. a \notin overlapped' => a \notin overlapped /\ timersR[a] = 0
  BY <1>1, <1>4
<1>6. /\ overlapped' \subseteq Agent
      /\ \A b \in Agent \ {a} : b \in overlapped' <=> b \in overlapped
  BY <1>1, <1>2, RobotTypes
<1> QED
  BY <1>1, <1>3, <1>5, <1>6, Reconnects

LEMMA RobotOnConnect ==
  ASSUME RobotInv, NEW z \in Robot!Socket, Robot!OnConnect(z) PROVE RobotInv'
<1> DEFINE a == z[1]
           c == <<a, current[a]>>
<1>1. /\ client[z] = "connecting"
      /\ client' = [client EXCEPT ![z] = "up"] /\ server' = server \union {z}
      /\ told' = IF c = z THEN [told EXCEPT ![z] = <<z>> \o @]
                 ELSE IF client[c] = "down" THEN told
                 ELSE [told EXCEPT ![c] = Append(@, Robot!Announcement(a))]
      /\ connected' = [connected EXCEPT ![a] = TRUE]
      /\ reconnecting' = [reconnecting EXCEPT ![a] = FALSE]
      /\ heard' = [heard EXCEPT ![z] = {}] /\ inbox' = [inbox EXCEPT ![z] = <<>>]
      /\ alive' = alive /\ current' = current /\ timersR' = timersR /\ ranR' = ranR
      /\ exitedR' = exitedR /\ overlapped' = overlapped /\ nodes' = nodes
      /\ statusR' = statusR /\ commanded' = commanded
  BY DEF Robot!OnConnect, Robot!Settled
<1>2. Robot!TypeOK /\ Counts /\ Nodes /\ SocketOf(z)
  BY DEF RobotInv
<1>3. /\ z \in Robot!Ids /\ a \in Agent /\ current[a] # 0 /\ current[a] \in 1 .. MaxSockets
      /\ c \in Robot!Socket /\ c[1] = a /\ c[2] = current[a] /\ a \in alive
      /\ z \notin server /\ heard[z] = {}
  <2>1. z \in Robot!Ids /\ a \in Agent
    BY SocketIs
  <2>2. current[a] # 0 /\ a \in alive /\ z \notin server /\ heard[z] = {}
    BY <1>1, <1>2 DEF SocketOf
  <2>3. current[a] \in 1 .. MaxSockets
    <3>1. current[a] \in 0 .. MaxSockets /\ MaxSockets \in Nat
      BY <1>2, <2>1, RobotTypes, RobotSame
    <3> QED
      BY <2>2, <3>1
  <2> QED
    BY <2>1, <2>2, <2>3, SocketIs
<1>4. Robot!Announcement(a) \in Robot!Ids /\ IsOf(Robot!Announcement(a), c)
  <2>1. Robot!Announcement(a) = c \/ Robot!Announcement(a) = Robot!Undefined
    BY DEF Robot!Announcement
  <2> QED
    BY <1>3, <2>1, SocketIs DEF IsOf
<1>5. IsOf(z, z)
  BY DEF IsOf
<1> DEFINE w == Robot!Announcement(a)
<1>6. /\ told \in [Robot!Socket -> Seq(Robot!Ids)]
      /\ told' = IF c = z THEN [told EXCEPT ![z] = <<z>> \o @]
                 ELSE IF client[c] = "down" THEN told
                 ELSE [told EXCEPT ![c] = Append(@, w)]
      /\ w \in Robot!Ids /\ IsOf(w, c)
  BY <1>1, <1>2, <1>4, RobotTypes
<1> HIDE DEF w
<1>7. /\ told' \in [Robot!Socket -> Seq(Robot!Ids)]
      /\ \A s \in Robot!Socket : s # c => told'[s] = told[s]
      /\ c = z => told'[c] = <<z>> \o told[z]
      /\ told'[c] \in {told[c], <<z>> \o told[c], Append(told[c], w)}
  <2> HIDE DEF c
  <2>1. /\ <<z>> \o told[z] \in Seq(Robot!Ids) /\ Append(told[c], w) \in Seq(Robot!Ids)
        /\ c \in Robot!Socket
    <3>1. told[z] \in Seq(Robot!Ids) /\ told[c] \in Seq(Robot!Ids) /\ <<z>> \in Seq(Robot!Ids)
      BY <1>3, <1>6
    <3> QED
      BY <1>3, <1>6, <3>1
  <2> DEFINE v1 == <<z>> \o told[z]
             v2 == Append(told[c], w)
  <2>2. /\ v1 \in Seq(Robot!Ids) /\ v2 \in Seq(Robot!Ids)
        /\ told' = IF c = z THEN [told EXCEPT ![z] = v1]
                   ELSE IF client[c] = "down" THEN told ELSE [told EXCEPT ![c] = v2]
    BY <1>6, <2>1
  <2> HIDE DEF v1, v2
  <2>3. /\ told' \in [Robot!Socket -> Seq(Robot!Ids)]
        /\ \A s \in Robot!Socket : s # c => told'[s] = told[s]
        /\ c = z => told'[c] = v1
        /\ told'[c] \in {told[c], v1, v2} /\ (c # z => told'[c] \in {told[c], v2})
    BY <1>6, <2>1, <2>2
  <2> QED
    BY <2>3 DEF v1, v2
<1>8. \A k \in 1 .. Len(told'[c]) : IsOf(told'[c][k], c)
  <2> DEFINE q == told[c]
             r == told'[c]
  <2>1. q \in Seq(Robot!Ids) /\ \A k \in 1 .. Len(q) : IsOf(q[k], c)
    BY <1>3, <1>6 DEF RobotInv, SocketOf
  <2>2. r \in {q, <<z>> \o q, Append(q, w)} /\ IsOf(w, c) /\ w \in Robot!Ids
        /\ z \in Robot!Ids /\ IsOf(z, c)
    BY <1>3, <1>6, <1>7 DEF IsOf
  <2> HIDE DEF q, r, c
  <2>3. CASE r = q
    BY <2>1, <2>3 DEF r
  <2>4. CASE r = <<z>> \o q
    <3>1. \A k \in 1 .. Len(r) : r[k] = z \/ (k - 1 \in 1 .. Len(q) /\ r[k] = q[k - 1])
      BY <2>1, <2>2, <2>4
    <3> QED
      BY <2>1, <2>2, <3>1 DEF r
  <2>5. CASE r = Append(q, w)
    <3>1. \A k \in 1 .. Len(r) : r[k] = w \/ (k \in 1 .. Len(q) /\ r[k] = q[k])
      BY <2>1, <2>2, <2>5
    <3> QED
      BY <2>1, <2>2, <3>1 DEF r
  <2> QED
    BY <2>2, <2>3, <2>4, <2>5
<1>9. /\ client' \in [Robot!Socket -> {"down", "connecting", "up"}] /\ client'[z] = "up"
      /\ heard' \in [Robot!Socket -> SUBSET Robot!Ids] /\ heard'[z] = {}
      /\ inbox' \in [Robot!Socket -> Seq(Messages)] /\ inbox'[z] = <<>>
      /\ \A s \in Robot!Socket : s # z =>
           client'[s] = client[s] /\ heard'[s] = heard[s] /\ inbox'[s] = inbox[s]
  <2>1. <<>> \in Seq(Messages)
    OBVIOUS
  <2> QED
    BY <1>1, <1>2, <2>1, RobotTypes
<1>10. /\ connected' \in [Agent -> BOOLEAN] /\ reconnecting' \in [Agent -> BOOLEAN]
       /\ \A b \in Agent \ {a} : connected'[b] = connected[b] /\ reconnecting'[b] = reconnecting[b]
  <2> HIDE DEF a
  <2> QED
    BY <1>1, <1>2, <1>3, RobotTypes
<1> HIDE DEF a, c
<1>11. Robot!TypeOK'
  BY <1>1, <1>2, <1>7, <1>9, <1>10, RobotTypes, RobotTyped
<1>12. Nodes'
  <2>1. \A id \in DOMAIN nodes : id \in heard'[nodes[id]]
    BY <1>2, <1>3, <1>9, RobotTypes DEF Nodes
  <2> QED
    BY <1>1, <1>2, <2>1 DEF Nodes
<1>13. ASSUME NEW s \in Robot!Socket, s[1] = a PROVE SocketFine(s)
  <2>1. SocketOf(s)
    BY DEF RobotInv
  <2>2. SocketOf(s)'
    <3>1. \A k \in 1 .. Len(told'[s]) : IsOf(told'[s][k], s)
      <4>1. CASE s = c
        BY <1>8, <4>1
      <4>2. CASE s # c
        BY <1>7, <2>1, <4>2 DEF SocketOf
      <4> QED
        BY <4>1, <4>2
    <3>2. CASE s = z
      BY <1>1, <1>3, <1>9, <1>13, <3>1, <3>2 DEF SocketOf
    <3>3. CASE s # z
      BY <1>1, <1>3, <1>9, <1>13, <2>1, <3>1, <3>3 DEF SocketOf
    <3> QED
      BY <3>2, <3>3
  <2>3. ASSUME a \notin overlapped' PROVE SingleSocket(s)'
    <3>1. a \notin overlapped /\ SingleSocket(z) /\ SingleSocket(s) /\ Single(a)
      BY <1>1, <1>3, <1>13, <2>3 DEF RobotInv, a
    <3>2. z[2] = current[a] /\ timersR[a] = 0 /\ z = c
      <4>1. z[2] = current[a] /\ timersR[a] = 0
        BY <1>1, <3>1 DEF SingleSocket, a
      <4> QED
        BY <1>3, <4>1, SocketIs DEF a, c
    <3>3. told[z] = <<>>
      BY <1>3, <3>1 DEF SingleSocket
    <3>4. told'[z] = <<z>>
      BY <1>3, <1>7, <3>2, <3>3
    <3>5. CASE s = z
      <4>1. ranR[a] \in Nat /\ ranR[a] <= commanded
        BY <1>2, <1>3, <3>1 DEF Counts, Single
      <4>2. RunsIn(inbox'[s]) = 0 /\ Len(inbox'[s]) = 0
        BY <1>9, <3>5, RunsCount
      <4>3. ranR'[s[1]] + RunsIn(inbox'[s]) <= commanded'
        BY <1>1, <1>13, <4>1, <4>2
      <4>4. /\ \A k \in 1 .. Len(inbox'[s]) : inbox'[s][k] # "exists"
            /\ s \in server'
        BY <1>1, <3>5, <4>2
      <4> QED
        BY <1>1, <1>9, <1>13, <3>2, <3>4, <3>5, <4>3, <4>4 DEF SingleSocket
    <3>6. CASE s # z
      <4>1. client[s] = "down"
        <5>1. s # c
          BY <3>2, <3>6
        <5> QED
          BY <1>13, <3>1, <5>1, SocketIs DEF SingleSocket, c
      <4>2. client'[s] = "down" /\ told'[s] = told[s] /\ heard'[s] = heard[s] /\ inbox'[s] = inbox[s]
            /\ (s \in server' <=> s \in server)
        BY <1>1, <1>7, <1>9, <3>2, <3>6, <4>1
      <4> QED
        BY <3>1, <4>2 DEF SingleSocket
    <3> QED
      BY <3>5, <3>6
  <2> QED
    BY <1>13, <2>2, <2>3 DEF SocketFine
<1>14. AgentFine(a)
  <2>1. a \notin overlapped => Single(a) /\ timersR[a] = 0
    BY <1>1, <1>3 DEF RobotInv, SingleSocket, a
  <2> QED
    BY <1>1, <1>3, <2>1 DEF AgentFine, AgentOf, Single
<1>15. \A b \in Agent \ {a} : AgentStays(b)
  BY <1>1, <1>10 DEF AgentStays
<1>16. \A s \in Robot!Socket : s[1] # a => SocketStays(s) /\ inbox'[s] = inbox[s]
  <2>1. \A s \in Robot!Socket : s[1] # a => s # z /\ s # c
    BY <1>3 DEF a
  <2> QED
    BY <1>1, <1>7, <1>9, <2>1 DEF SocketStays
<1> QED
  BY <1>1, <1>2, <1>3, <1>11, <1>12, <1>13, <1>14, <1>15, <1>16, RobotAgentStep DEF Counts

LEMMA RobotOnDisconnect ==
  ASSUME RobotInv, NEW z \in Robot!Socket, Robot!OnDisconnect(z) PROVE RobotInv'
<1> DEFINE a == z[1]
           S == {z} \union Robot!This(a)
<1>1. /\ client[z] = "up" /\ Robot!Closed(S)
      /\ alive' = alive /\ current' = current /\ connected' = connected
      /\ reconnecting' = reconnecting /\ timersR' = timersR /\ ranR' = ranR
      /\ exitedR' = exitedR /\ overlapped' = overlapped
      /\ server' = server /\ heard' = heard /\ nodes' = nodes /\ inbox' = inbox
      /\ statusR' = statusR /\ commanded' = commanded
  BY DEF Robot!OnDisconnect, Robot!masterVars
<1>2. Robot!TypeOK /\ Counts /\ Nodes
  BY DEF RobotInv
<1>3. /\ a \in Agent /\ \A s \in S : s[1] = a
      /\ \A s \in Robot!Socket : s[1] = a /\ s[2] = current[a] => s \in S
  <2>1. a \in Agent
    BY SocketIs
  <2> HIDE DEF a
  <2>2. /\ \A s \in Robot!This(a) : s[1] = a
        /\ \A s \in Robot!Socket : s[1] = a /\ s[2] = current[a] => s \in Robot!This(a)
    BY <1>2, <2>1, ThisIs
  <2> QED
    BY <2>1, <2>2 DEF a
<1> HIDE DEF a, S
<1>4. /\ client' \in [Robot!Socket -> {"down", "connecting", "up"}]
      /\ told' \in [Robot!Socket -> Seq(Robot!Ids)]
      /\ \A s \in Robot!Socket : s[1] # a => client'[s] = client[s] /\ told'[s] = told[s]
  BY <1>1, <1>2, <1>3, Closes
<1>5. Robot!TypeOK' /\ Nodes'
  BY <1>1, <1>2, <1>4, RobotTypes, RobotTyped DEF Nodes
<1>6. \A s \in Robot!Socket : s[1] = a => SocketFine(s)
  <2>1. \A s \in Robot!Socket : s[1] = a /\ client[s] # "down" => a \in alive' /\ current'[a] # 0
    BY <1>1 DEF RobotInv, SocketOf
  <2>2. ASSUME a \notin overlapped'
        PROVE  /\ a \notin overlapped
               /\ \A s \in Robot!Socket : s[1] = a /\ client[s] # "down" => s \in S
               /\ \A s \in Robot!Socket : s[1] = a =>
                     \A k \in 1 .. Len(inbox'[s]) : inbox'[s][k] # "exists"
    <3>1. \A s \in Robot!Socket : s[1] = a => SingleSocket(s)
      BY <1>1, <2>2 DEF RobotInv
    <3> QED
      BY <1>1, <1>3, <2>2, <3>1 DEF SingleSocket
  <2> QED
    BY <1>1, <1>3, <2>1, <2>2, CloseFine
<1>7. AgentFine(a)
  BY <1>1, <1>3 DEF RobotInv, AgentFine, AgentOf, Single
<1>8. \A b \in Agent \ {a} : AgentStays(b)
  BY <1>1 DEF AgentStays
<1>9. \A s \in Robot!Socket : s[1] # a => SocketStays(s) /\ inbox'[s] = inbox[s]
  BY <1>1, <1>4 DEF SocketStays
<1> QED
  BY <1>1, <1>2, <1>3, <1>5, <1>6, <1>7, <1>8, <1>9, RobotAgentStep DEF Counts

\* What is left of an agent's messages once it has read the first.
LEMMA Reads ==
  ASSUME Robot!TypeOK, Counts, NEW z \in Robot!Socket, inbox[z] # <<>>,
         inbox' = [inbox EXCEPT ![z] = Tail(@)]
  PROVE  /\ inbox' \in [Robot!Socket -> Seq(Messages)]
         /\ \A s \in Robot!Socket : s # z => inbox'[s] = inbox[s]
         /\ Head(inbox[z]) \in Messages
         /\ RunsIn(inbox[z]) \in Nat /\ RunsIn(inbox'[z]) \in Nat
         /\ RunsIn(inbox[z]) = IF Head(inbox[z]) = "run" THEN RunsIn(inbox'[z]) + 1
                               ELSE RunsIn(inbox'[z])
         /\ (\A k \in 1 .. Len(inbox[z]) : inbox[z][k] # "exists") =>
              /\ Head(inbox[z]) # "exists"
              /\ \A k \in 1 .. Len(inbox'[z]) : inbox'[z][k] # "exists"
<1>1. inbox \in [Robot!Socket -> Seq(Messages)]
  BY RobotTypes
<1> DEFINE q == inbox[z]
           r == Tail(q)
<1>2. q \in Seq(Messages) /\ q # <<>>
  BY <1>1
<1>3. inbox' = [inbox EXCEPT ![z] = r]
  OBVIOUS
<1> HIDE DEF q
<1>4. /\ r \in Seq(Messages) /\ Head(q) \in Messages
      /\ RunsIn(q) = IF Head(q) = "run" THEN RunsIn(r) + 1 ELSE RunsIn(r)
  BY <1>2, RunsCount
<1>5. RunsIn(q) \in Nat /\ RunsIn(r) \in Nat
  <2> HIDE DEF r
  <2> QED
    BY <1>2, <1>4, RunsCount
<1>6. Head(q) = q[1] /\ 1 \in 1 .. Len(q) /\ \A k \in 1 .. Len(r) : k + 1 \in 1 .. Len(q) /\ r[k] = q[k + 1]
  BY <1>2, HeadTailProperties
<1> HIDE DEF r
<1>7. /\ inbox' \in [Robot!Socket -> Seq(Messages)] /\ inbox'[z] = r
      /\ \A s \in Robot!Socket : s # z => inbox'[s] = inbox[s]
  BY <1>1, <1>3, <1>4
<1>8. (\A k \in 1 .. Len(q) : q[k] # "exists") =>
        Head(q) # "exists" /\ \A k \in 1 .. Len(r) : r[k] # "exists"
  BY <1>6
<1> QED
  BY <1>4, <1>5, <1>7, <1>8 DEF q

LEMMA RobotReceive ==
  ASSUME RobotInv, NEW z \in Robot!Socket, Robot!Receive(z) PROVE RobotInv'
<1> DEFINE a == z[1]
           m == Head(inbox[z])
<1>1. /\ client[z] = "up" /\ z \in server /\ inbox[z] # <<>>
      /\ inbox' = [inbox EXCEPT ![z] = Tail(@)]
      /\ \/ /\ m = "run" /\ ranR' = [ranR EXCEPT ![a] = @ + 1]
            /\ alive' = alive /\ current' = current /\ connected' = connected
            /\ reconnecting' = reconnecting /\ timersR' = timersR /\ client' = client
            /\ told' = told /\ exitedR' = exitedR
         \/ /\ m = "disconnect" /\ Robot!Closed(Robot!This(a))
            /\ alive' = alive /\ current' = current /\ connected' = connected
            /\ reconnecting' = reconnecting /\ timersR' = timersR /\ ranR' = ranR
            /\ exitedR' = exitedR
         \/ /\ m \in {"exit", "exists"} /\ Robot!Exit(a)
            /\ exitedR' = IF m = "exists" THEN exitedR \union {a} ELSE exitedR
      /\ overlapped' = overlapped /\ server' = server /\ heard' = heard /\ nodes' = nodes
      /\ statusR' = statusR /\ commanded' = commanded
  BY DEF Robot!Receive, Robot!Open, Robot!RunsActors
<1>2. Robot!TypeOK /\ Counts /\ Nodes /\ Nodes'
  BY <1>1 DEF RobotInv, Nodes
<1>3. /\ inbox' \in [Robot!Socket -> Seq(Messages)]
      /\ \A s \in Robot!Socket : s # z => inbox'[s] = inbox[s]
      /\ m \in Messages /\ RunsIn(inbox[z]) \in Nat /\ RunsIn(inbox'[z]) \in Nat
      /\ RunsIn(inbox[z]) = IF m = "run" THEN RunsIn(inbox'[z]) + 1 ELSE RunsIn(inbox'[z])
      /\ (\A k \in 1 .. Len(inbox[z]) : inbox[z][k] # "exists") =>
           m # "exists" /\ \A k \in 1 .. Len(inbox'[z]) : inbox'[z][k] # "exists"
  BY <1>1, <1>2, Reads
<1>4. a \in Agent /\ z[1] = a
  BY SocketIs
<1> HIDE DEF a, m
<1>5. ASSUME a \notin overlapped
      PROVE  /\ Single(a) /\ m # "exists"
             /\ \A s \in Robot!Socket : s[1] = a =>
                  /\ SingleSocket(s)
                  /\ \A k \in 1 .. Len(inbox'[s]) : inbox'[s][k] # "exists"
  <2>1. Single(a) /\ \A s \in Robot!Socket : s[1] = a => SingleSocket(s)
    BY <1>4, <1>5 DEF RobotInv
  <2>2. \A s \in Robot!Socket : s[1] = a => \A k \in 1 .. Len(inbox[s]) : inbox[s][k] # "exists"
    BY <2>1 DEF SingleSocket
  <2>3. m # "exists" /\ \A k \in 1 .. Len(inbox'[z]) : inbox'[z][k] # "exists"
    BY <1>3, <1>4, <2>2
  <2>4. \A s \in Robot!Socket : s[1] = a => \A k \in 1 .. Len(inbox'[s]) : inbox'[s][k] # "exists"
    BY <1>3, <2>2, <2>3
  <2> QED
    BY <2>1, <2>3, <2>4
<1>6. \A s \in Robot!Socket : s[1] = a /\ client[s] # "down" => a \in alive /\ current[a] # 0
  BY DEF RobotInv, SocketOf
<1>7. \A s \in Robot!Socket : s[1] # a => inbox'[s] = inbox[s]
  BY <1>3, <1>4
<1>8. CASE m = "run"
  <2>1. /\ ranR' = [ranR EXCEPT ![a] = @ + 1]
        /\ alive' = alive /\ current' = current /\ connected' = connected
        /\ reconnecting' = reconnecting /\ timersR' = timersR /\ client' = client
        /\ told' = told /\ exitedR' = exitedR
    BY <1>1, <1>8
  <2>2. /\ ranR' \in [Agent -> Nat] /\ ranR'[a] = ranR[a] + 1 /\ ranR[a] \in Nat
        /\ commanded \in Nat
        /\ \A b \in Agent \ {a} : ranR'[b] = ranR[b]
    BY <1>2, <1>4, <2>1 DEF Counts
  <2>3. Robot!TypeOK'
    BY <1>1, <1>2, <1>3, <2>1, RobotTypes, RobotTyped
  <2>4. ASSUME a \notin overlapped
        PROVE  ranR'[a] + RunsIn(inbox'[z]) <= commanded /\ ranR'[a] <= commanded
    <3>1. ranR[a] + RunsIn(inbox[z]) <= commanded
      BY <1>1, <1>4, <1>5, <2>4 DEF SingleSocket
    <3> QED
      BY <1>3, <1>8, <2>2, <3>1
  <2>5. ASSUME NEW s \in Robot!Socket, s[1] = a PROVE SocketFine(s)
    <3>1. SocketOf(s)'
      BY <1>1, <2>1 DEF RobotInv, SocketOf
    <3>2. ASSUME a \notin overlapped' PROVE SingleSocket(s)'
      <4>1. /\ a \notin overlapped /\ SingleSocket(s) /\ SingleSocket(z)
            /\ \A k \in 1 .. Len(inbox'[s]) : inbox'[s][k] # "exists"
        BY <1>1, <1>4, <1>5, <2>5, <3>2
      <4>2. client[s] # "down" => s = z
        BY <1>1, <1>4, <2>5, <4>1, SocketIs DEF SingleSocket
      <4>3. client'[s] = "up" /\ s \in server' => ranR'[s[1]] + RunsIn(inbox'[s]) <= commanded'
        BY <1>1, <2>1, <2>4, <2>5, <4>1, <4>2
      <4>4. /\ client'[s] # "down" => s[2] = current'[s[1]] /\ timersR'[s[1]] = 0
            /\ told'[s] # <<>> => told'[s] = <<s>> /\ s \in server' /\ heard'[s] = {}
            /\ heard'[s] \subseteq {s}
        BY <1>1, <2>1, <4>1 DEF SingleSocket
      <4> QED
        BY <4>1, <4>3, <4>4 DEF SingleSocket
    <3> QED
      BY <2>5, <3>1, <3>2 DEF SocketFine
  <2>6. AgentFine(a)
    BY <1>1, <1>4, <1>5, <2>1, <2>4 DEF RobotInv, AgentFine, AgentOf, Single
  <2>7. \A b \in Agent \ {a} : AgentStays(b)
    BY <1>1, <2>1, <2>2 DEF AgentStays
  <2>8. \A s \in Robot!Socket : s[1] # a => SocketStays(s) /\ inbox'[s] = inbox[s]
    BY <1>1, <1>7, <2>1 DEF SocketStays
  <2> QED
    BY <1>1, <1>2, <1>4, <2>2, <2>3, <2>5, <2>6, <2>7, <2>8, RobotAgentStep
<1>9. CASE m = "disconnect"
  <2> DEFINE S == Robot!This(a)
  <2>1. /\ Robot!Closed(S)
        /\ alive' = alive /\ current' = current /\ connected' = connected
        /\ reconnecting' = reconnecting /\ timersR' = timersR /\ ranR' = ranR
        /\ exitedR' = exitedR
    BY <1>1, <1>9
  <2>2. /\ \A s \in S : s[1] = a
        /\ \A s \in Robot!Socket : s[1] = a /\ s[2] = current[a] => s \in S
    BY <1>2, <1>4, ThisIs
  <2> HIDE DEF S
  <2>3. /\ client' \in [Robot!Socket -> {"down", "connecting", "up"}]
        /\ told' \in [Robot!Socket -> Seq(Robot!Ids)]
        /\ \A s \in Robot!Socket : s[1] # a => client'[s] = client[s] /\ told'[s] = told[s]
    BY <1>2, <2>1, <2>2, Closes
  <2>4. Robot!TypeOK'
    BY <1>1, <1>2, <1>3, <2>1, <2>3, RobotTypes, RobotTyped
  <2>5. ASSUME a \notin overlapped'
        PROVE  /\ a \notin overlapped
               /\ \A s \in Robot!Socket : s[1] = a /\ client[s] # "down" => s \in S
               /\ \A s \in Robot!Socket : s[1] = a =>
                     \A k \in 1 .. Len(inbox'[s]) : inbox'[s][k] # "exists"
    BY <1>1, <1>5, <2>2, <2>5 DEF SingleSocket
  <2>6. \A s \in Robot!Socket : s[1] = a => SocketFine(s)
    BY <1>1, <1>4, <1>6, <2>1, <2>5, CloseFine
  <2>7. AgentFine(a)
    BY <1>1, <1>4, <1>5, <2>1 DEF RobotInv, AgentFine, AgentOf, Single
  <2>8. \A b \in Agent \ {a} : AgentStays(b)
    BY <1>1, <2>1 DEF AgentStays
  <2>9. \A s \in Robot!Socket : s[1] # a => SocketStays(s) /\ inbox'[s] = inbox[s]
    BY <1>1, <1>7, <2>3 DEF SocketStays
  <2> QED
    BY <1>1, <1>2, <1>4, <2>1, <2>4, <2>6, <2>7, <2>8, <2>9, RobotAgentStep DEF Counts
<1>10. CASE m \in {"exit", "exists"}
  <2> DEFINE S == {s \in Robot!Socket : s[1] = a}
  <2>1. /\ Robot!Closed(S) /\ alive' = alive \ {a}
        /\ timersR' = [timersR EXCEPT ![a] = 0] /\ ranR' = [ranR EXCEPT ![a] = 0]
        /\ current' = [current EXCEPT ![a] = 0]
        /\ connected' = [connected EXCEPT ![a] = FALSE]
        /\ reconnecting' = [reconnecting EXCEPT ![a] = FALSE]
        /\ exitedR' = IF m = "exists" THEN exitedR \union {a} ELSE exitedR
    <3>1. Robot!Exit(a) /\ exitedR' = IF m = "exists" THEN exitedR \union {a} ELSE exitedR
      BY <1>1, <1>10
    <3> QED
      BY <3>1 DEF Robot!Exit, Robot!NewAgent
  <2>2. \A s \in Robot!Socket : s \in S <=> s[1] = a
    OBVIOUS
  <2> HIDE DEF S
  <2>3. /\ client' \in [Robot!Socket -> {"down", "connecting", "up"}]
        /\ told' \in [Robot!Socket -> Seq(Robot!Ids)]
        /\ \A s \in Robot!Socket : s[1] # a => client'[s] = client[s] /\ told'[s] = told[s]
    BY <1>2, <2>1, <2>2, Closes
  <2>4. /\ timersR' \in [Agent -> 0 .. MaxTimers] /\ ranR' \in [Agent -> Nat]
        /\ current' \in [Agent -> 0 .. MaxSockets]
        /\ connected' \in [Agent -> BOOLEAN] /\ reconnecting' \in [Agent -> BOOLEAN]
        /\ timersR'[a] = 0 /\ ranR'[a] = 0 /\ a \notin alive'
        /\ \A b \in Agent \ {a} : AgentStays(b)
    <3>1. 0 \in 0 .. MaxTimers /\ 0 \in 0 .. MaxSockets /\ 0 \in Nat
      BY RobotSame
    <3>2. /\ timersR \in [Agent -> 0 .. MaxTimers] /\ ranR \in [Agent -> Nat]
          /\ current \in [Agent -> 0 .. MaxSockets]
          /\ connected \in [Agent -> BOOLEAN] /\ reconnecting \in [Agent -> BOOLEAN]
      BY <1>2, RobotTypes DEF Counts
    <3>3. /\ timersR' \in [Agent -> 0 .. MaxTimers] /\ ranR' \in [Agent -> Nat]
          /\ current' \in [Agent -> 0 .. MaxSockets]
          /\ timersR'[a] = 0 /\ ranR'[a] = 0
      BY <1>4, <2>1, <3>1, <3>2
    <3>4. connected' \in [Agent -> BOOLEAN] /\ reconnecting' \in [Agent -> BOOLEAN]
      BY <1>4, <2>1, <3>2
    <3>5. \A b \in Agent \ {a} :
            /\ current'[b] = current[b] /\ timersR'[b] = timersR[b] /\ ranR'[b] = ranR[b]
            /\ connected'[b] = connected[b] /\ reconnecting'[b] = reconnecting[b]
      BY <2>1, <3>2
    <3>6. \A b \in Agent \ {a} :
            /\ (b \in alive' <=> b \in alive)
            /\ (b \in exitedR' <=> b \in exitedR)
            /\ (b \in overlapped' <=> b \in overlapped)
      BY <1>1, <2>1
    <3> QED
      BY <2>1, <3>3, <3>4, <3>5, <3>6 DEF AgentStays
  <2>5. alive' \subseteq Agent /\ exitedR' \subseteq Agent
    BY <1>2, <1>4, <2>1, RobotTypes
  <2>6. Robot!TypeOK'
    BY <1>1, <1>2, <1>3, <2>3, <2>4, <2>5, RobotTypes, RobotTyped
  <2>7. ASSUME a \notin overlapped'
        PROVE  /\ a \notin overlapped
               /\ \A s \in Robot!Socket : s[1] = a /\ client[s] # "down" => s \in S
               /\ \A s \in Robot!Socket : s[1] = a =>
                     \A k \in 1 .. Len(inbox'[s]) : inbox'[s][k] # "exists"
    BY <1>1, <1>5, <2>2, <2>7
  <2>8. \A s \in Robot!Socket : s[1] = a => SocketFine(s)
    BY <1>1, <1>4, <2>1, <2>2, <2>7, CloseFine
  <2>9. AgentFine(a)
    <3>1. commanded \in Nat /\ commanded' = commanded
      BY <1>1, <1>2 DEF Counts
    <3>2. a \notin overlapped => a \notin exitedR'
      BY <1>5, <2>1 DEF Single
    <3> QED
      BY <1>1, <2>4, <3>1, <3>2 DEF AgentFine, AgentOf, Single
  <2>10. \A s \in Robot!Socket : s[1] # a => SocketStays(s) /\ inbox'[s] = inbox[s]
    BY <1>1, <1>7, <2>3 DEF SocketStays
  <2> QED
    BY <1>1, <1>2, <1>4, <2>4, <2>6, <2>8, <2>9, <2>10, RobotAgentStep
<1> QED
  BY <1>1, <1>8, <1>9, <1>10

\* The master's end of a socket.
LEMMA RobotAnnounceNode ==
  ASSUME RobotInv, NEW z \in Robot!Socket, Robot!AnnounceNode(z) PROVE RobotInv'
<1> DEFINE a == z[1]
           w == Head(told[z])
<1>1. /\ z \in server /\ told[z] # <<>> /\ told' = [told EXCEPT ![z] = Tail(@)]
      /\ inbox' = IF w \in DOMAIN nodes THEN [inbox EXCEPT ![z] = Append(@, "exists")] ELSE inbox
      /\ nodes' = [n \in DOMAIN nodes \union {w} |-> IF n = w THEN z ELSE nodes[n]]
      /\ heard' = [heard EXCEPT ![z] = @ \union {w}]
      /\ alive' = alive /\ current' = current /\ connected' = connected
      /\ reconnecting' = reconnecting /\ timersR' = timersR /\ client' = client /\ ranR' = ranR
      /\ exitedR' = exitedR /\ overlapped' = overlapped /\ server' = server
      /\ statusR' = statusR /\ commanded' = commanded
  BY DEF Robot!AnnounceNode, Robot!NodeClient
<1>2. Robot!TypeOK /\ Counts /\ Nodes
  BY DEF RobotInv
<1>3. /\ told[z] \in Seq(Robot!Ids) /\ inbox[z] \in Seq(Messages) /\ heard[z] \in SUBSET Robot!Ids
      /\ \A k \in 1 .. Len(told[z]) : IsOf(told[z][k], z)
  BY <1>2, RobotTypes DEF RobotInv, SocketOf
<1>4. /\ w \in Robot!Ids /\ Tail(told[z]) \in Seq(Robot!Ids) /\ IsOf(w, z)
      /\ \A k \in 1 .. Len(Tail(told[z])) : IsOf(Tail(told[z])[k], z)
  <2> DEFINE q == told[z]
             r == Tail(q)
  <2>1. q \in Seq(Robot!Ids) /\ q # <<>> /\ \A k \in 1 .. Len(q) : IsOf(q[k], z)
    BY <1>1, <1>3
  <2> HIDE DEF q
  <2>2. /\ r \in Seq(Robot!Ids) /\ Head(q) \in Robot!Ids /\ Head(q) = q[1] /\ 1 \in 1 .. Len(q)
        /\ \A k \in 1 .. Len(r) : k + 1 \in 1 .. Len(q) /\ r[k] = q[k + 1]
    BY <2>1, HeadTailProperties
  <2>3. IsOf(Head(q), z) /\ \A k \in 1 .. Len(r) : IsOf(r[k], z)
    BY <2>1, <2>2
  <2> QED
    BY <2>2, <2>3 DEF q
<1>5. a \in Agent
  BY SocketIs
<1>6. ASSUME a \notin overlapped
      PROVE  /\ told[z] = <<z>> /\ heard[z] = {} /\ w = z /\ w \notin DOMAIN nodes
             /\ inbox' = inbox /\ Tail(told[z]) = <<>>
  <2>1. SingleSocket(z) /\ a = z[1]
    BY <1>6 DEF RobotInv
  <2>2. told[z] = <<z>> /\ heard[z] = {}
    BY <1>1, <2>1 DEF SingleSocket
  <2>3. w = z /\ Tail(told[z]) = <<>>
    BY <2>2
  <2>4. ASSUME z \in DOMAIN nodes PROVE FALSE
    <3> DEFINE t == nodes[z]
    <3>1. t \in Robot!Socket /\ z \in heard[t]
      BY <1>2, <2>4, RobotTypes DEF Nodes
    <3> HIDE DEF t
    <3>2. IsOf(z, t)
      BY <3>1 DEF RobotInv, SocketOf
    <3>3. z[1] = t[1]
      BY <3>1, <3>2, SocketIs DEF IsOf
    <3>4. heard[t] \subseteq {t}
      BY <1>6, <3>1, <3>3 DEF RobotInv, SingleSocket
    <3> QED
      BY <2>2, <3>1, <3>4
  <2> QED
    BY <1>1, <2>2, <2>3, <2>4
<1> HIDE DEF a, w
<1>7. /\ told' \in [Robot!Socket -> Seq(Robot!Ids)] /\ told'[z] = Tail(told[z])
      /\ heard' \in [Robot!Socket -> SUBSET Robot!Ids] /\ heard'[z] = heard[z] \union {w}
      /\ inbox' \in [Robot!Socket -> Seq(Messages)]
      /\ \A s \in Robot!Socket : s # z =>
           told'[s] = told[s] /\ heard'[s] = heard[s] /\ inbox'[s] = inbox[s]
  <2>1. /\ told \in [Robot!Socket -> Seq(Robot!Ids)] /\ heard \in [Robot!Socket -> SUBSET Robot!Ids]
        /\ inbox \in [Robot!Socket -> Seq(Messages)]
    BY <1>2, RobotTypes
  <2>2. Append(inbox[z], "exists") \in Seq(Messages) /\ heard[z] \union {w} \in SUBSET Robot!Ids
    BY <1>3, <1>4 DEF Messages
  <2>3. /\ told' \in [Robot!Socket -> Seq(Robot!Ids)] /\ told'[z] = Tail(told[z])
        /\ \A s \in Robot!Socket : s # z => told'[s] = told[s]
    BY <1>1, <1>4, <2>1
  <2>4. /\ heard' \in [Robot!Socket -> SUBSET Robot!Ids] /\ heard'[z] = heard[z] \union {w}
        /\ \A s \in Robot!Socket : s # z => heard'[s] = heard[s]
    BY <1>1, <2>1, <2>2
  <2>5. /\ inbox' \in [Robot!Socket -> Seq(Messages)]
        /\ \A s \in Robot!Socket : s # z => inbox'[s] = inbox[s]
    BY <1>1, <2>1, <2>2
  <2> QED
    BY <2>3, <2>4, <2>5
<1>8. /\ DOMAIN nodes' = DOMAIN nodes \union {w} /\ nodes'[w] = z
      /\ \A id \in DOMAIN nodes : id # w => nodes'[id] = nodes[id]
  BY <1>1
<1>9. /\ DOMAIN nodes \subseteq Robot!Ids /\ \A id \in DOMAIN nodes : nodes[id] \in Robot!Socket
  BY <1>2, RobotTypes
<1>10. Robot!TypeOK'
  <2>1. DOMAIN nodes' \subseteq Robot!Ids /\ \A id \in DOMAIN nodes' : nodes'[id] \in Robot!Socket
    BY <1>4, <1>8, <1>9
  <2> QED
    BY <1>1, <1>2, <1>7, <2>1, RobotTypes, RobotTyped
<1>11. Nodes'
  <2>1. IsFiniteSet(DOMAIN nodes')
    <3> DEFINE D == DOMAIN nodes
    <3>1. IsFiniteSet(D)
      BY <1>2 DEF Nodes
    <3> HIDE DEF D
    <3>2. IsFiniteSet(D \union {w})
      BY <3>1, FS_AddElement
    <3> QED
      BY <1>8, <3>2 DEF D
  <2>2. ASSUME NEW id \in DOMAIN nodes' PROVE id \in heard'[nodes'[id]]
    <3>1. CASE id = w
      BY <1>7, <1>8, <3>1
    <3>2. CASE id # w
      <4>1. id \in DOMAIN nodes /\ nodes'[id] = nodes[id] /\ nodes[id] \in Robot!Socket
        BY <1>8, <1>9, <2>2, <3>2
      <4>2. id \in heard[nodes[id]]
        BY <1>2, <4>1 DEF Nodes
      <4> DEFINE t == nodes[id]
      <4>3. t \in Robot!Socket /\ id \in heard[t] /\ nodes'[id] = t
        BY <4>1, <4>2
      <4> HIDE DEF t
      <4>4. id \in heard'[t]
        BY <1>7, <4>3
      <4> QED
        BY <4>3, <4>4
    <3> QED
      BY <3>1, <3>2
  <2> QED
    BY <2>1, <2>2 DEF Nodes
<1>12. ASSUME NEW s \in Robot!Socket, s[1] = a PROVE SocketFine(s)
  <2>1. SocketOf(s) /\ (a \notin overlapped => SingleSocket(s))
    BY <1>12 DEF RobotInv
  <2>2. CASE s # z
    <3>1. /\ client'[s] = client[s] /\ told'[s] = told[s] /\ heard'[s] = heard[s]
          /\ inbox'[s] = inbox[s]
      BY <1>1, <1>7, <2>2
    <3>2. SocketOf(s)'
      BY <1>1, <2>1, <3>1 DEF SocketOf
    <3>3. a \notin overlapped' => SingleSocket(s)'
      BY <1>1, <2>1, <3>1 DEF SingleSocket
    <3> QED
      BY <1>12, <3>2, <3>3 DEF SocketFine
  <2>3. CASE s = z
    <3>1. SocketOf(z)'
      <4>1. \A id \in heard'[z] : IsOf(id, z)
        BY <1>4, <1>7, <2>1, <2>3 DEF SocketOf
      <4>2. \A k \in 1 .. Len(told'[z]) : IsOf(told'[z][k], z)
        BY <1>4, <1>7
      <4> QED
        BY <1>1, <2>1, <2>3, <4>1, <4>2 DEF SocketOf
    <3>2. ASSUME a \notin overlapped' PROVE SingleSocket(z)'
      <4>1. SingleSocket(z) /\ told'[z] = <<>> /\ heard'[z] = {z} /\ inbox' = inbox
        BY <1>1, <1>6, <1>7, <2>1, <2>3, <3>2
      <4> QED
        BY <1>1, <4>1 DEF SingleSocket
    <3> QED
      BY <1>12, <2>3, <3>1, <3>2 DEF SocketFine
  <2> QED
    BY <2>2, <2>3
<1>13. AgentFine(a)
  BY <1>1, <1>5 DEF RobotInv, AgentFine, AgentOf, Single
<1>14. \A b \in Agent \ {a} : AgentStays(b)
  BY <1>1 DEF AgentStays
<1>15. \A s \in Robot!Socket : s[1] # a => SocketStays(s) /\ inbox'[s] = inbox[s]
  <2>1. \A s \in Robot!Socket : s[1] # a => s # z
    BY DEF a
  <2> QED
    BY <1>1, <1>7, <2>1 DEF SocketStays
<1> QED
  BY <1>1, <1>2, <1>5, <1>10, <1>11, <1>12, <1>13, <1>14, <1>15, RobotAgentStep DEF Counts

LEMMA RobotDisconnected ==
  ASSUME RobotInv, NEW z \in Robot!Socket, Robot!Disconnected(z) PROVE RobotInv'
<1> DEFINE a == z[1]
<1>1. /\ z \in server /\ server' = server \ {z}
      /\ nodes' = [n \in DOMAIN nodes \ heard[z] |-> nodes[n]]
      /\ heard' = [heard EXCEPT ![z] = {}] /\ inbox' = [inbox EXCEPT ![z] = <<>>]
      /\ told' = [told EXCEPT ![z] = <<>>]
      /\ statusR' \in {"idle", statusR}
      /\ alive' = alive /\ current' = current /\ connected' = connected
      /\ reconnecting' = reconnecting /\ timersR' = timersR /\ client' = client /\ ranR' = ranR
      /\ exitedR' = exitedR /\ overlapped' = overlapped /\ commanded' = commanded
  BY DEF Robot!Disconnected, Robot!Without
<1>2. Robot!TypeOK /\ Counts /\ Nodes
  BY DEF RobotInv
<1>3. a \in Agent
  BY SocketIs
<1> HIDE DEF a
<1>4. /\ told' \in [Robot!Socket -> Seq(Robot!Ids)] /\ told'[z] = <<>>
      /\ heard' \in [Robot!Socket -> SUBSET Robot!Ids] /\ heard'[z] = {}
      /\ inbox' \in [Robot!Socket -> Seq(Messages)] /\ inbox'[z] = <<>>
      /\ \A s \in Robot!Socket : s # z =>
           told'[s] = told[s] /\ heard'[s] = heard[s] /\ inbox'[s] = inbox[s]
  <2>1. /\ told \in [Robot!Socket -> Seq(Robot!Ids)] /\ heard \in [Robot!Socket -> SUBSET Robot!Ids]
        /\ inbox \in [Robot!Socket -> Seq(Messages)]
    BY <1>2, RobotTypes
  <2>2. <<>> \in Seq(Robot!Ids) /\ <<>> \in Seq(Messages)
    OBVIOUS
  <2> QED
    BY <1>1, <2>1, <2>2
<1>5. /\ DOMAIN nodes' = DOMAIN nodes \ heard[z]
      /\ \A id \in DOMAIN nodes' : nodes'[id] = nodes[id]
  BY <1>1
<1>6. /\ DOMAIN nodes \subseteq Robot!Ids /\ \A id \in DOMAIN nodes : nodes[id] \in Robot!Socket
  BY <1>2, RobotTypes
<1>7. Robot!TypeOK'
  <2>1. DOMAIN nodes' \subseteq Robot!Ids /\ \A id \in DOMAIN nodes' : nodes'[id] \in Robot!Socket
    BY <1>5, <1>6
  <2>2. statusR' \in {"idle", "ready", "running"} /\ server' \subseteq Robot!Socket
    BY <1>1, <1>2, RobotTypes
  <2> QED
    BY <1>1, <1>2, <1>4, <2>1, <2>2, RobotTypes, RobotTyped
<1>8. Nodes'
  <2>1. IsFiniteSet(DOMAIN nodes')
    <3>1. IsFiniteSet(DOMAIN nodes) /\ DOMAIN nodes' \in SUBSET DOMAIN nodes
      BY <1>2, <1>5 DEF Nodes
    <3> QED
      BY <3>1, FS_Subset
  <2>2. ASSUME NEW id \in DOMAIN nodes' PROVE id \in heard'[nodes'[id]]
    <3>1. id \in heard[nodes[id]] /\ id \notin heard[z] /\ nodes'[id] = nodes[id]
          /\ nodes[id] \in Robot!Socket
      BY <1>2, <1>5, <1>6, <2>2 DEF Nodes
    <3> QED
      BY <1>4, <3>1
  <2> QED
    BY <2>1, <2>2 DEF Nodes
<1>9. ASSUME NEW s \in Robot!Socket, s[1] = a PROVE SocketFine(s)
  <2>1. SocketOf(s) /\ (a \notin overlapped => SingleSocket(s))
    BY <1>9 DEF RobotInv
  <2>2. CASE s # z
    <3>1. /\ client'[s] = client[s] /\ told'[s] = told[s] /\ heard'[s] = heard[s]
          /\ inbox'[s] = inbox[s] /\ (s \in server' <=> s \in server)
      BY <1>1, <1>4, <2>2
    <3>2. SocketOf(s)'
      BY <1>1, <2>1, <3>1 DEF SocketOf
    <3>3. a \notin overlapped' => SingleSocket(s)'
      BY <1>1, <2>1, <3>1 DEF SingleSocket
    <3> QED
      BY <1>9, <3>2, <3>3 DEF SocketFine
  <2>3. CASE s = z
    <3>1. Len(told'[s]) = 0 /\ Len(inbox'[s]) = 0 /\ s \notin server' /\ heard'[s] = {}
          /\ told'[s] = <<>>
      BY <1>1, <1>4, <2>3
    <3>2. SocketOf(s)'
      BY <1>1, <2>1, <3>1 DEF SocketOf
    <3>3. a \notin overlapped' => SingleSocket(s)'
      BY <1>1, <2>1, <3>1 DEF SingleSocket
    <3> QED
      BY <1>9, <3>2, <3>3 DEF SocketFine
  <2> QED
    BY <2>2, <2>3
<1>10. AgentFine(a)
  BY <1>1, <1>3 DEF RobotInv, AgentFine, AgentOf, Single
<1>11. \A b \in Agent \ {a} : AgentStays(b)
  BY <1>1 DEF AgentStays
<1>12. \A s \in Robot!Socket : s[1] # a => SocketStays(s) /\ inbox'[s] = inbox[s]
  <2>1. \A s \in Robot!Socket : s[1] # a => s # z
    BY DEF a
  <2> QED
    BY <1>1, <1>4, <2>1 DEF SocketStays
<1> QED
  BY <1>1, <1>2, <1>3, <1>7, <1>8, <1>9, <1>10, <1>11, <1>12, RobotAgentStep DEF Counts

\* What the master sends to the nodes it lists.
LEMMA Sends ==
  ASSUME RobotInv, NEW m \in Messages, Robot!Sent(m, DOMAIN nodes)
  PROVE  /\ inbox' \in [Robot!Socket -> Seq(Messages)]
         /\ \A s \in Robot!Socket : s[1] \notin overlapped =>
              inbox'[s] = inbox[s] \/ inbox'[s] = Append(inbox[s], m)
<1> DEFINE N(s) == {n \in DOMAIN nodes : nodes[n] = s}
           q(s) == [k \in 1 .. Cardinality(N(s)) |-> m]
<1>1. inbox' = [s \in Robot!Socket |-> IF s \in server THEN inbox[s] \o q(s) ELSE inbox[s]]
  <2>1. \A s : Robot!Cardinality(N(s)) = Cardinality(N(s))
    BY RobotSame
  <2>2. inbox' = [s \in Robot!Socket |-> IF s \in server
            THEN inbox[s] \o [k \in 1 .. Robot!Cardinality(N(s)) |-> m] ELSE inbox[s]]
    BY DEF Robot!Sent
  <2> QED
    BY <2>1, <2>2
<1>2. inbox \in [Robot!Socket -> Seq(Messages)] /\ IsFiniteSet(DOMAIN nodes)
  BY RobotTypes DEF RobotInv, Nodes
<1>3. ASSUME NEW s \in Robot!Socket PROVE q(s) \in Seq(Messages)
  <2>1. N(s) \in SUBSET DOMAIN nodes
    OBVIOUS
  <2> DEFINE S == N(s)
             c == Cardinality(S)
  <2> HIDE DEF S
  <2>2. IsFiniteSet(S)
    BY <1>2, <2>1, FS_Subset DEF S
  <2>3. c \in Nat
    BY <2>2, FS_CardinalityType
  <2> HIDE DEF c
  <2>4. [k \in 1 .. c |-> m] \in Seq(Messages)
    BY <2>3
  <2> QED
    BY <2>4 DEF c, S
<1>4. ASSUME NEW s \in Robot!Socket, s[1] \notin overlapped PROVE q(s) = <<>> \/ q(s) = <<m>>
  <2> DEFINE S == N(s)
  <2>1. S \subseteq {s}
    <3> SUFFICES ASSUME NEW n \in DOMAIN nodes, nodes[n] = s PROVE n = s
      OBVIOUS
    <3>1. n \in heard[s] /\ heard[s] \subseteq {s}
      BY <1>4 DEF RobotInv, Nodes, SingleSocket
    <3> QED
      BY <3>1
  <2> DEFINE c == Cardinality(S)
  <2>2. c = 0 \/ c = 1
    <3> HIDE DEF S
    <3>1. CASE S = {}
      BY <3>1, FS_EmptySet
    <3>2. CASE S # {}
      <4>1. S = {s}
        BY <2>1, <3>2
      <4> QED
        BY <4>1, FS_Singleton
    <3> QED
      BY <3>1, <3>2
  <2>3. q(s) = [k \in 1 .. c |-> m]
    OBVIOUS
  <2> HIDE DEF S, c, q
  <2>4. CASE c = 0
    <3>1. [k \in 1 .. 0 |-> m] = <<>>
      OBVIOUS
    <3> QED
      BY <2>3, <2>4, <3>1
  <2>5. CASE c = 1
    <3>1. [k \in 1 .. 1 |-> m] = <<m>>
      OBVIOUS
    <3> QED
      BY <2>3, <2>5, <3>1
  <2> QED
    BY <2>2, <2>4, <2>5
<1> HIDE DEF q
<1>5. inbox' \in [Robot!Socket -> Seq(Messages)]
  <2>1. \A s \in Robot!Socket : inbox[s] \o q(s) \in Seq(Messages)
    BY <1>2, <1>3
  <2> QED
    BY <1>1, <1>2, <2>1
<1>6. ASSUME NEW s \in Robot!Socket, s[1] \notin overlapped
      PROVE  inbox'[s] = inbox[s] \/ inbox'[s] = Append(inbox[s], m)
  <2> DEFINE x == inbox[s]
             y == q(s)
  <2>1. /\ x \in Seq(Messages) /\ (y = <<>> \/ y = <<m>>)
        /\ inbox'[s] = IF s \in server THEN x \o y ELSE x
    BY <1>1, <1>2, <1>4, <1>6
  <2> HIDE DEF x, y
  <2>2. x \o <<>> = x /\ x \o <<m>> = Append(x, m)
    BY <2>1
  <2> QED
    BY <2>1, <2>2 DEF x
<1> QED
  BY <1>5, <1>6

LEMMA RobotSends ==
  ASSUME RobotInv, NEW m \in Messages, m # "exists",
         Robot!Sent(m, DOMAIN nodes), commanded' = IF m = "run" THEN commanded + 1 ELSE commanded,
         alive' = alive, current' = current, connected' = connected,
         reconnecting' = reconnecting, timersR' = timersR, client' = client, told' = told,
         ranR' = ranR, exitedR' = exitedR, overlapped' = overlapped,
         server' = server, heard' = heard, nodes' = nodes \/ nodes' = <<>>,
         statusR' \in {statusR, "running"}
  PROVE  RobotInv'
<1>1. Robot!TypeOK /\ Counts /\ Nodes /\ commanded \in Nat
  BY DEF RobotInv, Counts
<1>2. /\ inbox' \in [Robot!Socket -> Seq(Messages)]
      /\ \A s \in Robot!Socket : s[1] \notin overlapped =>
           inbox'[s] = inbox[s] \/ inbox'[s] = Append(inbox[s], m)
  BY Sends
<1>3. Nodes' /\ DOMAIN nodes' \subseteq Robot!Ids /\ \A id \in DOMAIN nodes' : nodes'[id] \in Robot!Socket
  <2>1. CASE nodes' = nodes
    BY <1>1, <2>1, RobotTypes DEF Nodes
  <2>2. CASE nodes' = <<>>
    <3>1. DOMAIN nodes' = {}
      BY <2>2
    <3> QED
      BY <3>1, FS_EmptySet DEF Nodes
  <2> QED
    BY <2>1, <2>2
<1>4. statusR' \in {"idle", "ready", "running"}
  BY <1>1, RobotTypes
<1>5. Robot!TypeOK'
  BY <1>1, <1>2, <1>3, <1>4, RobotTypes, RobotTyped
<1>6. commanded <= commanded' /\ Counts'
  BY <1>1 DEF Counts
<1>7. OthersStay({})
  <2>1. \A b \in Agent : AgentStays(b)
    BY DEF AgentStays
  <2>2. \A s \in Robot!Socket : SocketStays(s)
    BY DEF SocketStays
  <2>3. \A s \in Robot!Socket : s[1] \notin overlapped => QuietBox(s)
    <3>1. m \in Messages \ {"exists"}
      OBVIOUS
    <3> QED
      BY <1>1, <1>2, <3>1, QuietMessage
  <2> QED
    BY <2>1, <2>2, <2>3 DEF OthersStay
<1> DEFINE A == {}
<1>8. /\ OthersStay(A) /\ \A s \in Robot!Socket : s[1] \in A => SocketFine(s)
      /\ \A a \in Agent : a \in A => AgentFine(a)
  BY <1>7
<1> HIDE DEF A
<1> QED
  BY <1>3, <1>5, <1>6, <1>8, RobotStep

LEMMA RobotRun ==
  ASSUME RobotInv, Robot!Run \/ Robot!ExitForReady PROVE RobotInv'
<1>1. "run" \in Messages /\ "exit" \in Messages /\ "exit" # "run" /\ "run" # "exists" /\ "exit" # "exists"
  BY DEF Messages
<1>2. CASE Robot!Run
  <2> DEFINE m == "run"
  <2>1. /\ Robot!Sent(m, DOMAIN nodes)
        /\ commanded' = IF m = "run" THEN commanded + 1 ELSE commanded
        /\ alive' = alive /\ current' = current /\ connected' = connected
        /\ reconnecting' = reconnecting /\ timersR' = timersR /\ client' = client
        /\ told' = told /\ ranR' = ranR /\ exitedR' = exitedR /\ overlapped' = overlapped
        /\ server' = server /\ heard' = heard /\ nodes' = nodes /\ statusR' \in {statusR, "running"}
        /\ m \in Messages /\ m # "exists"
    BY <1>1, <1>2 DEF Robot!Run, Robot!agentVars
  <2> HIDE DEF m
  <2> QED
    BY <2>1, RobotSends
<1>3. CASE Robot!ExitForReady
  <2> DEFINE m == "exit"
  <2>1. /\ Robot!Sent(m, DOMAIN nodes)
        /\ commanded' = IF m = "run" THEN commanded + 1 ELSE commanded
        /\ alive' = alive /\ current' = current /\ connected' = connected
        /\ reconnecting' = reconnecting /\ timersR' = timersR /\ client' = client
        /\ told' = told /\ ranR' = ranR /\ exitedR' = exitedR /\ overlapped' = overlapped
        /\ server' = server /\ heard' = heard /\ nodes' = <<>> /\ statusR' \in {statusR, "running"}
        /\ m \in Messages /\ m # "exists"
    BY <1>1, <1>3 DEF Robot!ExitForReady, Robot!agentVars
  <2> HIDE DEF m
  <2> QED
    BY <2>1, RobotSends
<1> QED
  BY <1>2, <1>3

\* The room is told to disconnect and an agent is started.
LEMMA RobotReady ==
  ASSUME RobotInv, NEW a \in Agent, Robot!Ready(a) PROVE RobotInv'
<1>1. /\ a \notin alive /\ alive' = alive \union {a} /\ Robot!Connect(a) /\ statusR' = "ready"
      /\ inbox' = [s \in Robot!Socket |->
           IF s \in server /\ heard[s] # {} THEN Append(inbox[s], "disconnect") ELSE inbox[s]]
      /\ connected' = connected /\ reconnecting' = reconnecting /\ timersR' = timersR
      /\ ranR' = ranR /\ exitedR' = exitedR /\ overlapped' = overlapped
      /\ server' = server /\ heard' = heard /\ nodes' = nodes /\ commanded' = commanded
  BY DEF Robot!Ready, Robot!Started, Robot!RunAgent
<1>2. Robot!TypeOK /\ Counts /\ Nodes /\ Nodes' /\ commanded \in Nat
  BY <1>1 DEF RobotInv, Nodes, Counts
<1>3. /\ inbox' \in [Robot!Socket -> Seq(Messages)]
      /\ \A s \in Robot!Socket :
           inbox'[s] = inbox[s] \/ inbox'[s] = Append(inbox[s], "disconnect")
  <2>1. inbox \in [Robot!Socket -> Seq(Messages)] /\ "disconnect" \in Messages
    BY <1>2, RobotTypes DEF Messages
  <2>2. \A s \in Robot!Socket : Append(inbox[s], "disconnect") \in Seq(Messages)
    BY <2>1
  <2> QED
    BY <1>1, <2>1, <2>2
<1>4. \A s \in Robot!Socket : QuietBox(s)
  BY <1>1, <1>2, <1>3, Quiet
<1>5. timersR[a] = 0 /\ \A s \in Robot!Socket : s[1] = a => client[s] = "down"
  BY <1>1 DEF RobotInv, AgentOf, SocketOf
<1>6. /\ current' \in [Agent -> 0 .. MaxSockets]
      /\ \A b \in Agent \ {a} : current'[b] = current[b]
      /\ client' \in [Robot!Socket -> {"down", "connecting", "up"}]
      /\ told' \in [Robot!Socket -> Seq(Robot!Ids)]
      /\ \A s \in Robot!Socket : s[1] # a => client'[s] = client[s] /\ told'[s] = told[s]
  <2>1. PICK i \in 1 .. MaxSockets :
           /\ current' \in [Agent -> 0 .. MaxSockets]
           /\ \A b \in Agent \ {a} : current'[b] = current[b]
           /\ client' \in [Robot!Socket -> {"down", "connecting", "up"}]
           /\ told' \in [Robot!Socket -> Seq(Robot!Ids)]
           /\ \A s \in Robot!Socket : s # <<a, i>> => client'[s] = client[s] /\ told'[s] = told[s]
    BY <1>1, <1>2, Connects
  <2>2. \A s \in Robot!Socket : s[1] # a => s # <<a, i>>
    OBVIOUS
  <2> QED
    BY <2>1, <2>2
<1>7. Robot!TypeOK'
  <2>1. alive' \subseteq Agent /\ statusR' \in {"idle", "ready", "running"}
    BY <1>1, <1>2, RobotTypes
  <2> QED
    BY <1>1, <1>2, <1>3, <1>6, <2>1, RobotTypes, RobotTyped
<1>8. \A s \in Robot!Socket : s[1] = a => SocketFine(s)
  BY <1>1, <1>4, <1>5, ConnectFine
<1>9. AgentFine(a)
  BY <1>1 DEF RobotInv, AgentFine, AgentOf, Single
<1>10. \A b \in Agent \ {a} : AgentStays(b)
  BY <1>1, <1>6 DEF AgentStays
<1>11. \A s \in Robot!Socket : s[1] # a => SocketStays(s) /\ QuietBox(s)
  BY <1>1, <1>4, <1>6 DEF SocketStays
<1> DEFINE A == {a}
<1>12. /\ OthersStay(A) /\ \A s \in Robot!Socket : s[1] \in A => SocketFine(s)
       /\ \A b \in Agent : b \in A => AgentFine(b)
  BY <1>8, <1>9, <1>10, <1>11 DEF OthersStay
<1> HIDE DEF A
<1>13. commanded <= commanded' /\ Counts'
  BY <1>1, <1>2 DEF Counts
<1> QED
  BY <1>2, <1>7, <1>12, <1>13, RobotStep

LEMMA RobotInit == Robot!Init => RobotInv
<1> SUFFICES ASSUME Robot!Init PROVE RobotInv
  OBVIOUS
<1>1. /\ alive = {} /\ exitedR = {} /\ overlapped = {}
      /\ current = [a \in Agent |-> 0] /\ timersR = [a \in Agent |-> 0]
      /\ ranR = [a \in Agent |-> 0]
      /\ connected = [a \in Agent |-> FALSE] /\ reconnecting = [a \in Agent |-> FALSE]
      /\ client = [s \in Robot!Socket |-> "down"]
      /\ told = [s \in Robot!Socket |-> <<>>] /\ inbox = [s \in Robot!Socket |-> <<>>]
      /\ heard = [s \in Robot!Socket |-> {}]
      /\ server = {} /\ nodes = <<>> /\ statusR = "idle" /\ commanded = 0
  BY DEF Robot!Init, Robot!NewAgent
<1>2. DOMAIN nodes = {}
  BY <1>1
<1>3. 0 \in 0 .. MaxSockets /\ 0 \in 0 .. MaxTimers
  BY RobotSame
<1>4. Robot!TypeOK
  <2>1. <<>> \in Seq(Robot!Ids) /\ <<>> \in Seq(Messages)
    OBVIOUS
  <2>2. /\ current \in [Agent -> 0 .. MaxSockets] /\ timersR \in [Agent -> 0 .. MaxTimers]
        /\ connected \in [Agent -> BOOLEAN] /\ reconnecting \in [Agent -> BOOLEAN]
        /\ client \in [Robot!Socket -> {"down", "connecting", "up"}]
        /\ told \in [Robot!Socket -> Seq(Robot!Ids)] /\ heard \in [Robot!Socket -> SUBSET Robot!Ids]
        /\ inbox \in [Robot!Socket -> Seq(Messages)]
    BY <1>1, <1>3, <2>1
  <2> QED
    BY <1>1, <1>2, <2>2 DEF Robot!TypeOK, Messages
<1>5. Counts /\ Nodes
  BY <1>1, <1>2, FS_EmptySet DEF Counts, Nodes
<1>6. \A a \in Agent : AgentOf(a) /\ Single(a)
  BY <1>1 DEF AgentOf, Single
<1>7. \A s \in Robot!Socket : SocketOf(s) /\ SingleSocket(s)
  <2> SUFFICES ASSUME NEW s \in Robot!Socket PROVE SocketOf(s) /\ SingleSocket(s)
    OBVIOUS
  <2>1. /\ client[s] = "down" /\ told[s] = <<>> /\ heard[s] = {} /\ Len(told[s]) = 0
        /\ inbox[s] = <<>> /\ Len(inbox[s]) = 0 /\ s \notin server
    BY <1>1
  <2> QED
    BY <2>1 DEF SocketOf, SingleSocket
<1> QED
  BY <1>4, <1>5, <1>6, <1>7 DEF RobotInv

LEMMA RobotInvStep == RobotInv /\ [Robot!Next]_robotVars => RobotInv'
<1> SUFFICES ASSUME RobotInv, [Robot!Next]_robotVars PROVE RobotInv'
  OBVIOUS
<1>1. CASE UNCHANGED robotVars
  BY <1>1, RobotStutters DEF robotVars
<1>2. CASE Robot!Next
  BY <1>2, RobotRun, RobotTimerFires, RobotHeartbeatFails, RobotActorError, RobotRestart, RobotReady,
     RobotOnConnect, RobotOnDisconnect, RobotReceive, RobotAnnounceNode, RobotDisconnected
     DEF Robot!Next
<1> QED
  BY <1>1, <1>2

\* How the agents of the robot and their sockets stand.
LEMMA RobotInvInductive == Spec => []RobotInv
<1>1. Init => RobotInv
  BY RobotInit DEF Init
<1>2. RobotInv /\ [Next]_vars => RobotInv'
  <2> SUFFICES ASSUME RobotInv, [Next]_vars PROVE RobotInv'
    OBVIOUS
  <2>1. [Robot!Next]_robotVars
    BY Zenon DEF Next, vars
  <2> QED
    BY <2>1, RobotInvStep
<1> QED
  BY <1>1, <1>2, PTL DEF Spec

LEMMA RobotSafe == RobotInv => Robot!OneSocket
<1> SUFFICES ASSUME RobotInv, NEW a \in Agent \ overlapped
             PROVE  Robot!Cardinality(Robot!Live(a)) <= 1 /\ a \notin exitedR /\ ranR[a] <= commanded
  BY DEF Robot!OneSocket
<1>1. Single(a) /\ \A s \in Robot!Socket : s[1] = a => SingleSocket(s)
  BY DEF RobotInv
<1> DEFINE S == Robot!Live(a)
           c == <<a, current[a]>>
<1>2. S \subseteq {c}
  <2> SUFFICES ASSUME NEW s \in Robot!Socket, s[1] = a, client[s] # "down" PROVE s = c
    BY DEF Robot!Live
  <2> QED
    BY <1>1, SocketIs DEF SingleSocket
<1> HIDE DEF S, c
<1>3. Cardinality(S) <= 1
  <2>1. CASE S = {}
    BY <2>1, FS_EmptySet
  <2>2. CASE S # {}
    <3>1. S = {c}
      BY <1>2, <2>2
    <3> QED
      BY <3>1, FS_Singleton
  <2> QED
    BY <2>1, <2>2
<1> QED
  BY <1>1, <1>3, RobotSame DEF Single, S

\* OneSocket, for every set of agents and pages and whatever the bounds: an agent makes a
\* socket when a timer fires, and a timer is pending only while it has none, unless a
\* restart is forced meanwhile (reconnect, restart); each socket announces itself once and
\* the master lists it once (announceNode, Server.run); a page is told of a node before
\* its end, and what is measured once is taken out of the monitor (monitor, WebClient).
THEOREM OneSocketCorrect == Spec => []OneSocket
<1>1. RobotInv /\ ReportInv => OneSocket
  BY RobotSafe, ReportSafe DEF OneSocket, RobotInv, ReportInv
<1> QED
  BY <1>1, RobotInvInductive, ReportInvInductive, PTL

-----------------------------------------------------------------------------
(* The modules that collect: consoleService.js, profiler.js,               *)
(* profileProxy.js.                                                        *)

\* What is on its way from a server comes in the order in which it was taken, and is
\* newer than what a client was told of.
Increasing(q, least) ==
  /\ \A i \in 1 .. Len(q) : least < q[i] /\ q[i] <= taken
  /\ \A i, j \in 1 .. Len(q) : i < j => q[i] < q[j]

ModulesInv ==
  /\ AdminModules!TypeOK /\ AdminModules!OneJob /\ AdminModules!NewestProfile
  /\ stateM = "stopped" => idMapM = {}
  /\ \A s \in Profiled :
       /\ Increasing(wire[s], headers[s]) /\ headers[s] <= taken
       /\ profiles[s] \in {0, headers[s]}

LEMMA ModulesInit == AdminModules!Init => ModulesInv
<1> SUFFICES ASSUME AdminModules!Init PROVE ModulesInv
  OBVIOUS
<1>1. /\ stateM = "inited" /\ enable = FALSE /\ jobId = 0 /\ jobs = {}
      /\ idMapM = {} /\ pulls = {} /\ data = {} /\ threwM = {} /\ sampling = {} /\ taken = 0
      /\ wire = [s \in Profiled |-> <<>>]
      /\ profiles = [s \in Profiled |-> 0] /\ headers = [s \in Profiled |-> 0]
      /\ polls = {} /\ answeredM = {}
  BY DEF AdminModules!Init, AdminModules!Record
<1>2. MaxJobs \in Nat /\ MaxTaken \in Nat
  BY ModulesAssumption DEF AdminModules!ModulesAssumption
<1>3. AdminModules!TypeOK
  <2>1. /\ \A ss \in {idMapM, pulls, data, threwM, sampling} : ss \subseteq Profiled
        /\ stateM \in {"inited", "started", "stopped"} /\ enable \in BOOLEAN
    BY <1>1
  <2>2. jobId \in 0 .. MaxJobs /\ jobs \subseteq 1 .. MaxJobs /\ taken \in 0 .. MaxTaken
    BY <1>1, <1>2
  <2>3. /\ wire \in [Profiled -> Seq(1 .. MaxTaken)]
        /\ profiles \in [Profiled -> 0 .. MaxTaken] /\ headers \in [Profiled -> 0 .. MaxTaken]
    BY <1>1, <1>2
  <2> QED
    BY <1>1, <2>1, <2>2, <2>3 DEF AdminModules!TypeOK
<1>4. \A s \in Profiled : Increasing(wire[s], headers[s]) /\ headers[s] <= taken /\ profiles[s] = 0
  BY <1>1 DEF Increasing
<1> QED
  BY <1>1, <1>3, <1>4 DEF ModulesInv, AdminModules!OneJob, AdminModules!NewestProfile

\* The record of a module: enable, disable.
LEMMA ModulesRecord ==
  ASSUME ModulesInv, AdminModules!Enable \/ AdminModules!Disable
  PROVE  /\ enable' \in BOOLEAN /\ jobId' \in 0 .. MaxJobs /\ jobs' \subseteq 1 .. MaxJobs
         /\ AdminModules!OneJob'
<1> USE ModulesAssumption DEF AdminModules!ModulesAssumption
<1>1. /\ enable \in BOOLEAN /\ jobId \in 0 .. MaxJobs /\ jobs \subseteq 1 .. MaxJobs
      /\ jobs = IF enable THEN {jobId} ELSE {}
  BY DEF ModulesInv, AdminModules!TypeOK, AdminModules!OneJob
<1>2. CASE AdminModules!Enable
  <2>1. CASE enable
    <3>1. enable' = enable /\ jobId' = jobId /\ jobs' = jobs
      BY <1>2, <2>1 DEF AdminModules!Enable
    <3> QED
      BY <1>1, <3>1 DEF AdminModules!OneJob
  <2>2. CASE ~enable
    <3>1. /\ enable' = TRUE /\ jobs = {} /\ jobId' = jobId + 1 /\ jobs' = {jobId + 1}
          /\ jobId < MaxJobs
      BY <1>1, <1>2, <2>2 DEF AdminModules!Enable, AdminModules!AddToSchedule
    <3> QED
      BY <1>1, <3>1 DEF AdminModules!OneJob
  <2> QED
    BY <2>1, <2>2
<1>3. CASE AdminModules!Disable
  BY <1>1, <1>3 DEF AdminModules!Disable, AdminModules!CancelJob, AdminModules!OneJob
<1> QED
  BY <1>2, <1>3

\* The types, but for those of the record of the module.
ModulesSets ==
  /\ idMapM \subseteq Profiled /\ pulls \subseteq Profiled /\ data \subseteq Profiled
  /\ threwM \subseteq Profiled /\ sampling \subseteq Profiled
  /\ taken \in 0 .. MaxTaken
  /\ wire \in [Profiled -> Seq(1 .. MaxTaken)]
  /\ profiles \in [Profiled -> 0 .. MaxTaken] /\ headers \in [Profiled -> 0 .. MaxTaken]
  /\ polls \subseteq [from : Profiled, type : AdminModules!ProfileType]
  /\ answeredM \subseteq [from : Profiled, told : 0 .. MaxTaken, profile : 0 .. MaxTaken]

ModulesRecorded ==
  /\ stateM \in {"inited", "started", "stopped"} /\ enable \in BOOLEAN
  /\ jobId \in 0 .. MaxJobs /\ jobs \subseteq 1 .. MaxJobs
  /\ AdminModules!OneJob

LEMMA ModulesTypes == ModulesSets /\ ModulesRecorded <=> AdminModules!TypeOK /\ AdminModules!OneJob
<1>1. (\A ss \in {idMapM, pulls, data, threwM, sampling} : ss \subseteq Profiled) <=>
        /\ idMapM \subseteq Profiled /\ pulls \subseteq Profiled /\ data \subseteq Profiled
        /\ threwM \subseteq Profiled /\ sampling \subseteq Profiled
  OBVIOUS
<1> QED
  BY <1>1, Zenon DEF AdminModules!TypeOK, ModulesSets, ModulesRecorded

LEMMA SentNumbers ==
  ASSUME NEW q \in Seq(1 .. MaxTaken)
  PROVE  /\ Len(q) \in Nat /\ \A i \in 1 .. Len(q) : q[i] \in Nat
         /\ \A n \in 1 .. MaxTaken :
              /\ Append(q, n) \in Seq(1 .. MaxTaken) /\ Len(Append(q, n)) = Len(q) + 1
              /\ Append(q, n)[Len(q) + 1] = n /\ \A i \in 1 .. Len(q) : Append(q, n)[i] = q[i]
         /\ q # <<>> => /\ Len(q) > 0 /\ Head(q) = q[1] /\ q[1] \in 1 .. MaxTaken /\ q[1] \in Nat
                        /\ Tail(q) \in Seq(1 .. MaxTaken) /\ Len(Tail(q)) = Len(q) - 1
                        /\ \A i \in 1 .. Len(q) - 1 : Tail(q)[i] = q[i + 1]
<1> DEFINE T == 1 .. MaxTaken
<1>1. \A n \in T : n \in Nat
  OBVIOUS
<1>2. SUFFICES ASSUME q \in Seq(T)
      PROVE  /\ Len(q) \in Nat /\ \A i \in 1 .. Len(q) : q[i] \in Nat
             /\ \A n \in T :
                  /\ Append(q, n) \in Seq(T) /\ Len(Append(q, n)) = Len(q) + 1
                  /\ Append(q, n)[Len(q) + 1] = n /\ \A i \in 1 .. Len(q) : Append(q, n)[i] = q[i]
             /\ q # <<>> => /\ Len(q) > 0 /\ Head(q) = q[1] /\ q[1] \in T /\ q[1] \in Nat
                            /\ Tail(q) \in Seq(T) /\ Len(Tail(q)) = Len(q) - 1
                            /\ \A i \in 1 .. Len(q) - 1 : Tail(q)[i] = q[i + 1]
  BY Zenon
<1> HIDE DEF T
<1>3. \A n \in T :
        /\ Append(q, n) \in Seq(T) /\ Len(Append(q, n)) = Len(q) + 1
        /\ Append(q, n)[Len(q) + 1] = n /\ \A i \in 1 .. Len(q) : Append(q, n)[i] = q[i]
  BY <1>2
<1>4. /\ Len(q) \in Nat /\ \A i \in 1 .. Len(q) : q[i] \in T
      /\ q # <<>> => /\ Len(q) > 0 /\ Head(q) = q[1] /\ q[1] \in T
                     /\ Tail(q) \in Seq(T) /\ Len(Tail(q)) = Len(q) - 1
                     /\ \A i \in 1 .. Len(q) - 1 : Tail(q)[i] = q[i + 1]
  BY <1>2
<1> QED
  BY <1>1, <1>3, <1>4, Zenon

\* What is told of a server, and sent and kept of it, stays with one more profile taken.
LEMMA IncreasingStays ==
  ASSUME NEW s \in Profiled, ModulesSets, taken' \in Nat, taken <= taken',
         Increasing(wire[s], headers[s]), wire'[s] = wire[s], headers'[s] = headers[s]
  PROVE  Increasing(wire[s], headers[s])'
<1>1. wire[s] \in Seq(1 .. MaxTaken) /\ taken \in Nat
  BY ModulesAssumption DEF ModulesSets, AdminModules!ModulesAssumption
<1>2. \A i \in 1 .. Len(wire[s]) : wire[s][i] \in Nat
  BY <1>1, SentNumbers, Zenon
<1> QED
  BY <1>1, <1>2 DEF Increasing

\* Every action but those of a profile: what is sent, kept and answered stays.
LEMMA ModulesKeepProfiles ==
  ASSUME ModulesInv, ModulesSets', ModulesRecorded', taken' \in Nat,
         UNCHANGED <<wire, profiles, headers, answeredM>>, taken <= taken',
         stateM' = "stopped" => idMapM' = {}
  PROVE  ModulesInv'
<1>1. (AdminModules!TypeOK /\ AdminModules!OneJob)'
  BY ModulesTypes, PTL
<1>2. AdminModules!NewestProfile'
  BY DEF ModulesInv, AdminModules!NewestProfile
<1>3. ModulesSets /\ taken \in Nat /\ \A s \in Profiled : headers[s] \in Nat
  BY ModulesTypes, ModulesAssumption DEF ModulesInv, ModulesSets, AdminModules!ModulesAssumption
<1>4. ASSUME NEW s \in Profiled
      PROVE  /\ Increasing(wire[s], headers[s])' /\ headers'[s] <= taken'
             /\ profiles'[s] \in {0, headers'[s]}
  <2>1. Increasing(wire[s], headers[s]) /\ headers[s] <= taken /\ profiles[s] \in {0, headers[s]}
    BY DEF ModulesInv
  <2>2. Increasing(wire[s], headers[s])'
    BY <1>3, <2>1, IncreasingStays
  <2> QED
    BY <1>3, <2>1, <2>2
<1> QED
  BY <1>1, <1>2, <1>4 DEF ModulesInv

LEMMA ModulesRecords ==
  ASSUME ModulesInv,
         \/ AdminModules!Start \/ AdminModules!EnableCommand \/ AdminModules!DisableCommand
         \/ \E j \in 1 .. MaxJobs : AdminModules!DoScheduleJob(j)
         \/ \E s \in Profiled : \/ AdminModules!Collected(s) \/ AdminModules!CollectFails(s)
                                \/ AdminModules!Registers(s) \/ AdminModules!TakeHeapSnapshot(s)
                                \/ AdminModules!StartProfiling(s)
  PROVE  ModulesInv'
<1>0. ModulesSets /\ ModulesRecorded /\ taken \in Nat
  BY ModulesTypes, ModulesAssumption DEF ModulesInv, ModulesSets, AdminModules!ModulesAssumption
<1>1. UNCHANGED <<taken, wire, profiles, headers, polls, answeredM>>
  BY DEF AdminModules!Start, AdminModules!EnableCommand, AdminModules!DisableCommand,
         AdminModules!ConsoleCommand, AdminModules!DoScheduleJob, AdminModules!Collected,
         AdminModules!CollectFails, AdminModules!Registers, AdminModules!TakeHeapSnapshot,
         AdminModules!StartProfiling, AdminModules!profiler
<1>2. stateM' \in {"inited", "started", "stopped"} /\ (stateM' = "stopped" => idMapM' = {})
  BY <1>0 DEF ModulesInv, ModulesRecorded, AdminModules!Start, AdminModules!EnableCommand,
         AdminModules!DisableCommand, AdminModules!ConsoleCommand, AdminModules!DoScheduleJob,
         AdminModules!Collected, AdminModules!CollectFails, AdminModules!Registers, AdminModules!TakeHeapSnapshot,
         AdminModules!StartProfiling, AdminModules!Notified, AdminModules!module
<1>3. /\ enable' \in BOOLEAN /\ jobId' \in 0 .. MaxJobs /\ jobs' \subseteq 1 .. MaxJobs
      /\ AdminModules!OneJob'
  <2>1. CASE AdminModules!Enable \/ AdminModules!Disable
    BY <2>1, ModulesRecord
  <2>2. CASE UNCHANGED <<enable, jobId, jobs>>
    BY <1>0, <2>2 DEF ModulesRecorded, AdminModules!OneJob
  <2> QED
    BY <2>1, <2>2 DEF AdminModules!Start, AdminModules!EnableCommand, AdminModules!DisableCommand,
         AdminModules!DoScheduleJob, AdminModules!Collected, AdminModules!TakeHeapSnapshot,
         AdminModules!StartProfiling, AdminModules!CollectFails, AdminModules!Registers, AdminModules!module
<1>4. /\ idMapM' \subseteq Profiled /\ pulls' \subseteq Profiled /\ data' \subseteq Profiled
      /\ threwM' \subseteq Profiled /\ sampling' \subseteq Profiled
  BY <1>0 DEF ModulesSets, AdminModules!Start, AdminModules!EnableCommand, AdminModules!DisableCommand,
         AdminModules!ConsoleCommand, AdminModules!DoScheduleJob, AdminModules!Collected, AdminModules!Stored,
         AdminModules!CollectFails, AdminModules!Registers, AdminModules!TakeHeapSnapshot,
         AdminModules!StartProfiling, AdminModules!collect, AdminModules!profiler
<1>5. ModulesSets' /\ ModulesRecorded'
  BY <1>0, <1>1, <1>2, <1>3, <1>4 DEF ModulesSets, ModulesRecorded, AdminModules!ProfileType
<1>6. taken' \in Nat /\ taken <= taken'
  BY <1>0, <1>1
<1> QED
  BY <1>1, <1>2, <1>5, <1>6, ModulesKeepProfiles

\* What a server has sent is lost, and profiles are cleared.
LEMMA ModulesLoses ==
  ASSUME ModulesInv, ModulesSets', ModulesRecorded', UNCHANGED <<taken, headers, answeredM>>,
         stateM' = "stopped" => idMapM' = {},
         \A s \in Profiled : wire'[s] \in {wire[s], <<>>} /\ profiles'[s] \in {0, profiles[s]}
  PROVE  ModulesInv'
<1>1. (AdminModules!TypeOK /\ AdminModules!OneJob)'
  BY ModulesTypes, PTL
<1>2. AdminModules!NewestProfile'
  BY DEF ModulesInv, AdminModules!NewestProfile
<1>3. \A s \in Profiled : Increasing(wire[s], headers[s])'
  BY DEF ModulesInv, Increasing
<1> QED
  BY <1>1, <1>2, <1>3 DEF ModulesInv

LEMMA ModulesStops ==
  ASSUME ModulesInv,
         \/ AdminModules!Stop \/ AdminModules!ClearProfiles
         \/ \E s \in Profiled : AdminModules!Disconnects(s)
  PROVE  ModulesInv'
<1>0. ModulesSets /\ ModulesRecorded /\ 0 \in 0 .. MaxTaken
  BY ModulesTypes, ModulesAssumption DEF ModulesInv, AdminModules!ModulesAssumption
<1>1. CASE AdminModules!Stop
  <2>1. /\ stateM' = "stopped" /\ idMapM' = {} /\ pulls' = {} /\ polls' = {}
        /\ wire' = [s \in Profiled |-> <<>>]
        /\ UNCHANGED <<data, threwM, sampling, taken, profiles, headers, answeredM>>
    BY <1>1 DEF AdminModules!Stop
  <2>2. ModulesRecorded'
    BY <1>1, <2>1, ModulesRecord DEF AdminModules!Stop, ModulesRecorded
  <2>3. ModulesSets'
    BY <1>0, <2>1 DEF ModulesSets
  <2>4. \A s \in Profiled : wire'[s] = <<>> /\ profiles'[s] = profiles[s]
    BY <2>1
  <2> QED
    BY <2>1, <2>2, <2>3, <2>4, ModulesLoses
<1>2. CASE AdminModules!ClearProfiles
  <2>1. /\ profiles' = [s \in Profiled |-> 0]
        /\ UNCHANGED <<stateM, enable, jobId, jobs, idMapM, pulls, data, threwM, sampling, taken,
                       wire, headers, polls, answeredM>>
    BY <1>2 DEF AdminModules!ClearProfiles, AdminModules!module, AdminModules!collect
  <2>2. ModulesSets' /\ ModulesRecorded'
    BY <1>0, <2>1 DEF ModulesSets, ModulesRecorded, AdminModules!OneJob, AdminModules!ProfileType
  <2>3. \A s \in Profiled : wire'[s] = wire[s] /\ profiles'[s] = 0
    BY <2>1
  <2>4. stateM' = "stopped" => idMapM' = {}
    BY <2>1 DEF ModulesInv
  <2> QED
    BY <2>1, <2>2, <2>3, <2>4, ModulesLoses
<1>3. ASSUME NEW s \in Profiled, AdminModules!Disconnects(s) PROVE ModulesInv'
  <2>1. /\ s \in idMapM /\ idMapM' = idMapM \ {s} /\ pulls' = pulls \ {s}
        /\ sampling' \in {sampling, sampling \ {s}}
        /\ wire' = [wire EXCEPT ![s] = <<>>]
        /\ UNCHANGED <<stateM, enable, jobId, jobs, data, threwM, taken, profiles, headers, polls, answeredM>>
    BY <1>3 DEF AdminModules!Disconnects, AdminModules!module
  <2>2. wire' \in [Profiled -> Seq(1 .. MaxTaken)]
    BY <1>0, <2>1 DEF ModulesSets
  <2>3. ModulesSets' /\ ModulesRecorded'
    BY <1>0, <2>1, <2>2 DEF ModulesSets, ModulesRecorded, AdminModules!OneJob, AdminModules!ProfileType
  <2>4. \A t \in Profiled : wire'[t] \in {wire[t], <<>>} /\ profiles'[t] = profiles[t]
    BY <1>0, <2>1 DEF ModulesSets
  <2>5. stateM' = "stopped" => idMapM' = {}
    BY <2>1 DEF ModulesInv
  <2> QED
    BY <2>1, <2>3, <2>4, <2>5, ModulesLoses
<1> QED
  BY <1>1, <1>2, <1>3

LEMMA ModulesTakes ==
  ASSUME ModulesInv, NEW s \in Profiled, AdminModules!StopProfiling(s)
  PROVE  ModulesInv'
<1>0. ModulesSets /\ ModulesRecorded /\ MaxTaken \in Nat
  BY ModulesTypes, ModulesAssumption DEF ModulesInv, AdminModules!ModulesAssumption
<1> DEFINE q == wire[s]
           n == taken + 1
<1>1. /\ s \in idMapM /\ taken < MaxTaken /\ taken' = n
      /\ sampling' = sampling \ {s} /\ wire' = [wire EXCEPT ![s] = Append(q, n)]
      /\ UNCHANGED <<stateM, enable, jobId, jobs, idMapM, pulls, data, threwM, profiles, headers, polls,
                     answeredM>>
  BY DEF AdminModules!StopProfiling, AdminModules!Notified, AdminModules!module, AdminModules!collect
<1>2. taken \in Nat /\ n \in 1 .. MaxTaken /\ q \in Seq(1 .. MaxTaken) /\ headers[s] \in Nat
  BY <1>0, <1>1 DEF ModulesSets
<1>3. Append(q, n) \in Seq(1 .. MaxTaken)
  BY <1>2
<1>4. wire' \in [Profiled -> Seq(1 .. MaxTaken)]
  BY <1>0, <1>1, <1>3 DEF ModulesSets
<1>5. ModulesSets' /\ ModulesRecorded'
  BY <1>0, <1>1, <1>2, <1>4 DEF ModulesSets, ModulesRecorded, AdminModules!OneJob, AdminModules!ProfileType
<1>6. (AdminModules!TypeOK /\ AdminModules!OneJob)'
  BY <1>5, ModulesTypes, PTL
<1>7. AdminModules!NewestProfile' /\ (stateM' = "stopped" => idMapM' = {})
  BY <1>1 DEF ModulesInv, AdminModules!NewestProfile
<1>8. ASSUME NEW t \in Profiled PROVE Increasing(wire[t], headers[t])'
  <2>1. Increasing(wire[t], headers[t])
    BY DEF ModulesInv
  <2>2. CASE t # s
    <3>1. wire'[t] = wire[t] /\ headers'[t] = headers[t] /\ taken' \in Nat /\ taken <= taken'
      BY <1>0, <1>1, <1>2, <2>2 DEF ModulesSets
    <3> QED
      BY <1>0, <2>1, <3>1, IncreasingStays
  <2>3. CASE t = s
    <3> DEFINE w == Append(q, n)
    <3>1. wire'[s] = w /\ headers'[s] = headers[s]
      BY <1>0, <1>1 DEF ModulesSets
    <3>2. /\ Len(w) = Len(q) + 1 /\ Len(q) \in Nat /\ w[Len(q) + 1] = n
          /\ \A i \in 1 .. Len(q) : w[i] = q[i] /\ q[i] \in Nat
      <4> HIDE DEF q, n
      <4> QED
        BY <1>2, SentNumbers, Zenon DEF w
    <3>3. headers[s] <= taken
      BY DEF ModulesInv
    <3>4. /\ \A i \in 1 .. Len(q) : headers[s] < q[i] /\ q[i] <= taken
          /\ \A i, j \in 1 .. Len(q) : i < j => q[i] < q[j]
      BY <2>1, <2>3 DEF Increasing
    <3> HIDE DEF w, q
    <3>5. \A i \in 1 .. Len(w) : headers[s] < w[i] /\ w[i] <= n
      BY <1>2, <3>2, <3>3, <3>4
    <3>6. \A i, j \in 1 .. Len(w) : i < j => w[i] < w[j]
      BY <1>2, <3>2, <3>4
    <3> QED
      BY <1>1, <2>3, <3>1, <3>5, <3>6 DEF Increasing
  <2> QED
    BY <2>2, <2>3
<1>9. \A t \in Profiled : headers'[t] <= taken' /\ profiles'[t] \in {0, headers'[t]}
  <2>1. \A t \in Profiled : headers[t] \in Nat /\ headers[t] <= taken /\ profiles[t] \in {0, headers[t]}
    BY <1>0 DEF ModulesInv, ModulesSets
  <2> QED
    BY <1>1, <1>2, <2>1
<1> QED
  BY <1>6, <1>7, <1>8, <1>9 DEF ModulesInv

LEMMA ModulesGets ==
  ASSUME ModulesInv, NEW s \in Profiled, NEW type \in AdminModules!ProfileType,
         \/ AdminModules!GetProfile(s, type)
         \/ [from |-> s, type |-> type] \in polls /\ AdminModules!Poll([from |-> s, type |-> type])
  PROVE  ModulesInv'
<1>0. ModulesSets /\ ModulesRecorded
  BY ModulesTypes DEF ModulesInv
<1> DEFINE r == [from |-> s, told |-> headers[s], profile |-> profiles[s]]
           p == [from |-> s, type |-> type]
<1>1. UNCHANGED <<stateM, enable, jobId, jobs, idMapM, pulls, data, threwM, sampling, taken, wire,
                  profiles, headers>>
  BY DEF AdminModules!GetProfile, AdminModules!Poll, AdminModules!module, AdminModules!collect
<1>2. /\ polls' \in {polls, polls \union {p}, polls \ {p}}
      /\ \/ answeredM' = answeredM
         \/ answeredM' = answeredM \union {r} /\ profiles[s] # 0
  <2>1. CASE AdminModules!GetProfile(s, type)
    BY <2>1 DEF AdminModules!GetProfile, AdminModules!Answer, AdminModules!Exists
  <2>2. CASE p \in polls /\ AdminModules!Poll(p)
    <3>1. p.from = s
      OBVIOUS
    <3> QED
      BY <2>2, <3>1 DEF AdminModules!Poll, AdminModules!Answer, AdminModules!Exists
  <2> QED
    BY <2>1, <2>2
<1>3. r \in [from : Profiled, told : 0 .. MaxTaken, profile : 0 .. MaxTaken]
  BY <1>0 DEF ModulesSets
<1>4. p \in [from : Profiled, type : AdminModules!ProfileType]
  OBVIOUS
<1>5. /\ polls' \subseteq [from : Profiled, type : AdminModules!ProfileType]
      /\ answeredM' \subseteq [from : Profiled, told : 0 .. MaxTaken, profile : 0 .. MaxTaken]
  BY <1>0, <1>2, <1>3, <1>4 DEF ModulesSets
<1>6. ModulesSets' /\ ModulesRecorded'
  BY <1>0, <1>1, <1>5 DEF ModulesSets, ModulesRecorded, AdminModules!OneJob, AdminModules!ProfileType
<1>7. (AdminModules!TypeOK /\ AdminModules!OneJob)'
  BY <1>6, ModulesTypes, PTL
<1>8. profiles[s] # 0 => r.told <= r.profile /\ r.profile # 0
  <2>1. headers[s] \in Nat
    BY <1>0 DEF ModulesSets
  <2> QED
    BY <2>1 DEF ModulesInv
<1>9. AdminModules!NewestProfile'
  BY <1>2, <1>8 DEF ModulesInv, AdminModules!NewestProfile
<1>10. /\ \A t \in Profiled : Increasing(wire[t], headers[t])' /\ headers'[t] <= taken'
                             /\ profiles'[t] \in {0, headers'[t]}
       /\ stateM' = "stopped" => idMapM' = {}
  BY <1>1 DEF ModulesInv, Increasing
<1> QED
  BY <1>7, <1>9, <1>10 DEF ModulesInv

LEMMA ModulesCallBack ==
  ASSUME ModulesInv, NEW s \in Profiled, AdminModules!StopCallBack(s)
  PROVE  ModulesInv'
<1>0. ModulesSets /\ ModulesRecorded /\ MaxTaken \in Nat
  BY ModulesTypes, ModulesAssumption DEF ModulesInv, AdminModules!ModulesAssumption
<1> DEFINE q == wire[s]
           n == q[1]
<1>1. /\ q \in Seq(1 .. MaxTaken) /\ headers[s] \in Nat /\ q # <<>> /\ Increasing(q, headers[s])
      /\ taken \in Nat
  BY <1>0 DEF ModulesSets, ModulesInv, AdminModules!StopCallBack
<1>2. /\ Head(q) = n /\ n \in 1 .. MaxTaken /\ n \in Nat /\ Tail(q) \in Seq(1 .. MaxTaken)
      /\ Len(Tail(q)) = Len(q) - 1 /\ Len(q) \in Nat /\ Len(q) > 0
      /\ \A i \in 1 .. Len(q) - 1 : Tail(q)[i] = q[i + 1]
  <2> HIDE DEF q
  <2> QED
    BY <1>1, SentNumbers, Zenon DEF n
<1>3. headers[s] < n /\ n <= taken
  BY <1>1, <1>2 DEF Increasing
<1>4. /\ wire' = [wire EXCEPT ![s] = Tail(q)]
      /\ profiles' = [profiles EXCEPT ![s] = n] /\ headers' = [headers EXCEPT ![s] = n]
      /\ UNCHANGED <<stateM, enable, jobId, jobs, idMapM, pulls, data, threwM, sampling, taken, polls,
                     answeredM>>
  <2>1. /\ wire' = [wire EXCEPT ![s] = Tail(q)]
        /\ profiles' = [profiles EXCEPT ![s] = Head(q)]
        /\ headers' = [headers EXCEPT ![s] = IF headers[s] < Head(q) THEN Head(q) ELSE headers[s]]
        /\ UNCHANGED <<stateM, enable, jobId, jobs, idMapM, pulls, data, threwM, sampling, taken, polls,
                       answeredM>>
    BY DEF AdminModules!StopCallBack, AdminModules!Replaced, AdminModules!module, AdminModules!collect
  <2> QED
    BY <1>2, <1>3, <2>1
<1>5. /\ wire' \in [Profiled -> Seq(1 .. MaxTaken)]
      /\ profiles' \in [Profiled -> 0 .. MaxTaken] /\ headers' \in [Profiled -> 0 .. MaxTaken]
  BY <1>0, <1>2, <1>4 DEF ModulesSets
<1>6. ModulesSets' /\ ModulesRecorded'
  BY <1>0, <1>4, <1>5 DEF ModulesSets, ModulesRecorded, AdminModules!OneJob, AdminModules!ProfileType
<1>7. (AdminModules!TypeOK /\ AdminModules!OneJob)'
  BY <1>6, ModulesTypes, PTL
<1>8. AdminModules!NewestProfile' /\ (stateM' = "stopped" => idMapM' = {})
  BY <1>4 DEF ModulesInv, AdminModules!NewestProfile
<1>9. ASSUME NEW t \in Profiled
      PROVE  /\ Increasing(wire[t], headers[t])' /\ headers'[t] <= taken'
             /\ profiles'[t] \in {0, headers'[t]}
  <2>1. CASE t # s
    <3>1. wire'[t] = wire[t] /\ profiles'[t] = profiles[t] /\ headers'[t] = headers[t]
      BY <1>0, <1>4, <2>1 DEF ModulesSets
    <3> QED
      BY <1>4, <3>1 DEF ModulesInv, Increasing
  <2>2. CASE t = s
    <3>1. wire'[s] = Tail(q) /\ profiles'[s] = n /\ headers'[s] = n
      BY <1>0, <1>4 DEF ModulesSets
    <3>2. /\ \A i \in 1 .. Len(q) : q[i] <= taken
          /\ \A i, j \in 1 .. Len(q) : i < j => q[i] < q[j]
      BY <1>1 DEF Increasing
    <3> HIDE DEF q
    <3>3. \A i \in 1 .. Len(Tail(q)) : q[1] < Tail(q)[i] /\ Tail(q)[i] <= taken
      <4> TAKE i \in 1 .. Len(Tail(q))
      <4>1. i + 1 \in 1 .. Len(q) /\ 1 \in 1 .. Len(q) /\ 1 < i + 1 /\ Tail(q)[i] = q[i + 1]
        BY <1>2
      <4> QED
        BY <3>2, <4>1
    <3>4. \A i, j \in 1 .. Len(Tail(q)) : i < j => Tail(q)[i] < Tail(q)[j]
      <4> TAKE i, j \in 1 .. Len(Tail(q))
      <4>1. /\ i + 1 \in 1 .. Len(q) /\ Tail(q)[i] = q[i + 1]
            /\ j + 1 \in 1 .. Len(q) /\ Tail(q)[j] = q[j + 1]
            /\ i < j => i + 1 < j + 1
        BY <1>2
      <4> QED
        BY <3>2, <4>1
    <3> QED
      BY <1>3, <1>4, <2>2, <3>1, <3>3, <3>4 DEF Increasing
  <2> QED
    BY <2>1, <2>2
<1> QED
  BY <1>7, <1>8, <1>9 DEF ModulesInv

LEMMA ModulesInvStep == ModulesInv /\ [AdminModules!Next]_moduleVars => ModulesInv'
<1> SUFFICES ASSUME ModulesInv, [AdminModules!Next]_moduleVars PROVE ModulesInv'
  OBVIOUS
<1>0. ModulesSets /\ ModulesRecorded /\ taken \in Nat
  BY ModulesTypes, ModulesAssumption DEF ModulesInv, ModulesSets, AdminModules!ModulesAssumption
<1>1. CASE UNCHANGED moduleVars
  <2>1. ModulesSets' /\ ModulesRecorded'
    BY <1>0, <1>1 DEF moduleVars, ModulesSets, ModulesRecorded, AdminModules!OneJob, AdminModules!ProfileType
  <2>2. /\ UNCHANGED <<wire, profiles, headers, answeredM>> /\ taken' \in Nat /\ taken <= taken'
        /\ stateM' = "stopped" => idMapM' = {}
    BY <1>0, <1>1 DEF moduleVars, ModulesInv
  <2> QED
    BY <2>1, <2>2, ModulesKeepProfiles
<1>2. ASSUME NEW p \in polls, AdminModules!Poll(p) PROVE ModulesInv'
  <2>1. p \in [from : Profiled, type : AdminModules!ProfileType]
    BY <1>0 DEF ModulesSets
  <2>2. p = [from |-> p.from, type |-> p.type] /\ p.from \in Profiled /\ p.type \in AdminModules!ProfileType
    BY <2>1
  <2> QED
    BY <1>2, <2>2, ModulesGets
<1>3. CASE AdminModules!Next
  BY <1>2, <1>3, ModulesRecords, ModulesStops, ModulesTakes, ModulesGets, ModulesCallBack
     DEF AdminModules!Next
<1> QED
  BY <1>1, <1>3

\* The record of a module, and what is sent, kept and answered of profiles.
LEMMA ModulesInvInductive == Spec => []ModulesInv
<1>1. Init => ModulesInv
  BY ModulesInit DEF Init
<1>2. ModulesInv /\ [Next]_vars => ModulesInv'
  <2> SUFFICES ASSUME ModulesInv, [Next]_vars PROVE ModulesInv'
    OBVIOUS
  <2>1. [AdminModules!Next]_moduleVars
    BY Zenon DEF Next, vars
  <2> QED
    BY <2>1, ModulesInvStep
<1> QED
  BY <1>1, <1>2, PTL DEF Spec

\* NewestProfile, for every set of servers and whatever the bounds: enable and disable
\* keep one job for a module that is enabled and none for one that is not
\* (consoleService); the profiles of a server come in the order in which they were taken
\* or are lost, so that the one that is kept is the newest a client was told of, and
\* what a client gets is that one (stopCallBack, getProfile).
THEOREM NewestProfileCorrect == Spec => []NewestProfile
<1>1. ModulesInv => NewestProfile
  BY DEF ModulesInv, NewestProfile
<1> QED
  BY <1>1, ModulesInvInductive, PTL

-----------------------------------------------------------------------------
(* The life of a process: what load, start and stop do to its components.  *)

\* Induction over the natural numbers, about a set of them.
LEMMA FromZero ==
  ASSUME NEW T, 0 \in T, \A n \in Nat : n \in T => n + 1 \in T
  PROVE  Nat \subseteq T
<1> DEFINE X == Nat \ T
           R == OpToRel(<, Nat)
<1>1. SUFFICES ASSUME X # {} PROVE FALSE
  OBVIOUS
<1>2. X \subseteq Nat
  OBVIOUS
<1>3. IsWellFoundedOn(R, Nat)
  BY Zenon, NatLessThanWellFounded
<1> HIDE DEF R, X
<1>4. \E x \in X : \A y \in X : ~(<<y, x>> \in R)
  BY Zenon, <1>1, <1>2, <1>3, WFMin
<1>5. PICK x \in X : \A y \in X : ~(<<y, x>> \in R)
  BY <1>4
<1>6. x \in Nat /\ x \notin T /\ x # 0
  BY <1>5 DEF X
<1>7. x - 1 \in Nat /\ (x - 1) + 1 = x
  BY <1>6
<1>8. <<x - 1, x>> \in R
  <2>1. x - 1 < x
    BY <1>6
  <2> QED
    BY <2>1, <1>6, <1>7 DEF R, OpToRel
<1>9. x - 1 \in T
  BY <1>5, <1>7, <1>8 DEF X
<1> QED
  BY <1>6, <1>7, <1>9

\* A list of components holds one.
Holds(list, c) == \E k \in 1 .. Len(list) : list[k] = c

\* The process has what its arguments ask for.
Listed ==
  \A k \in 1 .. Len(Lifecycle!DefaultComponents) : Holds(loaded, Lifecycle!DefaultComponents[k])

\* All components of the list before the i-th that are started have started.
StartedBefore(list, i, done) ==
  \A j \in 1 .. Len(list) : j < i /\ list[j] \in Lifecycle!HasStart => list[j] \in done

\* Where a call of start is: it starts components in order, and opens them when
\* all have started.
Placed(call) ==
  /\ call.at \in {"before", "start", "after"} => Listed
  /\ call.at = "start" => call.i \in 1 .. Len(loaded) /\ StartedBefore(loaded, call.i, started)
  /\ call.at = "after" => call.i \in 1 .. Len(loaded) /\ StartedBefore(loaded, Len(loaded) + 1, started)

\* No call of start is at work in a process that was stopped when none was.
StoppedQuietly ==
  state = "stoped" /\ ~early => \A n \in StartCall : starts[n].at \notin Lifecycle!Busy

\* One call of stop is at work in such a process, and the timer is its own.
OneStop ==
  ~early =>
    /\ \A m \in StopCall : stops[m].at \notin {"idle", "ignored"} => state = "stoped" /\ stopTimer = m
    /\ \A m \in timers : stops[m].at \in {"hook", "stop"}

\* A call of stop is at a component of the list.
InPlace == \A m \in StopCall : stops[m].at = "stop" => stops[m].i \in 1 .. Len(loaded)

LifecycleInv ==
  /\ Lifecycle!TypeOK
  /\ InPlace
  /\ \A n \in StartCall : Placed(starts[n])
  /\ StoppedQuietly
  /\ OneStop

\* The components are loaded one after the other.
LoadedUpTo(f, list) ==
  f = [k \in 0 .. Len(list) |->
         IF k = 0 THEN loaded
         ELSE IF Lifecycle!Contains(f[k - 1], list[k]) THEN f[k - 1] ELSE Append(f[k - 1], list[k])]

LEMMA LoadIs == 
  ASSUME NEW list PROVE Lifecycle!Load(list) = (CHOOSE f : LoadedUpTo(f, list))[Len(list)]
BY DEF Lifecycle!Load, LoadedUpTo

LEMMA LoadExists ==
  ASSUME NEW list \in Seq(Lifecycle!Component)
  PROVE  \E f : LoadedUpTo(f, list)
<1> DEFINE More(l, c) == IF Lifecycle!Contains(l, c) THEN l ELSE Append(l, c)
           Upto(f, n) == /\ f = [k \in 0 .. n |-> f[k]]
                         /\ f[0] = loaded
                         /\ \A k \in 1 .. n : f[k] = More(f[k - 1], list[k])
           T == {n \in Nat : \E f : Upto(f, n)}
<1> HIDE DEF More
<1>1. 0 \in T
  <2> DEFINE f == [k \in 0 .. 0 |-> loaded]
  <2>1. Upto(f, 0)
    OBVIOUS
  <2> QED
    BY <2>1
<1>2. ASSUME NEW n \in Nat, n \in T PROVE n + 1 \in T
  <2>1. PICK f : Upto(f, n)
    BY <1>2
  <2> DEFINE g == [k \in 0 .. n + 1 |-> IF k = n + 1 THEN More(f[n], list[n + 1]) ELSE f[k]]
  <2>2. g = [k \in 0 .. n + 1 |-> g[k]]
    OBVIOUS
  <2>3. g[0] = loaded
    BY <2>1
  <2>4. ASSUME NEW k \in 1 .. n + 1 PROVE g[k] = More(g[k - 1], list[k])
    <3>1. k - 1 \in 0 .. n + 1 /\ k \in 0 .. n + 1 /\ k - 1 # n + 1
      OBVIOUS
    <3>2. g[k - 1] = f[k - 1]
      BY <3>1
    <3>3. CASE k = n + 1
      BY <3>1, <3>2, <3>3
    <3>4. CASE k # n + 1
      <4>1. k \in 1 .. n
        BY <3>4
      <4>2. g[k] = f[k]
        BY <3>1, <3>4
      <4> QED
        BY <4>1, <4>2, <3>2, <2>1
    <3> QED
      BY <3>3, <3>4
  <2> HIDE DEF g
  <2>5. Upto(g, n + 1)
    BY <2>2, <2>3, <2>4
  <2> HIDE DEF Upto
  <2>6. n + 1 \in Nat
    OBVIOUS
  <2> QED
    BY Zenon, <2>5, <2>6
<1> HIDE DEF T
<1>3. Nat \subseteq T
  BY <1>1, <1>2, FromZero
<1>4. PICK f : Upto(f, Len(list))
  <2>1. Len(list) \in T
    BY <1>3
  <2> QED
    BY <2>1 DEF T
<1>5. \A k \in 0 .. Len(list) : f[k] = IF k = 0 THEN loaded ELSE More(f[k - 1], list[k])
  BY <1>4
<1>6. LoadedUpTo(f, list)
  BY <1>4, <1>5 DEF LoadedUpTo, More
<1> QED
  BY <1>6

\* What load leaves: every component of the list, and nothing new when all were there.
LEMMA LoadDoes ==
  ASSUME NEW list \in Seq(Lifecycle!Component), loaded \in Seq(Lifecycle!Component)
  PROVE  /\ Lifecycle!Load(list) \in Seq(Lifecycle!Component)
         /\ \A k \in 1 .. Len(list) : Holds(Lifecycle!Load(list), list[k])
         /\ (\A k \in 1 .. Len(list) : Holds(loaded, list[k])) => Lifecycle!Load(list) = loaded
         /\ Len(loaded) <= Len(Lifecycle!Load(list))
<1> DEFINE C == Lifecycle!Component
           All == \A k \in 1 .. Len(list) : Holds(loaded, list[k])
<1>1. PICK f : LoadedUpTo(f, list) /\ Lifecycle!Load(list) = f[Len(list)]
  <2> DEFINE f == CHOOSE f : LoadedUpTo(f, list)
  <2>1. LoadedUpTo(f, list)
    BY LoadExists
  <2> HIDE DEF f
  <2>2. Lifecycle!Load(list) = f[Len(list)]
    BY LoadIs DEF f
  <2> QED
    BY <2>1, <2>2
<1>2. f[0] = loaded
  BY <1>1 DEF LoadedUpTo
<1>3. ASSUME NEW k \in 1 .. Len(list)
      PROVE  f[k] = IF Holds(f[k - 1], list[k]) THEN f[k - 1] ELSE Append(f[k - 1], list[k])
  <2> DEFINE v(j) == IF j = 0 THEN loaded
                     ELSE IF Lifecycle!Contains(f[j - 1], list[j]) THEN f[j - 1]
                     ELSE Append(f[j - 1], list[j])
  <2>1. f = [j \in 0 .. Len(list) |-> v(j)]
    BY <1>1 DEF LoadedUpTo
  <2> HIDE DEF v
  <2>2. f[k] = v(k)
    BY <2>1
  <2> QED
    BY <2>2 DEF v, Holds, Lifecycle!Contains
<1> DEFINE Fine(k) == /\ f[k] \in Seq(C)
                      /\ \A j \in 1 .. k : Holds(f[k], list[j])
                      /\ All => f[k] = loaded
                      /\ Len(loaded) <= Len(f[k])
           T == {k \in Nat : k <= Len(list) => Fine(k)}
<1> HIDE DEF C, All
<1>4. 0 \in T
  <2>1. Fine(0)
    BY <1>2 DEF C
  <2> QED
    BY <2>1
<1>5. ASSUME NEW n \in Nat, n \in T PROVE n + 1 \in T
  <2>1. SUFFICES ASSUME n + 1 <= Len(list) PROVE Fine(n + 1)
    OBVIOUS
  <2> DEFINE k == n + 1
             l == f[n]
             c == list[k]
  <2>2. Fine(n) /\ k \in 1 .. Len(list) /\ k - 1 = n
    BY <1>5, <2>1
  <2>3. c \in C /\ l \in Seq(C)
    BY <2>2 DEF C
  <2>4. f[k] = IF Holds(l, c) THEN l ELSE Append(l, c)
    BY <1>3, <2>2
  <2>5. \A j \in 1 .. k : j # k => j \in 1 .. n
    OBVIOUS
  <2>6. All => Holds(loaded, c)
    BY <2>2 DEF All
  <2> HIDE DEF k, l, c
  <2>7. CASE Holds(l, c)
    <3>1. f[k] = l
      BY <2>4, <2>7
    <3>2. \A j \in 1 .. k : Holds(f[k], list[j])
      BY <2>2, <2>5, <2>7, <3>1 DEF l, c
    <3> QED
      BY <2>2, <2>3, <3>1, <3>2 DEF l, k
  <2>8. CASE ~Holds(l, c)
    <3>1. f[k] = Append(l, c) /\ f[k] \in Seq(C)
      BY <2>3, <2>4, <2>8
    <3>6. Len(loaded) <= Len(f[k])
      <4>1. Len(f[k]) = Len(l) + 1 /\ Len(l) \in Nat /\ Len(loaded) \in Nat
        BY <2>3, <3>1
      <4>2. Len(loaded) <= Len(l)
        BY <2>2 DEF l
      <4> QED
        BY <4>1, <4>2
    <3>2. Holds(f[k], c)
      <4>1. Len(f[k]) = Len(l) + 1 /\ f[k][Len(l) + 1] = c /\ Len(l) \in Nat
        BY <2>3, <3>1
      <4> QED
        BY <4>1 DEF Holds
    <3>3. ASSUME NEW d, Holds(l, d) PROVE Holds(f[k], d)
      <4>1. PICK i \in 1 .. Len(l) : l[i] = d
        BY <3>3 DEF Holds
      <4>2. i \in 1 .. Len(f[k]) /\ f[k][i] = d
        BY <2>3, <3>1, <4>1
      <4> QED
        BY <4>2 DEF Holds
    <3>4. \A j \in 1 .. k : Holds(f[k], list[j])
      BY <2>2, <2>5, <3>2, <3>3 DEF l, c
    <3>5. ~All
      BY <2>2, <2>6, <2>8 DEF l
    <3> QED
      BY <3>1, <3>4, <3>5, <3>6 DEF k
  <2> QED
    BY <2>7, <2>8
<1> HIDE DEF T
<1>6. Nat \subseteq T
  BY <1>4, <1>5, FromZero
<1>7. Fine(Len(list))
  <2>1. Len(list) \in T
    BY <1>6
  <2> QED
    BY <2>1 DEF T
<1> QED
  BY <1>1, <1>7 DEF C, All

\* The place after the i-th, if there is one, is the first of its kind.
LEMMA NextPlaceIs ==
  ASSUME NEW list \in Seq(Lifecycle!Component), NEW i \in Nat \ {0}, NEW has
  PROVE  LET s == Lifecycle!NextPlace(list, i, has)
         IN  /\ s \in Nat
             /\ s > 0 => /\ s \in i .. Len(list) /\ list[s] \in has
                         /\ \A j \in i .. Len(list) : j < s => list[j] \notin has
             /\ s = 0 => \A j \in i .. Len(list) : list[j] \notin has
<1> DEFINE places == {j \in i .. Len(list) : list[j] \in has}
           s == Lifecycle!NextPlace(list, i, has)
<1>1. s = IF places = {} THEN 0 ELSE CHOOSE j \in places : \A k \in places : j <= k
  BY DEF Lifecycle!NextPlace
<1>2. CASE places = {}
  BY <1>1, <1>2
<1>3. CASE places # {}
  <2>1. places \in SUBSET Nat
    OBVIOUS
  <2> HIDE DEF places
  <2>2. \E j \in places : \A k \in places : j <= k
    BY <1>3, <2>1, LeastNumber
  <2>3. s \in places /\ \A k \in places : s <= k
    BY <1>1, <1>3, <2>2
  <2> HIDE DEF s
  <2>4. s \in i .. Len(list) /\ list[s] \in has /\ s > 0
    BY <2>3 DEF places
  <2>5. \A j \in i .. Len(list) : j < s => list[j] \notin has
    BY <2>3, <2>4 DEF places
  <2> QED
    BY <2>4, <2>5 DEF s
<1> QED
  BY <1>2, <1>3

LEMMA ListIs == Lifecycle!DefaultComponents \in Seq(Lifecycle!Component)
<1> DEFINE C == Lifecycle!Component
<1>0. << >> \in Seq(C)
  OBVIOUS
<1>1. Lifecycle!Coders \in Seq(C)
  <2>1. <<"dictionary", "protobuf">> \in Seq(C)
    BY DEF Lifecycle!Component
  <2> HIDE DEF C
  <2>2. CASE UseDict
    BY <2>1, <2>2 DEF Lifecycle!Coders
  <2>3. CASE ~UseDict
    BY <1>0, <2>3 DEF Lifecycle!Coders
  <2> QED
    BY <2>2, <2>3
<1>2. Lifecycle!FrontendList \in Seq(C)
  <2>1. <<"connection">> \in Seq(C) /\ <<"connector", "session", "pushScheduler">> \in Seq(C)
    BY DEF Lifecycle!Component
  <2> HIDE DEF C
  <2> QED
    BY <1>1, <2>1 DEF Lifecycle!FrontendList
<1> DEFINE a == Lifecycle!processArgs
           r == IF a.port THEN <<"remote">> ELSE << >>
           f == IF a.frontend THEN Lifecycle!FrontendList ELSE << >>
           p == <<"proxy">>
           e == <<"backendSession", "channel", "server", "monitor">>
           m == <<"master", "monitor">>
<1>3. r \in Seq(C) /\ f \in Seq(C) /\ p \in Seq(C) /\ e \in Seq(C) /\ m \in Seq(C)
  <2>1. <<"remote">> \in Seq(C) /\ p \in Seq(C) /\ m \in Seq(C)
    BY DEF Lifecycle!Component
  <2>2. e \in Seq(C)
    BY DEF Lifecycle!Component
  <2> HIDE DEF C, p, m, e, a
  <2>3. r \in Seq(C)
    <3>1. CASE a.port
      BY <2>1, <3>1
    <3>2. CASE ~a.port
      BY <1>0, <3>2
    <3> QED
      BY <3>1, <3>2
  <2>4. f \in Seq(C)
    <3>1. CASE a.frontend
      BY <1>2, <3>1
    <3>2. CASE ~a.frontend
      BY <1>0, <3>2
    <3> QED
      BY <3>1, <3>2
  <2> QED
    BY <2>1, <2>2, <2>3, <2>4
<1>4. Lifecycle!DefaultComponents = IF a.master THEN m ELSE p \o r \o f \o e
  BY DEF Lifecycle!DefaultComponents
<1> HIDE DEF a, r, f, p, e, m, C
<1> QED
  BY <1>3, <1>4 DEF C

LEMMA ListedStays ==
  ASSUME Listed, process' = process, loaded' = loaded
  PROVE  Listed'
<1>1. Lifecycle!DefaultComponents' = Lifecycle!DefaultComponents
  BY DEF Lifecycle!DefaultComponents, Lifecycle!processArgs, Lifecycle!FrontendList, Lifecycle!Coders
<1> QED
  BY <1>1 DEF Listed, Holds

StartCalls == [at : Lifecycle!Busy \union {"idle", "refused", "elsewhere", "stuck", "failed", "done"}, i : Nat]
StopCalls == [at : {"idle", "hook", "stop", "ignored", "done"}, i : Nat, force : BOOLEAN]
Consoles == [at : {"idle", "starting", "modules", "up", "closed"}, i : Nat, for : StartCall \union {Lifecycle!Nobody}]

LEMMA LifecycleTypes ==
  /\ Lifecycle!TypeOK =>
       /\ process \in Process /\ hooks \in Lifecycle!LoadLifecycle
       /\ state \in Lifecycle!States
       /\ loaded \in Seq(Lifecycle!Component)
       /\ starts \in [StartCall -> StartCalls] /\ stops \in [StopCall -> StopCalls]
       /\ started \subseteq Lifecycle!Component
       /\ opened \subseteq Lifecycle!Component /\ closed \subseteq Lifecycle!Component
       /\ console \in Consoles /\ consoles \subseteq {"monitor", "master"}
       /\ launched \in BOOLEAN
       /\ timers \subseteq StopCall /\ stopTimer \in StopCall \union {Lifecycle!Nobody}
       /\ exited \in {"no", "forced", "timeout", "error"} /\ early \in BOOLEAN
  /\ StartCall \subseteq Nat \ {0} /\ StopCall \subseteq Nat \ {0} /\ Modules \in Nat
BY LifecycleAssumption DEF Lifecycle!TypeOK, Lifecycle!LifecycleAssumption, StartCalls, StopCalls, Consoles

\* What the steps of starts do not decide.
RestOK ==
  /\ opened \subseteq Lifecycle!Component
  /\ console \in Consoles /\ consoles \subseteq {"monitor", "master"}
  /\ launched \in BOOLEAN /\ exited \in {"no", "forced", "timeout", "error"}

\* A call of start takes a step.
Moved(n) ==
  /\ starts' \in [StartCall -> StartCalls]
  /\ \A k \in StartCall : k # n => starts'[k] = starts[k]
  /\ Placed(starts[n])'
  /\ state' \in {state, "start", "started"}
  /\ state = "stoped" => starts[n].at \in Lifecycle!Busy \/ (state' = state /\ starts'[n].at \notin Lifecycle!Busy)
  /\ started \subseteq started' /\ started' \subseteq Lifecycle!Component
  /\ loaded' \in Seq(Lifecycle!Component)
  /\ Listed => loaded' = loaded
  /\ Len(loaded) <= Len(loaded')
  /\ UNCHANGED <<process, hooks, stops, closed, timers, stopTimer, early>>

LEMMA MovedKeeps ==
  ASSUME LifecycleInv, NEW n \in StartCall, Moved(n), RestOK'
  PROVE  LifecycleInv'
<1>1. Lifecycle!TypeOK'
  BY LifecycleTypes DEF LifecycleInv, Moved, RestOK, Lifecycle!TypeOK, Lifecycle!States, StartCalls, StopCalls, Consoles
<1>2. ASSUME NEW k \in StartCall PROVE Placed(starts[k])'
  <2>1. CASE k = n
    BY <2>1 DEF Moved
  <2>2. CASE k # n
    <3>1. starts'[k] = starts[k] /\ Placed(starts[k])
      BY <2>2 DEF Moved, LifecycleInv
    <3>2. CASE starts[k].at \notin {"before", "start", "after"}
      BY <3>1, <3>2 DEF Placed
    <3>3. CASE starts[k].at \in {"before", "start", "after"}
      <4>1. Listed /\ loaded' = loaded /\ Listed' /\ started \subseteq started'
        BY <3>1, <3>3, ListedStays DEF Moved, Placed
      <4> QED
        BY <3>1, <4>1 DEF Placed, StartedBefore
    <3> QED
      BY <3>2, <3>3
  <2> QED
    BY <2>1, <2>2
<1>3. StoppedQuietly'
  <2>1. SUFFICES ASSUME state' = "stoped", ~early', NEW k \in StartCall
                 PROVE  starts'[k].at \notin Lifecycle!Busy
    BY DEF StoppedQuietly
  <2>2. state = "stoped" /\ ~early
    BY <2>1 DEF Moved
  <2>3. starts[k].at \notin Lifecycle!Busy /\ starts[n].at \notin Lifecycle!Busy
    BY <2>2 DEF LifecycleInv, StoppedQuietly
  <2> QED
    BY <2>2, <2>3 DEF Moved
<1>4. OneStop'
  <2>1. SUFFICES ASSUME ~early' PROVE OneStop'
    BY DEF OneStop
  <2>2. ~early /\ OneStop /\ UNCHANGED <<stops, timers, stopTimer>>
    BY <2>1 DEF LifecycleInv, Moved
  <2>3. state = "stoped" => state' = "stoped"
    BY <2>2 DEF LifecycleInv, Moved, StoppedQuietly
  <2> QED
    BY <2>2, <2>3 DEF OneStop
<1>5. InPlace'
  BY LifecycleTypes DEF LifecycleInv, Moved, InPlace
<1> QED
  BY <1>1, <1>2, <1>3, <1>4, <1>5 DEF LifecycleInv

\* A place in the list of components.
LEMMA Places ==
  ASSUME LifecycleInv, NEW n \in StartCall, starts[n].at \in {"start", "after"}
  PROVE  /\ Listed /\ starts[n].i \in 1 .. Len(loaded)
         /\ Lifecycle!Current(n) \in Lifecycle!Component
         /\ starts[n].at = "start" => StartedBefore(loaded, starts[n].i, started)
         /\ starts[n].at = "after" => StartedBefore(loaded, Len(loaded) + 1, started)
BY LifecycleTypes DEF LifecycleInv, Placed, Lifecycle!Current

\* A call of start goes on: what was started so far are the components up to the i-th.
LEMMA StartFromDoes ==
  ASSUME Lifecycle!TypeOK, NEW n \in StartCall, NEW list \in Seq(Lifecycle!Component),
         NEW i \in Nat, loaded' = list, Listed', StartedBefore(list, i + 1, started'),
         Lifecycle!StartFrom(n, list, i)
  PROVE  /\ starts' \in [StartCall -> StartCalls]
         /\ \A k \in StartCall : k # n => starts'[k] = starts[k]
         /\ Placed(starts[n])'
         /\ state' \in {state, "start", "started"}
<1> DEFINE s == Lifecycle!NextPlace(list, i + 1, Lifecycle!HasStart)
           a == Lifecycle!NextPlace(list, 1, Lifecycle!HasAfterStart)
<1>0. starts \in [StartCall -> StartCalls]
  BY LifecycleTypes
<1>1. /\ s \in Nat
      /\ s > 0 => /\ s \in i + 1 .. Len(list)
                  /\ \A j \in i + 1 .. Len(list) : j < s => list[j] \notin Lifecycle!HasStart
      /\ s = 0 => \A j \in i + 1 .. Len(list) : list[j] \notin Lifecycle!HasStart
  BY NextPlaceIs
<1>2. a \in Nat /\ (a > 0 => a \in 1 .. Len(list))
  BY NextPlaceIs
<1>3. \/ s > 0 /\ starts' = [starts EXCEPT ![n] = [at |-> "start", i |-> s]] /\ state' = state
      \/ s = 0 /\ a > 0 /\ starts' = [starts EXCEPT ![n] = [at |-> "after", i |-> a]] /\ state' = "start"
      \/ s = 0 /\ a = 0 /\ starts' = [starts EXCEPT ![n] = Lifecycle!Finished] /\ state' = "started"
  BY <1>1, <1>2 DEF Lifecycle!StartFrom, Lifecycle!At
<1> HIDE DEF s, a
<1>4. \A j \in 1 .. Len(list) : j < i + 1 \/ j \in i + 1 .. Len(list)
  OBVIOUS
<1>5. CASE s > 0 /\ starts' = [starts EXCEPT ![n] = [at |-> "start", i |-> s]] /\ state' = state
  <2>1. [at |-> "start", i |-> s] \in StartCalls
    BY <1>1 DEF StartCalls, Lifecycle!Busy
  <2>2. starts' \in [StartCall -> StartCalls] /\ starts'[n] = [at |-> "start", i |-> s]
    BY <1>0, <1>5, <2>1
  <2>3. StartedBefore(list, s, started')
    BY <1>1, <1>4, <1>5 DEF StartedBefore
  <2>4. s \in 1 .. Len(list)
    BY <1>1, <1>5
  <2>5. Placed(starts[n])'
    BY <2>2, <2>3, <2>4 DEF Placed
  <2> QED
    BY <1>0, <1>5, <2>2, <2>5
<1>6. CASE s = 0 /\ a > 0 /\ starts' = [starts EXCEPT ![n] = [at |-> "after", i |-> a]] /\ state' = "start"
  <2>1. [at |-> "after", i |-> a] \in StartCalls
    BY <1>2 DEF StartCalls, Lifecycle!Busy
  <2>2. starts' \in [StartCall -> StartCalls] /\ starts'[n] = [at |-> "after", i |-> a]
    BY <1>0, <1>6, <2>1
  <2>3. StartedBefore(list, Len(list) + 1, started')
    BY <1>1, <1>4, <1>6 DEF StartedBefore
  <2>4. Placed(starts[n])'
    BY <1>2, <1>6, <2>2, <2>3 DEF Placed
  <2> QED
    BY <1>0, <1>6, <2>2, <2>4
<1>7. CASE s = 0 /\ a = 0 /\ starts' = [starts EXCEPT ![n] = Lifecycle!Finished] /\ state' = "started"
  <2>1. Lifecycle!Finished \in StartCalls /\ Lifecycle!Finished.at \in {"afterFun", "done"}
    BY DEF Lifecycle!Finished, Lifecycle!At, StartCalls, Lifecycle!Busy
  <2>2. starts' \in [StartCall -> StartCalls] /\ starts'[n] = Lifecycle!Finished
    BY <1>0, <1>7, <2>1
  <2>3. Placed(starts[n])'
    BY <2>1, <2>2 DEF Placed
  <2> QED
    BY <1>0, <1>7, <2>2, <2>3
<1> QED
  BY <1>3, <1>5, <1>6, <1>7

\* A call of start that is not at a component any more, or not yet.
LEMMA PutAway ==
  ASSUME LifecycleInv, NEW n \in StartCall,
         NEW step \in {"refused", "elsewhere", "stuck", "failed", "done"},
         starts' = [starts EXCEPT ![n] = [at |-> step, i |-> 0]],
         state' \in {state, "start", "started"},
         starts[n].at \in Lifecycle!Busy \/ state' = state,
         UNCHANGED <<process, hooks, stops, loaded, started, closed, timers, stopTimer, early>>
  PROVE  Moved(n)
<1>1. starts \in [StartCall -> StartCalls] /\ [at |-> step, i |-> 0] \in StartCalls
  BY LifecycleTypes DEF LifecycleInv, StartCalls
<1>2. starts' \in [StartCall -> StartCalls] /\ starts'[n] = [at |-> step, i |-> 0]
  BY <1>1
<1>3. starts'[n].at \notin Lifecycle!Busy /\ starts'[n].at \notin {"before", "start", "after"}
  BY <1>2 DEF Lifecycle!Busy
<1>4. Placed(starts[n])'
  BY <1>3 DEF Placed
<1>5. \A k \in StartCall : k # n => starts'[k] = starts[k]
  BY <1>1
<1>6. loaded \in Seq(Lifecycle!Component) /\ started \subseteq Lifecycle!Component
  BY LifecycleTypes DEF LifecycleInv
<1> QED
  BY <1>2, <1>3, <1>4, <1>5, <1>6 DEF Moved

LEMMA LifecycleStartCalled ==
  ASSUME LifecycleInv, NEW n \in StartCall, Lifecycle!StartCalled(n)
  PROVE  LifecycleInv'
<1>0. Lifecycle!TypeOK /\ starts[n].at = "idle"
  BY DEF LifecycleInv, Lifecycle!StartCalled
<1>1. RestOK'
  BY <1>0, LifecycleTypes DEF Lifecycle!StartCalled, Lifecycle!StartByType, RestOK, Consoles
<1>2. /\ UNCHANGED <<process, hooks, stops, started, closed, timers, stopTimer, early>>
      /\ started \subseteq Lifecycle!Component /\ loaded \in Seq(Lifecycle!Component)
  BY <1>0, LifecycleTypes DEF Lifecycle!StartCalled, Lifecycle!config
<1>3. CASE Lifecycle!Refused
  <2>1. starts' = [starts EXCEPT ![n] = [at |-> "refused", i |-> 0]] /\ UNCHANGED <<state, loaded>>
    BY <1>3 DEF Lifecycle!StartCalled, Lifecycle!At
  <2>2. Moved(n)
    BY <1>2, <2>1, PutAway
  <2> QED
    BY <1>1, <2>2, MovedKeeps
<1>4. CASE ~Lifecycle!Refused /\ Lifecycle!StartByType(n)
  <2>1. starts' = [starts EXCEPT ![n] = [at |-> "elsewhere", i |-> 0]] /\ UNCHANGED <<state, loaded>>
    BY <1>4 DEF Lifecycle!StartByType, Lifecycle!At
  <2>2. Moved(n)
    BY <1>2, <2>1, PutAway
  <2> QED
    BY <1>1, <2>2, MovedKeeps
<1>5. CASE /\ ~Lifecycle!Refused
           /\ loaded' = Lifecycle!Load(Lifecycle!DefaultComponents)
           /\ IF "beforeStartup" \in hooks
              THEN starts' = [starts EXCEPT ![n] = Lifecycle!At("before", 0)] /\ UNCHANGED state
              ELSE Lifecycle!StartFrom(n, loaded', 0)
  <2>1. /\ loaded' \in Seq(Lifecycle!Component)
        /\ Listed => loaded' = loaded
        /\ Len(loaded) <= Len(loaded')
        /\ \A k \in 1 .. Len(Lifecycle!DefaultComponents) : Holds(loaded', Lifecycle!DefaultComponents[k])
    <3> DEFINE d == Lifecycle!DefaultComponents
    <3>1. d \in Seq(Lifecycle!Component)
      BY ListIs
    <3>2. Listed <=> \A k \in 1 .. Len(d) : Holds(loaded, d[k])
      BY DEF Listed
    <3> HIDE DEF d
    <3> QED
      BY <1>2, <1>5, <3>1, <3>2, LoadDoes DEF d
  <2>2. Listed'
    <3>1. Lifecycle!DefaultComponents' = Lifecycle!DefaultComponents
      BY <1>2 DEF Lifecycle!DefaultComponents, Lifecycle!processArgs, Lifecycle!FrontendList, Lifecycle!Coders
    <3> QED
      BY <2>1, <3>1 DEF Listed, Holds
  <2>3. state # "stoped"
    BY <1>5 DEF Lifecycle!Refused
  <2>4. /\ starts' \in [StartCall -> StartCalls]
        /\ \A k \in StartCall : k # n => starts'[k] = starts[k]
        /\ Placed(starts[n])'
        /\ state' \in {state, "start", "started"}
    <3>1. CASE "beforeStartup" \in hooks
      <4>1. starts' = [starts EXCEPT ![n] = [at |-> "before", i |-> 0]] /\ state' = state
        BY <1>5, <3>1 DEF Lifecycle!At
      <4>2. starts \in [StartCall -> StartCalls] /\ [at |-> "before", i |-> 0] \in StartCalls
        BY <1>0, LifecycleTypes DEF StartCalls, Lifecycle!Busy
      <4>3. starts' \in [StartCall -> StartCalls] /\ starts'[n] = [at |-> "before", i |-> 0]
        BY <4>1, <4>2
      <4>4. Placed(starts[n])'
        BY <2>2, <4>3 DEF Placed
      <4> QED
        BY <4>1, <4>2, <4>3, <4>4
    <3>2. CASE "beforeStartup" \notin hooks
      <4>1. PICK list \in Seq(Lifecycle!Component) : loaded' = list
        BY <2>1
      <4>2. Lifecycle!StartFrom(n, list, 0)
        BY <1>5, <3>2, <4>1
      <4>3. StartedBefore(list, 0 + 1, started') /\ 0 \in Nat
        BY DEF StartedBefore
      <4> QED
        BY <1>0, <2>2, <4>1, <4>2, <4>3, StartFromDoes
    <3> QED
      BY <3>1, <3>2
  <2>5. Moved(n)
    BY <1>2, <2>1, <2>3, <2>4 DEF Moved
  <2> QED
    BY <1>1, <2>5, MovedKeeps
<1> QED
  BY <1>3, <1>4, <1>5 DEF Lifecycle!StartCalled

LEMMA LifecycleStartUp ==
  ASSUME LifecycleInv, NEW n \in StartCall, Lifecycle!StartUp(n)
  PROVE  LifecycleInv'
<1>0. /\ Lifecycle!TypeOK /\ starts[n].at = "before" /\ Placed(starts[n])
      /\ UNCHANGED <<process, hooks, stops, loaded, started, closed, timers, stopTimer, early>>
      /\ UNCHANGED <<opened, console, consoles, launched, exited>>
  BY DEF LifecycleInv, Lifecycle!StartUp, Lifecycle!config
<1>1. RestOK'
  BY <1>0, LifecycleTypes DEF RestOK, Consoles
<1>2. PICK list \in Seq(Lifecycle!Component) : loaded = list
  BY <1>0, LifecycleTypes
<1>3. Listed' /\ StartedBefore(list, 0 + 1, started') /\ loaded' = list /\ 0 \in Nat
  BY <1>0, <1>2, ListedStays DEF Placed, StartedBefore
<1>4. Lifecycle!StartFrom(n, list, 0)
  BY <1>2 DEF Lifecycle!StartUp
<1>5. Moved(n)
  BY <1>0, <1>2, <1>3, <1>4, StartFromDoes, LifecycleTypes DEF Moved, Lifecycle!Busy
<1> QED
  BY <1>1, <1>5, MovedKeeps

\* A component has started.
LEMMA StartedOne ==
  ASSUME LifecycleInv, NEW n \in StartCall, starts[n].at = "start",
         started' = started \union {Lifecycle!Current(n)},
         Lifecycle!StartFrom(n, loaded, starts[n].i),
         UNCHANGED <<process, hooks, stops, loaded, closed, timers, stopTimer, early>>
  PROVE  Moved(n)
<1>0. Lifecycle!TypeOK
  BY DEF LifecycleInv
<1>1. /\ Listed /\ starts[n].i \in 1 .. Len(loaded)
      /\ Lifecycle!Current(n) \in Lifecycle!Component
      /\ StartedBefore(loaded, starts[n].i, started)
  BY Places
<1>2. PICK list \in Seq(Lifecycle!Component) : loaded = list
  BY <1>0, LifecycleTypes
<1>3. PICK i \in Nat : starts[n].i = i
  BY <1>1
<1>4. StartedBefore(list, i + 1, started')
  <2>1. \A j \in 1 .. Len(list) : j < i + 1 => j < i \/ j = i
    BY <1>3
  <2>2. list[i] \in started' /\ started \subseteq started'
    BY <1>2, <1>3 DEF Lifecycle!Current
  <2> QED
    BY <1>1, <1>2, <1>3, <2>1, <2>2 DEF StartedBefore
<1>5. Lifecycle!StartFrom(n, list, i) /\ loaded' = list /\ Listed'
  BY <1>1, <1>2, <1>3, ListedStays
<1>6. started' \subseteq Lifecycle!Component /\ starts[n].at \in Lifecycle!Busy
  BY <1>0, <1>1, LifecycleTypes DEF Lifecycle!Busy
<1>7. /\ starts' \in [StartCall -> StartCalls]
      /\ \A k \in StartCall : k # n => starts'[k] = starts[k]
      /\ Placed(starts[n])'
      /\ state' \in {state, "start", "started"}
  BY <1>0, <1>2, <1>3, <1>4, <1>5, StartFromDoes
<1>8. started \subseteq started' /\ loaded' \in Seq(Lifecycle!Component) /\ Len(loaded) <= Len(loaded')
  BY <1>2
<1> QED
  BY <1>6, <1>7, <1>8 DEF Moved

LEMMA LifecycleComponentStarts ==
  ASSUME LifecycleInv, NEW n \in StartCall, Lifecycle!ComponentStarts(n)
  PROVE  LifecycleInv'
<1>1. RestOK'
  BY LifecycleTypes DEF LifecycleInv, Lifecycle!ComponentStarts, RestOK, Consoles
<1>2. Moved(n)
  BY StartedOne DEF Lifecycle!ComponentStarts, Lifecycle!config
<1> QED
  BY <1>1, <1>2, MovedKeeps

LEMMA LifecycleStartFails ==
  ASSUME LifecycleInv, NEW n \in StartCall, Lifecycle!StartFails(n)
  PROVE  LifecycleInv'
<1>0. Lifecycle!TypeOK
  BY DEF LifecycleInv
<1>1. console' \in Consoles
  <2>1. console \in Consoles
    BY <1>0, LifecycleTypes
  <2>2. CASE console' = console
    BY <2>1, <2>2
  <2>3. CASE console' = [console EXCEPT !.for = Lifecycle!Nobody, !.at = "up"]
    BY <2>1, <2>3 DEF Consoles
  <2> QED
    BY <2>2, <2>3 DEF Lifecycle!StartFails
<1>2. RestOK'
  BY <1>0, <1>1, LifecycleTypes DEF Lifecycle!StartFails, RestOK, Consoles
<1>3. /\ starts' = [starts EXCEPT ![n] = [at |-> "failed", i |-> 0]]
      /\ state' = "start" /\ starts[n].at = "start"
      /\ UNCHANGED <<process, hooks, loaded, stops, started, closed, timers, stopTimer, early>>
  BY DEF Lifecycle!StartFails, Lifecycle!AfterError, Lifecycle!At, Lifecycle!config
<1>4. Moved(n)
  BY <1>3, PutAway DEF Lifecycle!Busy
<1> QED
  BY <1>2, <1>4, MovedKeeps

\* A step that leaves starts and what they have started alone.
LEMMA NothingMoved ==
  ASSUME LifecycleInv, NEW n \in StartCall,
         UNCHANGED <<process, hooks, state, starts, loaded, started, stops, closed, timers, stopTimer, early>>
  PROVE  Moved(n)
<1>1. /\ starts \in [StartCall -> StartCalls] /\ Placed(starts[n])
      /\ loaded \in Seq(Lifecycle!Component) /\ started \subseteq Lifecycle!Component
  BY LifecycleTypes DEF LifecycleInv
<1>2. Placed(starts[n])'
  <2>1. Listed => Listed'
    BY ListedStays
  <2> QED
    BY <1>1, <2>1 DEF Placed, StartedBefore
<1>3. state = "stoped" => starts[n].at \in Lifecycle!Busy \/ (state' = state /\ starts'[n].at \notin Lifecycle!Busy)
  OBVIOUS
<1> QED
  BY <1>1, <1>2, <1>3 DEF Moved

LEMMA LifecycleConsoles ==
  ASSUME LifecycleInv, NEW n \in StartCall,
         Lifecycle!MonitorStarts(n) \/ Lifecycle!MasterStarts(n)
  PROVE  LifecycleInv'
<1>0. Lifecycle!TypeOK /\ Lifecycle!ConsoleStarts(n) /\ starts[n].at = "start"
      /\ Lifecycle!Current(n) \in {"monitor", "master"}
  BY DEF LifecycleInv, Lifecycle!MonitorStarts, Lifecycle!MasterStarts
<1>1. RestOK'
  <2>1. console' \in Consoles
    <3>1. console \in Consoles
      BY <1>0, LifecycleTypes
    <3>2. [at |-> "starting", i |-> 0, for |-> n] \in Consoles
      BY DEF Consoles
    <3> QED
      BY <1>0, <3>1, <3>2 DEF Lifecycle!ConsoleStarts
  <2> QED
    BY <1>0, <2>1, LifecycleTypes DEF Lifecycle!ConsoleStarts, RestOK
<1>2. UNCHANGED <<process, hooks, state, loaded, stops, started, closed, timers, stopTimer, early>>
  BY <1>0 DEF Lifecycle!ConsoleStarts, Lifecycle!config
<1>3. CASE UNCHANGED starts
  BY <1>1, <1>2, <1>3, NothingMoved, MovedKeeps
<1>4. CASE starts' = [starts EXCEPT ![n] = [at |-> "stuck", i |-> 0]]
  <2>1. Moved(n)
    BY <1>2, <1>4, PutAway
  <2> QED
    BY <1>1, <2>1, MovedKeeps
<1> QED
  BY <1>0, <1>3, <1>4 DEF Lifecycle!ConsoleStarts, Lifecycle!At

LEMMA LifecycleConnects ==
  ASSUME LifecycleInv, NEW n \in StartCall,
         Lifecycle!ConsoleConnected(n) \/ Lifecycle!CannotListen(n)
  PROVE  LifecycleInv'
<1>0. Lifecycle!TypeOK
  BY DEF LifecycleInv
<1>1. RestOK'
  <2>1. console \in Consoles
    BY <1>0, LifecycleTypes
  <2>2. [console EXCEPT !.at = "modules", !.i = 1] \in Consoles
    BY <2>1 DEF Consoles
  <2> QED
    BY <1>0, <2>1, <2>2, LifecycleTypes DEF Lifecycle!ConsoleConnected, Lifecycle!CannotListen, RestOK
<1>2. UNCHANGED <<process, hooks, state, starts, loaded, stops, started, closed, timers, stopTimer, early>>
  BY DEF Lifecycle!ConsoleConnected, Lifecycle!CannotListen, Lifecycle!config
<1> QED
  BY <1>1, <1>2, NothingMoved, MovedKeeps

LEMMA LifecycleModuleStarts ==
  ASSUME LifecycleInv, NEW n \in StartCall, Lifecycle!ModuleStarts(n)
  PROVE  LifecycleInv'
<1>0. /\ Lifecycle!TypeOK /\ starts[n].at = "start"
      /\ UNCHANGED <<process, hooks, loaded, stops, closed, timers, stopTimer, early>>
      /\ UNCHANGED <<opened, consoles, exited>>
  BY DEF LifecycleInv, Lifecycle!ModuleStarts, Lifecycle!config
<1>1. console \in Consoles /\ launched \in BOOLEAN
  BY <1>0, LifecycleTypes
<1>2. CASE console.i < Modules
  <2>1. /\ console' = [console EXCEPT !.i = @ + 1]
        /\ UNCHANGED <<started, launched, starts, state>>
    BY <1>2 DEF Lifecycle!ModuleStarts
  <2>2. console' \in Consoles
    BY <1>1, <2>1 DEF Consoles
  <2>3. RestOK'
    BY <1>0, <1>1, <2>1, <2>2, LifecycleTypes DEF RestOK
  <2> QED
    BY <1>0, <2>1, <2>3, NothingMoved, MovedKeeps
<1>3. CASE ~(console.i < Modules)
  <2>1. /\ console' = [console EXCEPT !.at = "up", !.for = Lifecycle!Nobody]
        /\ started' = started \union {Lifecycle!Current(n)}
        /\ launched' = Lifecycle!RunsServers(n)
        /\ Lifecycle!StartFrom(n, loaded, starts[n].i)
    BY <1>3 DEF Lifecycle!ModuleStarts
  <2>2. console' \in Consoles
    BY <1>1, <2>1 DEF Consoles
  <2>3. launched' \in BOOLEAN
    BY <1>1, <2>1 DEF Lifecycle!RunsServers
  <2>4. RestOK'
    BY <1>0, <2>2, <2>3, LifecycleTypes DEF RestOK
  <2> QED
    BY <1>0, <2>1, <2>4, StartedOne, MovedKeeps
<1> QED
  BY <1>2, <1>3

LEMMA LifecycleOpens ==
  ASSUME LifecycleInv, NEW n \in StartCall, Lifecycle!ComponentOpens(n)
  PROVE  LifecycleInv'
<1>0. /\ Lifecycle!TypeOK /\ starts[n].at = "after"
      /\ UNCHANGED <<process, hooks, loaded, stops, started, closed, timers, stopTimer, early>>
      /\ UNCHANGED <<console, consoles, launched, exited>>
  BY DEF LifecycleInv, Lifecycle!ComponentOpens, Lifecycle!config
<1>1. /\ Listed /\ starts[n].i \in 1 .. Len(loaded)
      /\ Lifecycle!Current(n) \in Lifecycle!Component
      /\ StartedBefore(loaded, Len(loaded) + 1, started)
  BY <1>0, Places
<1>2. RestOK'
  BY <1>0, <1>1, LifecycleTypes DEF Lifecycle!ComponentOpens, RestOK, Consoles
<1>3. CASE Lifecycle!ConnectorGone(n)
  <2>1. starts' = [starts EXCEPT ![n] = [at |-> "stuck", i |-> 0]] /\ state' = state
    BY <1>3 DEF Lifecycle!ComponentOpens, Lifecycle!At
  <2>2. Moved(n)
    BY <1>0, <2>1, PutAway
  <2> QED
    BY <1>2, <2>2, MovedKeeps
<1>4. CASE ~Lifecycle!ConnectorGone(n)
  <2>1. PICK i \in Nat : starts[n].i = i
    BY <1>1
  <2> DEFINE a == Lifecycle!NextPlace(loaded, i + 1, Lifecycle!HasAfterStart)
             step == IF a > 0 THEN [at |-> "after", i |-> a] ELSE Lifecycle!Finished
  <2>2. starts' = [starts EXCEPT ![n] = step] /\ state' \in {state, "started"}
    BY <1>4, <2>1 DEF Lifecycle!ComponentOpens, Lifecycle!AfterFrom, Lifecycle!At
  <2>3. a \in Nat /\ (a > 0 => a \in 1 .. Len(loaded))
    <3>1. loaded \in Seq(Lifecycle!Component) /\ i + 1 \in Nat \ {0}
      BY <1>0, <2>1, LifecycleTypes
    <3>2. a \in Nat /\ (a > 0 => a \in i + 1 .. Len(loaded))
      BY <3>1, NextPlaceIs
    <3> QED
      BY <2>1, <3>1, <3>2
  <2> HIDE DEF a
  <2>4. /\ step \in StartCalls
        /\ step.at \in {"after", "afterFun", "done"}
        /\ step.at = "after" => step.i \in 1 .. Len(loaded)
    BY <2>3 DEF Lifecycle!Finished, Lifecycle!At, StartCalls, Lifecycle!Busy
  <2> HIDE DEF step
  <2>5. starts \in [StartCall -> StartCalls]
    BY <1>0, LifecycleTypes
  <2>6. starts' \in [StartCall -> StartCalls] /\ starts'[n] = step
    BY <2>2, <2>4, <2>5
  <2>7. Listed'
    BY <1>0, <1>1, ListedStays
  <2>8. Placed(starts[n])'
    BY <1>0, <1>1, <2>4, <2>6, <2>7 DEF Placed
  <2>9. Moved(n)
    BY <1>0, <2>2, <2>5, <2>6, <2>8, LifecycleTypes DEF Moved, Lifecycle!Busy
  <2> QED
    BY <1>2, <2>9, MovedKeeps
<1> QED
  BY <1>3, <1>4

LEMMA LifecycleFinishes ==
  ASSUME LifecycleInv, NEW n \in StartCall, Lifecycle!OpenFails(n) \/ Lifecycle!AfterStartup(n)
  PROVE  LifecycleInv'
<1>0. /\ Lifecycle!TypeOK /\ starts[n].at \in {"after", "afterFun"}
      /\ UNCHANGED <<process, hooks, loaded, stops, started, opened, closed, timers, stopTimer, early>>
      /\ UNCHANGED <<console, consoles, launched, exited>>
      /\ state' \in {state, "started"}
  BY DEF LifecycleInv, Lifecycle!OpenFails, Lifecycle!AfterStartup, Lifecycle!config
<1>1. RestOK'
  BY <1>0, LifecycleTypes DEF RestOK, Consoles
<1>2. PICK step \in StartCalls : /\ step.at \in {"afterFun", "done"}
                                 /\ starts' = [starts EXCEPT ![n] = step]
  BY DEF Lifecycle!OpenFails, Lifecycle!AfterStartup, Lifecycle!Finished, Lifecycle!At, StartCalls, Lifecycle!Busy
<1>3. starts \in [StartCall -> StartCalls]
  BY <1>0, LifecycleTypes
<1>4. starts' \in [StartCall -> StartCalls] /\ starts'[n] = step
  BY <1>2, <1>3
<1>5. Placed(starts[n])'
  BY <1>2, <1>4 DEF Placed
<1>6. Moved(n)
  BY <1>0, <1>2, <1>3, <1>4, <1>5, LifecycleTypes DEF Moved, Lifecycle!Busy
<1> QED
  BY <1>1, <1>6, MovedKeeps

\* A call of stop takes a step, and starts are left alone.
LEMMA StoppedKeeps ==
  ASSUME LifecycleInv,
         UNCHANGED <<process, hooks, loaded, starts, started, opened, consoles, launched>>,
         state' \in Lifecycle!States, stops' \in [StopCall -> StopCalls],
         closed' \subseteq Lifecycle!Component, console' \in Consoles,
         timers' \subseteq StopCall, stopTimer' \in StopCall \union {Lifecycle!Nobody},
         exited' \in {"no", "forced", "timeout", "error"}, early' \in BOOLEAN,
         StoppedQuietly', OneStop', InPlace'
  PROVE  LifecycleInv'
<1>1. Lifecycle!TypeOK'
  BY LifecycleTypes DEF LifecycleInv, Lifecycle!TypeOK, StartCalls, StopCalls, Consoles
<1>2. ASSUME NEW n \in StartCall PROVE Placed(starts[n])'
  <2>1. Listed => Listed'
    BY ListedStays
  <2>2. Placed(starts[n])
    BY DEF LifecycleInv
  <2> QED
    BY <2>1, <2>2 DEF Placed, StartedBefore
<1> QED
  BY <1>1, <1>2 DEF LifecycleInv

LEMMA LifecycleStopCalled ==
  ASSUME LifecycleInv, NEW m \in StopCall, NEW force \in BOOLEAN, Lifecycle!StopCalled(m, force)
  PROVE  LifecycleInv'
<1>0. /\ Lifecycle!TypeOK /\ stops[m].at = "idle" /\ StoppedQuietly /\ OneStop
      /\ UNCHANGED <<process, hooks, loaded, starts, started, opened, closed, console, consoles, launched>>
  BY DEF LifecycleInv, Lifecycle!StopCalled, Lifecycle!config
<1>1. /\ stops \in [StopCall -> StopCalls] /\ closed \subseteq Lifecycle!Component /\ console \in Consoles
      /\ timers \subseteq StopCall /\ early \in BOOLEAN /\ state \in Lifecycle!States
      /\ loaded \in Seq(Lifecycle!Component)
      /\ stopTimer \in StopCall \union {Lifecycle!Nobody} /\ exited \in {"no", "forced", "timeout", "error"}
  BY <1>0, LifecycleTypes
<1>2. CASE state = "stoped"
  <2>1. stops' = [stops EXCEPT ![m].at = "ignored"] /\ UNCHANGED <<state, timers, stopTimer, exited, early>>
    BY <1>2 DEF Lifecycle!StopCalled
  <2>2. stops' \in [StopCall -> StopCalls] /\ stops'[m].at = "ignored"
    BY <1>1, <2>1 DEF StopCalls
  <2>3. \A k \in StopCall : k # m => stops'[k] = stops[k]
    BY <1>1, <2>1
  <2>4. StoppedQuietly'
    BY <1>0, <2>1 DEF StoppedQuietly
  <2>5. OneStop'
    <3>1. ~early => m \notin timers
      BY <1>0 DEF OneStop
    <3> QED
      BY <1>0, <1>1, <2>1, <2>2, <2>3, <3>1 DEF OneStop
  <2>6. InPlace'
    BY <1>0, <2>2, <2>3 DEF LifecycleInv, InPlace
  <2> QED
    BY <1>0, <1>1, <2>1, <2>2, <2>4, <2>5, <2>6, StoppedKeeps
<1>3. CASE state # "stoped"
  <2>1. /\ state' = "stoped" /\ stopTimer' = m
        /\ early' = (early \/ \E n \in StartCall : starts[n].at \in Lifecycle!Busy)
    BY <1>3 DEF Lifecycle!StopCalled
  <2>2. PICK s \in StopCalls :
          /\ stops' = [stops EXCEPT ![m] = s]
          /\ s.at = "stop" => s.i \in 1 .. Len(loaded)
          /\ \/ s.at \in {"hook", "stop"} /\ timers' = timers \union {m} /\ exited' = exited
             \/ s.at = "done" /\ timers' = timers /\ exited' \in {"forced", exited}
    <3> DEFINE p == Lifecycle!NextPlace(loaded, 1, Lifecycle!HasStop)
    <3>1. p \in Nat /\ (p > 0 => p \in 1 .. Len(loaded))
      BY <1>1, NextPlaceIs
    <3>2. \/ stops' = [stops EXCEPT ![m] = [at |-> "hook", i |-> 0, force |-> force]] /\ timers' = timers \union {m} /\ exited' = exited
          \/ p > 0 /\ stops' = [stops EXCEPT ![m] = [at |-> "stop", i |-> p, force |-> force]] /\ timers' = timers \union {m} /\ exited' = exited
          \/ stops' = [stops EXCEPT ![m] = [at |-> "done", i |-> 0, force |-> force]] /\ timers' = timers /\ exited' \in {"forced", exited}
      BY <1>3 DEF Lifecycle!StopCalled, Lifecycle!Armed
    <3> HIDE DEF p
    <3>3. /\ [at |-> "hook", i |-> 0, force |-> force] \in StopCalls
          /\ [at |-> "stop", i |-> p, force |-> force] \in StopCalls
          /\ [at |-> "done", i |-> 0, force |-> force] \in StopCalls
      BY <3>1 DEF StopCalls
    <3> QED
      BY <3>1, <3>2, <3>3
  <2>3. stops' \in [StopCall -> StopCalls] /\ stops'[m] = s
    BY <1>1, <2>2
  <2>4. \A k \in StopCall : k # m => stops'[k] = stops[k]
    BY <1>1, <2>2
  <2>5. StoppedQuietly'
    BY <1>0, <2>1 DEF StoppedQuietly
  <2>6. OneStop'
    <3>1. SUFFICES ASSUME ~early' PROVE OneStop'
      BY DEF OneStop
    <3>2. \A k \in StopCall : stops[k].at \in {"idle", "ignored"}
      BY <1>0, <1>3, <2>1, <3>1 DEF OneStop
    <3>3. timers = {}
      BY <1>0, <1>1, <2>1, <3>1, <3>2 DEF OneStop
    <3>4. \A k \in StopCall : stops'[k].at \notin {"idle", "ignored"} => k = m
      BY <2>4, <3>2
    <3>5. timers' \subseteq {m} /\ (timers' # {} => s.at \in {"hook", "stop"})
      BY <2>2, <3>3
    <3> QED
      BY <2>1, <2>3, <3>4, <3>5 DEF OneStop
  <2>7. /\ timers' \subseteq StopCall /\ exited' \in {"no", "forced", "timeout", "error"}
        /\ early' \in BOOLEAN /\ state' \in Lifecycle!States
    BY <1>1, <2>1, <2>2 DEF Lifecycle!States
  <2>8. InPlace'
    BY <1>0, <2>2, <2>3, <2>4 DEF LifecycleInv, InPlace
  <2> QED
    BY <1>0, <1>1, <2>1, <2>3, <2>5, <2>6, <2>7, <2>8, StoppedKeeps
<1> QED
  BY <1>2, <1>3

\* A call of stop goes on to the next component that has a stop, or ends.
LEMMA StopFromDoes ==
  ASSUME LifecycleInv, NEW m \in StopCall, stops[m].at \in {"hook", "stop"}, NEW i \in Nat,
         NEW force \in BOOLEAN, Lifecycle!StopFrom(m, i, force),
         UNCHANGED <<process, hooks, state, loaded, starts, started, opened, consoles, launched, stopTimer, early>>,
         closed' \subseteq Lifecycle!Component, console' \in Consoles
  PROVE  LifecycleInv'
<1>0. Lifecycle!TypeOK /\ StoppedQuietly /\ OneStop
  BY DEF LifecycleInv
<1>1. /\ stops \in [StopCall -> StopCalls] /\ state \in Lifecycle!States
      /\ timers \subseteq StopCall /\ early \in BOOLEAN /\ loaded \in Seq(Lifecycle!Component)
      /\ stopTimer \in StopCall \union {Lifecycle!Nobody} /\ exited \in {"no", "forced", "timeout", "error"}
  BY <1>0, LifecycleTypes
<1>2. PICK s \in StopCalls :
        /\ stops' = [stops EXCEPT ![m] = s]
        /\ s.at = "stop" => s.i \in 1 .. Len(loaded)
        /\ \/ s.at = "stop" /\ timers' = timers /\ exited' = exited
           \/ s.at = "done" /\ timers' = timers \ {stopTimer} /\ exited' \in {"forced", exited}
  <2> DEFINE p == Lifecycle!NextPlace(loaded, i + 1, Lifecycle!HasStop)
  <2>1. p \in Nat /\ (p > 0 => p \in 1 .. Len(loaded))
    <3>1. i + 1 \in Nat \ {0}
      OBVIOUS
    <3>2. p \in Nat /\ (p > 0 => p \in i + 1 .. Len(loaded))
      BY <1>1, <3>1, NextPlaceIs
    <3> QED
      BY <1>1, <3>2
  <2>2. \/ p > 0 /\ stops' = [stops EXCEPT ![m] = [at |-> "stop", i |-> p, force |-> force]] /\ timers' = timers /\ exited' = exited
        \/ stops' = [stops EXCEPT ![m] = [at |-> "done", i |-> 0, force |-> force]] /\ timers' = timers \ {stopTimer} /\ exited' \in {"forced", exited}
    BY DEF Lifecycle!StopFrom, Lifecycle!Cancelled
  <2> HIDE DEF p
  <2>3. /\ [at |-> "stop", i |-> p, force |-> force] \in StopCalls
        /\ [at |-> "done", i |-> 0, force |-> force] \in StopCalls
    BY <2>1 DEF StopCalls
  <2> QED
    BY <2>1, <2>2, <2>3
<1>3. stops' \in [StopCall -> StopCalls] /\ stops'[m] = s
  BY <1>1, <1>2
<1>4. \A k \in StopCall : k # m => stops'[k] = stops[k]
  BY <1>1, <1>2
<1>5. StoppedQuietly'
  BY <1>0 DEF StoppedQuietly
<1>6. OneStop'
  <2>1. SUFFICES ASSUME ~early' PROVE OneStop'
    BY DEF OneStop
  <2>2. state = "stoped" /\ stopTimer = m
    BY <1>0, <2>1 DEF OneStop
  <2>3. \A k \in StopCall : stops'[k].at \notin {"idle", "ignored"} => k = m
    BY <1>0, <1>4, <2>1, <2>2 DEF OneStop
  <2>4. \A k \in timers' : stops'[k].at \in {"hook", "stop"}
    BY <1>0, <1>1, <1>2, <1>3, <1>4, <2>1, <2>2 DEF OneStop
  <2> QED
    BY <2>2, <2>3, <2>4 DEF OneStop
<1>7. timers' \subseteq StopCall /\ exited' \in {"no", "forced", "timeout", "error"}
  BY <1>1, <1>2
<1>8. InPlace'
  BY <1>2, <1>3, <1>4 DEF LifecycleInv, InPlace
<1> QED
  BY <1>1, <1>3, <1>5, <1>6, <1>7, <1>8, StoppedKeeps

LEMMA LifecycleStops ==
  ASSUME LifecycleInv, NEW m \in StopCall, Lifecycle!ShutDown(m) \/ Lifecycle!ComponentStops(m)
  PROVE  LifecycleInv'
<1>0. /\ stops \in [StopCall -> StopCalls] /\ console \in Consoles
      /\ closed \subseteq Lifecycle!Component /\ loaded \in Seq(Lifecycle!Component)
  BY LifecycleTypes DEF LifecycleInv
<1>1. stops[m].force \in BOOLEAN /\ stops[m].i \in Nat
  BY <1>0 DEF StopCalls
<1>2. CASE Lifecycle!ShutDown(m)
  <2>1. /\ stops[m].at = "hook"
        /\ Lifecycle!StopFrom(m, 0, stops[m].force)
        /\ UNCHANGED <<process, hooks, state, loaded, starts, started, opened, closed, console,
                       consoles, launched, stopTimer, early>>
    BY <1>2 DEF Lifecycle!ShutDown, Lifecycle!config
  <2>2. PICK force \in BOOLEAN : stops[m].force = force
    BY <1>1
  <2> QED
    BY <1>0, <2>1, <2>2, StopFromDoes
<1>3. CASE Lifecycle!ComponentStops(m)
  <2>1. /\ stops[m].at = "stop"
        /\ Lifecycle!StopFrom(m, stops[m].i, stops[m].force)
        /\ UNCHANGED <<process, hooks, state, loaded, starts, started, opened,
                       consoles, launched, stopTimer, early>>
    BY <1>3 DEF Lifecycle!ComponentStops, Lifecycle!config
  <2>2. PICK c : /\ c = loaded[stops[m].i] /\ Lifecycle!Answers(c)
                 /\ closed' = closed \union {c}
                 /\ console' = IF c \in {"monitor", "master"} THEN [console EXCEPT !.at = "closed"] ELSE console
    BY <1>3 DEF Lifecycle!ComponentStops
  <2>3. console' \in Consoles
    BY <1>0, <2>2 DEF Consoles
  <2>4. PICK force \in BOOLEAN, i \in Nat : stops[m].force = force /\ stops[m].i = i
    BY <1>1
  <2>5. closed' \subseteq Lifecycle!Component
    <3>1. stops[m].i \in 1 .. Len(loaded)
      BY <2>1 DEF LifecycleInv, InPlace
    <3> QED
      BY <1>0, <2>2, <3>1
  <2> QED
    BY <2>1, <2>3, <2>4, <2>5, StopFromDoes
<1> QED
  BY <1>2, <1>3

LEMMA LifecycleTimer ==
  ASSUME LifecycleInv, NEW m \in StopCall, Lifecycle!CancelTimer(m) \/ Lifecycle!StopTimeout(m)
  PROVE  LifecycleInv'
<1>1. /\ UNCHANGED <<process, hooks, state, loaded, starts, stops, started, opened, closed, console,
                     consoles, launched, stopTimer, early>>
      /\ timers' \subseteq timers /\ exited' \in {exited, "timeout"}
  BY DEF Lifecycle!CancelTimer, Lifecycle!StopTimeout, Lifecycle!Cancelled, Lifecycle!config
<1>2. StoppedQuietly' /\ OneStop' /\ InPlace'
  BY <1>1 DEF LifecycleInv, StoppedQuietly, OneStop, InPlace
<1> QED
  BY <1>1, <1>2, LifecycleTypes, StoppedKeeps DEF LifecycleInv

LEMMA LifecycleInit == Lifecycle!Init => LifecycleInv
<1> SUFFICES ASSUME Lifecycle!Init PROVE LifecycleInv
  OBVIOUS
<1>1. Lifecycle!TypeOK
  <2>1. starts \in [StartCall -> StartCalls]
    <3>1. Lifecycle!Idle \in StartCalls
      BY DEF Lifecycle!Idle, StartCalls
    <3> QED
      BY <3>1 DEF Lifecycle!Init
  <2>2. stops \in [StopCall -> StopCalls]
    <3>1. [at |-> "idle", i |-> 0, force |-> FALSE] \in StopCalls
      BY DEF StopCalls
    <3> QED
      BY <3>1 DEF Lifecycle!Init
  <2>3. console \in Consoles
    BY DEF Lifecycle!Init, Lifecycle!NewConsole, Consoles
  <2>4. loaded \in Seq(Lifecycle!Component)
    BY DEF Lifecycle!Init
  <2> QED
    BY <2>1, <2>2, <2>3, <2>4 DEF Lifecycle!Init, Lifecycle!TypeOK, Lifecycle!States,
       StartCalls, StopCalls, Consoles
<1>2. \A n \in StartCall : starts[n].at = "idle"
  BY DEF Lifecycle!Init, Lifecycle!Idle
<1>3. \A m \in StopCall : stops[m].at = "idle"
  BY DEF Lifecycle!Init
<1>4. timers = {} /\ state = "inited"
  BY DEF Lifecycle!Init
<1> QED
  BY <1>1, <1>2, <1>3, <1>4 DEF LifecycleInv, Placed, StoppedQuietly, OneStop, InPlace

LEMMA LifecycleInvStep == LifecycleInv /\ [Lifecycle!Next]_lifecycleVars => LifecycleInv'
<1> SUFFICES ASSUME LifecycleInv, [Lifecycle!Next]_lifecycleVars PROVE LifecycleInv'
  OBVIOUS
<1>1. CASE UNCHANGED lifecycleVars
  <2>1. /\ UNCHANGED <<process, hooks, loaded, starts, stops, started, opened, consoles, launched,
                       state, closed, console, timers, stopTimer, exited, early>>
    BY <1>1 DEF lifecycleVars
  <2>2. StoppedQuietly' /\ OneStop' /\ InPlace'
    BY <2>1 DEF LifecycleInv, StoppedQuietly, OneStop, InPlace
  <2> QED
    BY <2>1, <2>2, LifecycleTypes, StoppedKeeps DEF LifecycleInv
<1>2. ASSUME NEW n \in StartCall, Lifecycle!StartCalled(n) \/ Lifecycle!StartStep(n)
      PROVE  LifecycleInv'
  BY <1>2, LifecycleStartCalled, LifecycleStartUp, LifecycleComponentStarts, LifecycleStartFails,
     LifecycleConsoles, LifecycleConnects, LifecycleModuleStarts, LifecycleOpens, LifecycleFinishes
     DEF Lifecycle!StartStep
<1>3. ASSUME NEW m \in StopCall,
             \/ \E force \in BOOLEAN : Lifecycle!StopCalled(m, force)
             \/ Lifecycle!CancelTimer(m) \/ Lifecycle!StopStep(m)
      PROVE  LifecycleInv'
  BY <1>3, LifecycleStopCalled, LifecycleStops, LifecycleTimer DEF Lifecycle!StopStep
<1> QED
  BY <1>1, <1>2, <1>3 DEF Lifecycle!Next

\* Where calls of start and stop are, whatever overlaps.
LEMMA LifecycleInvInductive == Spec => []LifecycleInv
<1>1. Init => LifecycleInv
  BY LifecycleInit DEF Init
<1>2. LifecycleInv /\ [Next]_vars => LifecycleInv'
  <2> SUFFICES ASSUME LifecycleInv, [Next]_vars PROVE LifecycleInv'
    OBVIOUS
  <2>1. [Lifecycle!Next]_lifecycleVars
    BY Zenon DEF Next, vars
  <2> QED
    BY <2>1, LifecycleInvStep
<1> QED
  BY <1>1, <1>2, PTL DEF Spec

\* In a process that was stopped when no start was at work, nothing starts or opens.
LEMMA NothingStarts ==
  ASSUME LifecycleInv, Lifecycle!Next, state = "stoped", ~early
  PROVE  started' = started /\ opened' = opened
<1>1. \A n \in StartCall : starts[n].at \notin {"before", "start", "after", "afterFun"}
  BY DEF LifecycleInv, StoppedQuietly, Lifecycle!Busy
<1>2. ASSUME NEW n \in StartCall, Lifecycle!StartCalled(n) \/ Lifecycle!StartStep(n)
      PROVE  UNCHANGED <<started, opened>>
  <2>1. CASE Lifecycle!StartCalled(n)
    BY <2>1 DEF Lifecycle!StartCalled
  <2>2. CASE Lifecycle!ConsoleConnected(n)
    BY <2>2 DEF Lifecycle!ConsoleConnected
  <2>3. CASE Lifecycle!StartStep(n) /\ ~Lifecycle!ConsoleConnected(n)
    BY <1>1, <2>3 DEF Lifecycle!StartStep, Lifecycle!StartUp, Lifecycle!ComponentStarts,
       Lifecycle!StartFails, Lifecycle!MonitorStarts, Lifecycle!MasterStarts, Lifecycle!CannotListen,
       Lifecycle!ModuleStarts, Lifecycle!ComponentOpens, Lifecycle!OpenFails, Lifecycle!AfterStartup
  <2> QED
    BY <1>2, <2>1, <2>2, <2>3
<1>3. ASSUME NEW m \in StopCall,
             \/ \E force \in BOOLEAN : Lifecycle!StopCalled(m, force)
             \/ Lifecycle!CancelTimer(m) \/ Lifecycle!StopStep(m)
      PROVE  UNCHANGED <<started, opened>>
  BY <1>3 DEF Lifecycle!StopCalled, Lifecycle!CancelTimer, Lifecycle!StopStep, Lifecycle!ShutDown,
     Lifecycle!ComponentStops, Lifecycle!StopTimeout
<1> QED
  BY <1>2, <1>3 DEF Lifecycle!Next

\* A timer that fires is that of a call of stop that is still at work.
LEMMA TimerJustified ==
  ASSUME LifecycleInv, Lifecycle!Next, exited' = "timeout", ~early
  PROVE  \E m \in StopCall : stops[m].at \in {"hook", "stop"}
<1>0. exited = "no" /\ timers \subseteq StopCall
  BY LifecycleTypes DEF LifecycleInv, Lifecycle!Next
<1>1. ASSUME NEW n \in StartCall, Lifecycle!StartCalled(n) \/ Lifecycle!StartStep(n)
      PROVE  FALSE
  BY <1>0, <1>1 DEF Lifecycle!StartCalled, Lifecycle!StartStep, Lifecycle!StartUp,
     Lifecycle!ComponentStarts, Lifecycle!StartFails, Lifecycle!MonitorStarts, Lifecycle!MasterStarts,
     Lifecycle!ConsoleStarts, Lifecycle!ConsoleConnected, Lifecycle!CannotListen,
     Lifecycle!ModuleStarts, Lifecycle!ComponentOpens, Lifecycle!OpenFails, Lifecycle!AfterStartup
<1>2. ASSUME NEW m \in StopCall,
             \/ \E force \in BOOLEAN : Lifecycle!StopCalled(m, force)
             \/ Lifecycle!CancelTimer(m) \/ Lifecycle!StopStep(m)
      PROVE  m \in timers
  BY <1>0, <1>2 DEF Lifecycle!StopCalled, Lifecycle!CancelTimer, Lifecycle!StopStep, Lifecycle!ShutDown,
     Lifecycle!ComponentStops, Lifecycle!StopFrom, Lifecycle!StopTimeout
<1>3. PICK m \in StopCall : m \in timers
  BY <1>1, <1>2 DEF Lifecycle!Next
<1> QED
  BY <1>3 DEF LifecycleInv, OneStop

\* StartsInOrder, for every process, hook and number of calls and modules: components
\* are started in the order of the list and opened when all have started, since a second
\* call of start finds the list it would load there already (load); after a stop that
\* came during no start, no component is started or opened, and the timer that ends the
\* process is that of the one call of stop that works (stop, cancelShutDownTimer).
THEOREM StartsInOrderCorrect == Spec => StartsInOrder
<1>1. LifecycleInv => Lifecycle!TypeOK /\ Lifecycle!ReadyInOrder
  <2>1. SUFFICES ASSUME LifecycleInv, NEW n \in StartCall, starts[n].at = "after",
                        NEW c \in Lifecycle!Loaded(Lifecycle!HasStart)
                 PROVE  c \in started
    BY DEF LifecycleInv, Lifecycle!ReadyInOrder
  <2>2. PICK j \in DOMAIN loaded : loaded[j] = c /\ c \in Lifecycle!HasStart
    BY <2>1 DEF Lifecycle!Loaded, Lifecycle!ToSet
  <2>3. loaded \in Seq(Lifecycle!Component)
    BY <2>1, LifecycleTypes DEF LifecycleInv
  <2>4. j \in 1 .. Len(loaded) /\ j < Len(loaded) + 1
    BY <2>3
  <2>5. StartedBefore(loaded, Len(loaded) + 1, started)
    BY <2>1 DEF LifecycleInv, Placed
  <2> QED
    BY <2>2, <2>4, <2>5 DEF StartedBefore
<1>2. LifecycleInv /\ [Next]_vars =>
        /\ [state = "stoped" /\ ~early => started' = started /\ opened' = opened]_(Lifecycle!vars)
        /\ [exited' = "timeout" /\ ~early =>
              \E m \in StopCall : stops[m].at \in {"hook", "stop"}]_(Lifecycle!vars)
  <2> SUFFICES ASSUME LifecycleInv, [Next]_vars
               PROVE  /\ [state = "stoped" /\ ~early => started' = started /\ opened' = opened]_(Lifecycle!vars)
                      /\ [exited' = "timeout" /\ ~early =>
                            \E m \in StopCall : stops[m].at \in {"hook", "stop"}]_(Lifecycle!vars)
    OBVIOUS
  <2>1. CASE Lifecycle!Next
    BY <2>1, NothingStarts, TimerJustified
  <2>2. CASE UNCHANGED lifecycleVars
    BY <2>2 DEF lifecycleVars, Lifecycle!vars, Lifecycle!config
  <2> QED
    BY <2>1, <2>2, Zenon DEF Next, vars
<1>3. Spec => [](Lifecycle!TypeOK /\ Lifecycle!ReadyInOrder)
  BY <1>1, LifecycleInvInductive, PTL
<1>4. Spec => Lifecycle!StoppedStays /\ Lifecycle!ExitJustified
  BY <1>2, LifecycleInvInductive, PTL DEF Spec, Lifecycle!StoppedStays, Lifecycle!ExitJustified
<1> QED
  BY <1>3, <1>4, PTL DEF StartsInOrder
=============================================================================
