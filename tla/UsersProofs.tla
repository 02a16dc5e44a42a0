----------------------------- MODULE UsersProofs -----------------------------
(***************************************************************************)
(* What is proved of what servers keep of users, for any servers, users,   *)
(* sessions, channels and bounds: the copies of backend sessions, the      *)
(* status of users in redis, the store of channels, and the entries that   *)
(* are synced to the database.                                             *)
(*                                                                         *)
(* The stores and redis are given their writes in order, some time after   *)
(* the channel or the session has changed.  What holds at every step is    *)
(* what they will have when all that was sent has been run (Kept and       *)
(* Untaken, below): a channel or session that changes, and a write that is *)
(* run, both keep it.                                                      *)
(***************************************************************************)
EXTENDS Users, FunctionTheorems, FiniteSetTheorems, SequenceTheorems, TLAPS

-----------------------------------------------------------------------------
(* What holds once all that was sent has been carried out.                 *)

\* A thing is kept when it is put by what is on its way and not taken away by
\* what comes after that; and untaken when nothing takes it away.
Untaken(ws, takes) == \A j \in 1 .. Len(ws) : ws[j] \notin takes
Kept(ws, puts, takes) ==
  \E i \in 1 .. Len(ws) :
    ws[i] \in puts /\ \A j \in 1 .. Len(ws) : j > i => ws[j] \notin takes

LEMMA KeptEmpty ==
  ASSUME NEW puts, NEW takes
  PROVE  ~ Kept(<<>>, puts, takes) /\ Untaken(<<>>, takes)
BY DEF Kept, Untaken

LEMMA KeptAppend ==
  ASSUME NEW S, NEW ws \in Seq(S), NEW w \in S, NEW puts, NEW takes
  PROVE  /\ Kept(Append(ws, w), puts, takes)
              <=> w \in puts \/ (w \notin takes /\ Kept(ws, puts, takes))
         /\ Untaken(Append(ws, w), takes) <=> w \notin takes /\ Untaken(ws, takes)
<1> DEFINE n == Len(ws)
           vs == Append(ws, w)
<1>1. /\ n \in Nat /\ Len(vs) = n + 1 /\ vs[n + 1] = w
      /\ \A i \in 1 .. n : vs[i] = ws[i]
  OBVIOUS
<1>2. /\ \A i \in 1 .. n + 1 : i \in 1 .. n \/ i = n + 1
      /\ \A i \in 1 .. n : i \in 1 .. n + 1 /\ n + 1 > i
      /\ n + 1 \in 1 .. n + 1
  BY <1>1
<1> HIDE DEF vs, n
<1>3. (\A j \in 1 .. n + 1 : vs[j] \notin takes)
        <=> w \notin takes /\ \A j \in 1 .. n : ws[j] \notin takes
  BY <1>1, <1>2
<1>4. ASSUME NEW i \in 1 .. n
      PROVE  (\A j \in 1 .. n + 1 : j > i => vs[j] \notin takes)
               <=> w \notin takes /\ \A j \in 1 .. n : j > i => ws[j] \notin takes
  BY <1>1, <1>2
<1>5. \A j \in 1 .. n + 1 : ~ (j > n + 1)
  BY <1>1
<1>6. (\E i \in 1 .. n + 1 : vs[i] \in puts /\ \A j \in 1 .. n + 1 : j > i => vs[j] \notin takes)
        <=> \/ w \in puts
            \/ /\ w \notin takes
               /\ \E i \in 1 .. n : ws[i] \in puts /\ \A j \in 1 .. n : j > i => ws[j] \notin takes
  BY <1>1, <1>2, <1>4, <1>5, Zenon
<1>7. n = Len(ws) /\ n + 1 = Len(vs) /\ vs = Append(ws, w)
  BY <1>1 DEF n, vs
<1> QED
  BY <1>3, <1>6, <1>7, Zenon DEF Kept, Untaken

LEMMA KeptTail ==
  ASSUME NEW S, NEW ws \in Seq(S), ws # <<>>, NEW puts, NEW takes
  PROVE  /\ Kept(ws, puts, takes)
              <=> Kept(Tail(ws), puts, takes) \/ (Head(ws) \in puts /\ Untaken(Tail(ws), takes))
         /\ Untaken(ws, takes) <=> Head(ws) \notin takes /\ Untaken(Tail(ws), takes)
<1> DEFINE n == Len(Tail(ws))
           vs == Tail(ws)
           h == Head(ws)
<1>1. /\ n \in Nat /\ Len(ws) = n + 1 /\ ws[1] = h
      /\ \A i \in 1 .. n : vs[i] = ws[i + 1]
  OBVIOUS
<1>2. /\ \A i \in 1 .. n + 1 : i = 1 \/ (i - 1 \in 1 .. n /\ i = (i - 1) + 1 /\ i > 1)
      /\ \A i \in 1 .. n : i + 1 \in 1 .. n + 1 /\ i + 1 > 1
      /\ 1 \in 1 .. n + 1
  BY <1>1
<1> HIDE DEF vs, n, h
<1>3. (\A j \in 1 .. n + 1 : ws[j] \notin takes)
        <=> h \notin takes /\ \A j \in 1 .. n : vs[j] \notin takes
  BY <1>1, <1>2
<1>4. (\A j \in 1 .. n + 1 : j > 1 => ws[j] \notin takes) <=> \A j \in 1 .. n : vs[j] \notin takes
  <2>1. ASSUME \A j \in 1 .. n + 1 : j > 1 => ws[j] \notin takes, NEW j \in 1 .. n
        PROVE  vs[j] \notin takes
    BY <2>1, <1>1, <1>2
  <2>2. ASSUME \A j \in 1 .. n : vs[j] \notin takes, NEW j \in 1 .. n + 1, j > 1
        PROVE  ws[j] \notin takes
    <3>1. j - 1 \in 1 .. n /\ j = (j - 1) + 1
      BY <2>2, <1>1
    <3> QED
      BY <3>1, <2>2, <1>1
  <2> QED
    BY <2>1, <2>2
<1>5. ASSUME NEW i \in 1 .. n
      PROVE  (\A j \in 1 .. n + 1 : j > i + 1 => ws[j] \notin takes)
               <=> \A j \in 1 .. n : j > i => vs[j] \notin takes
  <2>1. ASSUME \A j \in 1 .. n + 1 : j > i + 1 => ws[j] \notin takes, NEW j \in 1 .. n, j > i
        PROVE  vs[j] \notin takes
    BY <2>1, <1>1
  <2>2. ASSUME \A j \in 1 .. n : j > i => vs[j] \notin takes, NEW j \in 1 .. n + 1, j > i + 1
        PROVE  ws[j] \notin takes
    <3>1. j - 1 \in 1 .. n /\ j - 1 > i /\ j = (j - 1) + 1
      BY <2>2, <1>1
    <3> QED
      BY <3>1, <2>2, <1>1
  <2> QED
    BY <2>1, <2>2
<1>6. (\E i \in 1 .. n + 1 : ws[i] \in puts /\ \A j \in 1 .. n + 1 : j > i => ws[j] \notin takes)
        <=> \/ h \in puts /\ \A j \in 1 .. n : vs[j] \notin takes
            \/ \E i \in 1 .. n : vs[i] \in puts /\ \A j \in 1 .. n : j > i => vs[j] \notin takes
  <2>1. ASSUME NEW i \in 1 .. n + 1, ws[i] \in puts, \A j \in 1 .. n + 1 : j > i => ws[j] \notin takes
        PROVE  \/ h \in puts /\ \A j \in 1 .. n : vs[j] \notin takes
               \/ \E k \in 1 .. n : vs[k] \in puts /\ \A j \in 1 .. n : j > k => vs[j] \notin takes
    <3>1. CASE i = 1
      BY <3>1, <2>1, <1>1, <1>4
    <3>2. CASE i # 1
      <4> DEFINE k == i - 1
      <4>1. k \in 1 .. n /\ i = k + 1
        BY <3>2, <1>2
      <4> HIDE DEF k
      <4> QED
        BY <4>1, <2>1, <1>1, <1>5
    <3> QED
      BY <3>1, <3>2
  <2>2. ASSUME h \in puts, \A j \in 1 .. n : vs[j] \notin takes
        PROVE  \E i \in 1 .. n + 1 : ws[i] \in puts /\ \A j \in 1 .. n + 1 : j > i => ws[j] \notin takes
    BY <2>2, <1>1, <1>2, <1>4
  <2>3. ASSUME NEW k \in 1 .. n, vs[k] \in puts, \A j \in 1 .. n : j > k => vs[j] \notin takes
        PROVE  \E i \in 1 .. n + 1 : ws[i] \in puts /\ \A j \in 1 .. n + 1 : j > i => ws[j] \notin takes
    BY <2>3, <1>1, <1>2, <1>5
  <2> QED
    BY <2>1, <2>2, <2>3
<1>7. n = Len(vs) /\ n + 1 = Len(ws) /\ vs = Tail(ws) /\ h = Head(ws)
  BY <1>1 DEF n, vs, h
<1> QED
  BY <1>3, <1>6, <1>7, Zenon DEF Kept, Untaken

-----------------------------------------------------------------------------
(* The store of channels.                                                  *)

StoreWrite == ({"add", "remove"} \X Name \X Member) \cup ({"list", "unlist", "removeAll"} \X Name)

Lists(n) == {w \in StoreWrite : w[1] = "list" /\ w[2] = n}
Unlists(n) == {w \in StoreWrite : w[1] = "unlist" /\ w[2] = n}
Puts(n, m) == {w \in StoreWrite : w[1] = "add" /\ w[2] = n /\ w[3] = m}
Takes(n, m) == {w \in StoreWrite : w[2] = n /\ (w[1] = "removeAll" \/ (w[1] = "remove" /\ w[3] = m))}

WillList(n) == Kept(writes, Lists(n), Unlists(n)) \/ (n \in names /\ Untaken(writes, Unlists(n)))
WillHave(n, m) ==
  Kept(writes, Puts(n, m), Takes(n, m)) \/ (m \in members[n] /\ Untaken(writes, Takes(n, m)))

StoreTyped ==
  /\ Store!TypeOK
  /\ up \in BOOLEAN
  /\ writes \in Seq(StoreWrite)

\* A channel's object was made for its name; a server that is down has no objects.
ObjectsNamed ==
  /\ \A n \in Name : channels[n] # NoObject => channels[n] \in made /\ name[channels[n]] = n
  /\ \A o \in Object \ made : \A m \in Member : groups[o][m] = 0
  /\ \A o \in Object, m \in Sidless : groups[o][m] = 0
  /\ \A o \in made : name[o] \notin marredC => \A m \in Member : groups[o][m] <= 1
  /\ ~ up => made = {} /\ destroyed = {} /\ writes = <<>> /\ \A n \in Name : channels[n] = NoObject

\* Once all is written the store has what the server has, but for members without a sid;
\* and without a channel no members.
StoreFollows ==
  \A n \in Name \ marredC :
    /\ up => (WillList(n) <=> channels[n] # NoObject)
    /\ up => \A m \in Member \ Sidless : WillHave(n, m) <=> m \in Store!Members(n)
    /\ ~ up /\ n \notin names => members[n] \subseteq Sidless

StoreInv == StoreTyped /\ ObjectsNamed /\ StoreFollows

\* The finite sets of the module are those of the library.
LEMMA StoreFinite ==
  ASSUME NEW S
  PROVE  /\ Store!IsFiniteSet(S) <=> IsFiniteSet(S)
         /\ Store!Cardinality(S) = Cardinality(S)
<1>1. Store!IsFiniteSet(S) <=> IsFiniteSet(S)
  BY DEF Store!IsFiniteSet, IsFiniteSet
<1>2. Store!Cardinality(S) = Cardinality(S)
  BY Zenon DEF Store!Cardinality, Cardinality
<1> QED
  BY <1>1, <1>2

LEMMA StoreWrites ==
  ASSUME NEW k \in Name, NEW m \in Member
  PROVE  /\ Store!AddToStore(k, m) \in StoreWrite
         /\ Store!RemoveFromStore(k, m) \in StoreWrite
         /\ Store!RemoveAllFromStore(k) \in StoreWrite
         /\ Store!InList(k) \in StoreWrite
         /\ Store!OffList(k) \in StoreWrite
BY SMT DEF StoreWrite, Store!AddToStore, Store!RemoveFromStore, Store!RemoveAllFromStore,
       Store!InList, Store!OffList

LEMMA WriteParts ==
  ASSUME NEW w \in StoreWrite
  PROVE  /\ w[1] \in {"add", "remove", "list", "unlist", "removeAll"}
         /\ w[2] \in Name
         /\ w[1] \in {"add", "remove"} => w[3] \in Member
BY DEF StoreWrite

\* What a write puts and takes.
LEMMA ListWrites ==
  ASSUME NEW k \in Name, NEW n \in Name
  PROVE  /\ Store!InList(k) \in Lists(n) <=> n = k
         /\ Store!InList(k) \notin Unlists(n)
         /\ Store!OffList(k) \in Unlists(n) <=> n = k
         /\ Store!OffList(k) \notin Lists(n)
         /\ Store!RemoveAllFromStore(k) \notin Lists(n) \cup Unlists(n)
         /\ \A m \in Member : Store!AddToStore(k, m) \notin Lists(n) \cup Unlists(n)
         /\ \A m \in Member : Store!RemoveFromStore(k, m) \notin Lists(n) \cup Unlists(n)
BY StoreWrites, SMT
   DEF Lists, Unlists, StoreWrite, Store!AddToStore, Store!RemoveFromStore, Store!RemoveAllFromStore,
       Store!InList, Store!OffList

LEMMA MemberWrites ==
  ASSUME NEW k \in Name, NEW n \in Name, NEW m \in Member
  PROVE  /\ Store!InList(k) \notin Puts(n, m) \cup Takes(n, m)
         /\ Store!OffList(k) \notin Puts(n, m) \cup Takes(n, m)
         /\ Store!RemoveAllFromStore(k) \notin Puts(n, m)
         /\ Store!RemoveAllFromStore(k) \in Takes(n, m) <=> n = k
         /\ \A l \in Member : /\ Store!AddToStore(k, l) \in Puts(n, m) <=> n = k /\ l = m
                             /\ Store!AddToStore(k, l) \notin Takes(n, m)
         /\ \A l \in Member : /\ Store!RemoveFromStore(k, l) \in Takes(n, m) <=> n = k /\ l = m
                             /\ Store!RemoveFromStore(k, l) \notin Puts(n, m)
BY StoreWrites, SMT
   DEF Puts, Takes, StoreWrite, Store!AddToStore, Store!RemoveFromStore, Store!RemoveAllFromStore,
       Store!InList, Store!OffList

LEMMA StoreInvInit == Store!Init => StoreInv
<1> SUFFICES ASSUME Store!Init PROVE StoreInv
  OBVIOUS
<1>1. (CHOOSE n \in Name : TRUE) \in Name
  BY StoreAssumption DEF Store!StoreAssumption
<1>2. StoreTyped
  <2>1. groups \in [Object -> [Member -> 0 .. 2]]
    BY DEF Store!Init
  <2>2. name \in [Object -> Name]
    BY <1>1 DEF Store!Init
  <2>3. startsC \in 0 .. MaxStarts
    BY StoreAssumption DEF Store!Init, Store!StoreAssumption
  <2>4. writes \in Seq(StoreWrite)
    BY DEF Store!Init
  <2> QED
    BY <2>1, <2>2, <2>3, <2>4 DEF Store!Init, StoreTyped, Store!TypeOK
<1>3. ObjectsNamed
  BY StoreAssumption DEF Store!Init, Store!StoreAssumption, ObjectsNamed
<1>4. StoreFollows
  BY DEF Store!Init, StoreFollows
<1> QED
  BY <1>2, <1>3, <1>4 DEF StoreInv

\* What an issue does to the writes.
LEMMA IssueOne ==
  ASSUME writes \in Seq(StoreWrite), NEW w \in StoreWrite, Store!Issue(<<w>>)
  PROVE  writes' = Append(writes, w) /\ writes' \in Seq(StoreWrite)
BY DEF Store!Issue

LEMMA IssueTwo ==
  ASSUME writes \in Seq(StoreWrite), NEW v \in StoreWrite, NEW w \in StoreWrite,
         Store!Issue(<<v, w>>)
  PROVE  writes' = Append(Append(writes, v), w) /\ writes' \in Seq(StoreWrite)
<1>1. writes' = writes \o <<v, w>>
  BY DEF Store!Issue
<1>2. <<v, w>> = Append(<<v>>, w)
  OBVIOUS
<1> QED
  BY <1>1, <1>2

LEMMA FreshObject ==
  ASSUME Object \ made # {}
  PROVE  Store!Fresh \in Object \ made
BY DEF Store!Fresh

\* The restored channels have different objects: there are enough of them.
LEMMA RestoredObjects ==
  ASSUME StoreTyped, Cardinality(names) <= Cardinality(Object)
  PROVE  /\ Store!Restored \in [names -> Object]
         /\ \A a, b \in names : a # b => Store!Restored[a] # Store!Restored[b]
<1>1. names \subseteq Name /\ IsFiniteSet(names) /\ IsFiniteSet(Object)
  <2>1. names \subseteq Name
    BY DEF StoreTyped, Store!TypeOK
  <2>2. IsFiniteSet(Name) /\ IsFiniteSet(Object)
    BY StoreAssumption, StoreFinite DEF Store!StoreAssumption
  <2> QED
    BY <2>1, <2>2, FS_Subset
<1>2. PICK f : f \in Bijection(1 .. Cardinality(Object), Object)
  BY <1>1, FS_CardinalityType DEF ExistsBijection
<1>3. PICK g : g \in Bijection(1 .. Cardinality(names), names)
  BY <1>1, FS_CardinalityType DEF ExistsBijection
<1>4. PICK h : h \in Bijection(names, 1 .. Cardinality(names))
  BY <1>3, Fun_BijInverse
<1>5. Cardinality(names) \in Nat /\ Cardinality(Object) \in Nat
  BY <1>1, FS_CardinalityType
<1>6. \A a \in names : h[a] \in 1 .. Cardinality(Object)
  BY <1>4, <1>5 DEF Bijection, Injection, Surjection
<1> DEFINE r == [a \in names |-> f[h[a]]]
<1>7. r \in [names -> Object] /\ \A a, b \in names : a # b => r[a] # r[b]
  BY <1>2, <1>4, <1>6 DEF Bijection, Injection, IsInjective, Surjection
<1>8. \E q \in [names -> Object] : \A a, b \in names : a # b => q[a] # q[b]
  BY <1>7
<1> QED
  BY <1>8, Zenon DEF Store!Restored

\* What is written, or will be, after one more write.
LEMMA WillAfter ==
  ASSUME StoreTyped, NEW w \in StoreWrite, writes' = Append(writes, w),
         UNCHANGED <<names, members>>, NEW n \in Name
  PROVE  /\ WillList(n)' <=> w \in Lists(n) \/ (w \notin Unlists(n) /\ WillList(n))
         /\ \A m \in Member :
              WillHave(n, m)' <=> w \in Puts(n, m) \/ (w \notin Takes(n, m) /\ WillHave(n, m))
<1>1. writes \in Seq(StoreWrite)
  BY DEF StoreTyped
<1>2. /\ Kept(writes', Lists(n), Unlists(n))
           <=> w \in Lists(n) \/ (w \notin Unlists(n) /\ Kept(writes, Lists(n), Unlists(n)))
      /\ Untaken(writes', Unlists(n)) <=> w \notin Unlists(n) /\ Untaken(writes, Unlists(n))
  BY <1>1, KeptAppend
<1>3. ASSUME NEW m \in Member
      PROVE  /\ Kept(writes', Puts(n, m), Takes(n, m))
                  <=> w \in Puts(n, m) \/ (w \notin Takes(n, m) /\ Kept(writes, Puts(n, m), Takes(n, m)))
             /\ Untaken(writes', Takes(n, m)) <=> w \notin Takes(n, m) /\ Untaken(writes, Takes(n, m))
  BY <1>1, KeptAppend
<1>4. Lists(n)' = Lists(n) /\ Unlists(n)' = Unlists(n)
  BY DEF Lists, Unlists
<1>5. \A m \in Member : Puts(n, m)' = Puts(n, m) /\ Takes(n, m)' = Takes(n, m)
  BY DEF Puts, Takes
<1>6. ~ (w \in Lists(n) /\ w \in Unlists(n))
      /\ \A m \in Member : ~ (w \in Puts(n, m) /\ w \in Takes(n, m))
  BY DEF Lists, Unlists, Puts, Takes
<1> QED
  BY <1>2, <1>3, <1>6 DEF WillList, WillHave

\* The end of a channel: it will not be listed, and have no members.
LEMMA WillEnd ==
  ASSUME StoreTyped, NEW k \in Name, Store!Issue(Store!Destroys(k)),
         UNCHANGED <<names, members>>, NEW n \in Name
  PROVE  /\ WillList(n)' <=> n # k /\ WillList(n)
         /\ \A m \in Member : WillHave(n, m)' <=> n # k /\ WillHave(n, m)
<1> DEFINE v == Store!OffList(k)
           w == Store!RemoveAllFromStore(k)
           vs == Append(writes, v)
<1>1. v \in StoreWrite /\ w \in StoreWrite
  BY StoreWrites, Zenon DEF Store!OffList, Store!RemoveAllFromStore, StoreWrite
<1>2. writes \in Seq(StoreWrite)
  BY DEF StoreTyped
<1>3. writes' = Append(Append(writes, v), w)
  BY <1>1, <1>2, IssueTwo DEF Store!Destroys
<1>4. vs = Append(writes, v)
  OBVIOUS
<1>4a. vs \in Seq(StoreWrite) /\ writes' = Append(vs, w)
  BY <1>1, <1>2, <1>3
<1>5. v \in Unlists(n) <=> n = k
  BY ListWrites
<1>6. v \notin Lists(n) /\ w \notin Lists(n) /\ w \notin Unlists(n)
  BY ListWrites
<1>7. \A m \in Member : v \notin Puts(n, m) /\ v \notin Takes(n, m) /\ w \notin Puts(n, m)
                          /\ (w \in Takes(n, m) <=> n = k)
  BY MemberWrites
<1> HIDE DEF v, w, vs
<1>8. /\ Kept(vs, Lists(n), Unlists(n))
           <=> v \in Lists(n) \/ (v \notin Unlists(n) /\ Kept(writes, Lists(n), Unlists(n)))
      /\ Untaken(vs, Unlists(n)) <=> v \notin Unlists(n) /\ Untaken(writes, Unlists(n))
  BY <1>1, <1>2, <1>4, KeptAppend
<1>9. /\ Kept(writes', Lists(n), Unlists(n))
           <=> w \in Lists(n) \/ (w \notin Unlists(n) /\ Kept(vs, Lists(n), Unlists(n)))
      /\ Untaken(writes', Unlists(n)) <=> w \notin Unlists(n) /\ Untaken(vs, Unlists(n))
  BY <1>1, <1>4a, KeptAppend
<1>10. ASSUME NEW m \in Member
       PROVE  /\ Kept(vs, Puts(n, m), Takes(n, m))
                   <=> v \in Puts(n, m) \/ (v \notin Takes(n, m) /\ Kept(writes, Puts(n, m), Takes(n, m)))
              /\ Untaken(vs, Takes(n, m)) <=> v \notin Takes(n, m) /\ Untaken(writes, Takes(n, m))
  BY <1>1, <1>2, <1>4, KeptAppend
<1>11. ASSUME NEW m \in Member
       PROVE  /\ Kept(writes', Puts(n, m), Takes(n, m))
                   <=> w \in Puts(n, m) \/ (w \notin Takes(n, m) /\ Kept(vs, Puts(n, m), Takes(n, m)))
              /\ Untaken(writes', Takes(n, m)) <=> w \notin Takes(n, m) /\ Untaken(vs, Takes(n, m))
  BY <1>1, <1>4a, KeptAppend
<1>12. WillList(n)' <=> n # k /\ WillList(n)
  BY <1>5, <1>6, <1>8, <1>9 DEF WillList
<1>13. \A m \in Member : WillHave(n, m)' <=> n # k /\ WillHave(n, m)
  BY <1>7, <1>10, <1>11 DEF WillHave
<1> QED
  BY <1>12, <1>13

LEMMA StoreCreate ==
  ASSUME StoreInv, NEW k \in Name, Store!CreateChannel(k)
  PROVE  StoreInv'
<1> DEFINE f == Store!Fresh
           w == Store!InList(k)
<1>1. f \in Object /\ f \notin made
  BY FreshObject DEF Store!CreateChannel
<1>2. w \in StoreWrite
  BY SMT DEF StoreWrite, Store!InList
<1>3. /\ up /\ channels[k] = NoObject
      /\ channels' = [channels EXCEPT ![k] = f] /\ name' = [name EXCEPT ![f] = k]
      /\ made' = made \cup {f} /\ Store!Issue(<<w>>)
      /\ UNCHANGED <<up, startsC, destroyed, groups, names, members, marredC>>
  BY DEF Store!CreateChannel, Store!storeVars
<1>4. writes' = Append(writes, w) /\ writes' \in Seq(StoreWrite)
  BY <1>2, <1>3, IssueOne DEF StoreInv, StoreTyped
<1>5. StoreTyped /\ ObjectsNamed /\ StoreFollows
  BY DEF StoreInv
<1>6. ASSUME NEW n \in Name
      PROVE  /\ WillList(n)' <=> n = k \/ WillList(n)
             /\ \A m \in Member : WillHave(n, m)' <=> WillHave(n, m)
  <2>1. /\ w \in Lists(n) <=> n = k
        /\ w \notin Unlists(n)
    BY ListWrites
  <2>2. \A m \in Member : w \notin Puts(n, m) /\ w \notin Takes(n, m)
    BY MemberWrites
  <2> QED
    BY <1>2, <1>3, <1>4, <1>5, <2>1, <2>2, WillAfter
<1> HIDE DEF f, w
<1>7. StoreTyped'
  BY <1>1, <1>3, <1>4, <1>5 DEF StoreTyped, Store!TypeOK
<1>8. ObjectsNamed'
  <2>1. \A m \in Member : groups[f][m] = 0
    BY <1>1, <1>5 DEF ObjectsNamed
  <2>2. \A o \in Object : o # f => name'[o] = name[o]
    BY <1>1, <1>3, <1>5 DEF StoreTyped, Store!TypeOK
  <2>3. name'[f] = k
    BY <1>1, <1>3, <1>5 DEF StoreTyped, Store!TypeOK
  <2>4. \A n \in Name : channels'[n] = IF n = k THEN f ELSE channels[n]
    BY <1>3, <1>5 DEF StoreTyped, Store!TypeOK
  <2>5. made \subseteq Object
    BY <1>5 DEF StoreTyped, Store!TypeOK
  <2> QED
    BY <1>1, <1>3, <1>5, <2>1, <2>2, <2>3, <2>4, <2>5 DEF ObjectsNamed
<1>9. StoreFollows'
  <2> SUFFICES ASSUME NEW n \in Name, n \notin marredC
               PROVE  /\ WillList(n)' <=> channels'[n] # NoObject
                      /\ \A m \in Member \ Sidless : WillHave(n, m)' <=> m \in Store!Members(n)'
    BY <1>3 DEF StoreFollows
  <2>1. /\ WillList(n) <=> channels[n] # NoObject
        /\ \A m \in Member \ Sidless : WillHave(n, m) <=> m \in Store!Members(n)
    BY <1>3, <1>5 DEF StoreFollows
  <2>2. channels'[n] = IF n = k THEN f ELSE channels[n]
    BY <1>3, <1>5 DEF StoreTyped, Store!TypeOK
  <2>3. f # NoObject
    BY <1>1, StoreAssumption DEF Store!StoreAssumption
  <2>4. \A m \in Member : groups[f][m] = 0
    BY <1>1, <1>5 DEF ObjectsNamed
  <2>5. Store!Members(n)' = Store!Members(n)
    <3>1. CASE n = k
      <4>1. Store!Members(n) = {}
        BY <1>3, <3>1 DEF Store!Members
      <4>2. Store!Members(n)' = {m \in Member : groups[f][m] > 0}
        BY <1>3, <3>1, <2>2, <2>3 DEF Store!Members
      <4> QED
        BY <4>1, <4>2, <2>4
    <3>2. CASE n # k
      BY <1>3, <3>2, <2>2 DEF Store!Members
    <3> QED
      BY <3>1, <3>2
  <2> QED
    BY <1>3, <1>6, <2>1, <2>2, <2>3, <2>5
<1> QED
  BY <1>7, <1>8, <1>9 DEF StoreInv

\* The channel of a name is forgotten, also by an object that is no longer its own.
LEMMA StoreDestroy ==
  ASSUME StoreInv, up, NEW k \in Name, Store!DestroyChannel(k),
         destroyed' \subseteq Object, marredC \subseteq marredC', marredC' \subseteq Name
  PROVE  StoreInv'
<1>1. /\ channels' = [channels EXCEPT ![k] = NoObject] /\ Store!Issue(Store!Destroys(k))
      /\ UNCHANGED <<up, startsC, name, made, groups, names, members>>
  BY DEF Store!DestroyChannel, Store!storeVars
<1>2. StoreTyped /\ ObjectsNamed /\ StoreFollows
  BY DEF StoreInv
<1>3. writes' \in Seq(StoreWrite)
  <2>1. Store!OffList(k) \in StoreWrite /\ Store!RemoveAllFromStore(k) \in StoreWrite
    BY SMT DEF Store!OffList, Store!RemoveAllFromStore, StoreWrite
  <2> QED
    BY <1>1, <1>2, <2>1, IssueTwo DEF Store!Destroys, StoreTyped
<1>4. \A n \in Name : channels'[n] = IF n = k THEN NoObject ELSE channels[n]
  BY <1>1, <1>2 DEF StoreTyped, Store!TypeOK
<1>5. StoreTyped'
  BY <1>1, <1>2, <1>3 DEF StoreTyped, Store!TypeOK
<1>6. ObjectsNamed'
  BY <1>1, <1>2, <1>4 DEF ObjectsNamed, StoreTyped, Store!TypeOK
<1>7. StoreFollows'
  <2> SUFFICES ASSUME NEW n \in Name, n \notin marredC'
               PROVE  /\ WillList(n)' <=> channels'[n] # NoObject
                      /\ \A m \in Member \ Sidless : WillHave(n, m)' <=> m \in Store!Members(n)'
    BY <1>1 DEF StoreFollows
  <2>1. /\ WillList(n) <=> channels[n] # NoObject
        /\ \A m \in Member \ Sidless : WillHave(n, m) <=> m \in Store!Members(n)
    BY <1>2 DEF StoreFollows
  <2>2. /\ WillList(n)' <=> n # k /\ WillList(n)
        /\ \A m \in Member : WillHave(n, m)' <=> n # k /\ WillHave(n, m)
    BY <1>1, <1>2, WillEnd
  <2>3. Store!Members(n)' = IF n = k THEN {} ELSE Store!Members(n)
    BY <1>1, <1>4 DEF Store!Members
  <2> QED
    BY <1>4, <2>1, <2>2, <2>3
<1> QED
  BY <1>5, <1>6, <1>7 DEF StoreInv

\* One object lists a member, or not, and the store is told: an object that is not
\* the channel of its name is noted.
LEMMA StoreMember ==
  ASSUME StoreInv, up, NEW o \in made, NEW m \in Member \ Sidless, NEW w \in StoreWrite, NEW c \in 0 .. 2,
         groups' = [groups EXCEPT ![o][m] = c], writes' = Append(writes, w),
         \/ w = Store!AddToStore(name[o], m) /\ c > 0
         \/ w = Store!RemoveFromStore(name[o], m) /\ (c = 0 \/ groups[o][m] > 1),
         c > 1 => name[o] \in marredC',
         Store!Stale(o) \subseteq marredC', marredC' \subseteq Name,
         UNCHANGED <<up, startsC, channels, name, made, destroyed, names, members>>
  PROVE  StoreInv'
<1>1. StoreTyped /\ ObjectsNamed /\ StoreFollows
  BY DEF StoreInv
<1> DEFINE k == name[o]
<1>2. o \in Object /\ k \in Name /\ writes \in Seq(StoreWrite)
  BY <1>1 DEF StoreTyped, Store!TypeOK
<1>3. marredC \subseteq marredC' /\ (channels[k] # o => k \in marredC')
  BY DEF Store!Stale
<1>4. /\ groups' \in [Object -> [Member -> 0 .. 2]]
      /\ \A p \in Object, l \in Member :
           groups'[p][l] = IF p = o /\ l = m THEN c ELSE groups[p][l]
  BY <1>1, <1>2 DEF StoreTyped, Store!TypeOK
<1>5. StoreTyped'
  BY <1>1, <1>2, <1>4 DEF StoreTyped, Store!TypeOK
<1>6. ObjectsNamed'
  BY <1>1, <1>2, <1>3, <1>4 DEF ObjectsNamed, StoreTyped, Store!TypeOK
<1>7. ASSUME NEW n \in Name, n \notin marredC'
      PROVE  /\ WillList(n)' <=> channels'[n] # NoObject
             /\ \A l \in Member \ Sidless : WillHave(n, l)' <=> l \in Store!Members(n)'
  <2>1. /\ WillList(n) <=> channels[n] # NoObject
        /\ \A l \in Member \ Sidless : WillHave(n, l) <=> l \in Store!Members(n)
    BY <1>1, <1>3, <1>7 DEF StoreFollows
  <2>2. /\ WillList(n)' <=> w \in Lists(n) \/ (w \notin Unlists(n) /\ WillList(n))
        /\ \A l \in Member :
             WillHave(n, l)' <=> w \in Puts(n, l) \/ (w \notin Takes(n, l) /\ WillHave(n, l))
    BY <1>1, WillAfter
  <2>3. w \notin Lists(n) /\ w \notin Unlists(n)
    BY <1>2, ListWrites
  <2>4. WillList(n)' <=> channels'[n] # NoObject
    BY <2>1, <2>2, <2>3
  <2>5. ASSUME NEW l \in Member \ Sidless
        PROVE  WillHave(n, l)' <=> l \in Store!Members(n)'
    <3>1. CASE n = k /\ l = m
      <4>1. channels[n] = o /\ o # NoObject
        BY <1>2, <1>3, <1>7, <3>1, StoreAssumption DEF Store!StoreAssumption
      <4>2. l \in Store!Members(n)' <=> c > 0
        BY <1>2, <1>4, <3>1, <4>1 DEF Store!Members
      <4>3. c <= 1 /\ groups[o][m] <= 1
        BY <1>1, <1>3, <1>7, <3>1 DEF ObjectsNamed
      <4>4. CASE w = Store!AddToStore(k, m) /\ c > 0
        <5>1. w \in Puts(n, l)
          BY <1>2, <3>1, <4>4, MemberWrites
        <5> QED
          BY <2>2, <4>2, <4>4, <5>1
      <4>5. CASE w = Store!RemoveFromStore(k, m) /\ c = 0
        <5>1. w \in Takes(n, l) /\ w \notin Puts(n, l)
          BY <1>2, <3>1, <4>5, MemberWrites
        <5> QED
          BY <2>2, <4>2, <4>5, <5>1
      <4>6. groups[o][m] \in 0 .. 2
        BY <1>1, <1>2 DEF StoreTyped, Store!TypeOK
      <4> QED
        BY <4>3, <4>4, <4>5, <4>6
    <3>2. CASE ~ (n = k /\ l = m)
      <4>1. w \notin Puts(n, l) /\ w \notin Takes(n, l)
        BY <1>2, <3>2, MemberWrites
      <4>2. ~ (channels[n] = o /\ l = m)
        BY <1>1, <1>2, <3>2, StoreAssumption DEF ObjectsNamed, Store!StoreAssumption
      <4>3. channels[n] # NoObject => channels[n] \in Object
        BY <1>1 DEF StoreTyped, Store!TypeOK
      <4>4. l \in Store!Members(n)' <=> l \in Store!Members(n)
        BY <1>4, <4>2, <4>3 DEF Store!Members
      <4> QED
        BY <2>1, <2>2, <4>1, <4>4
    <3> QED
      BY <3>1, <3>2
  <2> QED
    BY <2>4, <2>5
<1>8. StoreFollows'
  BY <1>7 DEF StoreFollows
<1> QED
  BY <1>5, <1>6, <1>8 DEF StoreInv

\* A member without a sid is written, and not listed.
LEMMA StoreSidless ==
  ASSUME StoreInv, up, NEW k \in Name, NEW m \in Sidless, writes' = Append(writes, Store!AddToStore(k, m)),
         marredC \subseteq marredC', marredC' \subseteq Name,
         UNCHANGED <<up, startsC, channels, name, made, destroyed, groups, names, members>>
  PROVE  StoreInv'
<1> DEFINE w == Store!AddToStore(k, m)
<1>1. StoreTyped /\ ObjectsNamed /\ StoreFollows /\ m \in Member
  BY StoreAssumption DEF StoreInv, Store!StoreAssumption
<1>2. w \in StoreWrite /\ writes \in Seq(StoreWrite)
  BY <1>1, StoreWrites DEF StoreTyped
<1>3. StoreTyped'
  BY <1>1, <1>2 DEF StoreTyped, Store!TypeOK
<1>4. ObjectsNamed'
  BY <1>1 DEF ObjectsNamed
<1>5. ASSUME NEW n \in Name, n \notin marredC'
      PROVE  /\ WillList(n)' <=> channels'[n] # NoObject
             /\ \A l \in Member \ Sidless : WillHave(n, l)' <=> l \in Store!Members(n)'
  <2>1. /\ WillList(n) <=> channels[n] # NoObject
        /\ \A l \in Member \ Sidless : WillHave(n, l) <=> l \in Store!Members(n)
    BY <1>1, <1>5 DEF StoreFollows
  <2>2. /\ WillList(n)' <=> w \in Lists(n) \/ (w \notin Unlists(n) /\ WillList(n))
        /\ \A l \in Member :
             WillHave(n, l)' <=> w \in Puts(n, l) \/ (w \notin Takes(n, l) /\ WillHave(n, l))
    BY <1>1, <1>2, WillAfter
  <2>3. w \notin Lists(n) /\ w \notin Unlists(n)
    BY <1>1, ListWrites
  <2>4. \A l \in Member \ Sidless : w \notin Puts(n, l) /\ w \notin Takes(n, l)
    BY <1>1, MemberWrites
  <2>5. Store!Members(n)' = Store!Members(n)
    BY DEF Store!Members
  <2> QED
    BY <2>1, <2>2, <2>3, <2>4, <2>5
<1>6. StoreFollows'
  BY <1>5 DEF StoreFollows
<1> QED
  BY <1>3, <1>4, <1>6 DEF StoreInv

LEMMA StoreAdd ==
  ASSUME StoreInv, NEW o \in Object, NEW m \in Member, Store!Add(o, m)
  PROVE  StoreInv'
<1> DEFINE w == Store!AddToStore(name[o], m)
           c == groups[o][m] + 1
<1>1. /\ up /\ o \in made /\ groups[o][m] < 2
      /\ groups' = IF m \in Sidless THEN groups ELSE [groups EXCEPT ![o][m] = @ + 1]
      /\ Store!Issue(<<w>>)
      /\ marredC' = Store!Stale(o) \cup (IF groups[o][m] > 0 THEN {name[o]} ELSE {})
      /\ UNCHANGED <<up, startsC, channels, name, made, destroyed, names, members>>
  BY DEF Store!Add, Store!storeVars
<1>2. StoreTyped
  BY DEF StoreInv
<1>3. groups[o][m] \in 0 .. 2 /\ name[o] \in Name
  BY <1>2 DEF StoreTyped, Store!TypeOK
<1>4. w \in StoreWrite
  BY <1>3, StoreWrites
<1>5. writes' = Append(writes, w)
  BY <1>1, <1>2, <1>4, IssueOne DEF StoreTyped
<1>6. c \in 0 .. 2 /\ c > 0 /\ (c > 1 => groups[o][m] > 0)
  BY <1>1, <1>3
<1>7. m \notin Sidless => groups' = [groups EXCEPT ![o][m] = c]
  BY <1>1
<1>8. /\ marredC \subseteq marredC' /\ Store!Stale(o) \subseteq marredC' /\ marredC' \subseteq Name
      /\ c > 1 => name[o] \in marredC'
  BY <1>1, <1>2, <1>3, <1>6 DEF Store!Stale, StoreTyped, Store!TypeOK
<1>9. w = Store!AddToStore(name[o], m)
  OBVIOUS
<1>10. CASE m \in Sidless
  BY <1>1, <1>3, <1>5, <1>8, <1>10, StoreSidless
<1> HIDE DEF c, w
<1>11. CASE m \notin Sidless
  BY <1>1, <1>4, <1>5, <1>6, <1>7, <1>8, <1>9, <1>11, StoreMember
<1> QED
  BY <1>10, <1>11

LEMMA StoreLeave ==
  ASSUME StoreInv, NEW o \in Object, NEW m \in Member, Store!Leave(o, m)
  PROVE  StoreInv'
<1> DEFINE w == Store!RemoveFromStore(name[o], m)
           c == IF groups[o][m] > 0 THEN groups[o][m] - 1 ELSE groups[o][m]
<1>1. /\ up /\ o \in made /\ m \notin Sidless
      /\ groups' = [groups EXCEPT ![o][m] = IF @ > 0 THEN @ - 1 ELSE @] /\ Store!Issue(<<w>>)
      /\ marredC' = Store!Stale(o)
      /\ UNCHANGED <<up, startsC, channels, name, made, destroyed, names, members>>
  BY DEF Store!Leave, Store!storeVars
<1>2. StoreTyped
  BY DEF StoreInv
<1>3. groups[o][m] \in 0 .. 2 /\ name[o] \in Name
  BY <1>2 DEF StoreTyped, Store!TypeOK
<1>4. w \in StoreWrite
  BY <1>3, StoreWrites
<1>5. writes' = Append(writes, w)
  BY <1>1, <1>2, <1>4, IssueOne DEF StoreTyped
<1>6. c \in 0 .. 2 /\ (c = 0 \/ groups[o][m] > 1) /\ ~ c > 1
  BY <1>3
<1>7. groups' = [groups EXCEPT ![o][m] = c]
  BY <1>1
<1>8. Store!Stale(o) \subseteq marredC' /\ marredC' \subseteq Name
  BY <1>1, <1>2, <1>3 DEF Store!Stale, StoreTyped, Store!TypeOK
<1>9. w = Store!RemoveFromStore(name[o], m)
  OBVIOUS
<1> HIDE DEF c, w
<1> QED
  BY <1>1, <1>4, <1>5, <1>6, <1>7, <1>8, <1>9, StoreMember

\* The first write is carried out, or fails and is noted.
LEMMA StoreWritten ==
  ASSUME StoreInv, Store!Write
  PROVE  StoreInv'
<1> DEFINE w == Head(writes)
<1>1. /\ writes # <<>> /\ writes' = Tail(writes)
      /\ \/ Store!Written(w) /\ marredC' = marredC
         \/ marredC' = marredC \cup {w[2]} /\ UNCHANGED <<names, members>>
      /\ UNCHANGED <<up, startsC, channels, name, made, destroyed, groups>>
  BY DEF Store!Write, Store!storeVars
<1>2. StoreTyped /\ ObjectsNamed /\ StoreFollows
  BY DEF StoreInv
<1>3. writes \in Seq(StoreWrite) /\ writes' \in Seq(StoreWrite) /\ w \in StoreWrite
  BY <1>1, <1>2 DEF StoreTyped
<1>4. /\ w[1] \in {"add", "remove", "list", "unlist", "removeAll"} /\ w[2] \in Name
      /\ w[1] \in {"add", "remove"} => w[3] \in Member
  BY <1>3, WriteParts
<1> HIDE DEF w
<1>5. up
  BY <1>1, <1>2 DEF ObjectsNamed, StoreTyped
<1>6. ASSUME Store!Written(w)
      PROVE  /\ names' = IF w[1] = "list" THEN names \cup {w[2]}
                         ELSE IF w[1] = "unlist" THEN names \ {w[2]} ELSE names
             /\ members' = [members EXCEPT ![w[2]] =
                  IF w[1] = "add" THEN @ \cup {w[3]} ELSE IF w[1] = "remove" THEN @ \ {w[3]}
                  ELSE IF w[1] = "removeAll" THEN {} ELSE @]
  <2> DEFINE d == CASE w[1] = "add" -> members[w[2]] \cup {w[3]}
                    [] w[1] = "remove" -> members[w[2]] \ {w[3]}
                    [] w[1] = "removeAll" -> {} [] OTHER -> members[w[2]]
             e == IF w[1] = "add" THEN members[w[2]] \cup {w[3]}
                  ELSE IF w[1] = "remove" THEN members[w[2]] \ {w[3]}
                  ELSE IF w[1] = "removeAll" THEN {} ELSE members[w[2]]
  <2>1. d = e
    BY <1>4
  <2>2. members' = [members EXCEPT ![w[2]] = d]
    BY <1>6, Zenon DEF Store!Written
  <2>3. names' = IF w[1] = "list" THEN names \cup {w[2]}
                 ELSE IF w[1] = "unlist" THEN names \ {w[2]} ELSE names
    BY <1>4, <1>6 DEF Store!Written
  <2> HIDE DEF d, e
  <2>4. members' = [members EXCEPT ![w[2]] = e]
    BY <2>1, <2>2
  <2> QED
    BY <2>3, <2>4 DEF e
<1>7. names' \subseteq Name /\ members' \in [Name -> SUBSET Member] /\ marredC' \subseteq Name
  <2>1. CASE Store!Written(w) /\ marredC' = marredC
    <3>1. names' \subseteq Name
      BY <1>2, <1>4, <1>6, <2>1 DEF StoreTyped, Store!TypeOK
    <3>2. members \in [Name -> SUBSET Member]
      BY <1>2 DEF StoreTyped, Store!TypeOK
    <3> DEFINE d == IF w[1] = "add" THEN members[w[2]] \cup {w[3]}
                    ELSE IF w[1] = "remove" THEN members[w[2]] \ {w[3]}
                    ELSE IF w[1] = "removeAll" THEN {} ELSE members[w[2]]
    <3>3. d \in SUBSET Member
      BY <1>4, <3>2
    <3>4. members' = [members EXCEPT ![w[2]] = d]
      BY <1>6, <2>1
    <3> HIDE DEF d
    <3> QED
      BY <1>2, <1>4, <2>1, <3>1, <3>2, <3>3, <3>4 DEF StoreTyped, Store!TypeOK
  <2>2. CASE marredC' = marredC \cup {w[2]} /\ UNCHANGED <<names, members>>
    BY <1>2, <1>4, <2>2 DEF StoreTyped, Store!TypeOK
  <2> QED
    BY <1>1, <2>1, <2>2
<1>8. StoreTyped'
  BY <1>1, <1>2, <1>3, <1>7 DEF StoreTyped, Store!TypeOK
<1>9. marredC \subseteq marredC'
  BY <1>1
<1>10. ObjectsNamed'
  BY <1>1, <1>2, <1>5, <1>9 DEF ObjectsNamed, StoreTyped, Store!TypeOK
<1>11. ASSUME NEW n \in Name, n \notin marredC'
       PROVE  /\ n \in names' <=> w \in Lists(n) \/ (n \in names /\ w \notin Unlists(n))
              /\ \A m \in Member :
                   m \in members'[n] <=> w \in Puts(n, m) \/ (m \in members[n] /\ w \notin Takes(n, m))
  <2>1. CASE Store!Written(w) /\ marredC' = marredC
    <3>1. n \in names' <=> w \in Lists(n) \/ (n \in names /\ w \notin Unlists(n))
      BY <1>3, <1>4, <1>6, <2>1 DEF Lists, Unlists
    <3>2. members'[n] = IF w[2] # n THEN members[n]
                        ELSE IF w[1] = "add" THEN members[n] \cup {w[3]}
                        ELSE IF w[1] = "remove" THEN members[n] \ {w[3]}
                        ELSE IF w[1] = "removeAll" THEN {} ELSE members[n]
      BY <1>2, <1>4, <1>6, <2>1 DEF StoreTyped, Store!TypeOK
    <3>3. ASSUME NEW m \in Member
          PROVE  m \in members'[n] <=> w \in Puts(n, m) \/ (m \in members[n] /\ w \notin Takes(n, m))
      BY <1>3, <1>4, <3>2 DEF Puts, Takes
    <3> QED
      BY <3>1, <3>3
  <2>2. CASE marredC' = marredC \cup {w[2]} /\ UNCHANGED <<names, members>>
    BY <1>11, <2>2 DEF Lists, Unlists, Puts, Takes
  <2> QED
    BY <1>1, <2>1, <2>2
<1>12. ASSUME NEW n \in Name, n \notin marredC'
       PROVE  /\ WillList(n)' <=> WillList(n)
              /\ \A m \in Member : WillHave(n, m)' <=> WillHave(n, m)
  <2>1. /\ Kept(writes, Lists(n), Unlists(n))
             <=> Kept(writes', Lists(n), Unlists(n)) \/ (w \in Lists(n) /\ Untaken(writes', Unlists(n)))
        /\ Untaken(writes, Unlists(n)) <=> w \notin Unlists(n) /\ Untaken(writes', Unlists(n))
    BY <1>1, <1>3, KeptTail DEF w
  <2>2. ASSUME NEW m \in Member
        PROVE  /\ Kept(writes, Puts(n, m), Takes(n, m))
                    <=> \/ Kept(writes', Puts(n, m), Takes(n, m))
                        \/ w \in Puts(n, m) /\ Untaken(writes', Takes(n, m))
               /\ Untaken(writes, Takes(n, m))
                    <=> w \notin Takes(n, m) /\ Untaken(writes', Takes(n, m))
    BY <1>1, <1>3, KeptTail DEF w
  <2>3. WillList(n)' <=> WillList(n)
    BY <1>11, <1>12, <2>1 DEF WillList
  <2>4. \A m \in Member : WillHave(n, m)' <=> WillHave(n, m)
    BY <1>11, <1>12, <2>2 DEF WillHave
  <2> QED
    BY <2>3, <2>4
<1>13. StoreFollows'
  <2>1. \A n \in Name : Store!Members(n)' = Store!Members(n)
    BY <1>1 DEF Store!Members
  <2> QED
    BY <1>1, <1>2, <1>5, <1>9, <1>12, <2>1 DEF StoreFollows
<1> QED
  BY <1>8, <1>10, <1>13 DEF StoreInv

LEMMA StoreCrash ==
  ASSUME StoreInv, Store!Crash
  PROVE  StoreInv'
<1>1. /\ up /\ up' = FALSE /\ channels' = [n \in Name |-> NoObject]
      /\ made' = {} /\ destroyed' = {} /\ groups' = [o \in Object |-> [m \in Member |-> 0]]
      /\ name' = [o \in Object |-> CHOOSE n \in Name : TRUE]
      /\ writes' = <<>> /\ marredC' = marredC \cup {writes[i][2] : i \in DOMAIN writes}
      /\ UNCHANGED <<startsC, names, members>>
  BY DEF Store!Crash, Store!storeVars
<1>2. StoreTyped /\ ObjectsNamed /\ StoreFollows
  BY DEF StoreInv
<1>3. writes \in Seq(StoreWrite) /\ DOMAIN writes = 1 .. Len(writes)
  BY <1>2 DEF StoreTyped
<1>4. \A i \in 1 .. Len(writes) : writes[i] \in StoreWrite /\ writes[i][2] \in Name
  BY <1>3, WriteParts
<1>5. (CHOOSE n \in Name : TRUE) \in Name
  BY StoreAssumption DEF Store!StoreAssumption
<1>6. StoreTyped'
  <2>1. groups' \in [Object -> [Member -> 0 .. 2]] /\ name' \in [Object -> Name]
    BY <1>1, <1>5
  <2>2. marredC' \subseteq Name
    BY <1>1, <1>2, <1>3, <1>4 DEF StoreTyped, Store!TypeOK
  <2>3. writes' \in Seq(StoreWrite) /\ channels' \in [Name -> Object \cup {NoObject}]
    BY <1>1
  <2> QED
    BY <1>1, <1>2, <2>1, <2>2, <2>3 DEF StoreTyped, Store!TypeOK
<1>7. ObjectsNamed'
  BY <1>1, StoreAssumption DEF Store!StoreAssumption, ObjectsNamed
<1>8. ASSUME NEW n \in Name, n \notin marredC', n \notin names
      PROVE  members[n] \subseteq Sidless
  <2>1. \A i \in 1 .. Len(writes) : writes[i][2] # n
    BY <1>1, <1>3, <1>8
  <2>2. /\ WillList(n) <=> channels[n] # NoObject
        /\ \A m \in Member \ Sidless : WillHave(n, m) <=> m \in Store!Members(n)
    BY <1>1, <1>2, <1>8 DEF StoreFollows
  <2>3. ~ WillList(n)
    BY <1>8, <2>1 DEF WillList, Kept, Lists
  <2>4. Store!Members(n) = {}
    BY <2>2, <2>3 DEF Store!Members
  <2>5. \A m \in Member : m \in members[n] => WillHave(n, m)
    BY <2>1 DEF WillHave, Untaken, Takes
  <2>6. members[n] \subseteq Member
    BY <1>2 DEF StoreTyped, Store!TypeOK
  <2> QED
    BY <2>2, <2>4, <2>5, <2>6
<1>9. StoreFollows'
  BY <1>1, <1>8 DEF StoreFollows
<1> QED
  BY <1>6, <1>7, <1>9 DEF StoreInv

\* A channel is made for every listed name, without its members.
LEMMA StoreStart ==
  ASSUME StoreInv, Store!Start
  PROVE  StoreInv'
<1> DEFINE r == Store!Restored
<1>1. /\ up = FALSE /\ startsC < MaxStarts /\ Store!Cardinality(names) <= Store!Cardinality(Object)
      /\ up' = TRUE /\ startsC' = startsC + 1
      /\ channels' = [n \in Name |-> IF n \in names THEN r[n] ELSE NoObject]
      /\ made' = {r[n] : n \in names}
      /\ name' = [o \in Object |-> IF o \in made' THEN CHOOSE n \in names : r[n] = o ELSE name[o]]
      /\ marredC' = marredC \cup {n \in names : members[n] # {}}
      /\ UNCHANGED <<destroyed, groups, names, members, writes>>
  <2>1. StoreTyped
    BY DEF StoreInv
  <2> QED
    BY <2>1 DEF Store!Start, Store!storeVars, StoreTyped
<1>2. StoreTyped /\ ObjectsNamed /\ StoreFollows
  BY DEF StoreInv
<1>3. r \in [names -> Object] /\ \A a, b \in names : a # b => r[a] # r[b]
  BY <1>1, <1>2, RestoredObjects, StoreFinite
<1> HIDE DEF r
<1>4. names \subseteq Name /\ \A n \in names : r[n] \in Object /\ r[n] \in made'
  BY <1>1, <1>2, <1>3 DEF StoreTyped, Store!TypeOK
<1>5. \A n \in names : name'[r[n]] = n
  <2> SUFFICES ASSUME NEW n \in names PROVE name'[r[n]] = n
    OBVIOUS
  <2>1. name'[r[n]] = CHOOSE k \in names : r[k] = r[n]
    BY <1>1, <1>4
  <2>2. (CHOOSE k \in names : r[k] = r[n]) \in names /\ r[CHOOSE k \in names : r[k] = r[n]] = r[n]
    OBVIOUS
  <2> QED
    BY <1>3, <2>1, <2>2
<1>6. \A o \in made' : \E n \in names : o = r[n]
  BY <1>1
<1>7. name' \in [Object -> Name]
  <2>1. name \in [Object -> Name]
    BY <1>2 DEF StoreTyped, Store!TypeOK
  <2>2. \A o \in made' : name'[o] \in Name
    BY <1>4, <1>5, <1>6
  <2>3. name' = [o \in Object |-> name'[o]] /\ \A o \in Object : o \notin made' => name'[o] = name[o]
    BY <1>1
  <2> QED
    BY <2>1, <2>2, <2>3
<1>8. StoreTyped'
  BY <1>1, <1>2, <1>4, <1>6, <1>7, StoreAssumption DEF StoreTyped, Store!TypeOK, Store!StoreAssumption
<1>9. \A o \in Object, m \in Member : groups'[o][m] = 0
  BY <1>1, <1>2 DEF ObjectsNamed
<1>10. ObjectsNamed'
  BY <1>1, <1>2, <1>4, <1>5, <1>6, <1>9 DEF ObjectsNamed
<1>11. ASSUME NEW n \in Name, n \notin marredC'
       PROVE  /\ WillList(n)' <=> channels'[n] # NoObject
              /\ \A m \in Member \ Sidless : WillHave(n, m)' <=> m \in Store!Members(n)'
  <2>1. writes' = <<>>
    BY <1>1, <1>2 DEF ObjectsNamed
  <2>2. WillList(n)' <=> n \in names
    BY <1>1, <2>1 DEF WillList, Kept, Untaken
  <2>3. \A m \in Member : WillHave(n, m)' <=> m \in members[n]
    BY <1>1, <2>1 DEF WillHave, Kept, Untaken
  <2>4. channels'[n] # NoObject <=> n \in names
    BY <1>1, <1>4, StoreAssumption DEF Store!StoreAssumption
  <2>5. members[n] \subseteq Sidless
    BY <1>1, <1>2, <1>11 DEF StoreFollows
  <2>6. Store!Members(n)' = {}
    BY <1>1, <1>4, <1>9 DEF Store!Members
  <2> QED
    BY <2>2, <2>3, <2>4, <2>5, <2>6
<1>12. StoreFollows'
  BY <1>1, <1>11 DEF StoreFollows
<1> QED
  BY <1>8, <1>10, <1>12 DEF StoreInv

LEMMA StoreInvStep == StoreInv /\ (Store!Next \/ UNCHANGED storeVars) => StoreInv'
<1> SUFFICES ASSUME StoreInv, Store!Next \/ UNCHANGED storeVars PROVE StoreInv'
  OBVIOUS
<1>1. CASE UNCHANGED storeVars
  <2>1. StoreTyped'
    BY <1>1 DEF storeVars, StoreInv, StoreTyped, Store!TypeOK
  <2>2. ObjectsNamed'
    BY <1>1 DEF storeVars, StoreInv, ObjectsNamed
  <2>3. \A n \in Name : Store!Members(n)' = Store!Members(n) /\ WillList(n)' = WillList(n)
    BY <1>1 DEF storeVars, Store!Members, WillList
  <2>4. \A n \in Name, m \in Member : WillHave(n, m)' = WillHave(n, m)
    BY <1>1 DEF storeVars, WillHave
  <2>5. StoreFollows'
    BY <1>1, <2>3, <2>4, Zenon DEF storeVars, StoreInv, StoreFollows
  <2> QED
    BY <2>1, <2>2, <2>5 DEF StoreInv
<1>2. ASSUME NEW n \in Name, Store!CreateChannel(n) PROVE StoreInv'
  BY <1>2, StoreCreate
<1>3. StoreTyped
  BY DEF StoreInv
<1>4. ASSUME NEW n \in Name, Store!DestroyByName(n) PROVE StoreInv'
  BY <1>3, <1>4, StoreDestroy DEF Store!DestroyByName, StoreTyped, Store!TypeOK
<1>5. ASSUME NEW o \in Object, Store!Destroy(o) PROVE StoreInv'
  BY <1>3, <1>5, StoreDestroy DEF Store!Destroy, Store!Stale, StoreTyped, Store!TypeOK
<1>6. ASSUME NEW o \in Object, NEW m \in Member, Store!Add(o, m) PROVE StoreInv'
  BY <1>6, StoreAdd
<1>7. ASSUME NEW o \in Object, NEW m \in Member, Store!Leave(o, m) PROVE StoreInv'
  BY <1>7, StoreLeave
<1> QED
  BY <1>1, <1>2, <1>4, <1>5, <1>6, <1>7, StoreWritten, StoreCrash, StoreStart DEF Store!Next

LEMMA StoreInvAgrees == StoreInv => Store!TypeOK /\ Store!StoreAgrees
<1> SUFFICES ASSUME StoreInv, up, writes = <<>>, NEW n \in Name \ marredC
             PROVE  /\ n \in names <=> channels[n] # NoObject
                    /\ members[n] \ Sidless = Store!Members(n)
  BY DEF StoreInv, StoreTyped, Store!StoreAgrees
<1>1. /\ WillList(n) <=> channels[n] # NoObject
      /\ \A m \in Member \ Sidless : WillHave(n, m) <=> m \in Store!Members(n)
  BY DEF StoreInv, StoreFollows
<1>2. /\ WillList(n) <=> n \in names
      /\ \A m \in Member : WillHave(n, m) <=> m \in members[n]
  BY DEF WillList, WillHave, Kept, Untaken
<1>3. members[n] \subseteq Member
  BY DEF StoreInv, StoreTyped, Store!TypeOK
<1>4. Store!Members(n) \subseteq Member \ Sidless
  BY DEF StoreInv, StoreTyped, Store!TypeOK, ObjectsNamed, Store!Members
<1> QED
  BY <1>1, <1>2, <1>3, <1>4

-----------------------------------------------------------------------------
(* Backend sessions.                                                       *)

CopyRecord == [of : Session, local : BOOLEAN, uid : Uid \cup {NoUid}, settings : [Key -> Value]]

\* A call is of a copy that is there, and names its session.
CallOfCopy(m) == copies[m.copy] # Backend!NoCopy /\ copies[m.copy].of = m.of

CallsNamed ==
  /\ \A m \in calls : CallOfCopy(m)
  /\ \A a \in answers : CallOfCopy(a.call)

\* A bind that has not failed has bound, for as long as nobody unbinds.
BindsAgree ==
  \A a \in answers : ~ a.err /\ a.call.op = "bind" =>
    uidB[a.call.of] = a.call.uid \/ a.call.of \in unbound

BackendInv ==
  /\ Backend!TypeOK
  /\ CallsNamed
  /\ BindsAgree
  /\ Backend!CopiesAgree
  /\ Backend!OneSessionPerUser

LEMMA CopyIsNot ==
  ASSUME NEW r \in CopyRecord
  PROVE  r # Backend!NoCopy
<1>1. "local" \in DOMAIN r
  BY DEF CopyRecord
<1>2. "local" \notin DOMAIN Backend!NoCopy
  BY DEF Backend!NoCopy
<1> QED
  BY <1>1, <1>2

LEMMA CopyParts ==
  ASSUME Backend!TypeOK, NEW c \in Copy, copies[c] # Backend!NoCopy
  PROVE  /\ copies[c] \in CopyRecord
         /\ copies[c].of \in Session /\ copies[c].uid \in Uid \cup {NoUid}
         /\ copies[c].settings \in [Key -> Value] /\ copies[c].local \in BOOLEAN
<1>1. copies[c] \in CopyRecord
  BY DEF Backend!TypeOK, CopyRecord
<1> QED
  BY <1>1 DEF CopyRecord

LEMMA CallParts ==
  ASSUME NEW m \in Backend!Call
  PROVE  /\ m.copy \in Copy /\ m.of \in Session
         /\ m.op \in {"bind", "unbind", "push", "pushAll"}
         /\ m.op \in {"bind", "unbind"} => m.uid \in Uid
         /\ m.op = "push" => m.key \in Key /\ m.value \in Value
BY DEF Backend!Call

LEMMA BackendInvInit == Backend!Init => BackendInv
<1> SUFFICES ASSUME Backend!Init PROVE BackendInv
  OBVIOUS
<1>1. settings \in [Session -> [Key -> Value]]
  BY DEF Backend!Init
<1>2. Backend!TypeOK
  BY <1>1 DEF Backend!Init, Backend!TypeOK
<1>3. CallsNamed /\ BindsAgree
  BY DEF Backend!Init, CallsNamed, BindsAgree
<1>4. Backend!CopiesAgree
  BY DEF Backend!Init, Backend!CopiesAgree
<1>5. Backend!OneSessionPerUser
  BY DEF Backend!Init, Backend!OneSessionPerUser
<1> QED
  BY <1>2, <1>3, <1>4, <1>5 DEF BackendInv

\* A copy is made, or one of its fields written.
LEMMA CopyWritten ==
  ASSUME Backend!TypeOK, NEW c \in Copy, NEW r \in CopyRecord, copies' = [copies EXCEPT ![c] = r]
  PROVE  /\ copies' \in [Copy -> {Backend!NoCopy} \cup CopyRecord]
         /\ copies'[c] = r /\ r # Backend!NoCopy
         /\ \A d \in Copy : d # c => copies'[d] = copies[d]
BY CopyIsNot DEF Backend!TypeOK, CopyRecord

\* The other copies, and the users of sessions, are as they were.
LEMMA CopyKept ==
  ASSUME BackendInv, NEW c \in Copy, NEW r \in CopyRecord, copies' = [copies EXCEPT ![c] = r],
         copies[c] # Backend!NoCopy => r.of = copies[c].of,
         r.uid \in {NoUid, uidB[r.of]} \/ r.of \in unbound
           \/ (copies[c] # Backend!NoCopy /\ r.uid = copies[c].uid),
         answers' \subseteq answers, calls' \subseteq calls,
         UNCHANGED <<openB, uidB, settings, unbound>>
  PROVE  BackendInv'
<1>1. /\ copies' \in [Copy -> {Backend!NoCopy} \cup CopyRecord]
      /\ copies'[c] = r /\ r # Backend!NoCopy
      /\ \A d \in Copy : d # c => copies'[d] = copies[d]
  BY CopyWritten DEF BackendInv
<1>2. Backend!TypeOK'
  BY <1>1 DEF BackendInv, Backend!TypeOK, CopyRecord, Backend!NoCopy, Backend!Call
<1>3. ASSUME NEW m \in Backend!Call, CallOfCopy(m)
      PROVE  CallOfCopy(m)'
  <2>1. m.copy \in Copy
    BY CallParts
  <2> QED
    BY <1>1, <1>3, <2>1 DEF CallOfCopy, Backend!NoCopy
<1>4. CallsNamed'
  <2>1. ASSUME NEW m \in calls' PROVE CallOfCopy(m)'
    BY <1>3 DEF BackendInv, Backend!TypeOK, CallsNamed
  <2>2. ASSUME NEW a \in answers' PROVE CallOfCopy(a.call)'
    BY <1>3 DEF BackendInv, Backend!TypeOK, CallsNamed
  <2> QED
    BY <2>1, <2>2 DEF CallsNamed, CallOfCopy
<1>5. BindsAgree'
  BY DEF BackendInv, BindsAgree
<1>6. Backend!CopiesAgree'
  <2> SUFFICES ASSUME NEW d \in Copy, copies'[d] # Backend!NoCopy
               PROVE  copies'[d].uid \in {NoUid, uidB[copies'[d].of]} \/ copies'[d].of \in unbound
    BY DEF Backend!CopiesAgree, Backend!NoCopy
  <2>1. CASE d # c
    BY <1>1, <2>1 DEF BackendInv, Backend!CopiesAgree
  <2>2. CASE d = c
    BY <1>1, <2>2 DEF BackendInv, Backend!CopiesAgree
  <2> QED
    BY <2>1, <2>2
<1>7. Backend!OneSessionPerUser'
  BY DEF BackendInv, Backend!OneSessionPerUser
<1> QED
  BY <1>2, <1>4, <1>5, <1>6, <1>7 DEF BackendInv

LEMMA BackendGet ==
  ASSUME BackendInv, NEW c \in Copy, NEW s \in Session, NEW l \in BOOLEAN, Backend!Get(c, s, l)
  PROVE  BackendInv'
<1> DEFINE r == [of |-> s, local |-> l, uid |-> uidB[s], settings |-> settings[s]]
<1>1. r \in CopyRecord /\ r.of = s /\ r.uid = uidB[s]
  BY DEF CopyRecord, BackendInv, Backend!TypeOK
<1>2. copies' = [copies EXCEPT ![c] = r] /\ copies[c] = Backend!NoCopy
      /\ UNCHANGED <<openB, uidB, settings, calls, answers, unbound>>
  BY DEF Backend!Get
<1> HIDE DEF r
<1> QED
  BY <1>1, <1>2, CopyKept

LEMMA BackendSet ==
  ASSUME BackendInv, NEW c \in Copy, NEW k \in Key, NEW v \in Value, Backend!SetSetting(c, k, v)
  PROVE  BackendInv'
<1> DEFINE o == copies[c]
           e == [o.settings EXCEPT ![k] = v]
           r == [o EXCEPT !.settings = e]
<1>1. copies[c] # Backend!NoCopy /\ UNCHANGED <<openB, uidB, settings, calls, answers, unbound>>
  BY DEF Backend!SetSetting
<1>2. copies' = [copies EXCEPT ![c] = r]
  BY DEF Backend!SetSetting
<1>3. o \in CopyRecord /\ o.settings \in [Key -> Value]
  BY <1>1, CopyParts DEF BackendInv
<1>4. e \in [Key -> Value]
  BY <1>3
<1> HIDE DEF e
<1>5. r \in CopyRecord /\ r.of = o.of /\ r.uid = o.uid
  <2> HIDE DEF o
  <2> QED
    BY <1>3, <1>4 DEF CopyRecord
<1>6. r.of = copies[c].of /\ r.uid = copies[c].uid
  BY <1>5
<1> HIDE DEF r, o
<1> QED
  BY <1>1, <1>2, <1>5, <1>6, CopyKept

\* A call is sent.
LEMMA BackendInvoke ==
  ASSUME BackendInv, NEW m \in Backend!Call, CallOfCopy(m), Backend!Invoke(m)
  PROVE  BackendInv'
<1>1. calls' = calls \cup {m} /\ UNCHANGED <<openB, uidB, settings, copies, answers, unbound>>
  BY DEF Backend!Invoke
<1>2. Backend!TypeOK'
  BY <1>1 DEF BackendInv, Backend!TypeOK, Backend!Call, Backend!NoCopy
<1>3. CallsNamed'
  BY <1>1 DEF BackendInv, CallsNamed, CallOfCopy, Backend!NoCopy
<1>4. BindsAgree'
  BY <1>1 DEF BackendInv, BindsAgree
<1>5. Backend!CopiesAgree' /\ Backend!OneSessionPerUser'
  BY <1>1 DEF BackendInv, Backend!CopiesAgree, Backend!OneSessionPerUser, Backend!NoCopy
<1> QED
  BY <1>2, <1>3, <1>4, <1>5 DEF BackendInv

LEMMA BackendCalls ==
  ASSUME BackendInv, NEW c \in Copy,
         \/ \E u \in Uid, op \in {"bind", "unbind"} : Backend!CallBind(c, op, u)
         \/ \E k \in Key : Backend!CallPush(c, k)
         \/ Backend!CallPushAll(c)
  PROVE  BackendInv'
<1>1. copies[c] # Backend!NoCopy
  BY DEF Backend!CallBind, Backend!CallPush, Backend!CallPushAll
<1>2. copies[c].of \in Session /\ copies[c].settings \in [Key -> Value]
  BY <1>1, CopyParts DEF BackendInv
<1>3. ASSUME NEW u \in Uid, NEW op \in {"bind", "unbind"}, Backend!CallBind(c, op, u)
      PROVE  BackendInv'
  <2> DEFINE m == [copy |-> c, of |-> copies[c].of, op |-> op, uid |-> u]
  <2>1. m \in Backend!Call /\ CallOfCopy(m)
    BY <1>1, <1>2 DEF Backend!Call, CallOfCopy
  <2>2. Backend!Invoke(m)
    BY <1>3 DEF Backend!CallBind
  <2> HIDE DEF m
  <2> QED
    BY <2>1, <2>2, BackendInvoke
<1>4. ASSUME NEW k \in Key, Backend!CallPush(c, k)
      PROVE  BackendInv'
  <2> DEFINE m == [copy |-> c, of |-> copies[c].of, op |-> "push", key |-> k,
                   value |-> copies[c].settings[k]]
  <2>1. m \in Backend!Call /\ CallOfCopy(m)
    BY <1>1, <1>2 DEF Backend!Call, CallOfCopy
  <2>2. Backend!Invoke(m)
    BY <1>4 DEF Backend!CallPush
  <2> HIDE DEF m
  <2> QED
    BY <2>1, <2>2, BackendInvoke
<1>5. ASSUME Backend!CallPushAll(c)
      PROVE  BackendInv'
  <2> DEFINE m == [copy |-> c, of |-> copies[c].of, op |-> "pushAll"]
  <2>1. m \in Backend!Call /\ CallOfCopy(m)
    BY <1>1, <1>2 DEF Backend!Call, CallOfCopy
  <2>2. Backend!Invoke(m)
    BY <1>5 DEF Backend!CallPushAll
  <2> HIDE DEF m
  <2> QED
    BY <2>1, <2>2, BackendInvoke
<1> QED
  BY <1>3, <1>4, <1>5

\* The user of a session changes as bind and unbind let it.
Bound(s, u) == ~ Backend!BindFails(s, u) /\ uidB' = [uidB EXCEPT ![s] = u] /\ unbound' = unbound
Unbound(s, u) ==
  /\ ~ Backend!UnbindFails(s, u)
  /\ uidB' = [uidB EXCEPT ![s] = NoUid] /\ unbound' = unbound \cup {s}

\* Of each session the user is as it was, or it had none, or it has been unbound.
LEMMA UsersChange ==
  ASSUME Backend!TypeOK, Backend!OneSessionPerUser, NEW s \in Session, NEW u \in Uid,
         Bound(s, u) \/ Unbound(s, u), openB' = openB
  PROVE  /\ uidB' \in [Session -> Uid \cup {NoUid}] /\ unbound \subseteq unbound'
         /\ unbound' \subseteq Session
         /\ \A t \in Session : uidB'[t] = uidB[t] \/ uidB[t] = NoUid \/ t \in unbound'
         /\ Bound(s, u) => uidB'[s] = u
         /\ Unbound(s, u) => uidB'[s] = NoUid
         /\ Backend!OneSessionPerUser'
<1>1. uidB \in [Session -> Uid \cup {NoUid}] /\ openB \subseteq Session /\ unbound \subseteq Session
  BY DEF Backend!TypeOK
<1>2. NoUid \notin Uid
  BY BackendAssumption DEF Backend!ConstantsAssumption
<1>3. CASE Bound(s, u)
  <2>1. \A t \in Session : uidB'[t] = IF t = s THEN u ELSE uidB[t]
    BY <1>1, <1>3 DEF Bound
  <2>2. uidB[s] \in {NoUid, u} /\ (uidB[s] = NoUid /\ SingleSession => \A t \in openB : uidB[t] # u)
    BY <1>3 DEF Bound, Backend!BindFails
  <2>3. uidB' \in [Session -> Uid \cup {NoUid}] /\ unbound' = unbound
    BY <1>1, <1>3 DEF Bound
  <2>4. ASSUME SingleSession PROVE \A t, v \in openB : uidB'[t] = uidB'[v] /\ uidB'[t] # NoUid => t = v
    <3>1. \A t, v \in openB : uidB[t] = uidB[v] /\ uidB[t] # NoUid => t = v
      BY <2>4 DEF Backend!OneSessionPerUser
    <3>2. CASE uidB[s] = u
      BY <1>1, <2>1, <3>1, <3>2
    <3>3. CASE uidB[s] = NoUid
      BY <1>1, <2>1, <2>2, <2>4, <3>1, <3>3
    <3> QED
      BY <2>2, <3>2, <3>3
  <2>5. Backend!OneSessionPerUser'
    BY <2>4 DEF Backend!OneSessionPerUser
  <2>6. ~ Unbound(s, u)
    BY <1>1, <1>2, <2>1 DEF Unbound
  <2> QED
    BY <1>1, <1>3, <2>1, <2>2, <2>3, <2>5, <2>6
<1>4. CASE Unbound(s, u)
  <2>1. \A t \in Session : uidB'[t] = IF t = s THEN NoUid ELSE uidB[t]
    BY <1>1, <1>4 DEF Unbound
  <2>2. uidB' \in [Session -> Uid \cup {NoUid}] /\ unbound' = unbound \cup {s}
    BY <1>1, <1>4 DEF Unbound
  <2>3. ASSUME SingleSession PROVE \A t, v \in openB : uidB'[t] = uidB'[v] /\ uidB'[t] # NoUid => t = v
    BY <1>1, <2>1, <2>3 DEF Backend!OneSessionPerUser
  <2>4. Backend!OneSessionPerUser'
    BY <2>3 DEF Backend!OneSessionPerUser
  <2>5. ~ Bound(s, u)
    BY <1>1, <1>2, <2>1 DEF Bound
  <2> QED
    BY <1>1, <1>4, <2>1, <2>2, <2>4, <2>5
<1> QED
  BY <1>3, <1>4

\* A call runs at the frontend server, and is answered.
LEMMA BackendRuns ==
  ASSUME BackendInv, NEW m \in calls, Backend!Runs(m)
  PROVE  BackendInv'
<1>1. calls' = calls \ {m} /\ UNCHANGED <<openB, copies>>
  BY DEF Backend!Runs
<1>2. m \in Backend!Call /\ CallOfCopy(m)
  BY DEF BackendInv, Backend!TypeOK, CallsNamed
<1>3. /\ m.copy \in Copy /\ m.of \in Session
      /\ m.op \in {"bind", "unbind", "push", "pushAll"}
      /\ m.op \in {"bind", "unbind"} => m.uid \in Uid
      /\ m.op = "push" => m.key \in Key /\ m.value \in Value
  BY <1>2, CallParts
<1>4. PICK err \in BOOLEAN :
        /\ answers' = answers \cup {[call |-> m, err |-> err]}
        /\ \/ UNCHANGED <<uidB, unbound>> /\ (m.op = "bind" => err)
           \/ m.op = "bind" /\ Bound(m.of, m.uid) /\ UNCHANGED settings
           \/ m.op = "unbind" /\ Unbound(m.of, m.uid) /\ UNCHANGED settings
  <2>1. CASE Backend!Bind(m)
    <3> DEFINE e == Backend!BindFails(m.of, m.uid)
    <3>1. e \in BOOLEAN
      BY DEF Backend!BindFails
    <3>2. answers' = answers \cup {[call |-> m, err |-> e]} /\ m.op = "bind"
      BY <2>1 DEF Backend!Bind, Backend!Answer
    <3>3. CASE e
      BY <2>1, <3>1, <3>2, <3>3 DEF Backend!Bind
    <3>4. CASE ~ e
      BY <2>1, <3>1, <3>2, <3>4 DEF Backend!Bind, Bound
    <3> QED
      BY <3>3, <3>4
  <2>2. CASE Backend!Unbind(m)
    <3> DEFINE e == Backend!UnbindFails(m.of, m.uid)
    <3>1. e \in BOOLEAN
      BY DEF Backend!UnbindFails
    <3>2. answers' = answers \cup {[call |-> m, err |-> e]} /\ m.op = "unbind"
      BY <2>2 DEF Backend!Unbind, Backend!Answer
    <3>3. CASE e
      BY <2>2, <3>1, <3>2, <3>3 DEF Backend!Unbind
    <3>4. CASE ~ e
      BY <2>2, <3>1, <3>2, <3>4 DEF Backend!Unbind, Unbound
    <3> QED
      BY <3>3, <3>4
  <2>3. CASE Backend!Import(m) \/ Backend!ImportAll(m)
    <3> DEFINE e == m.of \notin openB
    <3>1. e \in BOOLEAN
      OBVIOUS
    <3>2. answers' = answers \cup {[call |-> m, err |-> e]} /\ m.op # "bind" /\ UNCHANGED <<uidB, unbound>>
      BY <2>3 DEF Backend!Import, Backend!ImportAll, Backend!Answer
    <3> QED
      BY <3>1, <3>2
  <2> QED
    BY <2>1, <2>2, <2>3 DEF Backend!Runs
<1>5. settings' \in [Session -> [Key -> Value]]
  <2>1. settings \in [Session -> [Key -> Value]]
    BY DEF BackendInv, Backend!TypeOK
  <2>2. CASE Backend!Import(m)
    BY <1>3, <2>1, <2>2 DEF Backend!Import, Backend!Set
  <2>3. CASE Backend!ImportAll(m)
    <3>1. copies[m.copy].settings \in [Key -> Value]
      BY <1>2, <1>3, CopyParts DEF BackendInv, CallOfCopy
    <3> QED
      BY <1>3, <2>1, <2>3, <3>1 DEF Backend!ImportAll
  <2> QED
    BY <2>1, <2>2, <2>3 DEF Backend!Runs, Backend!Bind, Backend!Unbind
<1>6. /\ uidB' \in [Session -> Uid \cup {NoUid}] /\ unbound \subseteq unbound'
      /\ unbound' \subseteq Session
      /\ \A t \in Session : uidB'[t] = uidB[t] \/ uidB[t] = NoUid \/ t \in unbound'
      /\ Backend!OneSessionPerUser'
      /\ m.op = "bind" /\ ~ err => uidB'[m.of] = m.uid
  <2>1. CASE UNCHANGED <<uidB, unbound>> /\ (m.op = "bind" => err)
    BY <1>1, <2>1 DEF BackendInv, Backend!TypeOK, Backend!OneSessionPerUser
  <2>2. CASE m.op = "bind" /\ Bound(m.of, m.uid)
    BY <1>1, <1>3, <2>2, UsersChange DEF BackendInv
  <2>3. CASE m.op = "unbind" /\ Unbound(m.of, m.uid)
    BY <1>1, <1>3, <2>3, UsersChange DEF BackendInv
  <2> QED
    BY <1>4, <2>1, <2>2, <2>3
<1> DEFINE n == [call |-> m, err |-> err]
<1>7. n \in [call : Backend!Call, err : BOOLEAN] /\ n.call = m /\ n.err = err
  BY <1>2
<1>8. answers' = answers \cup {n}
  BY <1>4
<1> HIDE DEF n
<1>9. Backend!TypeOK'
  BY <1>1, <1>5, <1>6, <1>7, <1>8 DEF BackendInv, Backend!TypeOK, Backend!NoCopy, Backend!Call
<1>10. CallsNamed'
  BY <1>1, <1>2, <1>7, <1>8 DEF BackendInv, CallsNamed, CallOfCopy, Backend!NoCopy
<1>11. BindsAgree'
  <2> SUFFICES ASSUME NEW a \in answers', ~ a.err, a.call.op = "bind"
               PROVE  uidB'[a.call.of] = a.call.uid \/ a.call.of \in unbound'
    BY DEF BindsAgree
  <2>1. CASE a = n
    BY <1>6, <1>7, <2>1
  <2>2. CASE a \in answers
    <3>1. a.call \in Backend!Call
      BY <2>2 DEF BackendInv, Backend!TypeOK
    <3>2. a.call.of \in Session /\ a.call.uid \in Uid
      BY <3>1, CallParts
    <3>3. uidB[a.call.of] = a.call.uid \/ a.call.of \in unbound
      BY <2>2 DEF BackendInv, BindsAgree
    <3>4. a.call.uid # NoUid
      BY <3>2, BackendAssumption DEF Backend!ConstantsAssumption
    <3> QED
      BY <1>6, <3>2, <3>3, <3>4
  <2> QED
    BY <1>8, <2>1, <2>2
<1>12. Backend!CopiesAgree'
  <2> SUFFICES ASSUME NEW c \in Copy, copies[c] # Backend!NoCopy
               PROVE  copies[c].uid \in {NoUid, uidB'[copies[c].of]} \/ copies[c].of \in unbound'
    BY <1>1 DEF Backend!CopiesAgree, Backend!NoCopy
  <2>1. copies[c].of \in Session
    BY CopyParts DEF BackendInv
  <2>2. copies[c].uid \in {NoUid, uidB[copies[c].of]} \/ copies[c].of \in unbound
    BY DEF BackendInv, Backend!CopiesAgree
  <2> QED
    BY <1>6, <2>1, <2>2
<1> QED
  BY <1>6, <1>9, <1>10, <1>11, <1>12 DEF BackendInv

\* The frontend server's own copy: the call runs, and the copy notes it.
LEMMA BackendLocal ==
  ASSUME BackendInv, NEW c \in Copy, Backend!FrontendSession(c)
  PROVE  BackendInv'
<1> DEFINE o == copies[c]
           s == o.of
<1>1. /\ o # Backend!NoCopy /\ UNCHANGED <<openB, calls, answers>>
      /\ o \in CopyRecord /\ s \in Session /\ o.settings \in [Key -> Value]
  BY CopyParts DEF Backend!FrontendSession, BackendInv
<1>2. CASE UNCHANGED <<uidB, copies, unbound>>
  <2>1. settings \in [Session -> [Key -> Value]]
    BY DEF BackendInv, Backend!TypeOK
  <2>2. settings' \in [Session -> [Key -> Value]]
    <3>1. CASE \E k \in Key : settings' = Backend!Set(s, k, o.settings[k])
      BY <1>1, <2>1, <3>1 DEF Backend!Set
    <3>2. CASE settings' = [settings EXCEPT ![s] = o.settings]
      BY <1>1, <2>1, <3>2
    <3>3. CASE UNCHANGED settings
      BY <2>1, <3>3
    <3> QED
      BY <3>1, <3>2, <3>3 DEF Backend!FrontendSession
  <2>3. Backend!TypeOK'
    BY <1>1, <1>2, <2>2 DEF BackendInv, Backend!TypeOK, Backend!NoCopy, Backend!Call
  <2>4. CallsNamed' /\ BindsAgree'
    BY <1>1, <1>2 DEF BackendInv, CallsNamed, CallOfCopy, BindsAgree, Backend!NoCopy
  <2>5. Backend!CopiesAgree' /\ Backend!OneSessionPerUser'
    BY <1>1, <1>2 DEF BackendInv, Backend!CopiesAgree, Backend!OneSessionPerUser, Backend!NoCopy
  <2> QED
    BY <2>3, <2>4, <2>5 DEF BackendInv
<1>3. ASSUME NEW u \in Uid, NEW v \in {u, NoUid}, UNCHANGED settings,
             copies' = [copies EXCEPT ![c].uid = v],
             (v = u /\ Bound(s, u)) \/ (v = NoUid /\ Unbound(s, u))
      PROVE  BackendInv'
  <2> DEFINE r == [o EXCEPT !.uid = v]
  <2>1. r \in CopyRecord /\ r.of = s /\ r.uid = v
    <3>1. o \in CopyRecord
      BY <1>1
    <3>2. v \in Uid \cup {NoUid}
      OBVIOUS
    <3> HIDE DEF o
    <3> QED
      BY <3>1, <3>2 DEF CopyRecord, s
  <2>2. copies' = [copies EXCEPT ![c] = r]
    BY <1>3
  <2> HIDE DEF r
  <2>3. /\ copies' \in [Copy -> {Backend!NoCopy} \cup CopyRecord]
        /\ copies'[c] = r /\ r # Backend!NoCopy
        /\ \A d \in Copy : d # c => copies'[d] = copies[d]
    BY <2>1, <2>2, CopyWritten DEF BackendInv
  <2>4. /\ uidB' \in [Session -> Uid \cup {NoUid}] /\ unbound \subseteq unbound'
        /\ unbound' \subseteq Session
        /\ \A t \in Session : uidB'[t] = uidB[t] \/ uidB[t] = NoUid \/ t \in unbound'
        /\ uidB'[s] = v
        /\ Backend!OneSessionPerUser'
    BY <1>1, <1>3, UsersChange DEF BackendInv
  <2>5. Backend!TypeOK'
    BY <1>1, <1>3, <2>3, <2>4 DEF BackendInv, Backend!TypeOK, CopyRecord, Backend!NoCopy, Backend!Call
  <2>6. ASSUME NEW m \in Backend!Call, CallOfCopy(m)
        PROVE  CallOfCopy(m)'
    <3>1. m.copy \in Copy
      BY CallParts
    <3> QED
      BY <2>1, <2>3, <2>6, <3>1 DEF CallOfCopy, Backend!NoCopy
  <2>7. CallsNamed'
    <3>1. ASSUME NEW m \in calls PROVE CallOfCopy(m)'
      BY <2>6 DEF BackendInv, Backend!TypeOK, CallsNamed
    <3>2. ASSUME NEW a \in answers PROVE CallOfCopy(a.call)'
      BY <2>6 DEF BackendInv, Backend!TypeOK, CallsNamed
    <3> QED
      BY <1>1, <3>1, <3>2 DEF CallsNamed, CallOfCopy
  <2>8. BindsAgree'
    <3> SUFFICES ASSUME NEW a \in answers, ~ a.err, a.call.op = "bind"
                 PROVE  uidB'[a.call.of] = a.call.uid \/ a.call.of \in unbound'
      BY <1>1 DEF BindsAgree
    <3>1. a.call \in Backend!Call
      BY DEF BackendInv, Backend!TypeOK
    <3>2. a.call.of \in Session /\ a.call.uid \in Uid
      BY <3>1, CallParts
    <3>3. uidB[a.call.of] = a.call.uid \/ a.call.of \in unbound
      BY DEF BackendInv, BindsAgree
    <3>4. a.call.uid # NoUid
      BY <3>2, BackendAssumption DEF Backend!ConstantsAssumption
    <3> QED
      BY <2>4, <3>2, <3>3, <3>4
  <2>9. Backend!CopiesAgree'
    <3> SUFFICES ASSUME NEW d \in Copy, copies'[d] # Backend!NoCopy
                 PROVE  copies'[d].uid \in {NoUid, uidB'[copies'[d].of]} \/ copies'[d].of \in unbound'
      BY DEF Backend!CopiesAgree, Backend!NoCopy
    <3>1. CASE d = c
      BY <2>1, <2>3, <2>4, <3>1
    <3>2. CASE d # c
      <4>1. copies'[d] = copies[d] /\ copies[d].of \in Session
        BY <2>3, <3>2, CopyParts DEF BackendInv
      <4>2. copies[d].uid \in {NoUid, uidB[copies[d].of]} \/ copies[d].of \in unbound
        BY <4>1 DEF BackendInv, Backend!CopiesAgree
      <4> QED
        BY <2>4, <4>1, <4>2
    <3> QED
      BY <3>1, <3>2
  <2> QED
    BY <2>4, <2>5, <2>7, <2>8, <2>9 DEF BackendInv
<1>4. \/ UNCHANGED <<uidB, copies, unbound>>
      \/ /\ UNCHANGED settings
         /\ \E u \in Uid : \/ Bound(s, u) /\ copies' = [copies EXCEPT ![c].uid = u]
                           \/ Unbound(s, u) /\ copies' = [copies EXCEPT ![c].uid = NoUid]
  BY DEF Backend!FrontendSession, Bound, Unbound
<1>5. CASE /\ UNCHANGED settings
           /\ \E u \in Uid : \/ Bound(s, u) /\ copies' = [copies EXCEPT ![c].uid = u]
                             \/ Unbound(s, u) /\ copies' = [copies EXCEPT ![c].uid = NoUid]
  BY <1>3, <1>5
<1> QED
  BY <1>2, <1>4, <1>5

LEMMA BackendClosed ==
  ASSUME BackendInv, NEW S, Backend!Closed(S)
  PROVE  BackendInv'
<1>1. openB' = openB \ S /\ UNCHANGED <<uidB, settings, copies, calls, answers, unbound>>
  BY DEF Backend!Closed
<1>2. Backend!TypeOK'
  BY <1>1 DEF BackendInv, Backend!TypeOK, Backend!NoCopy, Backend!Call
<1>3. CallsNamed' /\ BindsAgree'
  BY <1>1 DEF BackendInv, CallsNamed, CallOfCopy, BindsAgree, Backend!NoCopy
<1>4. Backend!CopiesAgree' /\ Backend!OneSessionPerUser'
  BY <1>1 DEF BackendInv, Backend!CopiesAgree, Backend!OneSessionPerUser, Backend!NoCopy
<1> QED
  BY <1>2, <1>3, <1>4 DEF BackendInv

\* The answer arrives: a bind or unbind that has not failed is noted in the copy.
LEMMA BackendCallback ==
  ASSUME BackendInv, NEW a \in answers, Backend!Callback(a)
  PROVE  BackendInv'
<1> DEFINE m == a.call
           c == a.call.copy
           o == copies[c]
           v == Backend!Noted(a)
           r == IF a.call.op \in {"bind", "unbind"} THEN [o EXCEPT !.uid = v] ELSE o
<1>1. a.call \in Backend!Call /\ CallOfCopy(m) /\ a.err \in BOOLEAN
  BY DEF BackendInv, Backend!TypeOK, CallsNamed
<1>2. /\ c \in Copy /\ m.of \in Session /\ m.op \in {"bind", "unbind", "push", "pushAll"}
      /\ m.op \in {"bind", "unbind"} => m.uid \in Uid
      /\ o # Backend!NoCopy /\ o.of = m.of
  BY <1>1, CallParts DEF CallOfCopy
<1>3. o \in CopyRecord /\ o.uid \in Uid \cup {NoUid}
  BY <1>2, CopyParts DEF BackendInv
<1>4. m.op \in {"bind", "unbind"} =>
        /\ v \in Uid \cup {NoUid}
        /\ v \in {NoUid, uidB[m.of]} \/ m.of \in unbound \/ v = o.uid
  <2>1. CASE a.err
    BY <1>3, <2>1 DEF Backend!Noted
  <2>2. CASE ~ a.err /\ m.op = "bind"
    BY <1>2, <2>2 DEF Backend!Noted, BackendInv, BindsAgree
  <2>3. CASE ~ a.err /\ m.op = "unbind"
    BY <2>3 DEF Backend!Noted
  <2> QED
    BY <2>1, <2>2, <2>3
<1>5. r \in CopyRecord /\ r.of = o.of /\ (r.uid = o.uid \/ (m.op \in {"bind", "unbind"} /\ r.uid = v))
  <2>1. CASE m.op \in {"bind", "unbind"}
    <3>1. r = [o EXCEPT !.uid = v]
      BY <2>1
    <3>2. o \in CopyRecord /\ v \in Uid \cup {NoUid}
      BY <1>3, <1>4, <2>1
    <3> HIDE DEF o, v, r
    <3> QED
      BY <2>1, <3>1, <3>2 DEF CopyRecord
  <2>2. CASE m.op \notin {"bind", "unbind"}
    <3>1. r = o
      BY <2>2
    <3> QED
      BY <1>3, <3>1
  <2> QED
    BY <2>1, <2>2
<1>6. copies' = [copies EXCEPT ![c] = r]
  <2>1. CASE m.op \in {"bind", "unbind"}
    BY <2>1 DEF Backend!Callback
  <2>2. CASE m.op \notin {"bind", "unbind"}
    BY <1>2, <2>2 DEF Backend!Callback, BackendInv, Backend!TypeOK
  <2> QED
    BY <2>1, <2>2
<1>7. answers' \subseteq answers /\ UNCHANGED <<openB, uidB, settings, calls, unbound>>
  BY DEF Backend!Callback
<1>8. r.of = copies[c].of
  BY <1>5
<1>9. r.uid \in {NoUid, uidB[r.of]} \/ r.of \in unbound \/ r.uid = copies[c].uid
  BY <1>2, <1>4, <1>5
<1> HIDE DEF r, o, v
<1> QED
  BY <1>2, <1>5, <1>6, <1>7, <1>8, <1>9, CopyKept DEF o

LEMMA BackendFails ==
  ASSUME BackendInv, NEW m, Backend!RpcFails(m)
  PROVE  BackendInv'
<1>1. /\ calls' \subseteq calls /\ answers' \subseteq answers
      /\ UNCHANGED <<openB, uidB, settings, copies, unbound>>
  BY DEF Backend!RpcFails
<1>2. Backend!TypeOK'
  BY <1>1 DEF BackendInv, Backend!TypeOK, Backend!NoCopy, Backend!Call
<1>3. CallsNamed' /\ BindsAgree'
  BY <1>1 DEF BackendInv, CallsNamed, CallOfCopy, BindsAgree, Backend!NoCopy
<1>4. Backend!CopiesAgree' /\ Backend!OneSessionPerUser'
  BY <1>1 DEF BackendInv, Backend!CopiesAgree, Backend!OneSessionPerUser, Backend!NoCopy
<1> QED
  BY <1>2, <1>3, <1>4 DEF BackendInv

LEMMA BackendInvStep == BackendInv /\ (Backend!Next \/ UNCHANGED backendVars) => BackendInv'
<1> SUFFICES ASSUME BackendInv, Backend!Next \/ UNCHANGED backendVars PROVE BackendInv'
  OBVIOUS
<1>1. CASE UNCHANGED backendVars
  <2>1. Backend!TypeOK'
    BY <1>1 DEF backendVars, BackendInv, Backend!TypeOK, Backend!NoCopy, Backend!Call
  <2>2. CallsNamed' /\ BindsAgree'
    BY <1>1 DEF backendVars, BackendInv, CallsNamed, CallOfCopy, BindsAgree, Backend!NoCopy
  <2>3. Backend!CopiesAgree' /\ Backend!OneSessionPerUser'
    BY <1>1 DEF backendVars, BackendInv, Backend!CopiesAgree, Backend!OneSessionPerUser, Backend!NoCopy
  <2> QED
    BY <2>1, <2>2, <2>3 DEF BackendInv
<1>2. ASSUME NEW s \in Session, Backend!Close(s) PROVE BackendInv'
  BY <1>2, BackendClosed DEF Backend!Close
<1>3. ASSUME NEW u \in Uid, Backend!KickByUid(u) PROVE BackendInv'
  BY <1>3, BackendClosed DEF Backend!KickByUid
<1> QED
  BY <1>1, <1>2, <1>3, BackendGet, BackendSet, BackendCalls, BackendRuns, BackendLocal,
     BackendCallback, BackendFails DEF Backend!Next

-----------------------------------------------------------------------------
(* The status of users.                                                    *)

Adds(u) == {c \in Status!Command : c.op = "add" /\ c.uid = u}
Leaves(u) == {c \in Status!Command : c.op = "leave" /\ c.uid = u}

\* Redis will list the server for the user when the commands of the server have run.
WillBe(f, u) ==
  Kept(sentS[f], Adds(u), Leaves(u)) \/ (f \in redisS[u] /\ Untaken(sentS[f], Leaves(u)))

\* The queries of a push that redis has not answered.
Queries(ws) == {i \in 1 .. Len(ws) : ws[i].op = "get"}
Gets(f) == Queries(sentS[f])

UserPush == [by : Frontend, latch : Nat, records : SUBSET (StatusUid \X Frontend), errors : Nat, returns : Nat]

StatusTyped == Status!TypeOK /\ pushS \in {Status!NoPush} \cup UserPush

\* A server that is not started has no sessions and nothing on its way, and one that is
\* cleaning up has no sessions, and has sent nothing about users.
SessionsStarted ==
  /\ \A s \in Session \ open : uid[s] = NoUid
  /\ \A f \in Frontend : state[f] # "started" => sentS[f] = <<>>
  /\ \A s \in open : state[On[s]] = "started" /\ ~ Status!Cleaning(On[s])
  /\ \A f \in Frontend : Status!Cleaning(f) =>
       \A i \in 1 .. Len(sentS[f]) : sentS[f][i].op \in {"keys", "del", "get"}

\* What is not deleted did not list the server that deletes.
DeletesOwn ==
  \A f \in Frontend : \A i \in 1 .. Len(sentS[f]) : sentS[f][i].op = "del" =>
    \A u \in StatusUid \ sentS[f][i].uids : f \notin redisS[u]

StatusFollows ==
  \A f \in Frontend, u \in StatusUid : <<f, u>> \notin marred => (WillBe(f, u) <=> Status!Bound(f, u))

\* The latch counts the queries that were not answered, and those that failed.
LatchCounts ==
  \A f \in Frontend :
    IF pushS # Status!NoPush /\ pushS.by = f
      THEN /\ pushS.latch = Cardinality(Gets(f)) + pushS.errors
           /\ pushS.returns = pushS.errors + (IF pushS.latch = 0 THEN 1 ELSE 0)
      ELSE Gets(f) = {}

StatusInv == StatusTyped /\ SessionsStarted /\ DeletesOwn /\ StatusFollows /\ LatchCounts

LEMMA CommandParts ==
  ASSUME NEW c \in Status!Command
  PROVE  /\ c.op \in {"add", "leave", "get", "keys", "del"}
         /\ c.op \in {"add", "leave", "get"} => c.uid \in StatusUid
         /\ c.op = "del" => c.uids \in SUBSET StatusUid
BY DEF Status!Command

LEMMA CommandsAre ==
  /\ \A u \in StatusUid : \A op \in {"add", "leave", "get"} : [op |-> op, uid |-> u] \in Status!Command
  /\ [op |-> "keys"] \in Status!Command
  /\ \A us \in SUBSET StatusUid : [op |-> "del", uids |-> us] \in Status!Command
<1>1. ASSUME NEW u \in StatusUid, NEW op \in {"add", "leave", "get"}
      PROVE  [op |-> op, uid |-> u] \in Status!Command
  BY DEF Status!Command
<1>2. [op |-> "keys"] \in Status!Command
  BY DEF Status!Command
<1>3. ASSUME NEW us \in SUBSET StatusUid
      PROVE  [op |-> "del", uids |-> us] \in Status!Command
  BY DEF Status!Command
<1> QED
  BY <1>1, <1>2, <1>3

LEMMA StatusTypes ==
  ASSUME StatusTyped
  PROVE  /\ state \in [Frontend -> {"down", "inited", "started", "closed"}]
         /\ open \subseteq Session /\ uid \in [Session -> StatusUid \cup {NoUid}]
         /\ sentS \in [Frontend -> Seq(Status!Command)]
         /\ redisS \in [StatusUid -> SUBSET Frontend]
         /\ marred \subseteq Frontend \X StatusUid
         /\ pushS \in {Status!NoPush} \cup UserPush
BY DEF StatusTyped, Status!TypeOK

LEMMA StatusTypesAfter ==
  ASSUME state' \in [Frontend -> {"down", "inited", "started", "closed"}],
         open' \subseteq Session, uid' \in [Session -> StatusUid \cup {NoUid}],
         sentS' \in [Frontend -> Seq(Status!Command)],
         redisS' \in [StatusUid -> SUBSET Frontend],
         marred' \subseteq Frontend \X StatusUid,
         pushS' \in {Status!NoPush} \cup UserPush
  PROVE  StatusTyped'
<1>1. /\ Status!Command' = Status!Command
      /\ UserPush' = UserPush
      /\ Status!NoPush' = Status!NoPush
  BY DEF Status!Command, UserPush, Status!NoPush
<1> QED
  BY <1>1, Zenon DEF StatusTyped, Status!TypeOK

\* The commands of one server change.
LEMMA SentChanges ==
  ASSUME StatusTyped, NEW f \in Frontend, NEW cs \in Seq(Status!Command),
         sentS' = [sentS EXCEPT ![f] = cs]
  PROVE  /\ sentS' \in [Frontend -> Seq(Status!Command)]
         /\ sentS'[f] = cs
         /\ \A g \in Frontend : g # f => sentS'[g] = sentS[g]
BY StatusTypes

LEMMA SentOne ==
  ASSUME StatusTyped, NEW f \in Frontend, NEW c \in Status!Command, Status!Sent(f, <<c>>)
  PROVE  /\ sentS' \in [Frontend -> Seq(Status!Command)]
         /\ sentS'[f] = Append(sentS[f], c)
         /\ \A g \in Frontend : g # f => sentS'[g] = sentS[g]
<1>1. sentS[f] \in Seq(Status!Command)
  BY StatusTypes
<1>2. sentS[f] \o <<c>> = Append(sentS[f], c) /\ Append(sentS[f], c) \in Seq(Status!Command)
  BY <1>1
<1>3. sentS' = [sentS EXCEPT ![f] = Append(sentS[f], c)]
  BY <1>2 DEF Status!Sent
<1> QED
  BY <1>2, <1>3, SentChanges

LEMMA SentNone ==
  ASSUME StatusTyped, NEW f \in Frontend, Status!Sent(f, <<>>)
  PROVE  sentS' = sentS
<1>1. sentS[f] \in Seq(Status!Command) /\ sentS \in [Frontend -> Seq(Status!Command)]
  BY StatusTypes
<1>2. sentS[f] \o <<>> = sentS[f]
  BY <1>1
<1>3. sentS' = [sentS EXCEPT ![f] = sentS[f]]
  BY <1>2 DEF Status!Sent
<1> QED
  BY <1>1, <1>3

LEMMA CommandSets ==
  ASSUME NEW u \in StatusUid, NEW c \in Status!Command
  PROVE  /\ c \in Adds(u) <=> c.op = "add" /\ c.uid = u
         /\ c \in Leaves(u) <=> c.op = "leave" /\ c.uid = u
BY DEF Adds, Leaves

LEMMA CommandSetsKept ==
  ASSUME NEW u \in StatusUid
  PROVE  Adds(u)' = Adds(u) /\ Leaves(u)' = Leaves(u)
BY DEF Adds, Leaves, Status!Command

\* What a server will be listed for when nothing of it changes, when it sends one more
\* command, and when redis runs its first.
LEMMA WillBeSame ==
  ASSUME NEW f \in Frontend, NEW u \in StatusUid, sentS'[f] = sentS[f],
         f \in redisS'[u] <=> f \in redisS[u]
  PROVE  WillBe(f, u)' <=> WillBe(f, u)
BY CommandSetsKept DEF WillBe

LEMMA WillBeSent ==
  ASSUME StatusTyped, NEW f \in Frontend, NEW u \in StatusUid, NEW c \in Status!Command,
         sentS'[f] = Append(sentS[f], c), f \in redisS'[u] <=> f \in redisS[u]
  PROVE  WillBe(f, u)' <=> c \in Adds(u) \/ (c \notin Leaves(u) /\ WillBe(f, u))
<1>1. sentS[f] \in Seq(Status!Command)
  BY StatusTypes
<1>2. /\ Kept(sentS'[f], Adds(u), Leaves(u))
           <=> c \in Adds(u) \/ (c \notin Leaves(u) /\ Kept(sentS[f], Adds(u), Leaves(u)))
      /\ Untaken(sentS'[f], Leaves(u)) <=> c \notin Leaves(u) /\ Untaken(sentS[f], Leaves(u))
  BY <1>1, KeptAppend
<1> QED
  BY <1>2, CommandSetsKept DEF WillBe

LEMMA WillBeRun ==
  ASSUME StatusTyped, NEW f \in Frontend, NEW u \in StatusUid,
         sentS[f] # <<>>, sentS'[f] = Tail(sentS[f]),
         f \in redisS'[u] <=> Head(sentS[f]) \in Adds(u)
                                \/ (f \in redisS[u] /\ Head(sentS[f]) \notin Leaves(u))
  PROVE  WillBe(f, u)' <=> WillBe(f, u)
<1> DEFINE h == Head(sentS[f])
<1>1. sentS[f] \in Seq(Status!Command)
  BY StatusTypes
<1>2. /\ Kept(sentS[f], Adds(u), Leaves(u))
           <=> Kept(sentS'[f], Adds(u), Leaves(u)) \/ (h \in Adds(u) /\ Untaken(sentS'[f], Leaves(u)))
      /\ Untaken(sentS[f], Leaves(u)) <=> h \notin Leaves(u) /\ Untaken(sentS'[f], Leaves(u))
  BY <1>1, KeptTail
<1>3. f \in redisS'[u] <=> h \in Adds(u) \/ (f \in redisS[u] /\ h \notin Leaves(u))
  OBVIOUS
<1>4. ~ (h \in Adds(u) /\ h \in Leaves(u))
  BY DEF Adds, Leaves
<1> HIDE DEF h
<1> QED
  BY <1>2, <1>3, <1>4, CommandSetsKept DEF WillBe

\* The queries on their way.
LEMMA QueriesFinite ==
  ASSUME NEW ws \in Seq(Status!Command)
  PROVE  /\ IsFiniteSet(Queries(ws)) /\ Cardinality(Queries(ws)) \in Nat
         /\ Cardinality(Queries(ws)) = 0 <=> Queries(ws) = {}
<1>1. Len(ws) \in Int /\ Queries(ws) \subseteq 1 .. Len(ws)
  BY DEF Queries
<1>2. IsFiniteSet(1 .. Len(ws))
  BY <1>1, FS_Interval
<1>3. IsFiniteSet(Queries(ws))
  BY <1>1, <1>2, FS_Subset
<1> QED
  BY <1>3, FS_CardinalityType, FS_EmptySet

LEMMA QueriesAppend ==
  ASSUME NEW ws \in Seq(Status!Command), NEW c \in Status!Command
  PROVE  /\ c.op # "get" => Queries(Append(ws, c)) = Queries(ws)
         /\ c.op = "get" => Cardinality(Queries(Append(ws, c))) = Cardinality(Queries(ws)) + 1
<1> DEFINE n == Len(ws)
           vs == Append(ws, c)
<1>1. /\ n \in Nat /\ Len(vs) = n + 1 /\ vs[n + 1] = c
      /\ \A i \in 1 .. n : vs[i] = ws[i]
  OBVIOUS
<1>2. /\ \A i : i \in 1 .. n + 1 <=> i \in 1 .. n \/ i = n + 1
      /\ n + 1 \notin 1 .. n
  BY <1>1
<1>3. n = Len(ws) /\ n + 1 \notin Queries(ws)
  BY <1>2 DEF Queries
<1> HIDE DEF n, vs
<1>4. Queries(vs) = Queries(ws) \cup (IF c.op = "get" THEN {n + 1} ELSE {})
  BY <1>1, <1>2, <1>3 DEF Queries
<1>5. Cardinality(Queries(ws) \cup {n + 1}) = Cardinality(Queries(ws)) + 1
  BY <1>3, QueriesFinite, FS_AddElement
<1> QED
  BY <1>4, <1>5 DEF vs

LEMMA QueriesTail ==
  ASSUME NEW ws \in Seq(Status!Command), ws # <<>>
  PROVE  /\ Head(ws).op # "get" => Cardinality(Queries(Tail(ws))) = Cardinality(Queries(ws))
                                     /\ (Queries(ws) = {} => Queries(Tail(ws)) = {})
         /\ Head(ws).op = "get" => Cardinality(Queries(Tail(ws))) = Cardinality(Queries(ws)) - 1
                                     /\ Queries(ws) # {}
<1> DEFINE vs == Tail(ws)
           n == Len(vs)
           h == Head(ws)
           S == Queries(vs)
           T == {i + 1 : i \in S}
<1>1. /\ n \in Nat /\ Len(ws) = n + 1 /\ ws[1] = h /\ vs \in Seq(Status!Command)
      /\ \A i \in 1 .. n : vs[i] = ws[i + 1]
  OBVIOUS
<1>2. /\ \A i \in 1 .. n + 1 : i = 1 \/ (i - 1 \in 1 .. n /\ i = (i - 1) + 1 /\ i > 1)
      /\ \A i \in 1 .. n : i + 1 \in 1 .. n + 1 /\ i + 1 > 1
      /\ 1 \in 1 .. n + 1
  BY <1>1
<1>3. S = {i \in 1 .. n : vs[i].op = "get"}
  BY DEF Queries
<1>4. Queries(ws) = {i \in 1 .. n + 1 : ws[i].op = "get"}
  BY <1>1 DEF Queries
<1>5. IsFiniteSet(S)
  BY <1>1, QueriesFinite
<1> HIDE DEF vs, n, h, S
<1>6. S \subseteq Nat /\ 1 \notin T
  BY <1>1, <1>2, <1>3
<1>7. IsFiniteSet(T) /\ Cardinality(T) = Cardinality(S)
  <2> DEFINE b == [i \in S |-> i + 1]
  <2>1. T = {i + 1 : i \in S}
    OBVIOUS
  <2> HIDE DEF T
  <2>2. b \in Bijection(S, T)
    <3>1. \A i \in S : i + 1 \in T
      BY <2>1
    <3>2. \A t \in T : \E i \in S : t = i + 1
      BY <2>1
    <3>3. b \in [S -> T] /\ \A i, j \in S : b[i] = b[j] => i = j
      BY <1>6, <3>1
    <3>4. \A t \in T : \E i \in S : b[i] = t
      BY <3>2
    <3> HIDE DEF b
    <3> QED
      BY <3>3, <3>4 DEF Bijection, Injection, Surjection, IsInjective
  <2> QED
    BY <1>5, <2>2, FS_Bijection DEF ExistsBijection
<1>8. Queries(ws) = T \cup (IF h.op = "get" THEN {1} ELSE {})
  <2>1. ASSUME NEW i \in Queries(ws) PROVE i \in T \cup (IF h.op = "get" THEN {1} ELSE {})
    <3>1. i \in 1 .. n + 1 /\ ws[i].op = "get"
      BY <1>4
    <3>2. CASE i = 1
      BY <1>1, <3>1, <3>2
    <3>3. CASE i # 1
      <4> DEFINE k == i - 1
      <4>1. k \in 1 .. n /\ i = k + 1
        BY <1>2, <3>1, <3>3
      <4>2. k \in S
        BY <1>1, <1>3, <3>1, <4>1
      <4> QED
        BY <4>1, <4>2
    <3> QED
      BY <3>2, <3>3
  <2>2. ASSUME NEW i \in T PROVE i \in Queries(ws)
    <3>1. PICK k \in S : i = k + 1
      OBVIOUS
    <3>2. k \in 1 .. n /\ vs[k].op = "get"
      BY <1>3
    <3> QED
      BY <1>1, <1>2, <1>4, <3>1, <3>2
  <2>3. h.op = "get" => 1 \in Queries(ws)
    BY <1>1, <1>2, <1>4
  <2> QED
    BY <2>1, <2>2, <2>3
<1> HIDE DEF T
<1>9. CASE h.op = "get"
  <2>1. Queries(ws) = T \cup {1}
    BY <1>8, <1>9
  <2>2. Cardinality(Queries(ws)) = Cardinality(T) + 1 /\ Cardinality(T) \in Nat
    BY <1>6, <1>7, <2>1, FS_AddElement, FS_CardinalityType
  <2>3. Cardinality(S) = Cardinality(Queries(ws)) - 1
    BY <1>7, <2>2
  <2> QED
    BY <1>9, <2>1, <2>3 DEF h, S, vs
<1>10. CASE h.op # "get"
  <2>1. Queries(ws) = T
    BY <1>8, <1>10
  <2>2. Queries(ws) = {} => S = {}
    BY <2>1 DEF T
  <2> QED
    BY <1>7, <1>10, <2>1, <2>2 DEF h, S, vs
<1> QED
  BY <1>9, <1>10 DEF h

LEMMA GetsFinite ==
  ASSUME StatusTyped, NEW f \in Frontend
  PROVE  Cardinality(Gets(f)) \in Nat /\ (Cardinality(Gets(f)) = 0 <=> Gets(f) = {})
BY StatusTypes, QueriesFinite DEF Gets

LEMMA GetsSent ==
  ASSUME StatusTyped, NEW f \in Frontend, NEW c \in Status!Command, c.op # "get",
         sentS'[f] = Append(sentS[f], c)
  PROVE  Gets(f)' = Gets(f)
<1>1. sentS[f] \in Seq(Status!Command)
  BY StatusTypes
<1> QED
  BY <1>1, QueriesAppend DEF Gets, Queries

LEMMA StatusInvInit == Status!Init => StatusInv
<1> SUFFICES ASSUME Status!Init PROVE StatusInv
  OBVIOUS
<1>1. /\ state = [f \in Frontend |-> "down"] /\ open = {} /\ uid = [s \in Session |-> NoUid]
      /\ sentS = [f \in Frontend |-> <<>>] /\ redisS = [u \in StatusUid |-> {}]
      /\ marred = {} /\ pushS = Status!NoPush
  BY DEF Status!Init
<1>2. StatusTyped
  BY <1>1 DEF StatusTyped, Status!TypeOK
<1>3. SessionsStarted
  BY <1>1 DEF SessionsStarted, Status!Cleaning
<1>4. DeletesOwn
  BY <1>1 DEF DeletesOwn
<1>5. StatusFollows
  <2>1. \A f \in Frontend, u \in StatusUid : ~ WillBe(f, u)
    BY <1>1, KeptEmpty DEF WillBe
  <2> QED
    BY <1>1, <2>1 DEF StatusFollows, Status!Bound
<1>6. LatchCounts
  BY <1>1 DEF LatchCounts, Gets, Queries
<1> QED
  BY <1>2, <1>3, <1>4, <1>5, <1>6 DEF StatusInv

\* The commands of a server after one more, and when its first has run.
LEMMA CommandsSent ==
  ASSUME StatusTyped, NEW f \in Frontend, NEW c \in Status!Command,
         sentS'[f] = Append(sentS[f], c)
  PROVE  /\ \A i \in 1 .. Len(sentS'[f]) :
              sentS'[f][i] = c \/ \E j \in 1 .. Len(sentS[f]) : sentS'[f][i] = sentS[f][j]
         /\ \A j \in 1 .. Len(sentS[f]) : \E i \in 1 .. Len(sentS'[f]) : sentS'[f][i] = sentS[f][j]
         /\ \E i \in 1 .. Len(sentS'[f]) : sentS'[f][i] = c
<1> DEFINE n == Len(sentS[f])
<1>1. sentS[f] \in Seq(Status!Command)
  BY StatusTypes
<1>2. /\ n \in Nat /\ Len(sentS'[f]) = n + 1 /\ sentS'[f][n + 1] = c
      /\ \A i \in 1 .. n : sentS'[f][i] = sentS[f][i]
  BY <1>1
<1>3. \A i : i \in 1 .. n + 1 <=> i \in 1 .. n \/ i = n + 1
  BY <1>2
<1>4. n = Len(sentS[f])
  OBVIOUS
<1> HIDE DEF n
<1> QED
  BY <1>2, <1>3, <1>4

LEMMA CommandsRun ==
  ASSUME StatusTyped, NEW f \in Frontend, sentS[f] # <<>>, sentS'[f] = Tail(sentS[f])
  PROVE  /\ \A i \in 1 .. Len(sentS'[f]) : \E j \in 1 .. Len(sentS[f]) : sentS'[f][i] = sentS[f][j]
         /\ \E j \in 1 .. Len(sentS[f]) : sentS[f][j] = Head(sentS[f])
         /\ Head(sentS[f]) \in Status!Command
<1> DEFINE n == Len(sentS'[f])
<1>1. sentS[f] \in Seq(Status!Command)
  BY StatusTypes
<1>2. /\ n \in Nat /\ Len(sentS[f]) = n + 1 /\ sentS[f][1] = Head(sentS[f])
      /\ Head(sentS[f]) \in Status!Command
      /\ \A i \in 1 .. n : sentS'[f][i] = sentS[f][i + 1]
  BY <1>1
<1>3. /\ \A i \in 1 .. n : i + 1 \in 1 .. n + 1
      /\ 1 \in 1 .. n + 1
  BY <1>2
<1> QED
  BY <1>2, <1>3

\* Frames.
LEMMA DeletesSame ==
  ASSUME DeletesOwn, sentS' = sentS, redisS' = redisS
  PROVE  DeletesOwn'
BY DEF DeletesOwn

LEMMA DeletesSent ==
  ASSUME StatusTyped, DeletesOwn, NEW f \in Frontend, NEW c \in Status!Command, c.op # "del",
         sentS'[f] = Append(sentS[f], c), \A g \in Frontend : g # f => sentS'[g] = sentS[g],
         redisS' = redisS
  PROVE  DeletesOwn'
<1> SUFFICES ASSUME NEW g \in Frontend, NEW i \in 1 .. Len(sentS'[g]), sentS'[g][i].op = "del",
                    NEW u \in StatusUid \ sentS'[g][i].uids
             PROVE  g \notin redisS[u]
  BY DEF DeletesOwn
<1>1. CASE g = f
  <2>1. i \in 1 .. Len(sentS'[f]) /\ sentS'[f][i].op = "del"
    BY <1>1
  <2>2. \E j \in 1 .. Len(sentS[f]) : sentS'[f][i] = sentS[f][j]
    BY <2>1, CommandsSent
  <2> QED
    BY <1>1, <2>1, <2>2 DEF DeletesOwn
<1>2. CASE g # f
  BY <1>2 DEF DeletesOwn
<1> QED
  BY <1>1, <1>2

LEMMA LatchSame ==
  ASSUME LatchCounts, \A f \in Frontend : Gets(f)' = Gets(f), pushS' = pushS
  PROVE  LatchCounts'
BY DEF LatchCounts, Status!NoPush

LEMMA LatchSent ==
  ASSUME StatusTyped, LatchCounts, NEW f \in Frontend, NEW c \in Status!Command, c.op # "get",
         sentS'[f] = Append(sentS[f], c), \A g \in Frontend : g # f => sentS'[g] = sentS[g],
         pushS' = pushS
  PROVE  LatchCounts'
<1>1. \A g \in Frontend : Gets(g)' = Gets(g)
  BY GetsSent DEF Gets, Queries
<1> QED
  BY <1>1, LatchSame

LEMMA StatusStart ==
  ASSUME StatusInv, NEW f \in Frontend, Status!Start(f)
  PROVE  StatusInv'
<1>1. /\ state[f] = "down" /\ state' = [state EXCEPT ![f] = "inited"]
      /\ UNCHANGED <<open, uid, sentS, redisS, marred, pushS>>
  BY DEF Status!Start, Status!session
<1>2. StatusTyped /\ SessionsStarted /\ DeletesOwn /\ StatusFollows /\ LatchCounts
  BY DEF StatusInv
<1>3. StatusTyped'
  BY <1>1, <1>2, StatusTypes, StatusTypesAfter
<1>4. \A g \in Frontend : state'[g] = IF g = f THEN "inited" ELSE state[g]
  BY <1>1, <1>2, StatusTypes
<1>5. SessionsStarted'
  <2>1. \A s \in open : state'[On[s]] = state[On[s]]
    BY <1>1, <1>2 DEF SessionsStarted
  <2> QED
    BY <1>1, <1>2, <1>4, <2>1 DEF SessionsStarted, Status!Cleaning
<1>6. StatusFollows'
  <2>1. ASSUME NEW g \in Frontend, NEW u \in StatusUid
        PROVE  /\ WillBe(g, u)' <=> WillBe(g, u)
               /\ Status!Bound(g, u)' = Status!Bound(g, u)
    BY <1>1, WillBeSame DEF Status!Bound
  <2> QED
    BY <1>1, <1>2, <2>1 DEF StatusFollows
<1>7. DeletesOwn' /\ LatchCounts'
  BY <1>1, <1>2, DeletesSame, LatchSame DEF Gets, Queries
<1> QED
  BY <1>3, <1>5, <1>6, <1>7 DEF StatusInv

\* The connection is ready: a server that cleans up asks for the keys.
LEMMA StatusReady ==
  ASSUME StatusInv, NEW f \in Frontend, Status!Ready(f)
  PROVE  StatusInv'
<1> DEFINE c == [op |-> "keys"]
<1>1. /\ state[f] = "inited" /\ state' = [state EXCEPT ![f] = "started"]
      /\ UNCHANGED <<open, uid, redisS, marred, pushS>>
      /\ Status!Sent(f, <<c>>) \/ Status!Sent(f, <<>>)
  BY DEF Status!Ready, Status!session
<1>2. StatusTyped /\ SessionsStarted /\ DeletesOwn /\ StatusFollows /\ LatchCounts
  BY DEF StatusInv
<1>3. c \in Status!Command /\ c.op = "keys"
  BY CommandsAre
<1>4. \A g \in Frontend : state'[g] = IF g = f THEN "started" ELSE state[g]
  BY <1>1, <1>2, StatusTypes
<1>5. \A s \in open : On[s] \in Frontend /\ On[s] # f
  BY <1>1, <1>2, StatusTypes, StatusAssumption DEF SessionsStarted, Status!ConstantsAssumption
<1>6. \A g \in Frontend, u \in StatusUid : Status!Bound(g, u)' = Status!Bound(g, u)
  BY <1>1 DEF Status!Bound
<1>7. sentS[f] = <<>>
  BY <1>1, <1>2 DEF SessionsStarted
<1>8. CASE Status!Sent(f, <<>>)
  <2>1. sentS' = sentS
    BY <1>2, <1>8, SentNone
  <2>2. StatusTyped'
    BY <1>1, <1>2, <2>1, StatusTypes, StatusTypesAfter
  <2>3. SessionsStarted'
    BY <1>1, <1>2, <1>4, <1>5, <2>1 DEF SessionsStarted, Status!Cleaning
  <2>4. StatusFollows'
    BY <1>1, <1>2, <1>6, <2>1, WillBeSame DEF StatusFollows
  <2>5. DeletesOwn' /\ LatchCounts'
    BY <1>1, <1>2, <2>1, DeletesSame, LatchSame DEF Gets, Queries
  <2> QED
    BY <2>2, <2>3, <2>4, <2>5 DEF StatusInv
<1>9. CASE Status!Sent(f, <<c>>)
  <2>1. /\ sentS' \in [Frontend -> Seq(Status!Command)]
        /\ sentS'[f] = Append(sentS[f], c)
        /\ \A g \in Frontend : g # f => sentS'[g] = sentS[g]
    BY <1>2, <1>3, <1>9, SentOne
  <2> HIDE DEF c
  <2>2. StatusTyped'
    BY <1>1, <1>2, <2>1, StatusTypes, StatusTypesAfter
  <2>3. Len(sentS'[f]) = 1 /\ sentS'[f][1] = c
    BY <1>7, <2>1
  <2>4. SessionsStarted'
    BY <1>1, <1>2, <1>3, <1>4, <1>5, <2>1, <2>3 DEF SessionsStarted, Status!Cleaning
  <2>5. ASSUME NEW g \in Frontend, NEW u \in StatusUid
        PROVE  WillBe(g, u)' <=> WillBe(g, u)
    <3>1. CASE g = f
      <4>1. c \notin Adds(u) /\ c \notin Leaves(u)
        BY <1>3, CommandSets
      <4> QED
        BY <1>1, <1>2, <1>3, <2>1, <3>1, <4>1, WillBeSent
    <3>2. CASE g # f
      BY <1>1, <2>1, <3>2, WillBeSame
    <3> QED
      BY <3>1, <3>2
  <2>6. StatusFollows'
    BY <1>1, <1>2, <1>6, <2>5 DEF StatusFollows
  <2>7. DeletesOwn' /\ LatchCounts'
    BY <1>1, <1>2, <1>3, <2>1, DeletesSent, LatchSent
  <2> QED
    BY <2>2, <2>4, <2>6, <2>7 DEF StatusInv
<1> QED
  BY <1>1, <1>8, <1>9

\* A server stops or crashes.
LEMMA StatusGone ==
  ASSUME StatusInv, NEW f \in Frontend, NEW d \in {"closed", "down"},
         state' = [state EXCEPT ![f] = d], Status!Gone(f)
  PROVE  StatusInv'
<1>1. /\ open' = {s \in open : On[s] # f}
      /\ uid' = [s \in Session |-> IF On[s] = f THEN NoUid ELSE uid[s]]
      /\ sentS' = [sentS EXCEPT ![f] = <<>>]
      /\ marred' = marred \cup ({f} \X StatusUid)
      /\ pushS' = IF pushS.by = f THEN Status!NoPush ELSE pushS
      /\ UNCHANGED redisS
  BY DEF Status!Gone
<1>2. StatusTyped /\ SessionsStarted /\ DeletesOwn /\ StatusFollows /\ LatchCounts
  BY DEF StatusInv
<1>3. /\ sentS' \in [Frontend -> Seq(Status!Command)]
      /\ sentS'[f] = <<>>
      /\ \A g \in Frontend : g # f => sentS'[g] = sentS[g]
  <2>1. <<>> \in Seq(Status!Command)
    OBVIOUS
  <2> QED
    BY <1>1, <1>2, <2>1, SentChanges
<1>4. StatusTyped'
  <2>1. /\ state' \in [Frontend -> {"down", "inited", "started", "closed"}]
        /\ open' \subseteq Session /\ uid' \in [Session -> StatusUid \cup {NoUid}]
    BY <1>1, <1>2, StatusTypes
  <2>2. marred' \subseteq Frontend \X StatusUid /\ redisS' \in [StatusUid -> SUBSET Frontend]
    BY <1>1, <1>2, StatusTypes
  <2>3. pushS' \in {Status!NoPush} \cup UserPush
    BY <1>1, <1>2, StatusTypes
  <2> QED
    BY <1>3, <2>1, <2>2, <2>3, StatusTypesAfter
<1>5. \A g \in Frontend : state'[g] = IF g = f THEN d ELSE state[g]
  BY <1>2, StatusTypes
<1>6. \A s \in Session : On[s] \in Frontend
  BY StatusAssumption DEF Status!ConstantsAssumption
<1>7. SessionsStarted'
  <2>1. \A s \in Session \ open' : uid'[s] = NoUid
    BY <1>1, <1>2 DEF SessionsStarted
  <2>2. \A g \in Frontend : state'[g] # "started" => sentS'[g] = <<>>
    BY <1>2, <1>3, <1>5 DEF SessionsStarted
  <2>3. \A s \in open' : state'[On[s]] = "started" /\ ~ Status!Cleaning(On[s])'
    <3> SUFFICES ASSUME NEW s \in open, On[s] # f
                 PROVE  state'[On[s]] = "started" /\ ~ Status!Cleaning(On[s])'
      BY <1>1
    <3>1. On[s] \in Frontend
      BY <1>2, <1>6, StatusTypes
    <3>2. state[On[s]] = "started" /\ ~ Status!Cleaning(On[s])
      BY <1>2 DEF SessionsStarted
    <3>3. state'[On[s]] = state[On[s]] /\ sentS'[On[s]] = sentS[On[s]]
      BY <1>3, <1>5, <3>1
    <3> QED
      BY <3>2, <3>3 DEF Status!Cleaning
  <2>4. \A g \in Frontend : Status!Cleaning(g)' =>
          \A i \in 1 .. Len(sentS'[g]) : sentS'[g][i].op \in {"keys", "del", "get"}
    BY <1>2, <1>3 DEF SessionsStarted, Status!Cleaning
  <2> QED
    BY <2>1, <2>2, <2>3, <2>4 DEF SessionsStarted, Status!Cleaning
<1>8. StatusFollows'
  <2> SUFFICES ASSUME NEW g \in Frontend, NEW u \in StatusUid, <<g, u>> \notin marred'
               PROVE  WillBe(g, u)' <=> Status!Bound(g, u)'
    BY DEF StatusFollows
  <2>1. g # f /\ <<g, u>> \notin marred
    BY <1>1
  <2>2. WillBe(g, u)' <=> WillBe(g, u)
    BY <1>1, <1>3, <2>1, WillBeSame
  <2>3. Status!Bound(g, u)' <=> Status!Bound(g, u)
    BY <1>1, <1>2, <2>1, StatusTypes DEF Status!Bound
  <2> QED
    BY <1>2, <2>1, <2>2, <2>3 DEF StatusFollows
<1>9. DeletesOwn'
  BY <1>1, <1>2, <1>3 DEF DeletesOwn
<1>10. LatchCounts'
  <2>1. Gets(f)' = {}
    BY <1>3 DEF Gets, Queries
  <2>2. \A g \in Frontend : g # f => Gets(g)' = Gets(g)
    BY <1>3 DEF Gets, Queries
  <2>3. CASE pushS.by = f
    BY <1>1, <1>2, <2>1, <2>2, <2>3 DEF LatchCounts, Status!NoPush
  <2>4. CASE pushS.by # f
    BY <1>1, <1>2, <2>1, <2>2, <2>4 DEF LatchCounts, Status!NoPush
  <2> QED
    BY <2>3, <2>4
<1> QED
  BY <1>4, <1>7, <1>8, <1>9, <1>10 DEF StatusInv

\* The sessions of a server change, and nothing that is on its way.
LEMMA StatusOpens ==
  ASSUME StatusInv, NEW s \in Session, Status!Opens(s)
  PROVE  StatusInv'
<1>1. /\ s \notin open /\ uid[s] = NoUid
      /\ state[On[s]] = "started" /\ ~ Status!Cleaning(On[s])
      /\ open' = open \cup {s}
      /\ UNCHANGED <<state, uid, sentS, redisS, marred, pushS>>
  BY DEF Status!Opens
<1>2. StatusTyped /\ SessionsStarted /\ DeletesOwn /\ StatusFollows /\ LatchCounts
  BY DEF StatusInv
<1>3. StatusTyped'
  BY <1>1, <1>2, StatusTypes, StatusTypesAfter
<1>4. SessionsStarted'
  BY <1>1, <1>2 DEF SessionsStarted, Status!Cleaning
<1>5. ASSUME NEW g \in Frontend, NEW u \in StatusUid
      PROVE  Status!Bound(g, u)' = Status!Bound(g, u)
  BY <1>1, StatusAssumption DEF Status!Bound, Status!ConstantsAssumption
<1>6. StatusFollows'
  BY <1>1, <1>2, <1>5, WillBeSame DEF StatusFollows
<1>7. DeletesOwn' /\ LatchCounts'
  BY <1>1, <1>2, DeletesSame, LatchSame DEF Gets, Queries
<1> QED
  BY <1>3, <1>4, <1>6, <1>7 DEF StatusInv

LEMMA StatusUnbinds ==
  ASSUME StatusInv, NEW s \in Session, Status!Unbinds(s)
  PROVE  StatusInv'
<1>1. /\ s \in open /\ uid[s] # NoUid
      /\ uid' = [uid EXCEPT ![s] = NoUid]
      /\ marred' = marred \cup {<<On[s], uid[s]>>}
      /\ UNCHANGED <<state, open, sentS, redisS, pushS>>
  BY DEF Status!Unbinds
<1>2. StatusTyped /\ SessionsStarted /\ DeletesOwn /\ StatusFollows /\ LatchCounts
  BY DEF StatusInv
<1>3. On[s] \in Frontend /\ uid[s] \in StatusUid
  BY <1>1, <1>2, StatusTypes, StatusAssumption DEF Status!ConstantsAssumption
<1>4. \A t \in Session : uid'[t] = IF t = s THEN NoUid ELSE uid[t]
  BY <1>1, <1>2, StatusTypes
<1>5. StatusTyped'
  <2>1. uid' \in [Session -> StatusUid \cup {NoUid}] /\ marred' \subseteq Frontend \X StatusUid
    BY <1>1, <1>2, <1>3, StatusTypes
  <2> QED
    BY <1>1, <1>2, <2>1, StatusTypes, StatusTypesAfter
<1>6. SessionsStarted'
  BY <1>1, <1>2, <1>4 DEF SessionsStarted, Status!Cleaning
<1>7. StatusFollows'
  <2> SUFFICES ASSUME NEW g \in Frontend, NEW u \in StatusUid, <<g, u>> \notin marred'
               PROVE  WillBe(g, u)' <=> Status!Bound(g, u)'
    BY DEF StatusFollows
  <2>1. <<g, u>> \notin marred /\ ~ (g = On[s] /\ u = uid[s])
    BY <1>1
  <2>2. u # NoUid /\ open \subseteq Session
    BY <1>2, StatusTypes, StatusAssumption DEF Status!ConstantsAssumption
  <2>3. Status!Bound(g, u)' <=> Status!Bound(g, u)
    BY <1>1, <1>4, <2>1, <2>2 DEF Status!Bound
  <2>4. WillBe(g, u)' <=> WillBe(g, u)
    BY <1>1, WillBeSame
  <2> QED
    BY <1>2, <2>1, <2>3, <2>4 DEF StatusFollows
<1>8. DeletesOwn' /\ LatchCounts'
  BY <1>1, <1>2, DeletesSame, LatchSame DEF Gets, Queries
<1> QED
  BY <1>5, <1>6, <1>7, <1>8 DEF StatusInv

\* A session binds: its server adds itself to what redis has of the user.
LEMMA StatusBinds ==
  ASSUME StatusInv, NEW s \in Session, NEW u \in StatusUid, Status!BindSession(s, u)
  PROVE  StatusInv'
<1> DEFINE f == On[s]
           c == [op |-> "add", uid |-> u]
<1>1. /\ s \in open /\ uid[s] = NoUid /\ uid' = [uid EXCEPT ![s] = u]
      /\ Status!Sent(f, <<c>>)
      /\ UNCHANGED <<state, open, redisS, marred, pushS>>
  BY DEF Status!BindSession
<1>2. StatusTyped /\ SessionsStarted /\ DeletesOwn /\ StatusFollows /\ LatchCounts
  BY DEF StatusInv
<1>3. f \in Frontend /\ c \in Status!Command /\ c.op = "add" /\ c.uid = u
  BY CommandsAre, StatusAssumption DEF Status!ConstantsAssumption
<1>4. /\ sentS' \in [Frontend -> Seq(Status!Command)]
      /\ sentS'[f] = Append(sentS[f], c)
      /\ \A g \in Frontend : g # f => sentS'[g] = sentS[g]
  BY <1>1, <1>2, <1>3, SentOne
<1>5. \A t \in Session : uid'[t] = IF t = s THEN u ELSE uid[t]
  BY <1>1, <1>2, StatusTypes
<1> HIDE DEF c
<1>6. StatusTyped'
  <2>1. uid' \in [Session -> StatusUid \cup {NoUid}]
    BY <1>1, <1>2, StatusTypes
  <2> QED
    BY <1>1, <1>2, <1>4, <2>1, StatusTypes, StatusTypesAfter
<1>7. state[f] = "started" /\ ~ Status!Cleaning(f)
  BY <1>1, <1>2 DEF SessionsStarted
<1>8. /\ ~ Status!Cleaning(f)'
      /\ \A g \in Frontend : g # f => Status!Cleaning(g)' = Status!Cleaning(g)
  <2>1. ~ Status!Cleaning(f)'
    <3> SUFFICES ASSUME NEW i \in 1 .. Len(sentS'[f]), sentS'[f][i].op \in {"keys", "del"} PROVE FALSE
      BY DEF Status!Cleaning
    <3>1. sentS'[f][i] = c \/ \E j \in 1 .. Len(sentS[f]) : sentS'[f][i] = sentS[f][j]
      BY <1>2, <1>3, <1>4, CommandsSent
    <3> QED
      BY <1>3, <1>7, <3>1 DEF Status!Cleaning
  <2> QED
    BY <1>4, <2>1 DEF Status!Cleaning
<1>9. SessionsStarted'
  <2>1. \A t \in Session \ open' : uid'[t] = NoUid
    BY <1>1, <1>2, <1>5 DEF SessionsStarted
  <2>2. \A g \in Frontend : state'[g] # "started" => sentS'[g] = <<>>
    BY <1>1, <1>2, <1>4, <1>7 DEF SessionsStarted
  <2>3. ASSUME NEW t \in open' PROVE state'[On[t]] = "started" /\ ~ Status!Cleaning(On[t])'
    <3>1. On[t] \in Frontend
      BY <1>1, <1>2, StatusTypes, StatusAssumption DEF Status!ConstantsAssumption
    <3>2. state[On[t]] = "started" /\ ~ Status!Cleaning(On[t])
      BY <1>1, <1>2 DEF SessionsStarted
    <3>3. CASE On[t] = f
      BY <1>1, <1>8, <3>2, <3>3 DEF Status!Cleaning
    <3>4. CASE On[t] # f
      BY <1>1, <1>4, <3>1, <3>2, <3>4 DEF Status!Cleaning
    <3> QED
      BY <3>3, <3>4
  <2>4. \A g \in Frontend : Status!Cleaning(g)' =>
          \A i \in 1 .. Len(sentS'[g]) : sentS'[g][i].op \in {"keys", "del", "get"}
    BY <1>2, <1>4, <1>8 DEF SessionsStarted
  <2> QED
    BY <2>1, <2>2, <2>3, <2>4 DEF SessionsStarted, Status!Cleaning
<1>10. StatusFollows'
  <2> SUFFICES ASSUME NEW g \in Frontend, NEW v \in StatusUid, <<g, v>> \notin marred
               PROVE  WillBe(g, v)' <=> Status!Bound(g, v)'
    BY <1>1 DEF StatusFollows
  <2>1. WillBe(g, v) <=> Status!Bound(g, v)
    BY <1>2 DEF StatusFollows
  <2>2. v # NoUid /\ open \subseteq Session
    BY <1>2, StatusTypes, StatusAssumption DEF Status!ConstantsAssumption
  <2>3. CASE g = f /\ v = u
    <3>1. Status!Bound(g, v)'
      BY <1>1, <1>5, <2>3 DEF Status!Bound
    <3>2. c \in Adds(v)
      BY <1>3, <2>3, CommandSets
    <3>3. WillBe(g, v)'
      BY <1>1, <1>2, <1>3, <1>4, <2>3, <3>2, WillBeSent
    <3> QED
      BY <3>1, <3>3
  <2>4. CASE ~ (g = f /\ v = u)
    <3>1. Status!Bound(g, v)' <=> Status!Bound(g, v)
      BY <1>1, <1>5, <2>2, <2>4 DEF Status!Bound
    <3>2. WillBe(g, v)' <=> WillBe(g, v)
      <4>1. CASE g = f
        <5>1. c \notin Adds(v) /\ c \notin Leaves(v)
          BY <1>3, <2>4, <4>1, CommandSets
        <5> QED
          BY <1>1, <1>2, <1>3, <1>4, <4>1, <5>1, WillBeSent
      <4>2. CASE g # f
        BY <1>1, <1>4, <4>2, WillBeSame
      <4> QED
        BY <4>1, <4>2
    <3> QED
      BY <2>1, <3>1, <3>2
  <2> QED
    BY <2>3, <2>4
<1>11. DeletesOwn' /\ LatchCounts'
  BY <1>1, <1>2, <1>3, <1>4, DeletesSent, LatchSent
<1> QED
  BY <1>6, <1>9, <1>10, <1>11 DEF StatusInv

\* A session closes: its server leaves the set of the user, unless the user has another
\* session there.
LEMMA StatusCloses ==
  ASSUME StatusInv, NEW s \in Session, Status!CloseSession(s)
  PROVE  StatusInv'
<1> DEFINE f == On[s]
           c == [op |-> "leave", uid |-> uid[s]]
           none == uid[s] = NoUid \/ Status!Stays(s)
<1>1. /\ s \in open /\ open' = open \ {s} /\ uid' = [uid EXCEPT ![s] = NoUid]
      /\ Status!Sent(f, IF none THEN <<>> ELSE <<c>>)
      /\ UNCHANGED <<state, redisS, marred, pushS>>
  BY DEF Status!CloseSession
<1>2. StatusTyped /\ SessionsStarted /\ DeletesOwn /\ StatusFollows /\ LatchCounts
  BY DEF StatusInv
<1>3. f \in Frontend /\ uid[s] \in StatusUid \cup {NoUid} /\ open \subseteq Session
  BY <1>2, StatusTypes, StatusAssumption DEF Status!ConstantsAssumption
<1>4. \A t \in Session : uid'[t] = IF t = s THEN NoUid ELSE uid[t]
  BY <1>1, <1>2, StatusTypes
<1>5. uid' \in [Session -> StatusUid \cup {NoUid}]
  BY <1>1, <1>2, StatusTypes
<1>6. state[f] = "started" /\ ~ Status!Cleaning(f)
  BY <1>1, <1>2 DEF SessionsStarted
<1>7. CASE none
  <2>1. sentS' = sentS
    BY <1>1, <1>2, <1>3, <1>7, SentNone
  <2>2. StatusTyped'
    BY <1>1, <1>2, <1>5, <2>1, StatusTypes, StatusTypesAfter
  <2>3. SessionsStarted'
    BY <1>1, <1>2, <1>4, <2>1 DEF SessionsStarted, Status!Cleaning
  <2>4. ASSUME NEW g \in Frontend, NEW v \in StatusUid
        PROVE  Status!Bound(g, v)' <=> Status!Bound(g, v)
    <3>1. v # NoUid
      BY StatusAssumption DEF Status!ConstantsAssumption
    <3>2. Status!Bound(g, v)' => Status!Bound(g, v)
      BY <1>1, <1>3, <1>4, <3>1 DEF Status!Bound
    <3>3. Status!Bound(g, v) => Status!Bound(g, v)'
      BY <1>1, <1>3, <1>4, <1>7, <3>1 DEF Status!Bound, Status!Stays, Status!Another
    <3> QED
      BY <3>2, <3>3
  <2>5. StatusFollows'
    BY <1>1, <1>2, <2>1, <2>4, WillBeSame DEF StatusFollows
  <2>6. DeletesOwn' /\ LatchCounts'
    BY <1>1, <1>2, <2>1, DeletesSame, LatchSame DEF Gets, Queries
  <2> QED
    BY <2>2, <2>3, <2>5, <2>6 DEF StatusInv
<1>8. CASE ~ none
  <2>1. uid[s] \in StatusUid /\ c \in Status!Command /\ c.op = "leave" /\ c.uid = uid[s]
    BY <1>3, <1>8, CommandsAre
  <2>2. Status!Sent(f, <<c>>)
    BY <1>1, <1>8
  <2>3. ~ \E t \in open \ {s} : On[t] = f /\ uid[t] = uid[s]
    BY <1>8 DEF Status!Stays, Status!Another
  <2> HIDE DEF c, none
  <2>4. /\ sentS' \in [Frontend -> Seq(Status!Command)]
        /\ sentS'[f] = Append(sentS[f], c)
        /\ \A g \in Frontend : g # f => sentS'[g] = sentS[g]
    BY <1>2, <1>3, <2>1, <2>2, SentOne
  <2>5. StatusTyped'
    <3>1. open' \subseteq Session
      BY <1>1, <1>3
    <3> QED
      BY <1>1, <1>2, <1>5, <2>4, <3>1, StatusTypes, StatusTypesAfter
  <2>6. /\ ~ Status!Cleaning(f)'
        /\ \A g \in Frontend : g # f => Status!Cleaning(g)' = Status!Cleaning(g)
    <3>1. ~ Status!Cleaning(f)'
      <4> SUFFICES ASSUME NEW i \in 1 .. Len(sentS'[f]), sentS'[f][i].op \in {"keys", "del"} PROVE FALSE
        BY DEF Status!Cleaning
      <4>1. sentS'[f][i] = c \/ \E j \in 1 .. Len(sentS[f]) : sentS'[f][i] = sentS[f][j]
        BY <1>2, <1>3, <2>1, <2>4, CommandsSent
      <4> QED
        BY <1>6, <2>1, <4>1 DEF Status!Cleaning
    <3> QED
      BY <2>4, <3>1 DEF Status!Cleaning
  <2>7. SessionsStarted'
    <3>1. \A t \in Session \ open' : uid'[t] = NoUid
      BY <1>1, <1>2, <1>4 DEF SessionsStarted
    <3>2. \A g \in Frontend : state'[g] # "started" => sentS'[g] = <<>>
      BY <1>1, <1>2, <1>6, <2>4 DEF SessionsStarted
    <3>3. ASSUME NEW t \in open' PROVE state'[On[t]] = "started" /\ ~ Status!Cleaning(On[t])'
      <4>1. On[t] \in Frontend
        BY <1>1, <1>3, StatusAssumption DEF Status!ConstantsAssumption
      <4>2. state[On[t]] = "started" /\ ~ Status!Cleaning(On[t])
        BY <1>1, <1>2 DEF SessionsStarted
      <4>3. CASE On[t] = f
        BY <1>1, <2>6, <4>2, <4>3 DEF Status!Cleaning
      <4>4. CASE On[t] # f
        BY <1>1, <2>4, <4>1, <4>2, <4>4 DEF Status!Cleaning
      <4> QED
        BY <4>3, <4>4
    <3>4. \A g \in Frontend : Status!Cleaning(g)' =>
            \A i \in 1 .. Len(sentS'[g]) : sentS'[g][i].op \in {"keys", "del", "get"}
      BY <1>2, <2>4, <2>6 DEF SessionsStarted
    <3> QED
      BY <3>1, <3>2, <3>3, <3>4 DEF SessionsStarted, Status!Cleaning
  <2>8. StatusFollows'
    <3> SUFFICES ASSUME NEW g \in Frontend, NEW v \in StatusUid, <<g, v>> \notin marred
                 PROVE  WillBe(g, v)' <=> Status!Bound(g, v)'
      BY <1>1 DEF StatusFollows
    <3>1. WillBe(g, v) <=> Status!Bound(g, v)
      BY <1>2 DEF StatusFollows
    <3>2. v # NoUid
      BY StatusAssumption DEF Status!ConstantsAssumption
    <3>3. CASE g = f /\ v = uid[s]
      <4>1. ~ Status!Bound(g, v)'
        BY <1>1, <1>3, <1>4, <2>3, <3>2, <3>3 DEF Status!Bound
      <4>2. c \in Leaves(v) /\ c \notin Adds(v)
        BY <2>1, <3>3, CommandSets
      <4>3. ~ WillBe(g, v)'
        BY <1>1, <1>2, <1>3, <2>1, <2>4, <3>3, <4>2, WillBeSent
      <4> QED
        BY <4>1, <4>3
    <3>4. CASE ~ (g = f /\ v = uid[s])
      <4>1. Status!Bound(g, v)' <=> Status!Bound(g, v)
        BY <1>1, <1>3, <1>4, <3>2, <3>4 DEF Status!Bound
      <4>2. WillBe(g, v)' <=> WillBe(g, v)
        <5>1. CASE g = f
          <6>1. c \notin Adds(v) /\ c \notin Leaves(v)
            BY <2>1, <3>4, <5>1, CommandSets
          <6> QED
            BY <1>1, <1>2, <1>3, <2>1, <2>4, <5>1, <6>1, WillBeSent
        <5>2. CASE g # f
          BY <1>1, <2>4, <5>2, WillBeSame
        <5> QED
          BY <5>1, <5>2
      <4> QED
        BY <3>1, <4>1, <4>2
    <3> QED
      BY <3>3, <3>4
  <2>9. DeletesOwn' /\ LatchCounts'
    BY <1>1, <1>2, <1>3, <2>1, <2>4, DeletesSent, LatchSent
  <2> QED
    BY <2>5, <2>7, <2>8, <2>9 DEF StatusInv
<1> QED
  BY <1>7, <1>8

\* Redis runs the first command of a server.
LEMMA DeletesFrom ==
  ASSUME DeletesOwn, NEW f \in Frontend,
         \A i \in 1 .. Len(sentS'[f]) : sentS'[f][i].op = "del" =>
           \E j \in 1 .. Len(sentS[f]) : sentS'[f][i] = sentS[f][j],
         \A g \in Frontend : g # f => sentS'[g] = sentS[g],
         \A g \in Frontend, u \in StatusUid : g \notin redisS[u] => g \notin redisS'[u]
  PROVE  DeletesOwn'
<1> SUFFICES ASSUME NEW g \in Frontend, NEW i \in 1 .. Len(sentS'[g]), sentS'[g][i].op = "del",
                    NEW u \in StatusUid \ sentS'[g][i].uids
             PROVE  g \notin redisS[u]
  BY DEF DeletesOwn
<1>1. CASE g = f
  <2>1. \E j \in 1 .. Len(sentS[f]) : sentS'[f][i] = sentS[f][j]
    BY <1>1
  <2> QED
    BY <1>1, <2>1 DEF DeletesOwn
<1>2. CASE g # f
  BY <1>2 DEF DeletesOwn
<1> QED
  BY <1>1, <1>2

LEMMA SessionsRun ==
  ASSUME StatusTyped, SessionsStarted, NEW f \in Frontend, state[f] = "started",
         UNCHANGED <<state, open, uid>>,
         \A g \in Frontend : g # f => sentS'[g] = sentS[g],
         Status!Cleaning(f)' => Status!Cleaning(f),
         Status!Cleaning(f)' => \A i \in 1 .. Len(sentS'[f]) : sentS'[f][i].op \in {"keys", "del", "get"}
  PROVE  SessionsStarted'
<1>1. \A g \in Frontend : g # f => Status!Cleaning(g)' = Status!Cleaning(g)
  BY DEF Status!Cleaning
<1>2. \A t \in Session \ open' : uid'[t] = NoUid
  BY DEF SessionsStarted
<1>3. \A g \in Frontend : state'[g] # "started" => sentS'[g] = <<>>
  BY DEF SessionsStarted
<1>4. ASSUME NEW t \in open' PROVE state'[On[t]] = "started" /\ ~ Status!Cleaning(On[t])'
  <2>1. On[t] \in Frontend
    BY StatusTypes, StatusAssumption DEF Status!ConstantsAssumption
  <2>2. state[On[t]] = "started" /\ ~ Status!Cleaning(On[t])
    BY DEF SessionsStarted
  <2>3. CASE On[t] = f
    BY <2>2, <2>3 DEF Status!Cleaning
  <2>4. CASE On[t] # f
    BY <2>1, <2>2, <2>4 DEF Status!Cleaning
  <2> QED
    BY <2>3, <2>4
<1>5. \A g \in Frontend : Status!Cleaning(g)' =>
        \A i \in 1 .. Len(sentS'[g]) : sentS'[g][i].op \in {"keys", "del", "get"}
  BY <1>1 DEF SessionsStarted
<1> QED
  BY <1>2, <1>3, <1>4, <1>5 DEF SessionsStarted, Status!Cleaning

LEMMA StatusRuns ==
  ASSUME StatusInv, NEW f \in Frontend, sentS[f] # <<>>,
         sentS' = [sentS EXCEPT ![f] = Tail(@)], UNCHANGED <<state, open, uid>>
  PROVE  /\ sentS' \in [Frontend -> Seq(Status!Command)]
         /\ sentS'[f] = Tail(sentS[f])
         /\ \A g \in Frontend : g # f => sentS'[g] = sentS[g]
         /\ Head(sentS[f]) \in Status!Command
         /\ SessionsStarted'
<1>1. StatusTyped /\ SessionsStarted
  BY DEF StatusInv
<1>2. sentS[f] \in Seq(Status!Command)
  BY <1>1, StatusTypes
<1>3. Tail(sentS[f]) \in Seq(Status!Command) /\ Head(sentS[f]) \in Status!Command
  BY <1>2
<1>4. sentS' = [sentS EXCEPT ![f] = Tail(sentS[f])]
  OBVIOUS
<1>5. /\ sentS' \in [Frontend -> Seq(Status!Command)]
      /\ sentS'[f] = Tail(sentS[f])
      /\ \A g \in Frontend : g # f => sentS'[g] = sentS[g]
  BY <1>1, <1>3, <1>4, SentChanges
<1>6. state[f] = "started"
  BY <1>1 DEF SessionsStarted
<1>7. \A i \in 1 .. Len(sentS'[f]) : \E j \in 1 .. Len(sentS[f]) : sentS'[f][i] = sentS[f][j]
  BY <1>1, <1>5, CommandsRun
<1>8. Status!Cleaning(f)' => Status!Cleaning(f)
  <2>1. ASSUME NEW i \in 1 .. Len(sentS'[f]), sentS'[f][i].op \in {"keys", "del"}
        PROVE  Status!Cleaning(f)
    BY <1>7, <2>1 DEF Status!Cleaning
  <2> QED
    BY <2>1 DEF Status!Cleaning
<1>9. Status!Cleaning(f)' => \A i \in 1 .. Len(sentS'[f]) : sentS'[f][i].op \in {"keys", "del", "get"}
  <2> SUFFICES ASSUME Status!Cleaning(f)', NEW i \in 1 .. Len(sentS'[f])
               PROVE  sentS'[f][i].op \in {"keys", "del", "get"}
    OBVIOUS
  <2>1. \A j \in 1 .. Len(sentS[f]) : sentS[f][j].op \in {"keys", "del", "get"}
    BY <1>1, <1>8 DEF SessionsStarted
  <2> QED
    BY <1>7, <2>1
<1>10. SessionsStarted'
  BY <1>1, <1>5, <1>6, <1>8, <1>9, SessionsRun
<1> QED
  BY <1>3, <1>5, <1>10

\* A command about a user is answered.
LEMMA StatusAnswers ==
  ASSUME StatusInv, NEW f \in Frontend, sentS[f] # <<>>,
         sentS' = [sentS EXCEPT ![f] = Tail(@)], UNCHANGED <<state, open, uid>>,
         redisS' \in [StatusUid -> SUBSET Frontend], marred' \subseteq Frontend \X StatusUid,
         marred \subseteq marred',
         pushS' \in {Status!NoPush} \cup UserPush, LatchCounts',
         Head(sentS[f]).op \in {"add", "leave", "get"},
         \A u \in StatusUid : <<f, u>> \notin marred' =>
           (f \in redisS'[u] <=> Head(sentS[f]) \in Adds(u)
                                   \/ (f \in redisS[u] /\ Head(sentS[f]) \notin Leaves(u))),
         \A g \in Frontend, u \in StatusUid : g # f => (g \in redisS'[u] <=> g \in redisS[u]),
         Head(sentS[f]).op # "add" =>
           \A u \in StatusUid : f \notin redisS[u] => f \notin redisS'[u]
  PROVE  StatusInv'
<1>1. StatusTyped /\ SessionsStarted /\ DeletesOwn /\ StatusFollows
  BY DEF StatusInv
<1>2. /\ sentS' \in [Frontend -> Seq(Status!Command)]
      /\ sentS'[f] = Tail(sentS[f])
      /\ \A g \in Frontend : g # f => sentS'[g] = sentS[g]
      /\ Head(sentS[f]) \in Status!Command
      /\ SessionsStarted'
  BY StatusRuns
<1>3. StatusTyped'
  BY <1>1, <1>2, StatusTypes, StatusTypesAfter
<1>4. \A i \in 1 .. Len(sentS'[f]) : \E j \in 1 .. Len(sentS[f]) : sentS'[f][i] = sentS[f][j]
  BY <1>1, <1>2, CommandsRun
<1>5. DeletesOwn'
  <2>1. CASE Head(sentS[f]).op = "add"
    <3>1. \A i \in 1 .. Len(sentS'[f]) : sentS'[f][i].op # "del"
      <4> SUFFICES ASSUME NEW i \in 1 .. Len(sentS'[f]), sentS'[f][i].op = "del" PROVE FALSE
        OBVIOUS
      <4>1. Status!Cleaning(f)
        BY <1>4 DEF Status!Cleaning
      <4>2. \E j \in 1 .. Len(sentS[f]) : sentS[f][j] = Head(sentS[f])
        BY <1>1, <1>2, CommandsRun
      <4> QED
        BY <1>1, <2>1, <4>1, <4>2 DEF SessionsStarted
    <3> QED
      BY <1>1, <1>2, <3>1 DEF DeletesOwn
  <2>2. CASE Head(sentS[f]).op # "add"
    <3>1. \A g \in Frontend, u \in StatusUid : g \notin redisS[u] => g \notin redisS'[u]
      BY <2>2
    <3> QED
      BY <1>1, <1>2, <1>4, <3>1, DeletesFrom
  <2> QED
    BY <2>1, <2>2
<1>6. StatusFollows'
  <2> SUFFICES ASSUME NEW g \in Frontend, NEW u \in StatusUid, <<g, u>> \notin marred'
               PROVE  WillBe(g, u)' <=> Status!Bound(g, u)'
    BY DEF StatusFollows
  <2>1. WillBe(g, u) <=> Status!Bound(g, u)
    BY <1>1 DEF StatusFollows
  <2>2. WillBe(g, u)' <=> WillBe(g, u)
    <3>1. CASE g = f
      BY <1>1, <1>2, <3>1, WillBeRun
    <3>2. CASE g # f
      BY <1>2, <3>2, WillBeSame
    <3> QED
      BY <3>1, <3>2
  <2> QED
    BY <2>1, <2>2 DEF Status!Bound
<1> QED
  BY <1>2, <1>3, <1>5, <1>6 DEF StatusInv

LEMMA LatchRun ==
  ASSUME StatusTyped, LatchCounts, NEW f \in Frontend, sentS[f] # <<>>, Head(sentS[f]).op # "get",
         sentS'[f] = Tail(sentS[f]), \A g \in Frontend : g # f => sentS'[g] = sentS[g],
         pushS' = pushS
  PROVE  LatchCounts'
<1>1. sentS[f] \in Seq(Status!Command)
  BY StatusTypes
<1>2. /\ Cardinality(Queries(sentS'[f])) = Cardinality(Queries(sentS[f]))
      /\ Queries(sentS[f]) = {} => Queries(sentS'[f]) = {}
  BY <1>1, QueriesTail
<1>3. \A g \in Frontend : /\ Cardinality(Queries(sentS'[g])) = Cardinality(Queries(sentS[g]))
                          /\ Queries(sentS[g]) = {} => Queries(sentS'[g]) = {}
  BY <1>2
<1> QED
  BY <1>3 DEF LatchCounts, Gets, Status!NoPush

LEMMA StatusAdded ==
  ASSUME StatusInv, NEW f \in Frontend, NEW fails \in BOOLEAN, Status!Added(f, fails)
  PROVE  StatusInv'
<1> DEFINE h == Head(sentS[f])
           u == h.uid
<1>1. /\ sentS[f] # <<>> /\ h.op = "add" /\ sentS' = [sentS EXCEPT ![f] = Tail(@)]
      /\ \/ redisS' = [redisS EXCEPT ![u] = @ \cup {f}]
         \/ fails /\ redisS' = redisS
      /\ marred' = IF fails THEN marred \cup {<<f, u>>} ELSE marred
      /\ UNCHANGED <<state, open, uid, pushS>>
  BY DEF Status!Added, Status!Answers, Status!session
<1>2. StatusTyped /\ LatchCounts
  BY DEF StatusInv
<1>3. h \in Status!Command /\ sentS'[f] = Tail(sentS[f]) /\ \A g \in Frontend : g # f => sentS'[g] = sentS[g]
  BY <1>1, StatusRuns
<1>4. u \in StatusUid
  BY <1>1, <1>3, CommandParts
<1>5. LatchCounts'
  BY <1>1, <1>2, <1>3, LatchRun
<1>6. \A v \in StatusUid : (h \in Adds(v) <=> v = u) /\ h \notin Leaves(v)
  BY <1>1, <1>3, CommandSets
<1> HIDE DEF h
<1>7. \A v \in StatusUid : v # u => redisS'[v] = redisS[v]
  BY <1>1, <1>2, StatusTypes
<1>8. redisS'[u] = redisS[u] \cup {f} \/ (fails /\ redisS'[u] = redisS[u])
  BY <1>1, <1>2, <1>4, StatusTypes
<1>9. redisS' \in [StatusUid -> SUBSET Frontend] /\ marred' \subseteq Frontend \X StatusUid
  <2>1. redisS \in [StatusUid -> SUBSET Frontend] /\ redisS[u] \subseteq Frontend
    BY <1>2, <1>4, StatusTypes
  <2>2. redisS' \in [StatusUid -> SUBSET Frontend]
    <3> DEFINE v == redisS[u] \cup {f}
    <3>1. redisS' = [redisS EXCEPT ![u] = v] \/ redisS' = redisS
      BY <1>1
    <3>2. v \in SUBSET Frontend
      BY <2>1
    <3> HIDE DEF v
    <3> QED
      BY <2>1, <3>1, <3>2
  <2>3. <<f, u>> \in Frontend \X StatusUid /\ marred \subseteq Frontend \X StatusUid
    BY <1>2, <1>4, StatusTypes
  <2> QED
    BY <1>1, <2>2, <2>3
<1>10. \A v \in StatusUid : <<f, v>> \notin marred' =>
         (f \in redisS'[v] <=> h \in Adds(v) \/ (f \in redisS[v] /\ h \notin Leaves(v)))
  BY <1>1, <1>4, <1>6, <1>7, <1>8
<1>11. \A g \in Frontend, v \in StatusUid : g # f => (g \in redisS'[v] <=> g \in redisS[v])
  BY <1>4, <1>7, <1>8
<1>12. pushS' \in {Status!NoPush} \cup UserPush /\ marred \subseteq marred'
  BY <1>1, <1>2, StatusTypes
<1> QED
  BY <1>1, <1>5, <1>9, <1>10, <1>11, <1>12, StatusAnswers DEF h

LEMMA StatusLeft ==
  ASSUME StatusInv, NEW f \in Frontend, NEW fails \in BOOLEAN, Status!Left(f, fails)
  PROVE  StatusInv'
<1> DEFINE h == Head(sentS[f])
           u == h.uid
<1>1. /\ sentS[f] # <<>> /\ h.op = "leave" /\ sentS' = [sentS EXCEPT ![f] = Tail(@)]
      /\ \/ redisS' = [redisS EXCEPT ![u] = @ \ {f}]
         \/ fails /\ redisS' = redisS
      /\ marred' = IF fails THEN marred \cup {<<f, u>>} ELSE marred
      /\ UNCHANGED <<state, open, uid, pushS>>
  BY DEF Status!Left, Status!Answers, Status!session
<1>2. StatusTyped /\ LatchCounts
  BY DEF StatusInv
<1>3. h \in Status!Command /\ sentS'[f] = Tail(sentS[f]) /\ \A g \in Frontend : g # f => sentS'[g] = sentS[g]
  BY <1>1, StatusRuns
<1>4. u \in StatusUid
  BY <1>1, <1>3, CommandParts
<1>5. LatchCounts'
  BY <1>1, <1>2, <1>3, LatchRun
<1>6. \A v \in StatusUid : (h \in Leaves(v) <=> v = u) /\ h \notin Adds(v)
  BY <1>1, <1>3, CommandSets
<1> HIDE DEF h
<1>7. \A v \in StatusUid : v # u => redisS'[v] = redisS[v]
  BY <1>1, <1>2, StatusTypes
<1>8. redisS'[u] = redisS[u] \ {f} \/ (fails /\ redisS'[u] = redisS[u])
  BY <1>1, <1>2, <1>4, StatusTypes
<1>9. redisS' \in [StatusUid -> SUBSET Frontend] /\ marred' \subseteq Frontend \X StatusUid
  <2>1. redisS \in [StatusUid -> SUBSET Frontend] /\ redisS[u] \subseteq Frontend
    BY <1>2, <1>4, StatusTypes
  <2>2. redisS' \in [StatusUid -> SUBSET Frontend]
    <3> DEFINE v == redisS[u] \ {f}
    <3>1. redisS' = [redisS EXCEPT ![u] = v] \/ redisS' = redisS
      BY <1>1
    <3>2. v \in SUBSET Frontend
      BY <2>1
    <3> HIDE DEF v
    <3> QED
      BY <2>1, <3>1, <3>2
  <2>3. <<f, u>> \in Frontend \X StatusUid /\ marred \subseteq Frontend \X StatusUid
    BY <1>2, <1>4, StatusTypes
  <2> QED
    BY <1>1, <2>2, <2>3
<1>10. \A v \in StatusUid : <<f, v>> \notin marred' =>
         (f \in redisS'[v] <=> h \in Adds(v) \/ (f \in redisS[v] /\ h \notin Leaves(v)))
  BY <1>1, <1>4, <1>6, <1>7, <1>8
<1>11. /\ \A g \in Frontend, v \in StatusUid : g # f => (g \in redisS'[v] <=> g \in redisS[v])
       /\ \A v \in StatusUid : f \notin redisS[v] => f \notin redisS'[v]
  BY <1>4, <1>7, <1>8
<1>12. pushS' \in {Status!NoPush} \cup UserPush /\ marred \subseteq marred'
  BY <1>1, <1>2, StatusTypes
<1> QED
  BY <1>1, <1>5, <1>9, <1>10, <1>11, <1>12, StatusAnswers DEF h

\* An answer to a query counts the latch down; an error leaves it.
LEMMA StatusGot ==
  ASSUME StatusInv, NEW f \in Frontend, NEW fails \in BOOLEAN, Status!Got(f, fails)
  PROVE  StatusInv'
<1> DEFINE h == Head(sentS[f])
<1>1. /\ sentS[f] # <<>> /\ h.op = "get" /\ sentS' = [sentS EXCEPT ![f] = Tail(@)]
      /\ pushS' = IF pushS.by # f THEN pushS
                  ELSE IF fails THEN [pushS EXCEPT !.errors = @ + 1, !.returns = @ + 1]
                  ELSE Status!Counted(pushS, h.uid)
      /\ UNCHANGED <<state, open, uid, redisS, marred>>
  BY DEF Status!Got, Status!Answers, Status!session
<1>2. StatusTyped /\ LatchCounts
  BY DEF StatusInv
<1>3. h \in Status!Command /\ sentS'[f] = Tail(sentS[f]) /\ \A g \in Frontend : g # f => sentS'[g] = sentS[g]
  BY <1>1, StatusRuns
<1>4. h.uid \in StatusUid /\ \A v \in StatusUid : h \notin Adds(v) /\ h \notin Leaves(v)
  BY <1>1, <1>3, CommandParts, CommandSets
<1>5. Gets(f) # {} /\ Cardinality(Gets(f)') = Cardinality(Gets(f)) - 1
  <2>1. sentS[f] \in Seq(Status!Command)
    BY <1>2, StatusTypes
  <2> QED
    BY <1>1, <1>3, <2>1, QueriesTail DEF Gets, Queries
<1>6. pushS # Status!NoPush /\ pushS.by = f
  BY <1>2, <1>5 DEF LatchCounts
<1>7. pushS \in UserPush
  BY <1>2, <1>6, StatusTypes
<1> DEFINE k == Cardinality(Gets(f))
           n == Cardinality(Gets(f)')
<1>8. k \in Nat /\ k >= 1 /\ n = k - 1
  BY <1>2, <1>5, GetsFinite
<1>9. /\ pushS.latch = k + pushS.errors
      /\ pushS.returns = pushS.errors + (IF pushS.latch = 0 THEN 1 ELSE 0)
      /\ \A g \in Frontend : g # f => Gets(g) = {}
  BY <1>2, <1>6 DEF LatchCounts
<1>10. /\ pushS.latch \in Nat /\ pushS.errors \in Nat /\ pushS.returns \in Nat
       /\ pushS.records \subseteq StatusUid \X Frontend /\ pushS.by \in Frontend
  BY <1>7 DEF UserPush
<1> DEFINE more == pushS.records \cup ({h.uid} \X redisS[h.uid])
           push0 == [by |-> f, latch |-> pushS.latch, records |-> pushS.records,
                     errors |-> pushS.errors, returns |-> pushS.returns]
<1>11. pushS = push0
  BY <1>6, <1>7 DEF UserPush
<1>12. more \subseteq StatusUid \X Frontend
  <2>1. redisS[h.uid] \subseteq Frontend
    BY <1>2, <1>4, StatusTypes
  <2> QED
    BY <1>4, <1>10, <2>1
<1> HIDE DEF k, n, h, more
<1>13. \/ pushS' = [by |-> f, latch |-> pushS.latch, records |-> pushS.records,
                    errors |-> pushS.errors + 1, returns |-> pushS.returns + 1]
       \/ /\ pushS.latch - 1 > 0
          /\ pushS' = [by |-> f, latch |-> pushS.latch - 1, records |-> more,
                       errors |-> pushS.errors, returns |-> pushS.returns]
       \/ /\ ~ pushS.latch - 1 > 0
          /\ pushS' = [by |-> f, latch |-> pushS.latch - 1, records |-> more,
                       errors |-> pushS.errors, returns |-> pushS.returns + 1]
  <2>1. CASE fails
    <3>1. pushS' = [push0 EXCEPT !.errors = @ + 1, !.returns = @ + 1]
      BY <1>1, <1>6, <1>11, <2>1
    <3> QED
      BY <3>1
  <2>2. CASE ~ fails
    <3> DEFINE q == [push0 EXCEPT !.latch = @ - 1, !.records = @ \cup ({h.uid} \X redisS[h.uid])]
    <3>1. pushS' = IF q.latch > 0 THEN q ELSE [q EXCEPT !.returns = @ + 1]
      BY <1>1, <1>6, <1>11, <2>2 DEF Status!Counted
    <3>2. q = [by |-> f, latch |-> pushS.latch - 1, records |-> more,
               errors |-> pushS.errors, returns |-> pushS.returns]
      <4>1. [push0 EXCEPT !.latch = @ - 1]
              = [by |-> f, latch |-> pushS.latch - 1, records |-> pushS.records,
                 errors |-> pushS.errors, returns |-> pushS.returns]
        OBVIOUS
      <4>2. more = push0.records \cup ({h.uid} \X redisS[h.uid])
        BY DEF more
      <4> HIDE DEF push0
      <4>3. q = [[push0 EXCEPT !.latch = @ - 1] EXCEPT !.records = more]
        BY <4>2
      <4> DEFINE r == [push0 EXCEPT !.latch = @ - 1]
      <4>4. r = [by |-> f, latch |-> pushS.latch - 1, records |-> pushS.records,
                 errors |-> pushS.errors, returns |-> pushS.returns]
        BY <4>1
      <4>5. q = [r EXCEPT !.records = more]
        BY <4>3
      <4> HIDE DEF r, q
      <4>6. [r EXCEPT !.records = more]
              = [by |-> f, latch |-> pushS.latch - 1, records |-> more,
                 errors |-> pushS.errors, returns |-> pushS.returns]
        BY <4>4
      <4> QED
        BY <4>5, <4>6
    <3> HIDE DEF q
    <3> QED
      BY <3>1, <3>2
  <2> QED
    BY <2>1, <2>2
<1>14. pushS' \in UserPush
  <2> DEFINE R == SUBSET (StatusUid \X Frontend)
  <2>1. more \in R /\ pushS.records \in R
    BY <1>10, <1>12
  <2>2. pushS.latch - 1 \in Nat
    BY <1>8, <1>9, <1>10
  <2> HIDE DEF R, push0
  <2>3. pushS' \in [by : Frontend, latch : Nat, records : R, errors : Nat, returns : Nat]
    BY <1>10, <1>13, <2>1, <2>2
  <2> QED
    BY <2>3 DEF UserPush, R
<1>15. /\ pushS'.by = f
       /\ pushS'.latch = n + pushS'.errors
       /\ pushS'.returns = pushS'.errors + (IF pushS'.latch = 0 THEN 1 ELSE 0)
  BY <1>8, <1>9, <1>10, <1>13
<1>16. pushS' # Status!NoPush
  BY <1>14 DEF UserPush, Status!NoPush
<1>17. LatchCounts'
  <2>1. \A g \in Frontend : g # f => Gets(g)' = {}
    BY <1>3, <1>9 DEF Gets, Queries
  <2>2. Status!NoPush' = Status!NoPush
    BY DEF Status!NoPush
  <2> QED
    BY <1>15, <1>16, <2>1, <2>2 DEF LatchCounts, n
<1>18. /\ \A v \in StatusUid : f \in redisS'[v] <=> h \in Adds(v) \/ (f \in redisS[v] /\ h \notin Leaves(v))
       /\ \A g \in Frontend, v \in StatusUid : g \in redisS'[v] <=> g \in redisS[v]
  BY <1>1, <1>4
<1>19. redisS' \in [StatusUid -> SUBSET Frontend] /\ marred' \subseteq Frontend \X StatusUid /\ marred \subseteq marred'
  BY <1>1, <1>2, StatusTypes
<1> QED
  BY <1>1, <1>14, <1>17, <1>18, <1>19, StatusAnswers DEF h

\* What a server has sent that says nothing of users.
LEMMA QuietKept ==
  ASSUME NEW ws, \A i \in 1 .. Len(ws) : ws[i].op \in {"keys", "del", "get"}, NEW u \in StatusUid
  PROVE  ~ Kept(ws, Adds(u), Leaves(u)) /\ Untaken(ws, Leaves(u))
BY DEF Kept, Untaken, Adds, Leaves

\* A server that cleans up is not listed for users but those it is known to get wrong.
LEMMA CleaningKnown ==
  ASSUME StatusInv, NEW f \in Frontend, Status!Cleaning(f), NEW u \in StatusUid
  PROVE  /\ ~ Status!Bound(f, u)
         /\ <<f, u>> \notin marred => f \notin redisS[u]
         /\ \A i \in 1 .. Len(sentS[f]) : sentS[f][i].op \in {"keys", "del", "get"}
<1>1. SessionsStarted /\ StatusFollows
  BY DEF StatusInv
<1>2. \A i \in 1 .. Len(sentS[f]) : sentS[f][i].op \in {"keys", "del", "get"}
  BY <1>1 DEF SessionsStarted
<1>3. ~ Status!Bound(f, u)
  BY <1>1 DEF SessionsStarted, Status!Bound
<1>4. Untaken(sentS[f], Leaves(u))
  BY <1>2, QuietKept
<1>5. <<f, u>> \notin marred => ~ WillBe(f, u)
  BY <1>1, <1>3 DEF StatusFollows
<1> QED
  BY <1>2, <1>3, <1>4, <1>5 DEF WillBe

\* A server that cleans up asked for the keys of all users, and deletes those it was told.
LEMMA StatusCleans ==
  ASSUME StatusInv, StatusTyped', NEW f \in Frontend, Status!Cleaning(f),
         UNCHANGED <<state, open, uid>>,
         \A i \in 1 .. Len(sentS'[f]) : sentS'[f][i].op \in {"keys", "del", "get"},
         \A g \in Frontend : g # f => sentS'[g] = sentS[g],
         \A u \in StatusUid : <<f, u>> \notin marred' => f \notin redisS'[u],
         \A g \in Frontend, u \in StatusUid : g # f /\ <<g, u>> \notin marred' =>
           <<g, u>> \notin marred /\ (g \in redisS'[u] <=> g \in redisS[u])
  PROVE  SessionsStarted' /\ StatusFollows'
<1>1. StatusTyped /\ SessionsStarted /\ StatusFollows
  BY DEF StatusInv
<1>2. SessionsStarted'
  <2>1. state[f] = "started"
    BY <1>1 DEF SessionsStarted, Status!Cleaning
  <2> QED
    BY <1>1, <2>1, SessionsRun
<1>3. StatusFollows'
  <2> SUFFICES ASSUME NEW g \in Frontend, NEW u \in StatusUid, <<g, u>> \notin marred'
               PROVE  WillBe(g, u)' <=> Status!Bound(g, u)'
    BY DEF StatusFollows
  <2>1. Status!Bound(g, u)' <=> Status!Bound(g, u)
    BY DEF Status!Bound
  <2>2. CASE g = f
    <3>1. ~ Kept(sentS'[f], Adds(u), Leaves(u))
      BY QuietKept
    <3>2. ~ WillBe(g, u)'
      BY <2>2, <3>1, CommandSetsKept DEF WillBe
    <3> QED
      BY <2>1, <2>2, <3>2, CleaningKnown
  <2>3. CASE g # f
    <3>1. WillBe(g, u)' <=> WillBe(g, u)
      BY <2>3, WillBeSame
    <3> QED
      BY <1>1, <2>1, <2>3, <3>1 DEF StatusFollows
  <2> QED
    BY <2>2, <2>3
<1> QED
  BY <1>2, <1>3

LEMMA StatusListed ==
  ASSUME StatusInv, NEW f \in Frontend, NEW fails \in BOOLEAN, Status!Listed(f, fails)
  PROVE  StatusInv'
<1> DEFINE us == {u \in StatusUid : redisS[u] # {}}
           d == [op |-> "del", uids |-> us]
           ws == sentS[f]
           vs == IF fails \/ us = {} THEN Tail(ws) ELSE Append(Tail(ws), d)
<1>1. /\ ws # <<>> /\ Head(ws).op = "keys"
      /\ sentS' = [sentS EXCEPT ![f] = vs]
      /\ marred' = IF us = {} /\ ~ fails THEN marred \ ({f} \X StatusUid) ELSE marred
      /\ UNCHANGED <<state, open, uid, redisS, pushS>>
  BY DEF Status!Listed, Status!session
<1>2. StatusTyped /\ SessionsStarted /\ DeletesOwn /\ LatchCounts
  BY DEF StatusInv
<1>3. ws \in Seq(Status!Command) /\ Tail(ws) \in Seq(Status!Command) /\ Head(ws) \in Status!Command
  BY <1>1, <1>2, StatusTypes
<1>4. d \in Status!Command /\ d.op = "del" /\ d.uids = us
  BY CommandsAre
<1>5. us \subseteq StatusUid /\ \A u \in StatusUid \ us : redisS[u] = {}
  OBVIOUS
<1> HIDE DEF d, us
<1>6. vs \in Seq(Status!Command)
  BY <1>3, <1>4
<1>7. \A i \in 1 .. Len(vs) : vs[i] = d \/ \E j \in 1 .. Len(ws) : vs[i] = ws[j]
  <2> DEFINE n == Len(Tail(ws))
  <2>1. /\ n \in Nat /\ Len(ws) = n + 1
        /\ \A i \in 1 .. n : Tail(ws)[i] = ws[i + 1] /\ i + 1 \in 1 .. n + 1
    BY <1>1, <1>3
  <2>2. \A i \in 1 .. n : \E j \in 1 .. Len(ws) : Tail(ws)[i] = ws[j]
    BY <2>1
  <2>3. CASE vs = Tail(ws)
    BY <2>2, <2>3
  <2>4. CASE vs = Append(Tail(ws), d)
    <3>1. /\ Len(vs) = n + 1 /\ vs[n + 1] = d
          /\ \A i \in 1 .. n : vs[i] = Tail(ws)[i]
      BY <1>3, <2>1, <2>4
    <3>2. \A i \in 1 .. n + 1 : i \in 1 .. n \/ i = n + 1
      BY <2>1
    <3> HIDE DEF vs, n
    <3> QED
      BY <2>2, <3>1, <3>2 DEF n
  <2> QED
    BY <2>3, <2>4
<1>8. Queries(vs) = {} \/ Cardinality(Queries(vs)) = Cardinality(Queries(ws))
  <2>1. Cardinality(Queries(Tail(ws))) = Cardinality(Queries(ws))
    BY <1>1, <1>3, QueriesTail
  <2>2. Queries(Append(Tail(ws), d)) = Queries(Tail(ws))
    BY <1>3, <1>4, QueriesAppend
  <2> QED
    BY <2>1, <2>2
<1>9. Queries(ws) = {} => Queries(vs) = {}
  <2>1. Queries(ws) = {} => Queries(Tail(ws)) = {}
    BY <1>1, <1>3, QueriesTail
  <2>2. Queries(Append(Tail(ws), d)) = Queries(Tail(ws))
    BY <1>3, <1>4, QueriesAppend
  <2> QED
    BY <2>1, <2>2
<1>10. /\ sentS' \in [Frontend -> Seq(Status!Command)]
       /\ sentS'[f] = vs
       /\ \A g \in Frontend : g # f => sentS'[g] = sentS[g]
  BY <1>1, <1>2, <1>6, SentChanges
<1> HIDE DEF vs
<1>11. Status!Cleaning(f)
  <2>1. 1 \in 1 .. Len(ws) /\ ws[1] = Head(ws)
    BY <1>1, <1>3
  <2> QED
    BY <1>1, <2>1 DEF Status!Cleaning
<1>12. StatusTyped'
  <2>1. marred' \subseteq Frontend \X StatusUid
    BY <1>1, <1>2, StatusTypes
  <2> QED
    BY <1>1, <1>2, <1>10, <2>1, StatusTypes, StatusTypesAfter
<1>13. \A i \in 1 .. Len(sentS'[f]) : sentS'[f][i].op \in {"keys", "del", "get"}
  <2>1. \A j \in 1 .. Len(ws) : ws[j].op \in {"keys", "del", "get"}
    BY <1>2, <1>11 DEF SessionsStarted
  <2> QED
    BY <1>4, <1>7, <1>10, <2>1
<1>14. \A u \in StatusUid : <<f, u>> \notin marred' => f \notin redisS'[u]
  <2> SUFFICES ASSUME NEW u \in StatusUid, <<f, u>> \notin marred', f \in redisS[u] PROVE FALSE
    BY <1>1
  <2>1. us # {}
    BY <1>5
  <2>2. <<f, u>> \notin marred
    BY <1>1, <2>1
  <2> QED
    BY <1>11, <2>2, CleaningKnown
<1>15. \A g \in Frontend, u \in StatusUid : g # f /\ <<g, u>> \notin marred' =>
         <<g, u>> \notin marred /\ (g \in redisS'[u] <=> g \in redisS[u])
  BY <1>1
<1>16. SessionsStarted' /\ StatusFollows'
  BY <1>1, <1>10, <1>11, <1>12, <1>13, <1>14, <1>15, StatusCleans
<1>17. DeletesOwn'
  <2> SUFFICES ASSUME NEW g \in Frontend, NEW i \in 1 .. Len(sentS'[g]), sentS'[g][i].op = "del",
                      NEW u \in StatusUid \ sentS'[g][i].uids
               PROVE  g \notin redisS[u]
    BY <1>1 DEF DeletesOwn
  <2>1. CASE g = f
    <3>1. sentS'[f][i] = d \/ \E j \in 1 .. Len(ws) : sentS'[f][i] = ws[j]
      BY <1>7, <1>10, <2>1
    <3>2. CASE sentS'[f][i] = d
      BY <1>4, <1>5, <2>1, <3>2
    <3>3. CASE \E j \in 1 .. Len(ws) : sentS'[f][i] = ws[j]
      BY <1>2, <2>1, <3>3 DEF DeletesOwn
    <3> QED
      BY <3>1, <3>2, <3>3
  <2>2. CASE g # f
    BY <1>2, <1>10, <2>2 DEF DeletesOwn
  <2> QED
    BY <2>1, <2>2
<1>18. LatchCounts'
  <2>1. \A g \in Frontend : Queries(sentS[g]) = {} => Queries(sentS'[g]) = {}
    BY <1>9, <1>10
  <2>2. Cardinality(Queries(vs)) = Cardinality(Queries(ws))
    BY <1>1, <1>3, <1>4, QueriesTail, QueriesAppend DEF vs
  <2>3. \A g \in Frontend : Cardinality(Queries(sentS'[g])) = Cardinality(Queries(sentS[g]))
    BY <1>10, <2>2
  <2> QED
    BY <1>1, <1>2, <2>1, <2>3 DEF LatchCounts, Gets, Status!NoPush
<1> QED
  BY <1>12, <1>16, <1>17, <1>18 DEF StatusInv

LEMMA StatusDeleted ==
  ASSUME StatusInv, NEW f \in Frontend, NEW fails \in BOOLEAN, Status!Deleted(f, fails)
  PROVE  StatusInv'
<1> DEFINE h == Head(sentS[f])
           us == h.uids
<1>1. /\ sentS[f] # <<>> /\ h.op = "del" /\ sentS' = [sentS EXCEPT ![f] = Tail(@)]
      /\ \/ redisS' = [u \in StatusUid |-> IF u \in us THEN {} ELSE redisS[u]]
         \/ fails /\ redisS' = redisS
      /\ marred' = (IF fails THEN marred ELSE marred \ ({f} \X StatusUid)) \cup ((Frontend \ {f}) \X us)
      /\ UNCHANGED <<state, open, uid, pushS>>
  BY DEF Status!Deleted, Status!Answers, Status!session
<1>2. StatusTyped /\ SessionsStarted /\ DeletesOwn /\ LatchCounts
  BY DEF StatusInv
<1>3. /\ sentS' \in [Frontend -> Seq(Status!Command)] /\ sentS'[f] = Tail(sentS[f])
      /\ \A g \in Frontend : g # f => sentS'[g] = sentS[g]
      /\ h \in Status!Command
  BY <1>1, StatusRuns
<1>4. us \subseteq StatusUid
  BY <1>1, <1>3, CommandParts
<1>5. PICK k \in 1 .. Len(sentS[f]) : sentS[f][k] = h
  BY <1>1, <1>2, <1>3, CommandsRun
<1> HIDE DEF h
<1>6. redisS \in [StatusUid -> SUBSET Frontend] /\ marred \subseteq Frontend \X StatusUid
  BY <1>2, StatusTypes
<1>7. redisS' \in [StatusUid -> SUBSET Frontend]
  BY <1>1, <1>6
<1>8. StatusTyped'
  <2>1. marred' \subseteq Frontend \X StatusUid
    BY <1>1, <1>4, <1>6
  <2> QED
    BY <1>1, <1>2, <1>3, <1>7, <2>1, StatusTypes, StatusTypesAfter
<1>9. Status!Cleaning(f)
  BY <1>1, <1>5 DEF Status!Cleaning
<1>10. \A i \in 1 .. Len(sentS'[f]) : \E j \in 1 .. Len(sentS[f]) : sentS'[f][i] = sentS[f][j]
  BY <1>1, <1>2, <1>3, CommandsRun
<1>11. \A i \in 1 .. Len(sentS'[f]) : sentS'[f][i].op \in {"keys", "del", "get"}
  BY <1>2, <1>9, <1>10 DEF SessionsStarted
<1>12. \A u \in StatusUid : redisS'[u] \subseteq redisS[u] /\ (u \notin us => redisS'[u] = redisS[u])
  BY <1>1
<1>13. \A u \in StatusUid \ us : f \notin redisS[u]
  BY <1>1, <1>2, <1>5 DEF DeletesOwn
<1>14. \A u \in StatusUid : <<f, u>> \notin marred' => f \notin redisS'[u]
  <2> SUFFICES ASSUME NEW u \in StatusUid, <<f, u>> \notin marred' PROVE f \notin redisS'[u]
    OBVIOUS
  <2>1. CASE fails
    <3>1. <<f, u>> \notin marred
      BY <1>1, <2>1
    <3> QED
      BY <1>9, <1>12, <3>1, CleaningKnown
  <2>2. CASE ~ fails
    <3>1. u \in us => redisS'[u] = {}
      BY <1>1, <2>2
    <3> QED
      BY <1>12, <1>13, <3>1
  <2> QED
    BY <2>1, <2>2
<1>15. \A g \in Frontend, u \in StatusUid : g # f /\ <<g, u>> \notin marred' =>
         <<g, u>> \notin marred /\ (g \in redisS'[u] <=> g \in redisS[u])
  <2> SUFFICES ASSUME NEW g \in Frontend, NEW u \in StatusUid, g # f, <<g, u>> \notin marred'
               PROVE  <<g, u>> \notin marred /\ (g \in redisS'[u] <=> g \in redisS[u])
    OBVIOUS
  <2>1. <<g, u>> \notin marred /\ u \notin us
    BY <1>1
  <2> QED
    BY <1>12, <2>1
<1>16. SessionsStarted' /\ StatusFollows'
  BY <1>1, <1>3, <1>8, <1>9, <1>11, <1>14, <1>15, StatusCleans
<1>17. DeletesOwn'
  BY <1>2, <1>3, <1>10, <1>12, DeletesFrom
<1>18. LatchCounts'
  BY <1>1, <1>2, <1>3, LatchRun DEF h
<1> QED
  BY <1>8, <1>16, <1>17, <1>18 DEF StatusInv

\* A push asks for the servers of one user or two, when no other is under way.
LEMMA StatusPushes ==
  ASSUME StatusInv, NEW f \in Frontend, NEW us \in SUBSET StatusUid, Status!PushByUids(f, us)
  PROVE  StatusInv'
<1>1. /\ state[f] = "started" /\ pushS = Status!NoPush
      /\ UNCHANGED <<state, open, uid, redisS, marred>>
  BY DEF Status!PushByUids, Status!session
<1>2. PICK order \in [1 .. 2 -> us] :
        LET asked == IF us = {order[1]} THEN <<order[1]>> ELSE order
        IN /\ Status!Sent(f, [i \in 1 .. Len(asked) |-> [op |-> "get", uid |-> asked[i]]])
           /\ pushS' = [by |-> f, latch |-> Len(asked), records |-> {}, errors |-> 0, returns |-> 0]
  BY DEF Status!PushByUids
<1> DEFINE asked == IF us = {order[1]} THEN <<order[1]>> ELSE order
           gets == [i \in 1 .. Len(asked) |-> [op |-> "get", uid |-> asked[i]]]
           ws == sentS[f]
           c == [op |-> "get", uid |-> order[1]]
           d == [op |-> "get", uid |-> order[2]]
<1>3. /\ sentS' = [sentS EXCEPT ![f] = ws \o gets]
      /\ pushS' = [by |-> f, latch |-> Len(asked), records |-> {}, errors |-> 0, returns |-> 0]
  BY <1>2 DEF Status!Sent
<1>4. StatusTyped /\ SessionsStarted /\ DeletesOwn /\ StatusFollows /\ LatchCounts
  BY DEF StatusInv
<1>5. ws \in Seq(Status!Command)
  BY <1>4, StatusTypes
<1>6. order[1] \in StatusUid /\ order[2] \in StatusUid
  BY <1>2
<1>7. c \in Status!Command /\ d \in Status!Command /\ c.op = "get" /\ d.op = "get"
  BY <1>6, CommandsAre
<1>8. \/ Len(asked) = 1 /\ gets = <<c>>
      \/ Len(asked) = 2 /\ gets = <<c, d>>
  <2>1. CASE us = {order[1]}
    <3>1. asked = <<order[1]>>
      BY <2>1
    <3> QED
      BY <3>1
  <2>2. CASE us # {order[1]}
    <3>1. asked = order
      BY <2>2
    <3>2. order \in Seq(us) /\ Len(order) = 2
      <4> DEFINE o == <<order[1], order[2]>>
      <4>1. order = o
        BY <1>2
      <4>2. o \in Seq(us) /\ Len(o) = 2
        BY <1>2
      <4> HIDE DEF o
      <4> QED
        BY <4>1, <4>2
    <3>3. gets = [i \in 1 .. 2 |-> [op |-> "get", uid |-> order[i]]]
      BY <3>1, <3>2
    <3> QED
      BY <3>1, <3>2, <3>3
  <2> QED
    BY <2>1, <2>2
<1> HIDE DEF c, d, asked, gets
<1> DEFINE v1 == Append(ws, c)
           v2 == Append(v1, d)
<1>9. /\ v1 \in Seq(Status!Command) /\ v2 \in Seq(Status!Command)
      /\ \/ Len(asked) = 1 /\ ws \o gets = v1
         \/ Len(asked) = 2 /\ ws \o gets = v2
  <2>1. v1 \in Seq(Status!Command) /\ v2 \in Seq(Status!Command)
    BY <1>5, <1>7
  <2>2. ws \o <<c>> = v1 /\ ws \o <<c, d>> = v2
    BY <1>5, <1>7
  <2> QED
    BY <1>8, <2>1, <2>2
<1>10. /\ sentS' \in [Frontend -> Seq(Status!Command)]
       /\ sentS'[f] = ws \o gets
       /\ \A g \in Frontend : g # f => sentS'[g] = sentS[g]
  BY <1>3, <1>4, <1>9, SentChanges
<1>11. /\ \A i \in 1 .. Len(v1) : v1[i].op = "get" \/ \E j \in 1 .. Len(ws) : v1[i] = ws[j]
       /\ \A i \in 1 .. Len(v2) : v2[i].op = "get" \/ \E j \in 1 .. Len(ws) : v2[i] = ws[j]
  <2>1. \A i \in 1 .. Len(v1) : v1[i] = c \/ \E j \in 1 .. Len(ws) : v1[i] = ws[j]
    BY <1>5, <1>7
  <2> HIDE DEF v1
  <2>2. \A i \in 1 .. Len(v2) : v2[i] = d \/ \E j \in 1 .. Len(v1) : v2[i] = v1[j]
    BY <1>7, <1>9
  <2> HIDE DEF v2
  <2> QED
    BY <1>7, <2>1, <2>2
<1>12. /\ Queries(ws) = {} => Cardinality(Queries(v1)) = 1
       /\ Queries(ws) = {} => Cardinality(Queries(v2)) = 2
  <2>1. /\ Cardinality(Queries(v1)) = Cardinality(Queries(ws)) + 1
        /\ Cardinality(Queries(v2)) = Cardinality(Queries(v1)) + 1
    BY <1>5, <1>7, <1>9, QueriesAppend
  <2>2. Queries(ws) = {} => Cardinality(Queries(ws)) = 0
    BY <1>5, QueriesFinite
  <2> QED
    BY <2>1, <2>2
<1>13. \A u \in StatusUid :
         /\ Kept(v1, Adds(u), Leaves(u)) <=> Kept(ws, Adds(u), Leaves(u))
         /\ Kept(v2, Adds(u), Leaves(u)) <=> Kept(ws, Adds(u), Leaves(u))
         /\ Untaken(v1, Leaves(u)) <=> Untaken(ws, Leaves(u))
         /\ Untaken(v2, Leaves(u)) <=> Untaken(ws, Leaves(u))
  <2> SUFFICES ASSUME NEW u \in StatusUid
               PROVE  /\ Kept(v1, Adds(u), Leaves(u)) <=> Kept(ws, Adds(u), Leaves(u))
                      /\ Kept(v2, Adds(u), Leaves(u)) <=> Kept(ws, Adds(u), Leaves(u))
                      /\ Untaken(v1, Leaves(u)) <=> Untaken(ws, Leaves(u))
                      /\ Untaken(v2, Leaves(u)) <=> Untaken(ws, Leaves(u))
    OBVIOUS
  <2>1. c \notin Adds(u) /\ c \notin Leaves(u) /\ d \notin Adds(u) /\ d \notin Leaves(u)
    BY <1>7, CommandSets
  <2>2. /\ Kept(v1, Adds(u), Leaves(u)) <=> Kept(ws, Adds(u), Leaves(u))
        /\ Untaken(v1, Leaves(u)) <=> Untaken(ws, Leaves(u))
    BY <1>5, <1>7, <2>1, KeptAppend
  <2> HIDE DEF v1
  <2>3. /\ Kept(v2, Adds(u), Leaves(u)) <=> Kept(v1, Adds(u), Leaves(u))
        /\ Untaken(v2, Leaves(u)) <=> Untaken(v1, Leaves(u))
    BY <1>7, <1>9, <2>1, KeptAppend
  <2> QED
    BY <2>2, <2>3
<1> HIDE DEF v1, v2
<1>14. \A i \in 1 .. Len(sentS'[f]) :
         sentS'[f][i].op = "get" \/ \E j \in 1 .. Len(sentS[f]) : sentS'[f][i] = sentS[f][j]
  <2>1. CASE sentS'[f] = v1
    BY <1>11, <2>1
  <2>2. CASE sentS'[f] = v2
    BY <1>11, <2>2
  <2> QED
    BY <1>9, <1>10, <2>1, <2>2
<1>15. StatusTyped'
  <2>1. pushS' \in UserPush
    BY <1>3, <1>9 DEF UserPush
  <2> QED
    BY <1>1, <1>4, <1>10, <2>1, StatusTypes, StatusTypesAfter
<1>16. SessionsStarted'
  <2>1. Status!Cleaning(f)' => Status!Cleaning(f)
    <3>1. ASSUME NEW i \in 1 .. Len(sentS'[f]), sentS'[f][i].op \in {"keys", "del"}
          PROVE  Status!Cleaning(f)
      <4>1. sentS'[f][i].op # "get"
        BY <3>1
      <4> QED
        BY <1>14, <3>1, <4>1 DEF Status!Cleaning
    <3> QED
      BY <3>1 DEF Status!Cleaning
  <2>2. Status!Cleaning(f)' => \A i \in 1 .. Len(sentS'[f]) : sentS'[f][i].op \in {"keys", "del", "get"}
    BY <1>4, <1>14, <2>1 DEF SessionsStarted
  <2> QED
    BY <1>1, <1>4, <1>10, <2>1, <2>2, SessionsRun
<1>17. DeletesOwn'
  <2>1. \A i \in 1 .. Len(sentS'[f]) : sentS'[f][i].op = "del" =>
          \E j \in 1 .. Len(sentS[f]) : sentS'[f][i] = sentS[f][j]
    BY <1>14
  <2> QED
    BY <1>1, <1>4, <1>10, <2>1, DeletesFrom
<1>18. StatusFollows'
  <2> SUFFICES ASSUME NEW g \in Frontend, NEW u \in StatusUid, <<g, u>> \notin marred
               PROVE  WillBe(g, u)' <=> Status!Bound(g, u)'
    BY <1>1 DEF StatusFollows
  <2>1. Status!Bound(g, u)' <=> Status!Bound(g, u)
    BY <1>1 DEF Status!Bound
  <2>2. WillBe(g, u)' <=> WillBe(g, u)
    <3>1. CASE g = f
      BY <1>1, <1>9, <1>10, <1>13, <3>1, CommandSetsKept DEF WillBe
    <3>2. CASE g # f
      BY <1>1, <1>10, <3>2, WillBeSame
    <3> QED
      BY <3>1, <3>2
  <2> QED
    BY <1>4, <2>1, <2>2 DEF StatusFollows
<1>19. LatchCounts'
  <2>1. \A g \in Frontend : Queries(sentS[g]) = {}
    BY <1>1, <1>4 DEF LatchCounts, Gets
  <2>2. \A g \in Frontend : g # f => Queries(sentS'[g]) = {}
    BY <1>10, <2>1
  <2>3. Cardinality(Queries(sentS'[f])) = Len(asked) /\ Len(asked) # 0 /\ Len(asked) \in Nat
    <3>1. CASE Len(asked) = 1 /\ ws \o gets = v1
      <4>1. sentS'[f] = v1 /\ Queries(ws) = {}
        BY <1>10, <2>1, <3>1
      <4>2. Cardinality(Queries(v1)) = 1
        BY <1>12, <4>1
      <4> QED
        BY <3>1, <4>1, <4>2
    <3>2. CASE Len(asked) = 2 /\ ws \o gets = v2
      <4>1. sentS'[f] = v2 /\ Queries(ws) = {}
        BY <1>10, <2>1, <3>2
      <4>2. Cardinality(Queries(v2)) = 2
        BY <1>12, <4>1
      <4> QED
        BY <3>2, <4>1, <4>2
    <3> QED
      BY <1>9, <3>1, <3>2
  <2>4. /\ pushS'.by = f /\ pushS'.latch = Len(asked) /\ pushS'.errors = 0 /\ pushS'.returns = 0
    BY <1>3
  <2>5. pushS' # Status!NoPush' /\ pushS'.latch = Cardinality(Queries(sentS'[f])) + pushS'.errors
    <3>1. pushS' # Status!NoPush
      BY <1>3 DEF Status!NoPush
    <3> QED
      BY <2>3, <2>4, <3>1 DEF Status!NoPush
  <2>6. ASSUME NEW g \in Frontend
        PROVE  IF pushS' # Status!NoPush' /\ pushS'.by = g
                 THEN /\ pushS'.latch = Cardinality(Queries(sentS'[g])) + pushS'.errors
                      /\ pushS'.returns = pushS'.errors + (IF pushS'.latch = 0 THEN 1 ELSE 0)
                 ELSE Queries(sentS'[g]) = {}
    <3>1. CASE g = f
      BY <2>3, <2>4, <2>5, <3>1
    <3>2. CASE g # f
      BY <2>2, <2>4, <3>2
    <3> QED
      BY <3>1, <3>2
  <2> QED
    BY <2>6 DEF LatchCounts, Gets
<1> QED
  BY <1>15, <1>16, <1>17, <1>18, <1>19 DEF StatusInv

LEMMA StatusForgets ==
  ASSUME StatusInv, Status!Forget
  PROVE  StatusInv'
<1>1. /\ pushS # Status!NoPush /\ pushS' = Status!NoPush
      /\ \A i \in 1 .. Len(sentS[pushS.by]) : sentS[pushS.by][i].op # "get"
      /\ UNCHANGED <<state, open, uid, sentS, redisS, marred>>
  BY DEF Status!Forget, Status!session
<1>2. StatusTyped /\ SessionsStarted /\ DeletesOwn /\ StatusFollows /\ LatchCounts
  BY DEF StatusInv
<1>3. StatusTyped'
  BY <1>1, <1>2, StatusTypes, StatusTypesAfter
<1>4. SessionsStarted' /\ DeletesOwn'
  BY <1>1, <1>2 DEF SessionsStarted, DeletesOwn, Status!Cleaning
<1>5. StatusFollows'
  <2>1. ASSUME NEW g \in Frontend, NEW u \in StatusUid
        PROVE  /\ WillBe(g, u)' <=> WillBe(g, u)
               /\ Status!Bound(g, u)' = Status!Bound(g, u)
    BY <1>1, WillBeSame DEF Status!Bound
  <2> QED
    BY <1>1, <1>2, <2>1 DEF StatusFollows
<1>6. LatchCounts'
  <2>1. Queries(sentS[pushS.by]) = {}
    BY <1>1 DEF Queries
  <2>2. \A g \in Frontend : Queries(sentS[g]) = {}
    BY <1>2, <2>1 DEF LatchCounts, Gets
  <2> QED
    BY <1>1, <2>2 DEF LatchCounts, Gets, Status!NoPush
<1> QED
  BY <1>3, <1>4, <1>5, <1>6 DEF StatusInv

LEMMA StatusInvStep == StatusInv /\ (Status!Next \/ UNCHANGED statusVars) => StatusInv'
<1> SUFFICES ASSUME StatusInv, Status!Next \/ UNCHANGED statusVars PROVE StatusInv'
  OBVIOUS
<1>1. CASE UNCHANGED statusVars
  <2>1. UNCHANGED <<state, open, uid, sentS, redisS, marred, pushS>>
    BY <1>1 DEF statusVars
  <2>2. StatusTyped /\ SessionsStarted /\ DeletesOwn /\ StatusFollows /\ LatchCounts
    BY DEF StatusInv
  <2>3. StatusTyped'
    BY <2>1, <2>2, StatusTypes, StatusTypesAfter
  <2>4. SessionsStarted' /\ DeletesOwn'
    BY <2>1, <2>2 DEF SessionsStarted, DeletesOwn, Status!Cleaning
  <2>5. StatusFollows'
    <3>1. ASSUME NEW g \in Frontend, NEW u \in StatusUid
          PROVE  /\ WillBe(g, u)' <=> WillBe(g, u)
                 /\ Status!Bound(g, u)' = Status!Bound(g, u)
      BY <2>1, WillBeSame DEF Status!Bound
    <3> QED
      BY <2>1, <2>2, <3>1 DEF StatusFollows
  <2>6. LatchCounts'
    BY <2>1, <2>2, LatchSame DEF Gets
  <2> QED
    BY <2>3, <2>4, <2>5, <2>6 DEF StatusInv
<1>2. CASE Status!Next
  <2>1. ASSUME NEW f \in Frontend, Status!Start(f) PROVE StatusInv'
    BY <2>1, StatusStart
  <2>2. ASSUME NEW f \in Frontend, Status!Ready(f) PROVE StatusInv'
    BY <2>2, StatusReady
  <2>3. ASSUME NEW f \in Frontend, Status!Stop(f) \/ Status!Crash(f) PROVE StatusInv'
    BY <2>3, StatusGone DEF Status!Stop, Status!Crash
  <2>4. ASSUME NEW f \in Frontend, NEW us \in SUBSET StatusUid, Status!PushByUids(f, us)
        PROVE  StatusInv'
    BY <2>4, StatusPushes
  <2>5. ASSUME NEW f \in Frontend, NEW fails \in BOOLEAN,
               \/ Status!Added(f, fails) \/ Status!Left(f, fails) \/ Status!Listed(f, fails)
               \/ Status!Deleted(f, fails) \/ Status!Got(f, fails)
        PROVE  StatusInv'
    BY <2>5, StatusAdded, StatusLeft, StatusListed, StatusDeleted, StatusGot
  <2>6. ASSUME NEW s \in Session, Status!Opens(s) \/ Status!CloseSession(s) \/ Status!Unbinds(s)
        PROVE  StatusInv'
    BY <2>6, StatusOpens, StatusCloses, StatusUnbinds
  <2>7. ASSUME NEW s \in Session, NEW u \in StatusUid, Status!BindSession(s, u) PROVE StatusInv'
    BY <2>7, StatusBinds
  <2>8. CASE Status!Forget
    BY <2>8, StatusForgets
  <2> QED
    BY <1>2, <2>1, <2>2, <2>3, <2>4, <2>5, <2>6, <2>7, <2>8 DEF Status!Next
<1> QED
  BY <1>1, <1>2

LEMMA StatusInvAgrees == StatusInv => Status!TypeOK /\ Status!StatusAgrees /\ Status!PushReturnsOnce
<1> SUFFICES ASSUME StatusInv PROVE Status!TypeOK /\ Status!StatusAgrees /\ Status!PushReturnsOnce
  OBVIOUS
<1>1. StatusTyped /\ StatusFollows /\ LatchCounts
  BY DEF StatusInv
<1>2. Status!StatusAgrees
  <2> SUFFICES ASSUME NEW f \in Frontend, NEW u \in StatusUid,
                      ~ Status!Pending(f, u), <<f, u>> \notin marred
               PROVE  f \in redisS[u] <=> Status!Bound(f, u)
    BY DEF Status!StatusAgrees
  <2>1. sentS[f] \in Seq(Status!Command)
    BY <1>1, StatusTypes
  <2>2. \A i \in 1 .. Len(sentS[f]) : ~ (sentS[f][i].op \in {"add", "leave"} /\ sentS[f][i].uid = u)
    BY DEF Status!Pending
  <2>3. ~ Kept(sentS[f], Adds(u), Leaves(u)) /\ Untaken(sentS[f], Leaves(u))
    BY <2>1, <2>2 DEF Kept, Untaken, Adds, Leaves
  <2> QED
    BY <1>1, <2>3 DEF StatusFollows, WillBe
<1>3. Status!PushReturnsOnce
  <2> SUFFICES ASSUME pushS # Status!NoPush
               PROVE  /\ pushS.returns <= 1 \/ pushS.returns = pushS.errors
                      /\ pushS.returns > 0 => pushS.latch = 0 \/ pushS.errors > 0
    BY DEF Status!PushReturnsOnce
  <2>1. pushS \in UserPush
    BY <1>1, StatusTypes
  <2>2. pushS.by \in Frontend /\ pushS.latch \in Nat /\ pushS.errors \in Nat /\ pushS.returns \in Nat
    BY <2>1 DEF UserPush
  <2> DEFINE k == Cardinality(Gets(pushS.by))
  <2>3. k \in Nat
    BY <1>1, <2>2, GetsFinite
  <2>4. /\ pushS.latch = k + pushS.errors
        /\ pushS.returns = pushS.errors + (IF pushS.latch = 0 THEN 1 ELSE 0)
    BY <1>1, <2>2 DEF LatchCounts
  <2> HIDE DEF k
  <2> QED
    BY <2>2, <2>3, <2>4
<1> QED
  BY <1>1, <1>2, <1>3 DEF StatusTyped

-----------------------------------------------------------------------------
(* Entries that are kept for the database.                                 *)

\* What is sent about an entry, and what of it is not its last call.
About(e) == {c \in Sync!Command : c.op \in {"hset", "hdel"} /\ c.entry = e}
IsLast(e, c) == IF e \in flushed THEN c.op = "hdel" ELSE c.op = "hset" /\ c.value = newest[e]
Outdated(e) == {c \in About(e) : ~ IsLast(e, c)}

\* What redis has when the last call has come.
Settled(e) == hash[e] = IF e \in flushed THEN 0 ELSE newest[e]

\* The last thing on its way is the last call; when nothing is, it has come.
Follows(e) ==
  e \notin excused => ~ Kept(sent, Outdated(e), About(e)) /\ (Untaken(sent, About(e)) => Settled(e))

\* What isDone has said holds until another value comes.
DoneSays == answer = "done" => \A e \in Entry : hash[e] = 0

SyncInv == Sync!TypeOK /\ (\A e \in Entry : Follows(e)) /\ DoneSays

LEMMA SyncTypes ==
  ASSUME SyncInv
  PROVE  /\ hash \in [Entry -> 0 .. MaxValue] /\ newest \in [Entry -> 0 .. MaxValue]
         /\ sent \in Seq(Sync!Command) /\ count \in Nat
         /\ flushed \subseteq Entry /\ excused \subseteq Entry /\ answer \in {"none", "busy", "done"}
BY DEF SyncInv, Sync!TypeOK

LEMMA SyncTypesAfter ==
  ASSUME hash' \in [Entry -> 0 .. MaxValue], newest' \in [Entry -> 0 .. MaxValue],
         sent' \in Seq(Sync!Command), count' \in Nat,
         flushed' \subseteq Entry, excused' \subseteq Entry, answer' \in {"none", "busy", "done"}
  PROVE  Sync!TypeOK'
<1>1. Sync!Command' = Sync!Command
  BY DEF Sync!Command
<1> QED
  BY <1>1, Zenon DEF Sync!TypeOK

LEMMA SyncCommandsAre ==
  /\ \A e \in Entry, v \in 1 .. MaxValue : [op |-> "hset", entry |-> e, value |-> v] \in Sync!Command
  /\ \A e \in Entry : [op |-> "hdel", entry |-> e] \in Sync!Command
  /\ [op |-> "hgetall"] \in Sync!Command
  /\ \A idle \in BOOLEAN : [op |-> "hlen", idle |-> idle] \in Sync!Command
BY DEF Sync!Command

LEMMA SyncParts ==
  ASSUME NEW c \in Sync!Command
  PROVE  /\ c.op \in {"hset", "hdel"} => c.entry \in Entry
         /\ c.op = "hset" => c.value \in 1 .. MaxValue
         /\ \A e : c \in About(e) <=> c.op \in {"hset", "hdel"} /\ c.entry = e
         /\ \A e : c \in Outdated(e) <=> c \in About(e) /\ ~ IsLast(e, c)
BY DEF Sync!Command, About, Outdated

\* An entry of which there is no call.
LEMMA SameSets ==
  ASSUME NEW e, newest'[e] = newest[e], e \in flushed' <=> e \in flushed
  PROVE  /\ About(e)' = About(e) /\ Outdated(e)' = Outdated(e)
         /\ hash'[e] = hash[e] => (Settled(e)' <=> Settled(e))
<1>1. Sync!Command' = Sync!Command
  BY DEF Sync!Command
<1>2. About(e)' = About(e)
  BY <1>1 DEF About
<1>3. \A c : IsLast(e, c)' <=> IsLast(e, c)
  BY DEF IsLast
<1>4. Outdated(e)' = Outdated(e)
  BY <1>2, <1>3 DEF Outdated
<1> QED
  BY <1>2, <1>4 DEF Settled

LEMMA SyncInvInit == Sync!Init => SyncInv
<1> SUFFICES ASSUME Sync!Init PROVE SyncInv
  OBVIOUS
<1>1. /\ hash = [e \in Entry |-> 0] /\ newest = hash /\ sent = <<>> /\ count = 0
      /\ flushed = {} /\ excused = {} /\ answer = "none"
  BY DEF Sync!Init
<1>2. Sync!TypeOK
  <2>1. hash \in [Entry -> 0 .. MaxValue]
    BY <1>1, SyncAssumption DEF Sync!ConstantsAssumption
  <2> QED
    BY <1>1, <2>1 DEF Sync!TypeOK
<1>3. ASSUME NEW e \in Entry PROVE Follows(e)
  BY <1>1, KeptEmpty DEF Follows, Settled
<1>4. DoneSays
  BY <1>1 DEF DoneSays
<1> QED
  BY <1>2, <1>3, <1>4 DEF SyncInv

\* The last call of one entry is sent.
LEMMA SyncCalls ==
  ASSUME SyncInv, NEW e \in Entry, NEW c \in Sync!Command, c \in About(e), sent' = Append(sent, c),
         newest' \in [Entry -> 0 .. MaxValue], flushed' \subseteq Entry, IsLast(e, c)',
         \A d \in Entry \ {e} : newest'[d] = newest[d] /\ (d \in flushed' <=> d \in flushed),
         excused' = excused \ {e}, answer' \in {"none", answer}, UNCHANGED <<hash, count>>
  PROVE  SyncInv'
<1>1. sent \in Seq(Sync!Command) /\ sent' \in Seq(Sync!Command)
  BY SyncTypes
<1>2. Sync!TypeOK'
  BY <1>1, SyncTypes, SyncTypesAfter
<1>3. ASSUME NEW d \in Entry PROVE Follows(d)'
  <2>1. CASE d = e
    <3>1. About(e)' = About(e)
      BY DEF About, Sync!Command
    <3>2. c \notin Outdated(e)' /\ c \in About(e)'
      BY <3>1 DEF Outdated
    <3>3. /\ Kept(sent', Outdated(e)', About(e)') <=>
               c \in Outdated(e)' \/ (c \notin About(e)' /\ Kept(sent, Outdated(e)', About(e)'))
          /\ Untaken(sent', About(e)') <=> c \notin About(e)' /\ Untaken(sent, About(e)')
      BY <1>1, KeptAppend
    <3> QED
      BY <2>1, <3>2, <3>3 DEF Follows
  <2>2. CASE d # e
    <3>1. /\ About(d)' = About(d) /\ Outdated(d)' = Outdated(d) /\ (Settled(d)' <=> Settled(d))
      BY <2>2, SameSets
    <3>2. c \notin About(d) /\ c \notin Outdated(d)
      BY <2>2 DEF About, Outdated
    <3>3. /\ Kept(sent', Outdated(d), About(d)) <=> Kept(sent, Outdated(d), About(d))
          /\ Untaken(sent', About(d)) <=> Untaken(sent, About(d))
      BY <1>1, <3>2, KeptAppend
    <3> QED
      BY <2>2, <3>1, <3>3 DEF Follows, SyncInv
  <2> QED
    BY <2>1, <2>2
<1>4. DoneSays'
  BY DEF DoneSays, SyncInv
<1> QED
  BY <1>2, <1>3, <1>4 DEF SyncInv

LEMMA SyncExec ==
  ASSUME SyncInv, NEW e \in Entry, Sync!Exec(e)
  PROVE  SyncInv'
<1>1. PICK c : c = [op |-> "hset", entry |-> e, value |-> newest'[e]]
  OBVIOUS
<1>2. /\ newest[e] < MaxValue /\ newest' = [newest EXCEPT ![e] = @ + 1] /\ sent' = Append(sent, c)
      /\ flushed' = flushed \ {e} /\ excused' = excused \ {e} /\ answer' = "none" /\ UNCHANGED <<hash, count>>
  BY <1>1 DEF Sync!Exec, Sync!Sends
<1>3. /\ newest' \in [Entry -> 0 .. MaxValue] /\ newest'[e] \in 1 .. MaxValue
      /\ \A d \in Entry \ {e} : newest'[d] = newest[d]
  BY <1>2, SyncTypes, SyncAssumption DEF Sync!ConstantsAssumption
<1>4. c \in Sync!Command /\ c.op = "hset" /\ c.entry = e /\ c.value = newest'[e]
  BY <1>1, <1>3, SyncCommandsAre
<1>5. c \in About(e) /\ IsLast(e, c)'
  BY <1>2, <1>4 DEF About, IsLast
<1> QED
  BY <1>2, <1>3, <1>4, <1>5, SyncTypes, SyncCalls

LEMMA SyncFlush ==
  ASSUME SyncInv, NEW e \in Entry, e \notin OfUser, Sync!Flush(e)
  PROVE  SyncInv'
<1> DEFINE c == [op |-> "hdel", entry |-> e]
<1>1. /\ sent' = Append(sent, c) /\ flushed' = flushed \union {e} /\ excused' = excused \ {e}
      /\ UNCHANGED <<hash, count, newest, answer>>
  BY DEF Sync!Flush, Sync!Sends
<1>2. c \in Sync!Command /\ c.op = "hdel" /\ c.entry = e
  BY SyncCommandsAre
<1> HIDE DEF c
<1>3. c \in About(e) /\ IsLast(e, c)'
  BY <1>1, <1>2 DEF About, IsLast
<1> QED
  BY <1>1, <1>2, <1>3, SyncTypes, SyncCalls

\* Of no entry there is a call.
LEMMA SyncOthers ==
  ASSUME SyncInv, sent' \in Seq(Sync!Command), count' \in Nat, answer' \in {"none", "busy", answer},
         \A e \in Entry : /\ Kept(sent', Outdated(e), About(e)) => Kept(sent, Outdated(e), About(e))
                          /\ Untaken(sent', About(e)) => Untaken(sent, About(e)),
         UNCHANGED <<hash, newest, flushed, excused>>
  PROVE  SyncInv'
<1>1. Sync!TypeOK'
  BY SyncTypes, SyncTypesAfter
<1>2. ASSUME NEW e \in Entry PROVE Follows(e)'
  <2>1. /\ About(e)' = About(e) /\ Outdated(e)' = Outdated(e) /\ (Settled(e)' <=> Settled(e))
    BY SameSets
  <2> QED
    BY <2>1 DEF Follows, SyncInv
<1>3. DoneSays'
  BY DEF DoneSays, SyncInv
<1> QED
  BY <1>1, <1>2, <1>3 DEF SyncInv

LEMMA SyncSends ==
  ASSUME SyncInv, NEW c \in Sync!Command, c.op \in {"hgetall", "hlen"}, sent' = Append(sent, c),
         UNCHANGED <<hash, count, newest, flushed, excused, answer>>
  PROVE  SyncInv'
<1>1. sent \in Seq(Sync!Command)
  BY SyncTypes
<1>2. \A e : c \notin About(e) /\ c \notin Outdated(e)
  BY DEF About, Outdated
<1>3. \A e : /\ Kept(sent', Outdated(e), About(e)) => Kept(sent, Outdated(e), About(e))
             /\ Untaken(sent', About(e)) => Untaken(sent, About(e))
  BY <1>1, <1>2, KeptAppend
<1> QED
  BY <1>1, <1>3, SyncTypes, SyncOthers

\* Redis runs the first command.
LEMMA SyncFirst ==
  ASSUME SyncInv, sent # <<>>, sent' = Tail(sent)
  PROVE  /\ sent' \in Seq(Sync!Command) /\ Head(sent) \in Sync!Command
         /\ \A e \in Entry :
              /\ Kept(sent, Outdated(e), About(e)) <=>
                   Kept(sent', Outdated(e), About(e)) \/ (Head(sent) \in Outdated(e) /\ Untaken(sent', About(e)))
              /\ Untaken(sent, About(e)) <=> Head(sent) \notin About(e) /\ Untaken(sent', About(e))
<1>1. sent \in Seq(Sync!Command)
  BY SyncTypes
<1>2. sent' \in Seq(Sync!Command) /\ Head(sent) \in Sync!Command
  BY <1>1
<1> QED
  BY <1>1, <1>2, KeptTail

LEMMA SyncReads ==
  ASSUME SyncInv, Sync!Rewrite \/ Sync!DoneAnswers
  PROVE  SyncInv'
<1>1. /\ sent # <<>> /\ Head(sent).op \in {"hgetall", "hlen"}
      /\ UNCHANGED <<hash, count, newest, flushed, excused>>
  BY DEF Sync!Rewrite, Sync!DoneAnswers, Sync!Runs
<1>2. sent' = Tail(sent)
  <2>1. CASE Sync!Rewrite
    <3>1. sent' = Tail(sent) \o <<>>
      BY <2>1 DEF Sync!Rewrite, Sync!OnRead
    <3>2. Tail(sent) \in Seq(Sync!Command)
      BY <1>1, SyncTypes
    <3> QED
      BY <3>1, <3>2
  <2> QED
    BY <2>1 DEF Sync!DoneAnswers
<1>3. \A e : Head(sent) \notin About(e) /\ Head(sent) \notin Outdated(e)
  BY <1>1 DEF About, Outdated
<1>4. CASE answer' \in {"none", "busy", answer}
  BY <1>1, <1>2, <1>3, <1>4, SyncFirst, SyncTypes, SyncOthers
<1>5. CASE answer' = "done"
  <2>1. Sync!DoneAnswers \/ answer' = answer
    BY DEF Sync!Rewrite
  <2>2. CASE Sync!DoneAnswers
    <3>1. \A e \in Entry : hash[e] = 0
      BY <1>5, <2>2 DEF Sync!DoneAnswers, Sync!Says, Sync!Merged
    <3>2. Sync!TypeOK'
      BY <1>1, <1>2, <1>5, SyncFirst, SyncTypes, SyncTypesAfter
    <3>3. ASSUME NEW e \in Entry PROVE Follows(e)'
      <4>1. About(e)' = About(e) /\ Outdated(e)' = Outdated(e) /\ (Settled(e)' <=> Settled(e))
        BY <1>1, SameSets
      <4> QED
        BY <1>1, <1>2, <1>3, <4>1, SyncFirst DEF Follows, SyncInv
    <3>4. DoneSays'
      BY <1>1, <3>1 DEF DoneSays
    <3> QED
      BY <3>2, <3>3, <3>4 DEF SyncInv
  <2> QED
    BY <1>4, <2>1, <2>2
<1>6. answer' \in {"none", "busy", "done", answer}
  BY DEF Sync!Rewrite, Sync!DoneAnswers
<1> QED
  BY <1>4, <1>5, <1>6

\* A value comes, or is removed.
LEMMA SyncSets ==
  ASSUME SyncInv, sent # <<>>, sent' = Tail(sent), NEW e \in Entry, NEW v \in 0 .. MaxValue,
         Head(sent) \in About(e), v = IF Head(sent).op = "hset" THEN Head(sent).value ELSE 0,
         hash' = [hash EXCEPT ![e] = v], answer' = "none" \/ (v = 0 /\ answer' = answer),
         UNCHANGED <<count, newest, flushed, excused>>
  PROVE  SyncInv'
<1>1. hash' \in [Entry -> 0 .. MaxValue] /\ \A d \in Entry : hash'[d] = IF d = e THEN v ELSE hash[d]
  BY SyncTypes
<1>2. Sync!TypeOK'
  BY <1>1, SyncFirst, SyncTypes, SyncTypesAfter
<1>3. ASSUME NEW d \in Entry PROVE Follows(d)'
  <2>1. About(d)' = About(d) /\ Outdated(d)' = Outdated(d)
    BY SameSets
  <2>2. /\ Kept(sent, Outdated(d), About(d)) <=>
             Kept(sent', Outdated(d), About(d)) \/ (Head(sent) \in Outdated(d) /\ Untaken(sent', About(d)))
        /\ Untaken(sent, About(d)) <=> Head(sent) \notin About(d) /\ Untaken(sent', About(d))
    BY SyncFirst
  <2>3. CASE d = e
    <3>1. ASSUME Head(sent) \notin Outdated(e) PROVE Settled(e)'
      <4>1. IsLast(e, Head(sent))
        BY <3>1 DEF Outdated
      <4> QED
        BY <1>1, <4>1 DEF IsLast, Settled
    <3> QED
      BY <2>1, <2>2, <2>3, <3>1 DEF Follows, SyncInv
  <2>4. CASE d # e
    <3>1. Head(sent) \notin About(d) /\ Head(sent) \notin Outdated(d)
      BY <2>4 DEF About, Outdated
    <3>2. Settled(d)' <=> Settled(d)
      BY <1>1, <2>4, SameSets
    <3> QED
      BY <2>1, <2>2, <3>1, <3>2 DEF Follows, SyncInv
  <2> QED
    BY <2>3, <2>4
<1>4. DoneSays'
  BY <1>1 DEF DoneSays, SyncInv
<1> QED
  BY <1>2, <1>3, <1>4 DEF SyncInv

LEMMA SyncHSet ==
  ASSUME SyncInv, Sync!HSet
  PROVE  SyncInv'
<1> DEFINE h == Head(sent)
<1>1. /\ sent # <<>> /\ h.op = "hset" /\ sent' = Tail(sent) /\ hash' = [hash EXCEPT ![h.entry] = h.value]
      /\ answer' = "none" /\ UNCHANGED <<count, newest, flushed, excused>>
  BY DEF Sync!HSet, Sync!Runs
<1>2. h \in Sync!Command
  BY <1>1, SyncFirst
<1>3. h.entry \in Entry /\ h.value \in 1 .. MaxValue /\ h \in About(h.entry)
  BY <1>1, <1>2, SyncParts
<1> HIDE DEF h
<1>4. h.value \in 0 .. MaxValue /\ h = Head(sent)
  BY <1>3 DEF h
<1> QED
  BY <1>1, <1>3, <1>4, SyncSets

LEMMA SyncHDel ==
  ASSUME SyncInv, Sync!HDel
  PROVE  SyncInv'
<1> DEFINE h == Head(sent)
<1>1. /\ sent # <<>> /\ h.op = "hdel" /\ sent' = Tail(sent) /\ hash' = [hash EXCEPT ![h.entry] = 0]
      /\ UNCHANGED <<count, newest, flushed, excused, answer>>
  BY DEF Sync!HDel, Sync!Runs
<1>2. h \in Sync!Command
  BY <1>1, SyncFirst
<1>3. h.entry \in Entry /\ h \in About(h.entry)
  BY <1>1, <1>2, SyncParts
<1> HIDE DEF h
<1>4. 0 \in 0 .. MaxValue /\ h = Head(sent) /\ h.op # "hset"
  BY <1>1, SyncAssumption DEF h, Sync!ConstantsAssumption
<1> QED
  BY <1>1, <1>3, <1>4, SyncSets

\* The calls that are lost are those on their way.
LEMMA SyncCrashes ==
  ASSUME SyncInv, Sync!Crash
  PROVE  SyncInv'
<1> DEFINE lost == {sent[i].entry : i \in {j \in 1 .. Len(sent) : sent[j].op \in {"hset", "hdel"}}}
<1>1. /\ sent' = <<>> /\ count' = 0 /\ answer' = "none" /\ excused' = excused \union lost
      /\ UNCHANGED <<hash, newest, flushed>>
  BY DEF Sync!Crash
<1>2. \A i \in 1 .. Len(sent) : sent[i] \in Sync!Command
  BY SyncTypes
<1>3. lost \subseteq Entry
  BY <1>2, SyncParts
<1>4. ASSUME NEW e \in Entry, e \notin lost PROVE Untaken(sent, About(e))
  BY <1>2, <1>4 DEF Untaken, About
<1> HIDE DEF lost
<1>5. Sync!TypeOK'
  BY <1>1, <1>3, SyncTypes, SyncTypesAfter
<1>6. ASSUME NEW e \in Entry PROVE Follows(e)'
  <2>1. /\ ~ Kept(sent', Outdated(e)', About(e)') /\ Untaken(sent', About(e)')
    BY <1>1, KeptEmpty
  <2>2. Settled(e)' <=> Settled(e)
    BY <1>1, SameSets
  <2> QED
    BY <1>1, <1>4, <2>1, <2>2 DEF Follows, SyncInv
<1>7. DoneSays'
  BY <1>1 DEF DoneSays
<1> QED
  BY <1>5, <1>6, <1>7 DEF SyncInv

LEMMA SyncInvStep == SyncInv /\ (Sync!Next \/ UNCHANGED syncVars) => SyncInv'
<1> SUFFICES ASSUME SyncInv, Sync!Next \/ UNCHANGED syncVars PROVE SyncInv'
  OBVIOUS
<1>1. ASSUME count' \in Nat, UNCHANGED <<hash, sent, newest, flushed, excused, answer>> PROVE SyncInv'
  BY <1>1, SyncTypes, SyncOthers
<1>2. CASE UNCHANGED syncVars
  BY <1>1, <1>2, SyncTypes DEF syncVars
<1>3. ASSUME NEW e \in Entry, Sync!Exec(e) PROVE SyncInv'
  BY <1>3, SyncExec
<1>4. ASSUME NEW e \in Entry, Sync!Flush(e) PROVE SyncInv'
  <2>1. CASE e \in OfUser
    BY <1>1, <1>4, <2>1, SyncTypes DEF Sync!Flush
  <2> QED
    BY <1>4, <2>1, SyncFlush
<1>5. CASE Sync!ExecSync
  BY <1>1, <1>5, SyncTypes DEF Sync!ExecSync
<1>6. CASE Sync!Sync
  BY <1>6, SyncSends, SyncCommandsAre DEF Sync!Sync, Sync!Sends
<1>7. CASE Sync!IsDone
  <2> DEFINE c == [op |-> "hlen", idle |-> Sync!RewriterIsDone]
  <2>1. Sync!RewriterIsDone \in BOOLEAN
    BY DEF Sync!RewriterIsDone
  <2>2. c \in Sync!Command /\ c.op = "hlen"
    BY <2>1, SyncCommandsAre
  <2>3. sent' = Append(sent, c) /\ UNCHANGED <<hash, count, newest, flushed, excused, answer>>
    BY <1>7 DEF Sync!IsDone, Sync!Sends
  <2> HIDE DEF c
  <2> QED
    BY <2>2, <2>3, SyncSends
<1> QED
  BY <1>2, <1>3, <1>4, <1>5, <1>6, <1>7, SyncHSet, SyncHDel, SyncReads, SyncCrashes DEF Sync!Next

LEMMA SyncInvKept == SyncInv => Sync!TypeOK /\ Sync!NewestIsKept /\ Sync!DoneIsEmpty
<1> SUFFICES ASSUME SyncInv PROVE Sync!TypeOK /\ Sync!NewestIsKept /\ Sync!DoneIsEmpty
  OBVIOUS
<1>1. \A i \in 1 .. Len(sent) : sent[i] \in Sync!Command
  BY SyncTypes
<1>2. ASSUME NEW e \in Entry, e \notin excused, ~ Sync!OnItsWay(e)
      PROVE  Settled(e)
  <2>1. Untaken(sent, About(e))
    BY <1>1, <1>2 DEF Untaken, About, Sync!OnItsWay
  <2> QED
    BY <1>2, <2>1 DEF SyncInv, Follows
<1>3. Sync!NewestIsKept
  BY <1>2 DEF Sync!NewestIsKept, Settled
<1>4. Sync!DoneIsEmpty
  BY <1>2 DEF Sync!DoneIsEmpty, Settled, SyncInv, DoneSays
<1> QED
  BY <1>3, <1>4 DEF SyncInv

-----------------------------------------------------------------------------
(* All of them.  They share nothing, and only one of them moves.           *)

UsersInv == StoreInv /\ BackendInv /\ StatusInv /\ SyncInv

LEMMA UsersInvInductive == Spec => []UsersInv
<1>1. Init => UsersInv
  BY StoreInvInit, BackendInvInit, StatusInvInit, SyncInvInit DEF Init, UsersInv
<1>2. UsersInv /\ [Next]_vars => UsersInv'
  <2> SUFFICES ASSUME UsersInv, [Next]_vars PROVE UsersInv'
    OBVIOUS
  <2>1. /\ Store!Next \/ UNCHANGED storeVars
        /\ Backend!Next \/ UNCHANGED backendVars
        /\ Status!Next \/ UNCHANGED statusVars
        /\ Sync!Next \/ UNCHANGED syncVars
    BY Zenon DEF Next, vars
  <2> QED
    BY <2>1, StoreInvStep, BackendInvStep, StatusInvStep, SyncInvStep DEF UsersInv
<1> QED
  BY <1>1, <1>2, PTL DEF Spec

\* What backend servers and redis keep of a session agrees with it, and the store of
\* channels with the channels, whatever is retried, fails, restarts, or closes with
\* other sessions of the user (BackendSession, StatusService, ChannelService).
THEOREM SessionsAgreeCorrect == Spec => []SessionsAgree
<1>1. UsersInv => SessionsAgree
  BY StoreInvAgrees, StatusInvAgrees DEF UsersInv, BackendInv, SessionsAgree
<1> QED
  BY <1>1, UsersInvInductive, PTL

\* Redis keeps the newest value of an entry until it is flushed, but for calls that a
\* crash cut short, and isDone does not say so before (DbSync, Rewriter).
THEOREM NewestIsKeptCorrect == Spec => []NewestIsKept
<1>1. UsersInv => NewestIsKept
  BY SyncInvKept DEF UsersInv, NewestIsKept
<1> QED
  BY <1>1, UsersInvInductive, PTL
=============================================================================
