---------------------------- MODULE ChannelStore ----------------------------
(***************************************************************************)
(* The optional store of the channel service: every change of a channel is *)
(* also written to it, with nobody waiting for the answer, and a server    *)
(* that starts restores its channels from it.                              *)
(*                                                                         *)
(*   olemop/lib/common/service/channelService.js                           *)
(*                                                                         *)
(* The store is the application's; its writes are carried out in order,    *)
(* and one may fail.  What a push does with a channel is in Push.          *)
(***************************************************************************)
EXTENDS Naturals, Sequences, FiniteSets

CONSTANTS
  Name,       \* names of channels
  Object,     \* channel objects, which the application may keep after destroy
  Member,     \* <<sid, uid>>
  Sidless,    \* those of them without a sid
  NoObject, MaxStarts, MaxWrites

\* What is assumed of the constants.
StoreAssumption ==
  /\ NoObject \notin Object
  /\ Name # {} /\ IsFiniteSet(Name) /\ IsFiniteSet(Object)
  /\ Sidless \subseteq Member /\ MaxStarts \in Nat

VARIABLES
  up, starts,
  channels,   \* name: its object, or none
  name, made, destroyed, \* object: its channel; whether it exists; its state
  groups,     \* object: how often a member is listed
  names,      \* the store: the list of channels
  members,    \* the store: name, its members
  writes,     \* on their way to it
  marred      \* names of which a write was lost, or a member was listed twice,
              \* or a channel object used that its name no longer has

vars == <<up, starts, channels, name, made, destroyed, groups, names, members, writes, marred>>
storeVars == <<names, members>>

TypeOK ==
  /\ starts \in 0 .. MaxStarts /\ channels \in [Name -> Object \union {NoObject}]
  /\ name \in [Object -> Name] /\ made \subseteq Object /\ destroyed \subseteq Object
  /\ groups \in [Object -> [Member -> 0 .. 2]]
  /\ names \subseteq Name /\ members \in [Name -> SUBSET Member] /\ marred \subseteq Name

Init ==
  /\ up = FALSE /\ starts = 0 /\ channels = [n \in Name |-> NoObject]
  /\ name = [o \in Object |-> CHOOSE n \in Name : TRUE] /\ made = {} /\ destroyed = {}
  /\ groups = [o \in Object |-> [m \in Member |-> 0]]
  /\ names = {} /\ members = [n \in Name |-> {}] /\ writes = <<>> /\ marred = {}

-----------------------------------------------------------------------------
(* Operations of the service and of a channel *)

AddToStore(n, m) == <<"add", n, m>>
RemoveFromStore(n, m) == <<"remove", n, m>>
RemoveAllFromStore(n) == <<"removeAll", n>>
InList(n) == <<"list", n>>
OffList(n) == <<"unlist", n>>

Issue(ws) == Len(writes) + Len(ws) <= MaxWrites /\ writes' = writes \o ws

\* The objects are made in an order.
Fresh == CHOOSE o \in Object \ made : TRUE

\* createChannel, and getChannel with create; both answer the channel that is there.
CreateChannel(n) ==
  /\ up /\ channels[n] = NoObject /\ Object \ made # {}
  /\ channels' = [channels EXCEPT ![n] = Fresh] /\ name' = [name EXCEPT ![Fresh] = n]
  /\ made' = made \union {Fresh} /\ Issue(<<InList(n)>>)
  /\ UNCHANGED <<up, starts, destroyed, groups, storeVars, marred>>

\* Mutant: the members stay in the store.
DestroysListOnly(n) == <<OffList(n)>>
Destroys(n) == <<OffList(n), RemoveAllFromStore(n)>>

\* The channel is forgotten by its name, whichever object has it now.
DestroyChannel(n) ==
  /\ channels' = [channels EXCEPT ![n] = NoObject] /\ Issue(Destroys(n))
  /\ UNCHANGED <<up, starts, name, made, groups, storeVars>>

Stale(o) == IF channels[name[o]] = o THEN marred ELSE marred \union {name[o]}

Destroy(o) ==
  /\ up /\ o \in made /\ destroyed' = destroyed \union {o} /\ marred' = Stale(o)
  /\ DestroyChannel(name[o])

\* The object that is destroyed by name still takes members.
DestroyByName(n) == up /\ DestroyChannel(n) /\ UNCHANGED <<destroyed, marred>>

\* A member may be listed twice.  The bound is two.  One without a sid is refused, yet
\* written to the store.
Add(o, m) ==
  /\ up /\ o \in made \ destroyed /\ groups[o][m] < 2
  /\ groups' = IF m \in Sidless THEN groups ELSE [groups EXCEPT ![o][m] = @ + 1]
  /\ Issue(<<AddToStore(name[o], m)>>)
  /\ marred' = Stale(o) \union (IF groups[o][m] > 0 THEN {name[o]} ELSE {})
  /\ UNCHANGED <<up, starts, channels, name, made, destroyed, storeVars>>

\* leave writes whether the member was listed or not, also for a destroyed channel, but
\* does nothing without a sid.
Leave(o, m) ==
  /\ up /\ o \in made /\ m \notin Sidless
  /\ groups' = [groups EXCEPT ![o][m] = IF @ > 0 THEN @ - 1 ELSE @]
  /\ Issue(<<RemoveFromStore(name[o], m)>>) /\ marred' = Stale(o)
  /\ UNCHANGED <<up, starts, channels, name, made, destroyed, storeVars>>

-----------------------------------------------------------------------------
(* The store *)

Written(w) ==
  /\ names' = CASE w[1] = "list" -> names \union {w[2]} [] w[1] = "unlist" -> names \ {w[2]} [] OTHER -> names
  /\ members' = [members EXCEPT ![w[2]] =
       CASE w[1] = "add" -> @ \union {w[3]} [] w[1] = "remove" -> @ \ {w[3]}
         [] w[1] = "removeAll" -> {} [] OTHER -> @]

\* The error of a write is only logged.
Write == writes # <<>> /\ writes' = Tail(writes) /\
  /\ \/ Written(Head(writes)) /\ UNCHANGED marred
     \/ marred' = marred \union {Head(writes)[2]} /\ UNCHANGED storeVars
  /\ UNCHANGED <<up, starts, channels, name, made, destroyed, groups>>

-----------------------------------------------------------------------------
(* Crash and start *)

\* The channels, and what was on its way, are lost with the process.
Crash ==
  /\ up /\ up' = FALSE /\ channels' = [n \in Name |-> NoObject]
  /\ made' = {} /\ destroyed' = {} /\ groups' = [o \in Object |-> [m \in Member |-> 0]]
  /\ name' = [o \in Object |-> CHOOSE n \in Name : TRUE]
  /\ writes' = <<>> /\ marred' = marred \union {writes[i][2] : i \in DOMAIN writes}
  /\ UNCHANGED <<starts, storeVars>>

\* The restored channels have objects of their own.
Restored == CHOOSE f \in [names -> Object] : \A a, b \in names : a # b => f[a] # f[b]

\* _restoreChannel: a channel is made for every listed name; the loading of its members
\* refers to a name that is not declared, and throws at the first of them, which may be
\* the end of the process (see Crash).
Start ==
  /\ ~up /\ starts < MaxStarts /\ Cardinality(names) <= Cardinality(Object)
  /\ up' = TRUE /\ starts' = starts + 1
  /\ channels' = [n \in Name |-> IF n \in names THEN Restored[n] ELSE NoObject]
  /\ made' = {Restored[n] : n \in names}
  /\ name' = [o \in Object |-> IF o \in made' THEN CHOOSE n \in names : Restored[n] = o ELSE name[o]]
  /\ marred' = marred \union {n \in names : members[n] # {}}
  /\ UNCHANGED <<destroyed, groups, storeVars, writes>>

Next ==
  \/ \E n \in Name : CreateChannel(n) \/ DestroyByName(n)
  \/ \E o \in Object : Destroy(o) \/ \E m \in Member : Add(o, m) \/ Leave(o, m)
  \/ Write \/ Crash \/ Start

Spec == Init /\ [][Next]_vars

-----------------------------------------------------------------------------
(* Properties *)

Members(n) == IF channels[n] = NoObject THEN {} ELSE {m \in Member : groups[channels[n]][m] > 0}

\* What the store holds once all is written is what the server has: a channel is
\* listed as long as it is there, with its members and no others, also of channels
\* that were destroyed and made again, or restored, except where a write was lost,
\* the members of a restored channel were not loaded, or an old object was used, and
\* but for members without a sid, which only the store has.
StoreAgrees == up /\ writes = <<>> => \A n \in Name \ marred :
  /\ n \in names <=> channels[n] # NoObject
  /\ members[n] \ Sidless = Members(n)
=============================================================================
