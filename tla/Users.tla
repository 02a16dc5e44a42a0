-------------------------------- MODULE Users --------------------------------
(***************************************************************************)
(* What servers keep of users: channels and the pushes to their members,   *)
(* the store of channels, backend sessions, the status of users in redis,  *)
(* and the entities that are kept for the database.  They share no state:  *)
(* one of them runs in each behaviour, the others stay where they start.   *)
(***************************************************************************)
EXTENDS Naturals, Sequences, FiniteSets

CONSTANTS
  Frontend, Own, Uid, Session, Home, User, Scheduler, Number, MaxListed,  \* Push
  Copy, Key, Value, NoUid, SingleSession, MaxCalls,                       \* BackendSessions
  On, StatusUid, CleanOnStartUp, MaxStarts, MaxPushes, MaxCommands,       \* Status
  Entry, OfUser, MaxValue, MaxSent, MaxCount, MaxCrashes,                 \* DataSync
  Name, Object, Member, Sidless, NoObject, MaxWrites                      \* ChannelStore

VARIABLES
  part,
  listed, records, amount, channel, pushes, binded, rpc, waiting, replies, success, thrown,
  failIds, result, session, running, queued, queue, got, owed,
  openB, uidB, settings, copies, calls, answers, unbound,
  state, open, uid, sentS, redisS, marred, pushS, starts, pushesS,
  hash, sent, count, newest, flushed, excused, answer, crashes,
  up, startsC, channels, name, made, destroyed, groups, names, members, writes, marredC

Push == INSTANCE Push

Backend == INSTANCE BackendSessions WITH open <- openB, uid <- uidB

Status == INSTANCE Status WITH
  Uid <- StatusUid, MaxSent <- MaxCommands,
  sent <- sentS, redis <- redisS, push <- pushS, pushes <- pushesS

Sync == INSTANCE DataSync

Store == INSTANCE ChannelStore WITH starts <- startsC, marred <- marredC

ASSUME StoreAssumption == Store!StoreAssumption
ASSUME PushAssumption == Push!ConstantsAssumption
ASSUME BackendAssumption == Backend!ConstantsAssumption
ASSUME StatusAssumption == Status!ConstantsAssumption
ASSUME SyncAssumption == Sync!ConstantsAssumption

pushVars == <<listed, records, amount, channel, pushes, binded, rpc, waiting, replies, success,
              thrown, failIds, result, session, running, queued, queue, got, owed>>
backendVars == <<openB, uidB, settings, copies, calls, answers, unbound>>
statusVars == <<state, open, uid, sentS, redisS, marred, pushS, starts, pushesS>>
syncVars == <<hash, sent, count, newest, flushed, excused, answer, crashes>>
storeVars == <<up, startsC, channels, name, made, destroyed, groups, names, members, writes, marredC>>
vars == <<part, pushVars, backendVars, statusVars, syncVars, storeVars>>

Init ==
  /\ part \in {"push", "backend", "status", "sync", "store"}
  /\ Push!Init /\ Backend!Init /\ Status!Init /\ Sync!Init /\ Store!Init

Next ==
  \/ part = "push" /\ Push!Next /\ UNCHANGED <<part, backendVars, statusVars, syncVars, storeVars>>
  \/ part = "backend" /\ Backend!Next /\ UNCHANGED <<part, pushVars, statusVars, syncVars, storeVars>>
  \/ part = "status" /\ Status!Next /\ UNCHANGED <<part, pushVars, backendVars, syncVars, storeVars>>
  \/ part = "sync" /\ Sync!Next /\ UNCHANGED <<part, pushVars, backendVars, statusVars, storeVars>>
  \/ part = "store" /\ Store!Next /\ UNCHANGED <<part, pushVars, backendVars, statusVars, syncVars>>

\* What stays where it starts has no fair action that could be taken.
Spec == Init /\ [][Next]_vars /\ Push!Fairness

-----------------------------------------------------------------------------
(* Properties *)

\* A push reaches the members who stay, or reports them; a broadcast reaches a session
\* once; the channel and the queues name members and sessions that are there
\* (Channel, BufferPushScheduler).
EveryMember ==
  part = "push" => /\ Push!MembersAgree /\ Push!QueuesHaveSessions
                   /\ Push!EveryMember /\ Push!BroadcastOnce

\* A push calls back, and queued messages are written (pushMessage, flush).
PushReturns == Push!PushReturns

\* What backend servers and redis keep of a session agrees with it, and the store of
\* channels with the channels, whatever is retried, fails, restarts, or closes with
\* other sessions of the user (BackendSession, StatusService, ChannelService).
SessionsAgree ==
  /\ part = "backend" => Backend!TypeOK /\ Backend!CopiesAgree /\ Backend!OneSessionPerUser
  /\ part = "status" => Status!TypeOK /\ Status!StatusAgrees /\ Status!PushReturnsOnce
  /\ part = "store" => Store!TypeOK /\ Store!StoreAgrees

\* Redis keeps the newest value of an entity until it is flushed, and isDone does not say
\* so before (DbSync, Rewriter).
NewestIsKept == part = "sync" => Sync!TypeOK /\ Sync!NewestIsKept /\ Sync!DoneIsEmpty

=============================================================================
