--------------------------- MODULE BackendSessions ---------------------------
(***************************************************************************)
(* Copies of sessions in backend servers, and the calls that bind, unbind, *)
(* kick and set through them.                                              *)
(*                                                                         *)
(*   core/common/service/backendSessionService.js                          *)
(*   core/common/remote/frontend/sessionRemote.js                          *)
(*   core/common/service/sessionService.js   bind, unbind, import          *)
(*                                                                         *)
(* A copy is made of what the frontend server exported with a request, or  *)
(* answered to get or getByUid, and is not told of what changes later.  A  *)
(* call goes by rpc, which may deliver calls in another order, may fail    *)
(* before the call has run or after, and calls back once; pushAll passes   *)
(* the settings by reference, so they are read when the call is encoded.   *)
(* The frontend server's own copies, FrontendSession, make the same calls  *)
(* without rpc.                                                            *)
(***************************************************************************)
EXTENDS Naturals, FiniteSets

CONSTANTS
  Session,        \* sessions of one frontend server
  Copy,           \* copies of them, in backend servers
  Uid, NoUid,
  Key, Value,     \* settings
  SingleSession,  \* opts.singleSession of the session service
  MaxCalls        \* bound: calls and answers on their way

\* What is assumed of the constants.
ConstantsAssumption ==
  /\ NoUid \notin Uid
  /\ SingleSession \in BOOLEAN
  /\ MaxCalls \in Nat

VARIABLES
  open,      \* sessions in the table
  uid,       \* Session.uid
  settings,  \* Session.settings
  copies,    \* BackendSession objects
  calls,     \* rpc on its way
  answers,   \* results on their way back, TRUE for an error
  unbound    \* sessions that have been unbound once

vars == <<open, uid, settings, copies, calls, answers, unbound>>

NoCopy == [of |-> "nothing"]
Call == [copy : Copy, of : Session, op : {"bind", "unbind"}, uid : Uid]
  \union [copy : Copy, of : Session, op : {"push"}, key : Key, value : Value]
  \union [copy : Copy, of : Session, op : {"pushAll"}]

TypeOK ==
  /\ open \subseteq Session
  /\ uid \in [Session -> Uid \union {NoUid}]
  /\ settings \in [Session -> [Key -> Value]]
  /\ copies \in [Copy -> {NoCopy} \union
       [of : Session, local : BOOLEAN, uid : Uid \union {NoUid}, settings : [Key -> Value]]]
  /\ calls \subseteq Call
  /\ answers \subseteq [call : Call, err : BOOLEAN]
  /\ unbound \subseteq Session

Init ==
  /\ open = Session
  /\ uid = [s \in Session |-> NoUid]
  /\ settings \in [Session -> {[k \in Key |-> v] : v \in Value}]
  /\ copies = [c \in Copy |-> NoCopy]
  /\ calls = {}
  /\ answers = {}
  /\ unbound = {}

-----------------------------------------------------------------------------
(* The backend server *)

\* sessionRemote.getBackendSessionBySid, toFrontendSession, export, create; a local
\* copy stays in the frontend server.
Get(c, s, l) ==
  /\ s \in open
  /\ copies[c] = NoCopy
  /\ copies' = [copies EXCEPT ![c] = [of |-> s, local |-> l, uid |-> uid[s], settings |-> settings[s]]]
  /\ UNCHANGED <<open, uid, settings, calls, answers, unbound>>

\* BackendSession.set: the copy only.
SetSetting(c, k, v) ==
  /\ copies[c] # NoCopy
  /\ copies' = [copies EXCEPT ![c].settings[k] = v]
  /\ UNCHANGED <<open, uid, settings, calls, answers, unbound>>

Invoke(m) ==
  /\ ~copies[m.copy].local
  /\ m.of = copies[m.copy].of
  /\ Cardinality(calls) + Cardinality(answers) < MaxCalls
  /\ m \notin calls
  /\ calls' = calls \union {m}
  /\ UNCHANGED <<open, uid, settings, copies, answers, unbound>>

\* BackendSession.bind, unbind, push with the value it has, pushAll.
CallBind(c, op, u) ==
  copies[c] # NoCopy /\ Invoke([copy |-> c, of |-> copies[c].of, op |-> op, uid |-> u])

CallPush(c, k) ==
  /\ copies[c] # NoCopy
  /\ Invoke([copy |-> c, of |-> copies[c].of, op |-> "push", key |-> k,
             value |-> copies[c].settings[k]])

CallPushAll(c) ==
  copies[c] # NoCopy /\ Invoke([copy |-> c, of |-> copies[c].of, op |-> "pushAll"])

-----------------------------------------------------------------------------
(* The frontend server *)

\* SessionService.bind: the errors of a session that is gone, has another user, or
\* whose user has a session and may have one only.
BindFails(s, u) ==
  \/ s \notin open
  \/ uid[s] \notin {NoUid, u}
  \/ uid[s] = NoUid /\ SingleSession /\ \E t \in open : uid[t] = u

UnbindFails(s, u) == s \notin open \/ uid[s] # u

Answer(m, err) == answers' = answers \union {[call |-> m, err |-> err]}

Bind(m) ==
  /\ m.op = "bind"
  /\ Answer(m, BindFails(m.of, m.uid))
  /\ uid' = IF BindFails(m.of, m.uid) THEN uid ELSE [uid EXCEPT ![m.of] = m.uid]
  /\ UNCHANGED <<settings, unbound>>

Unbind(m) ==
  /\ m.op = "unbind"
  /\ Answer(m, UnbindFails(m.of, m.uid))
  /\ uid' = IF UnbindFails(m.of, m.uid) THEN uid ELSE [uid EXCEPT ![m.of] = NoUid]
  /\ unbound' = IF UnbindFails(m.of, m.uid) THEN unbound ELSE unbound \union {m.of}
  /\ UNCHANGED settings

\* Session.set.
Set(s, k, v) == [settings EXCEPT ![s][k] = v]

\* SessionService.import.
Import(m) ==
  /\ m.op = "push"
  /\ Answer(m, m.of \notin open)
  /\ settings' = IF m.of \in open THEN Set(m.of, m.key, m.value) ELSE settings
  /\ UNCHANGED <<uid, unbound>>

\* SessionService.importAll, with the settings the copy has by now.
ImportAll(m) ==
  /\ m.op = "pushAll"
  /\ Answer(m, m.of \notin open)
  /\ settings' = IF m.of \in open
       THEN [settings EXCEPT ![m.of] = copies[m.copy].settings] ELSE settings
  /\ UNCHANGED <<uid, unbound>>

Runs(m) ==
  /\ calls' = calls \ {m}
  /\ UNCHANGED <<open, copies>>
  /\ Bind(m) \/ Unbind(m) \/ Import(m) \/ ImportAll(m)

\* FrontendSession: the calls of a local copy run at once and call back at once.
FrontendSession(c) ==
  /\ copies[c] # NoCopy /\ copies[c].local
  /\ LET s == copies[c].of
         Note(u) == uid' = [uid EXCEPT ![s] = u] /\ copies' = [copies EXCEPT ![c].uid = u]
     IN \/ \E u \in Uid : ~BindFails(s, u) /\ Note(u) /\ UNCHANGED <<settings, unbound>>
        \/ \E u \in Uid : ~UnbindFails(s, u) /\ Note(NoUid) /\ unbound' = unbound \union {s}
                          /\ UNCHANGED settings
        \/ /\ s \in open
           /\ \/ \E k \in Key : settings' = Set(s, k, copies[c].settings[k])
              \/ settings' = [settings EXCEPT ![s] = copies[c].settings]
           /\ UNCHANGED <<uid, copies, unbound>>
  /\ UNCHANGED <<open, calls, answers>>

\* Session.closed.
Closed(S) == open' = open \ S /\ UNCHANGED <<uid, settings, copies, calls, answers, unbound>>

\* After a disconnect, or by kickBySid, whose way to the frontend server nobody sees.
Close(s) == s \in open /\ Closed({s})

\* kickByUid: all sessions of the user.
KickByUid(u) == Closed({s \in open : uid[s] = u})

-----------------------------------------------------------------------------
(* What comes back *)

\* The callbacks of BackendSession.bind and unbind note the user unless it failed.
Noted(a) ==
  IF a.err THEN copies[a.call.copy].uid ELSE IF a.call.op = "bind" THEN a.call.uid ELSE NoUid

Callback(a) ==
  /\ answers' = answers \ {a}
  /\ copies' = IF a.call.op \in {"bind", "unbind"}
                 THEN [copies EXCEPT ![a.call.copy].uid = Noted(a)] ELSE copies
  /\ UNCHANGED <<open, uid, settings, calls, unbound>>

\* The rpc fails: the copy is as it was, whether the call has run or never will.
RpcFails(m) ==
  /\ calls' = calls \ {m}
  /\ answers' = {a \in answers : a.call # m}
  /\ <<calls, answers>> # <<calls', answers'>>
  /\ UNCHANGED <<open, uid, settings, copies, unbound>>

-----------------------------------------------------------------------------
Next ==
  \/ \E c \in Copy, s \in Session, l \in BOOLEAN : Get(c, s, l)
  \/ \E c \in Copy, k \in Key, v \in Value : SetSetting(c, k, v)
  \/ \E c \in Copy, u \in Uid, op \in {"bind", "unbind"} : CallBind(c, op, u)
  \/ \E c \in Copy, k \in Key : CallPush(c, k)
  \/ \E c \in Copy : CallPushAll(c)
  \/ \E m \in calls : Runs(m)
  \/ \E c \in Copy : FrontendSession(c)
  \/ \E s \in Session : Close(s)
  \/ \E u \in Uid : KickByUid(u)
  \/ \E a \in answers : Callback(a)
  \/ \E m \in calls \union {a.call : a \in answers} : RpcFails(m)

Spec == Init /\ [][Next]_vars

-----------------------------------------------------------------------------
(* Properties *)

\* A copy that was told its session has a user is right for as long as nobody has
\* unbound that session: not the bind of another copy, nor a retry of a call whose
\* answer was lost, makes it wrong (bind, BackendSession.bind).
CopiesAgree ==
  \A c \in Copy : copies[c] # NoCopy =>
    \/ copies[c].uid \in {NoUid, uid[copies[c].of]}
    \/ copies[c].of \in unbound

\* With singleSession no two open sessions get the same user, whichever backend
\* servers bind them at once.
OneSessionPerUser ==
  SingleSession =>
    \A s, t \in open : uid[s] = uid[t] /\ uid[s] # NoUid => s = t
=============================================================================
