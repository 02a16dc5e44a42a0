------------------------------ MODULE Requests ------------------------------
(***************************************************************************)
(* A client's request in the servers: from the connector of a frontend     *)
(* server through the global filters, then through the filters and the     *)
(* handler of this server or, forwarded over rpc, of a backend server, and *)
(* back to the client.                                                     *)
(*                                                                         *)
(*   core/components/connector.js     handleMessage, send                  *)
(*   core/server/server.js            globalHandle, handle, doForward      *)
(*   core/common/service/filterService.js, handlerService.js               *)
(*   core/common/remote/backend/msgRemote.js, backendSessionService.create *)
(*   core/filters/handler, core/common/manager: timeout, toobusy, serial   *)
(*                                                                         *)
(* Filters, error handlers and handlers are code of the application: each  *)
(* is a step that may come at any later time, or never.  What waits for it *)
(* is a member of work, the continuation the server passed to it.  Filters *)
(* of the framework run in the turn they are called in; they are steps too *)
(* because they touch nothing but their own request.                       *)
(* Every message has a session object of its own (toFrontendSession,       *)
(* BackendSessionService.create), so what a filter notes on it belongs to  *)
(* the request: the id of its timer too, unless a global and a local       *)
(* timeout filter share it, which ConstantsAssumption excludes.  The       *)
(* callback of a forwarded message is called once at most (CallbackOnce of *)
(* MailStation).                                                           *)
(***************************************************************************)
EXTENDS Naturals, Sequences, FiniteSets

CONSTANTS
  Req,            \* messages of clients, each sent once
  Session,        \* sessions of the frontend server
  NoSession,      \* that of a message not sent yet
  Configurations, \* filters registered in each place, in their order
  ErrorHandlers   \* are error handlers set

Place == {"global", "front", "back"}   \* global filters run in the frontend server
Process == {"front", "back"}
Home(p) == IF p = "back" THEN "back" ELSE "front"
Filter == {"user", "timeout", "toobusy", "serial"}
Target == {"front", "back", "absent", "malformed", "dotless"}

\* What is assumed of the constants.
ConstantsAssumption ==
  /\ IsFiniteSet(Req)
  /\ NoSession \notin Session
  /\ Configurations \subseteq [Place -> Seq(Filter)]
  /\ \A f \in Configurations : \E p \in {"global", "front"} :
       "timeout" \notin {f[p][i] : i \in DOMAIN f[p]}
  /\ ErrorHandlers \in BOOLEAN

VARIABLES
  filters,    \* those of this deployment
  server,     \* state of the server component of each process
  open,       \* sessions in the table of the frontend server
  msg,        \* what was sent: its session, its target, whether it has an id
  work,       \* continuations held by filters, handlers and error handlers
  forwarded,  \* requests whose rpc callback the mailbox keeps
  timeouts,   \* entries of the timeout filter of each place
  queues,     \* sessions with a task queue in the task manager of each process
  responses,  \* responses written to the socket for each request
  repeated    \* requests whose handler failed after it had called back

vars == <<filters, server, open, msg, work, forwarded, timeouts, queues, responses, repeated>>

NotSent == [session |-> NoSession, target |-> "absent", id |-> FALSE]
Message == [session : Session, target : Target, id : BOOLEAN] \union {NotSent}

\* A continuation.  Of a filter chain, i counts the filters called so far; err is
\* the error on its way.  Equal ones, of a handler that fails twice, are one.
Wait(r, p, at, err) == [req |-> r, place |-> p, at |-> at, i |-> 0, err |-> err]
Work ==
  [req : Req, place : Place, at : {"before", "handler", "tail", "error", "after", "forward"},
   i : Nat, err : BOOLEAN]

TypeOK ==
  /\ filters \in Configurations
  /\ server \in [Process -> {"inited", "started", "stopped"}]
  /\ open \subseteq Session
  /\ msg \in [Req -> Message]
  /\ work \subseteq Work
  /\ \A w \in work : w.i <= Len(filters[w.place])
  /\ forwarded \subseteq Req
  /\ timeouts \in [Place -> SUBSET Req]
  /\ queues \in [Process -> SUBSET Session]
  /\ responses \in [Req -> Nat]
  /\ repeated \subseteq Req

\* initFilter: before and after filters, global ones and those of a process.
InitFilter == filters \in Configurations

Init ==
  /\ InitFilter
  /\ server = [p \in Process |-> "inited"]
  /\ open = Session
  /\ msg = [r \in Req |-> NotSent]
  /\ work = {}
  /\ forwarded = {}
  /\ timeouts = [p \in Place |-> {}]
  /\ queues = [p \in Process |-> {}]
  /\ responses = [r \in Req |-> 0]
  /\ repeated = {}

-----------------------------------------------------------------------------
(* Server components and sessions *)

Start(p) ==
  /\ server[p] = "inited"
  /\ server' = [server EXCEPT ![p] = "started"]
  /\ UNCHANGED <<filters, open, msg, work, forwarded, timeouts, queues, responses, repeated>>

Stop(p) ==
  /\ server[p] # "stopped"
  /\ server' = [server EXCEPT ![p] = "stopped"]
  /\ UNCHANGED <<filters, open, msg, work, forwarded, timeouts, queues, responses, repeated>>

\* onSessionClose: the task queue of the session is closed by force and dropped.
CloseSession(s) ==
  /\ s \in open
  /\ open' = open \ {s}
  /\ queues' = [queues EXCEPT !["front"] = @ \ {s}]
  /\ UNCHANGED <<filters, server, msg, work, forwarded, timeouts, responses, repeated>>

-----------------------------------------------------------------------------
(* The way out *)

Replace(w, S) == work' = (work \ {w}) \union S

\* Mutant: doForward only logs that there is no proxy.
RespondToRouted(r, m) ==
  responses' = [responses EXCEPT ![r] =
    IF m.id /\ m.session \in open /\ m.target # "absent" THEN @ + 1 ELSE @]

\* The callback of handleMessage: a message without an id gets no response, and a
\* response to a session that has gone finds nobody.
RespondTo(r, m) ==
  responses' = [responses EXCEPT ![r] = IF m.id /\ m.session \in open THEN @ + 1 ELSE @]

Respond(r) == RespondTo(r, msg[r])

\* response, global: the response is sent, then the global after filters run.
GlobalResponse(r, err) == {Wait(r, "global", "after", err)}

\* response, otherwise: the after filters run, then the callback is called.
Response(p, r, err) == {Wait(r, p, "after", err)}

\* handleError: an error handler decides when to go on.
HandleError(p, r) == IF ErrorHandlers THEN {Wait(r, p, "error", TRUE)} ELSE Response(p, r, TRUE)

\* The callback passed to handlerService.handle.
CalledBack(p, r, err) == IF err THEN HandleError(p, r) ELSE Response(p, r, FALSE)

\* The error handler calls back, with the error or without.
ErrorHandled(w, err) ==
  /\ w.at = "error"
  /\ IF w.place = "global"
       THEN /\ Respond(w.req)
            /\ Replace(w, GlobalResponse(w.req, err))
       ELSE /\ Replace(w, Response(w.place, w.req, err))
            /\ UNCHANGED responses
  /\ UNCHANGED <<filters, server, open, msg, forwarded, timeouts, queues, repeated>>

\* FilterService.after prepends: the after filters run in the reverse order.
Afters(p) == [i \in DOMAIN filters[p] |-> filters[p][Len(filters[p]) + 1 - i]]

\* TimeoutFilter.after: the timer and its entry go; SerialFilter.after finds no
\* task, as none has run, and the filters of the application touch nothing here.
TimeoutAfter(w) ==
  IF Afters(w.place)[w.i + 1] = "timeout"
    THEN [timeouts EXCEPT ![w.place] = @ \ {w.req}] ELSE timeouts

NextFilter(w) == Replace(w, {[w EXCEPT !.i = @ + 1]})

\* afterFilter: one filter of the chain.
AfterFilter(w) ==
  /\ w.at = "after"
  /\ w.i < Len(filters[w.place])
  /\ NextFilter(w)
  /\ timeouts' = TimeoutAfter(w)
  /\ UNCHANGED <<filters, server, open, msg, forwarded, queues, responses, repeated>>

\* Mutant: the global after filters call back as the others do.
AnswersTwice(w) == w.place # "back" \/ w.req \in forwarded

\* The after filters have run.  Those of the frontend server lead to the response of
\* globalHandle, those of the backend to the reply to the forwarded message, of
\* which the mailbox takes the first; nothing waits for the global ones.
Answers(w) == w.place = "front" \/ (w.place = "back" /\ w.req \in forwarded)

AfterDone(w) ==
  /\ w.at = "after"
  /\ w.i = Len(filters[w.place])
  /\ IF Answers(w) THEN Respond(w.req) ELSE UNCHANGED responses
  /\ Replace(w, IF Answers(w) THEN GlobalResponse(w.req, w.err) ELSE {})
  /\ forwarded' = IF w.place = "back" THEN forwarded \ {w.req} ELSE forwarded
  /\ UNCHANGED <<filters, server, open, msg, timeouts, queues, repeated>>

-----------------------------------------------------------------------------
(* The way in *)

\* handleMessage, globalHandle: a route without a dot is dropped; a server that is
\* not started and a malformed route answer at once, without any filter.
Arrive(r, s, t, id) ==
  /\ msg[r] = NotSent
  /\ s \in open
  /\ LET m == [session |-> s, target |-> t, id |-> id]
     IN /\ msg' = [msg EXCEPT ![r] = m]
        /\ IF t # "dotless" /\ (server["front"] # "started" \/ t = "malformed")
             THEN RespondTo(r, m) ELSE UNCHANGED responses
  /\ work' = IF t \notin {"dotless", "malformed"} /\ server["front"] = "started"
               THEN work \union {Wait(r, "global", "before", FALSE)} ELSE work
  /\ UNCHANGED <<filters, server, open, forwarded, timeouts, queues, repeated>>

\* The next filter of the before chain.
Calls(w, filter) ==
  /\ w.at = "before"
  /\ w.i < Len(filters[w.place])
  /\ filters[w.place][w.i + 1] = filter

Passes(w) ==
  /\ Calls(w, "user") \/ Calls(w, "toobusy")
  /\ NextFilter(w)
  /\ UNCHANGED <<filters, server, open, msg, forwarded, timeouts, queues, responses, repeated>>

\* A filter passes an error, toobusy or one of the application: the chain ends.
Refuses(w) ==
  /\ Calls(w, "user") \/ Calls(w, "toobusy")
  /\ IF w.place = "global" /\ ~ErrorHandlers
       THEN /\ Respond(w.req)
            /\ Replace(w, GlobalResponse(w.req, TRUE))
       ELSE /\ Replace(w, HandleError(w.place, w.req))
            /\ UNCHANGED responses
  /\ UNCHANGED <<filters, server, open, msg, forwarded, timeouts, queues, repeated>>

\* TimeoutFilter.before.  The timers of all requests share a table: when it is
\* full there is none for this one.
TimeoutBefore(w) ==
  /\ Calls(w, "timeout")
  /\ NextFilter(w)
  /\ \/ timeouts' = [timeouts EXCEPT ![w.place] = @ \union {w.req}]
     \/ UNCHANGED timeouts
  /\ UNCHANGED <<filters, server, open, msg, forwarded, queues, responses, repeated>>

\* SerialFilter.before, addTask, SeqQueue.push.  The first task makes the queue
\* busy and starts it in the next tick, which reads self.curId: self is defined
\* nowhere, so neither this tick nor a later push runs a task.
AddTask(p, s) == queues' = [queues EXCEPT ![p] = @ \union {s}]
SerialBefore(w) ==
  /\ Calls(w, "serial")
  /\ msg[w.req].session \notin queues[Home(w.place)]
  /\ AddTask(Home(w.place), msg[w.req].session)
  /\ UNCHANGED <<filters, server, open, msg, work, forwarded, timeouts, responses, repeated>>

Passed(w) == w.at = "before" /\ w.i = Len(filters[w.place])

\* dispatch: the request is for this server, ...
DispatchHere(w) ==
  /\ Passed(w)
  /\ w.place = "global"
  /\ msg[w.req].target = "front"
  /\ Replace(w, {Wait(w.req, "front", "before", FALSE)})
  /\ UNCHANGED <<filters, server, open, msg, forwarded, timeouts, queues, responses, repeated>>

\* ... or for another: doForward.
DoForward(w) ==
  /\ Passed(w)
  /\ w.place = "global"
  /\ msg[w.req].target = "back"
  /\ Replace(w, {Wait(w.req, "back", "forward", FALSE)})
  /\ forwarded' = forwarded \union {w.req}
  /\ UNCHANGED <<filters, server, open, msg, timeouts, queues, responses, repeated>>

\* There is no proxy for that type of server: doForward catches the TypeError.
ForwardThrows(w) ==
  /\ Passed(w)
  /\ w.place = "global"
  /\ msg[w.req].target = "absent"
  /\ Respond(w.req)
  /\ Replace(w, GlobalResponse(w.req, TRUE))
  /\ UNCHANGED <<filters, server, open, msg, forwarded, timeouts, queues, repeated>>

\* The rpc client gives up, whatever has become of the message.
ForwardFails(r) ==
  /\ r \in forwarded
  /\ forwarded' = forwarded \ {r}
  /\ Respond(r)
  /\ work' = work \union GlobalResponse(r, TRUE)
  /\ UNCHANGED <<filters, server, open, msg, timeouts, queues, repeated>>

\* MSGRemote.forwardMessage, Server.handle.
ForwardMessage(w) ==
  /\ w.at = "forward"
  /\ LET runs == server["back"] = "started"
         taken == ~runs /\ w.req \in forwarded
     IN /\ Replace(w, (IF runs THEN {Wait(w.req, "back", "before", FALSE)} ELSE {})
                       \union (IF taken THEN GlobalResponse(w.req, TRUE) ELSE {}))
        /\ IF taken THEN Respond(w.req) ELSE UNCHANGED responses
        /\ forwarded' = IF taken THEN forwarded \ {w.req} ELSE forwarded
  /\ UNCHANGED <<filters, server, open, msg, timeouts, queues, repeated>>

-----------------------------------------------------------------------------
(* Handlers *)

\* doHandle: the filters have passed, the handler is called.
CallHandler(w) ==
  /\ Passed(w)
  /\ w.place # "global"
  /\ Replace(w, {Wait(w.req, w.place, "handler", FALSE)})
  /\ UNCHANGED <<filters, server, open, msg, forwarded, timeouts, queues, responses, repeated>>

\* Its callback; the handler itself may still run.
HandlerCalls(w, err) ==
  /\ w.at = "handler"
  /\ Replace(w, CalledBack(w.place, w.req, err) \union {[w EXCEPT !.at = "tail"]})
  /\ UNCHANGED <<filters, server, open, msg, forwarded, timeouts, queues, responses, repeated>>

HandlerReturns(w) ==
  /\ w.at = "tail"
  /\ Replace(w, {})
  /\ UNCHANGED <<filters, server, open, msg, forwarded, timeouts, queues, responses, repeated>>

\* handlerService.handle awaits the handler and calls back with what it throws,
\* also when the handler has called back before.  No handler is an error too.
HandlerThrows(w) ==
  /\ w.at \in {"handler", "tail"}
  /\ Replace(w, HandleError(w.place, w.req))
  /\ repeated' = IF w.at = "tail" THEN repeated \union {w.req} ELSE repeated
  /\ UNCHANGED <<filters, server, open, msg, forwarded, timeouts, queues, responses>>

-----------------------------------------------------------------------------
Runs(w) ==
  \/ Passes(w) \/ Refuses(w) \/ TimeoutBefore(w) \/ SerialBefore(w)
  \/ DispatchHere(w) \/ DoForward(w) \/ ForwardThrows(w) \/ ForwardMessage(w)
  \/ CallHandler(w) \/ HandlerReturns(w) \/ HandlerThrows(w)
  \/ AfterFilter(w) \/ AfterDone(w)
  \/ \E err \in BOOLEAN : HandlerCalls(w, err) \/ ErrorHandled(w, err)

Next ==
  \/ \E p \in Process : Start(p) \/ Stop(p)
  \/ \E s \in Session : CloseSession(s)
  \/ \E r \in Req, s \in Session, t \in Target, id \in BOOLEAN : Arrive(r, s, t, id)
  \/ \E r \in Req : ForwardFails(r)
  \/ \E w \in work : Runs(w)

Spec == Init /\ [][Next]_vars

\* The code of the application calls back, and rpc delivers a message or fails.
Fairness == \A r \in Req : WF_vars(\E w \in work : w.req = r /\ Runs(w))

-----------------------------------------------------------------------------
(* Properties *)

\* A client gets two responses to a request only if a handler of the frontend
\* server itself failed after it had called back: no order of filters, forwarded
\* messages, rpc failures and late replies makes another (response, doForward).
OneResponse ==
  \A r \in Req :
    responses[r] <= 1 \/ (responses[r] = 2 /\ r \in repeated /\ msg[r].target = "front")

\* An entry of the timeout filter belongs to a request that is still in its place,
\* whichever filter refused, and whoever called back twice: none is left behind to
\* fill the table (TimeoutFilter, doHandle).
TimersHaveRequests ==
  \A p \in Place : \A r \in timeouts[p] :
    \/ \E w \in work : w.req = r /\ (w.place = p \/ p = "global")
    \/ p = "global" /\ r \in forwarded

Held(r) == \E w \in work : w.req = r /\ Calls(w, "serial")

\* A request is answered at last, unless its client has gone or a serial filter
\* holds it: every other way out of the filters, the handler and the rpc ends in a
\* response (globalHandle, doHandle), but for a message without an id and a route
\* without a dot.
RequestAnswered ==
  <>[](\A r \in Req :
         (msg[r].id /\ msg[r].target # "dotless")
           => responses[r] > 0 \/ msg[r].session \notin open \/ Held(r))
=============================================================================
