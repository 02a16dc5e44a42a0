---------------------------- MODULE Transaction ----------------------------
(***************************************************************************)
(* A transaction of the application: conditions, one after the other, and  *)
(* if all hold its handlers, one after the other, in as many rounds as it  *)
(* may be tried.                                                           *)
(*                                                                         *)
(*   olemop/common/manager/appManager.js, application.js transaction       *)
(*                                                                         *)
(* Conditions and handlers are functions of the application. Each calls    *)
(* back once, with an error or without, or never; nobody is told how a     *)
(* transaction ended but the log.                                          *)
(***************************************************************************)
EXTENDS Naturals, Sequences

CONSTANTS
  MaxMethods, \* bound: conditions, and handlers
  MaxRetry    \* bound: rounds asked for

VARIABLES
  conditions, handlers, \* how many; no handler is run if one is no function
  valid,                \* are all handlers functions
  retry,                \* rounds left
  phase,                \* what the transaction is at, in this turn or a later one
  at,                   \* methods called of those it is at
  history,              \* calls of handlers: the round and the handler
  failed,               \* those that called back with an error, and a condition as <<0, it>>
  errors                \* the error log

vars == <<conditions, handlers, valid, retry, phase, at, history, failed, errors>>
given == <<conditions, handlers, valid>>

Entry == (0 .. MaxRetry) \X (1 .. MaxMethods)
Round == MaxRetry - retry

TypeOK ==
  /\ {conditions, handlers} \subseteq 0 .. MaxMethods /\ valid \in BOOLEAN
  /\ retry \in 0 .. MaxRetry
  /\ phase \in {"conditions", "handling", "handlers", "failing", "ended"}
  /\ at \in 0 .. MaxMethods
  /\ \A s \in {history, failed, errors} : s \in Seq(Entry)

Init ==
  /\ conditions \in 0 .. MaxMethods /\ handlers \in 0 .. MaxMethods /\ valid \in BOOLEAN
  /\ retry = MaxRetry
  /\ phase = "conditions" /\ at = 0
  /\ history = <<>> /\ failed = <<>> /\ errors = <<>>

-----------------------------------------------------------------------------
(* Conditions                                                              *)

\* The first is called by transaction itself, the next when one has called back.
Condition ==
  /\ phase = "conditions" /\ at < conditions
  /\ at' = at + 1
  /\ UNCHANGED <<given, retry, phase, history, failed, errors>>

ConditionFails ==
  /\ phase = "conditions" /\ at > 0
  /\ failed' = Append(failed, <<0, at>>) /\ phase' = "failing"
  /\ UNCHANGED <<given, retry, at, history, errors>>

ConditionsHold ==
  /\ phase = "conditions" /\ at = conditions
  /\ phase' = "handling"
  /\ UNCHANGED <<given, retry, at, history, failed, errors>>

-----------------------------------------------------------------------------
(* Handlers                                                                *)

Again == retry > 0

\* A round: the first handler is called, or without any the round is over.
StartRound ==
  /\ IF Again THEN phase' = "handlers" /\ retry' = retry - 1
     ELSE phase' = "ended" /\ UNCHANGED retry
  /\ at' = 0

\* In a later turn the handlers are looked at.
Handling ==
  /\ phase = "handling"
  /\ IF valid \/ handlers = 0 THEN StartRound ELSE phase' = "ended" /\ UNCHANGED <<retry, at>>
  /\ UNCHANGED <<given, history, failed, errors>>

Handler ==
  /\ phase = "handlers" /\ at < handlers
  /\ at' = at + 1 /\ history' = Append(history, <<Round, at + 1>>)
  /\ UNCHANGED <<given, retry, phase, failed, errors>>

HandlerFails ==
  /\ phase = "handlers" /\ at > 0
  /\ failed' = Append(failed, <<Round, at>>) /\ phase' = "failing"
  /\ UNCHANGED <<given, retry, at, history, errors>>

\* The flag is cleared: there is no other round.
HandlersDone ==
  /\ phase = "handlers" /\ at = handlers
  /\ phase' = "ended"
  /\ UNCHANGED <<given, retry, at, history, failed, errors>>

\* Mutant: the next round goes on with the handler that failed.
GoesOn ==
  /\ IF Again THEN phase' = "handlers" /\ retry' = retry - 1
     ELSE phase' = "ended" /\ UNCHANGED retry
  /\ UNCHANGED at
NextRound == StartRound

\* In a later turn the error is logged, with the last method called, and the
\* handlers are run again.
Failing ==
  /\ phase = "failing"
  /\ errors' = Append(errors, <<Round, at>>)
  /\ IF Round = 0 THEN phase' = "ended" /\ UNCHANGED <<retry, at>> ELSE NextRound
  /\ UNCHANGED <<given, history, failed>>

Next ==
  \/ Condition \/ ConditionFails \/ ConditionsHold
  \/ Handling \/ Handler \/ HandlerFails \/ HandlersDone \/ Failing

Spec == Init /\ [][Next]_vars

-----------------------------------------------------------------------------
(* Properties                                                              *)

\* The handlers that ran in a round.
InRound(n) == SelectSeq(history, LAMBDA e : e[1] = n)

\* Every round runs the handlers from the first, in order, up to the one that
\* failed; there is another round only after a failure, and no round ends
\* the transaction unless it ran them all or was the last one.
RunsInRounds ==
  /\ \A n \in 1 .. Round : \A i \in DOMAIN InRound(n) : InRound(n)[i][2] = i
  /\ \A n \in 1 .. Round - 1 : \E i \in DOMAIN failed : failed[i] = <<n, Len(InRound(n))>>
  /\ phase = "ended" /\ Round > 0 =>
       \/ Len(InRound(Round)) = handlers
       \/ Round = MaxRetry /\ errors # <<>>

\* The log blames each method that failed, in the round in which it did.
BlamesTheFailed ==
  IF phase = "failing" THEN failed = Append(errors, failed[Len(failed)]) ELSE failed = errors

=============================================================================
