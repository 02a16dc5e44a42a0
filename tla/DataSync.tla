------------------------------ MODULE DataSync ------------------------------
(***************************************************************************)
(* Data sync through redis: exec merges values in a hash of redis, and a   *)
(* timer reads the hash for the rewriter to hand them to the mapping       *)
(* functions, which would write the database.                              *)
(*                                                                         *)
(*   sync-redis/dbsync.ts, rewriter/Rewriter.ts, timer/SyncTimer.ts        *)
(*                                                                         *)
(* The rewriter takes invoke from the wrong place of its utilities and     *)
(* calls undefined: tick throws for every entry, also for one without a    *)
(* mapping function, where it looks for a logger that is not there.  So    *)
(* nothing is ever written, and what redis keeps is all there is.  A       *)
(* process lives on after a throw if it handles uncaughtException; else    *)
(* see Crash.                                                              *)
(*                                                                         *)
(* An entry is a merger key: the name of a mapping function, perhaps a     *)
(* user, and an id, joined.  Redis outlives the process and runs the       *)
(* commands of its connection in order; a reply is taken when the command  *)
(* has run.                                                                *)
(***************************************************************************)
EXTENDS Naturals, Sequences, SequencesExt

CONSTANTS
  Entry,      \* merger keys
  OfUser,     \* those with a user
  MaxValue,   \* bound: values of an entry
  MaxSent,    \* bound: commands on the connection
  MaxCount,   \* bound: calls of execSync
  MaxCrashes  \* bound: crashes of the process

\* What is assumed of the constants.
ConstantsAssumption == OfUser \subseteq Entry /\ IsFiniteSet(Entry) /\ MaxValue \in Nat

VARIABLES
  hash,     \* redis: the value merged for each entry; 0 for none
  sent,     \* commands redis has not run
  count,    \* Rewriter.count
  newest,   \* the last value given to exec; they are numbered
  flushed,  \* entries that were flushed since
  excused,  \* entries of which a call was lost with the process
  answer,   \* of the last isDone, until another value comes
  crashes

vars == <<hash, sent, count, newest, flushed, excused, answer, crashes>>

Command ==
  [op : {"hset"}, entry : Entry, value : 1 .. MaxValue]
  \union [op : {"hdel"}, entry : Entry] \union [op : {"hgetall"}] \union [op : {"hlen"}, idle : BOOLEAN]

TypeOK ==
  /\ {hash, newest} \subseteq [Entry -> 0 .. MaxValue]
  /\ sent \in Seq(Command)
  /\ count \in Nat
  /\ flushed \subseteq Entry /\ excused \subseteq Entry
  /\ answer \in {"none", "busy", "done"}

Init ==
  /\ hash = [e \in Entry |-> 0] /\ newest = hash
  /\ sent = <<>> /\ count = 0 /\ flushed = {} /\ excused = {}
  /\ answer = "none" /\ crashes = 0

Room == Len(sent) < MaxSent
Sends(c) == Room /\ sent' = Append(sent, c)

-----------------------------------------------------------------------------
(* Calls *)

Exec(e) ==
  /\ newest[e] < MaxValue /\ newest' = [newest EXCEPT ![e] = @ + 1]
  /\ Sends([op |-> "hset", entry |-> e, value |-> newest'[e]])
  /\ flushed' = flushed \ {e} /\ excused' = excused \ {e} /\ answer' = "none"
  /\ UNCHANGED <<hash, count, crashes>>

\* The entry is removed from the hash; then tick throws, its value is lost and the caller
\* is never called back.  Of an entry with a user another key is removed, which exec has
\* not made.
Flush(e) ==
  /\ IF e \in OfUser THEN UNCHANGED <<sent, flushed, excused>>
     ELSE /\ Sends([op |-> "hdel", entry |-> e])
          /\ flushed' = flushed \union {e} /\ excused' = excused \ {e}
  /\ UNCHANGED <<hash, count, newest, answer, crashes>>

\* tick for a mapping function that is there counts a call without a callback, and throws:
\* the count is never taken back.
ExecSync ==
  /\ count < MaxCount /\ count' = count + 1
  /\ UNCHANGED <<hash, sent, newest, flushed, excused, answer, crashes>>

\* The timer of SyncTimer; flushByUid reads as well.
Sync == Sends([op |-> "hgetall"]) /\ UNCHANGED <<hash, count, newest, flushed, excused, answer, crashes>>

RewriterIsDone == count = 0

\* The count is read when isDone is called, the hash when redis answers.
IsDone ==
  /\ Sends([op |-> "hlen", idle |-> RewriterIsDone])
  /\ UNCHANGED <<hash, count, newest, flushed, excused, answer, crashes>>

-----------------------------------------------------------------------------
(* Redis *)

Runs(op) == sent # <<>> /\ Head(sent).op = op

HSet ==
  /\ Runs("hset") /\ sent' = Tail(sent)
  /\ hash' = [hash EXCEPT ![Head(sent).entry] = Head(sent).value]
  /\ answer' = "none"
  /\ UNCHANGED <<count, newest, flushed, excused, crashes>>

HDel ==
  /\ Runs("hdel") /\ sent' = Tail(sent)
  /\ hash' = [hash EXCEPT ![Head(sent).entry] = 0]
  /\ UNCHANGED <<count, newest, flushed, excused, answer, crashes>>

Merged == {e \in Entry : hash[e] # 0}

\* Mutant: entries are removed before they are handed to tick, as flush does.
RemovesFirst(es) == LET s == SetToSeq(es) IN [i \in 1 .. Len(s) |-> [op |-> "hdel", entry |-> s[i]]]

\* tick throws at the first entry.  The hdel is in its callback, which nobody calls.
OnRead(es) == <<>>

Rewrite ==
  /\ Runs("hgetall") /\ sent' = Tail(sent) \o OnRead(Merged)
  /\ UNCHANGED <<hash, count, newest, flushed, excused, answer, crashes>>

Says(idle) == idle /\ Merged = {}

DoneAnswers ==
  /\ Runs("hlen") /\ sent' = Tail(sent)
  /\ answer' = IF Says(Head(sent).idle) THEN "done" ELSE "busy"
  /\ UNCHANGED <<hash, count, newest, flushed, excused, crashes>>

\* The process is started anew.  What was sent is lost.
Crash ==
  /\ crashes < MaxCrashes /\ crashes' = crashes + 1
  /\ sent' = <<>> /\ count' = 0 /\ answer' = "none"
  /\ excused' = excused \union {sent[i].entry : i \in {j \in 1 .. Len(sent) : sent[j].op \in {"hset", "hdel"}}}
  /\ UNCHANGED <<hash, newest, flushed>>

Next ==
  \/ \E e \in Entry : Exec(e) \/ Flush(e)
  \/ ExecSync \/ Sync \/ IsDone
  \/ HSet \/ HDel \/ Rewrite \/ DoneAnswers \/ Crash

Spec == Init /\ [][Next]_vars

-----------------------------------------------------------------------------
(* Properties *)

OnItsWay(e) == \E i \in 1 .. Len(sent) : sent[i].op \in {"hset", "hdel"} /\ sent[i].entry = e

\* When nothing is on its way for an entry redis has the newest value given to exec, or
\* none if the entry was flushed since, whatever exec, flush and the timer send in
\* between and whenever the process crashes; but for calls that a crash cut short.
\* (What was flushed is lost; that values are written at last does not hold.)
NewestIsKept == \A e \in Entry :
  e \in excused \/ OnItsWay(e) \/ hash[e] = IF e \in flushed THEN 0 ELSE newest[e]

\* isDone does not say so while a value that was given, and not flushed, waits in redis.
DoneIsEmpty ==
  answer = "done" => \A e \in Entry : e \in excused \union flushed \/ OnItsWay(e) \/ newest[e] = 0

=============================================================================
