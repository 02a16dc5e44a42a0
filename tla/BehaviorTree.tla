---------------------------- MODULE BehaviorTree ----------------------------
(***************************************************************************)
(* Behaviour trees: what a tick of a tree invokes, what it returns, and    *)
(* what its nodes keep for the next one.                                   *)
(*                                                                         *)
(*   behavior-tree: node/Sequence.js, Select.js, Parallel.js, Loop.js,     *)
(*                  If.js, Condition.js                                    *)
(*                                                                         *)
(* The results of the actions of a user, and of the conditions, are an     *)
(* input of a tick. An action may throw: then the tick ends there, with    *)
(* the nodes as they are. A parallel node can be made only with the policy *)
(* "fail if all fail": the constructor throws for the other one.           *)
(***************************************************************************)
EXTENDS Integers, Sequences, SequencesExt, TLC

CONSTANTS
  Tree,      \* trees: sets of nodes, with their root
  Root,      \* [Tree -> Node]
  Kind,      \* [Node -> "action", "condition", "sequence", "select", "parallel", "loop", "if"]
  Children,  \* [Node -> Seq(Node)]; of "if" its condition and its action
  MaxTicks   \* bound: ticks of a run

VARIABLES
  tree,    \* the tree of this behaviour
  kept,    \* what its nodes keep: index of a sequence, waits and counts of a parallel
  result,  \* of the last tick
  ended,   \* actions that ended in this run, and with what
  again,   \* actions that the last tick invoked though they had ended
  threw,   \* an action has thrown in this run
  ticks

vars == <<tree, kept, result, ended, again, threw, ticks>>

Node == DOMAIN Kind
Composite == {n \in Node : Kind[n] \in {"sequence", "select", "parallel"}}
\* An if node is a sequence of its own, of a condition and an action.
IfIsSequence(n) == Len(Children[n]) = 2 /\ Kind[Children[n][1]] = "condition"
\* How the constructors make the nodes.
TreesAssumption == \A n \in Node \ Composite :
  CASE Kind[n] = "if" -> IfIsSequence(n)
    [] Kind[n] = "loop" -> Len(Children[n]) = 1
    [] OTHER -> Children[n] = <<>>

Keeper == {n \in Node : Kind[n] \in {"sequence", "select", "if", "parallel"}}
Fresh == [n \in Keeper |-> [index |-> 1, waits |-> <<>>, succ |-> 0, fail |-> 0]]

RECURSIVE Below(_)
Below(n) == {n} \union UNION {Below(Children[n][i]) : i \in 1 .. Len(Children[n])}
Leaves(t) == {n \in Below(Root[t]) : Kind[n] \in {"action", "condition"}}
Loops(t) == {n \in Below(Root[t]) : Kind[n] = "loop"}

Results(n) == IF Kind[n] = "action" THEN {"success", "fail", "wait", "throw"} ELSE {"success", "fail"}

TypeOK ==
  /\ tree \in Tree
  /\ \A n \in Keeper : /\ kept[n].index \in 1 .. Len(Children[n]) + 1
                       /\ \A i \in 1 .. Len(kept[n].waits) : Contains(Children[n], kept[n].waits[i])
  /\ result \in {"none", "success", "fail", "wait", "throw"}
  /\ threw \in BOOLEAN

Init ==
  /\ tree \in Tree
  /\ kept = Fresh /\ result = "none" /\ ended = <<>> /\ again = {} /\ threw = FALSE /\ ticks = 0

-----------------------------------------------------------------------------
(* doAction: a run is the nodes' memory, the result, and the actions       *)
(* invoked with their results. out gives the results of this tick.         *)

Run(memory, res, did) == [kept |-> memory, res |-> res, did |-> did]
Reset(memory, n) == [memory EXCEPT ![n] = Fresh[n]]

\* A sequence goes on with the next child after a success, a select after a fail.
GoesOn(n) == IF Kind[n] = "select" THEN "fail" ELSE "success"

KeepsIndex(memory, n, i) == [memory EXCEPT ![n].index = i]

RECURSIVE DoAction(_, _, _), OneByOne(_, _, _, _, _)

OneByOne(n, i, memory, out, did) ==
  IF i > Len(Children[n]) THEN Run(Reset(memory, n), GoesOn(n), did)
  ELSE LET r == DoAction(Children[n][i], memory, out)
           all == did @@ r.did
       IN CASE r.res = GoesOn(n) -> OneByOne(n, i + 1, r.kept, out, all)
            [] r.res = "wait" -> Run(KeepsIndex(r.kept, n, i), "wait", all)
            [] r.res = "throw" -> Run(KeepsIndex(r.kept, n, i), "throw", all)
            [] OTHER -> Run(Reset(r.kept, n), r.res, all)

\* Only if all fail; the counts are of all the ticks of the run.
CheckPolicy(own) == IF own.succ > 0 THEN "success" ELSE "fail"

WaitsForAll(rest, all) == all
Waits(rest, all) == rest

\* Every child that has not ended, in one tick. What throws leaves the list of
\* the children that wait as it was, and the counts as they are.
AllAtOnce(n, memory, out) ==
  LET origin == IF memory[n].waits # <<>> THEN memory[n].waits ELSE Children[n]
      Each(acc, c) ==
        IF acc.res = "throw" THEN acc
        ELSE LET r == DoAction(c, acc.kept, out)
                 counted == CASE r.res = "success" -> [r.kept EXCEPT ![n].succ = @ + 1]
                              [] r.res = "fail" -> [r.kept EXCEPT ![n].fail = @ + 1]
                              [] OTHER -> r.kept
             IN [kept |-> counted, res |-> r.res, did |-> acc.did @@ r.did,
                 rest |-> IF r.res = "wait" THEN Append(acc.rest, c) ELSE acc.rest]
      end == FoldLeft(Each, [kept |-> memory, res |-> "none", did |-> <<>>, rest |-> <<>>], origin)
  IN IF end.res = "throw" THEN Run(end.kept, "throw", end.did)
     ELSE IF end.rest # <<>> THEN Run([end.kept EXCEPT ![n].waits = Waits(end.rest, origin)], "wait", end.did)
     ELSE Run(Reset(end.kept, n), CheckPolicy(end.kept[n]), end.did)

\* The child is invoked once in a tick: the loop goes on in the next.
Repeat(n, memory, out) ==
  LET r == DoAction(Children[n][1], memory, out)
  IN IF r.res = "success" /\ out[n] THEN [r EXCEPT !.res = "wait"] ELSE r

DoAction(n, memory, out) ==
  CASE Kind[n] \in {"action", "condition"} -> Run(memory, out[n], n :> out[n])
    [] Kind[n] = "loop" -> Repeat(n, memory, out)
    [] Children[n] = <<>> -> Run(memory, "success", <<>>)
    [] Kind[n] = "parallel" -> AllAtOnce(n, memory, out)
    [] OTHER -> OneByOne(n, memory[n].index, memory, out, <<>>)

-----------------------------------------------------------------------------
(* Ticks *)

\* A loop that goes on invokes its child anew.
Restarted(r, out) ==
  UNION {Below(Children[l][1]) : l \in {k \in Loops(tree) :
    /\ out[k]
    /\ \E m \in DOMAIN r.did : m \in Below(k)
    /\ DoAction(Children[k][1], kept, out).res = "success"}}

Tick ==
  /\ ticks < MaxTicks /\ result \notin {"success", "fail"}
  /\ \E leaf \in [Leaves(tree) -> UNION {Results(n) : n \in Leaves(tree)}], goes \in [Loops(tree) -> BOOLEAN] :
       LET out == leaf @@ goes
           r == DoAction(Root[tree], kept, out)
           over == r.res \in {"success", "fail"}
           ends == {n \in DOMAIN r.did : r.did[n] \in {"success", "fail"}}
           stay == ((DOMAIN ended) \union ends) \ Restarted(r, out)
           all == [n \in ends |-> r.did[n]] @@ ended
       IN /\ \A n \in DOMAIN r.did : leaf[n] \in Results(n)
          /\ \A n \in Leaves(tree) \ DOMAIN r.did : leaf[n] = "fail"
          /\ kept' = r.kept /\ result' = r.res
          /\ again' = (DOMAIN r.did) \intersect (DOMAIN ended)
          /\ ended' = [n \in IF over THEN (DOMAIN ended) \union ends ELSE stay |-> all[n]]
          /\ threw' = (threw \/ r.res = "throw")
  /\ ticks' = ticks + 1
  /\ UNCHANGED tree

\* The tree has answered; its owner ticks it for another run, or leaves it.
NextRun ==
  /\ result \in {"success", "fail"}
  /\ result' = "none" /\ ended' = <<>> /\ again' = {} /\ threw' = FALSE
  /\ ticks' = 0
  /\ UNCHANGED <<tree, kept>>

Next == Tick \/ NextRun
Spec == Init /\ [][Next]_vars

-----------------------------------------------------------------------------
(* Properties *)

\* What a tree means, given what its actions ended with.
RECURSIVE Meaning(_, _)
Meaning(n, end) ==
  LET c == Children[n]
      Of(i) == Meaning(c[i], end)
  IN CASE Kind[n] \in {"action", "condition"} -> IF n \in DOMAIN end THEN end[n] ELSE "none"
       [] Kind[n] = "loop" -> Of(1)
       [] Kind[n] = "parallel" -> IF c = <<>> \/ \E i \in 1 .. Len(c) : Of(i) = "success" THEN "success" ELSE "fail"
       [] Kind[n] = "select" -> IF c = <<>> \/ \E i \in 1 .. Len(c) : Of(i) = "success" THEN "success" ELSE "fail"
       [] OTHER -> IF \E i \in 1 .. Len(c) : Of(i) = "fail" THEN "fail" ELSE "success"

\* A tree that waits over any number of ticks answers what it means for the
\* results its actions ended with.
AnswersItsMeaning ==
  result \in {"success", "fail"} /\ ~threw => result = Meaning(Root[tree], ended)

\* Until the tree answers, an action that has ended is not invoked again, but by
\* a loop.
NoneTwice == threw \/ again = {}

\* A tree that has answered keeps nothing for its next run.
StartsAfresh == result \in {"success", "fail"} /\ ~threw => kept = Fresh

=============================================================================
