----------------------------- MODULE MCServices -----------------------------
(***************************************************************************)
(* Services of the servers on small instances: the times of crons,         *)
(* behaviour trees, transactions and the formats of messages.  One of them *)
(* runs in each behaviour.                                                 *)
(***************************************************************************)
EXTENDS Integers, Sequences, FiniteSets, TLC

CONSTANTS MaxTicks, MaxRoute, MaxQueue

VARIABLES
  part,
  trigger, nextTime,
  tree, kept, result, ended, again, threw, ticks,
  from, proto, sent, bytes, got,
  conditions, handlers, valid, retry, phase, at, ran, failed, errors

-----------------------------------------------------------------------------
(* The times of crons                                                      *)

Of(k) == [kind |-> k]
Num(n) == [kind |-> "num", n |-> n]
Every(r, b) == [kind |-> "period", remind |-> r, by |-> b]
Texts ==
  {[second |-> s, min |-> m, hour |-> h, dom |-> d, month |-> mo, dow |-> w] :
     s \in {{Num(1)}}, m \in {{Num(0), Num(2)}, {Every(1, 2)}},
     h \in {{Num(1)}, {Every(1, 1)}, {Num(0), Num(2)}}, mo \in {{Of("star")}, {Num(1)}},
     d \in {{Of("star")}, {Num(3)}, {[kind |-> "range", a |-> 2, b |-> 3]}},
     w \in {{Of("star")}, {Num(1), Num(2)}}}

\* Two years of two months, two hours in the day.
CronTime == INSTANCE CronTime WITH
  SecondCount <- 2, MinuteCount <- 3, HourCount <- 2, WeekDays <- 3, YearMonths <- 2,
  MonthDays <- <<2, 3, 2, 3>>

-----------------------------------------------------------------------------
(* Behaviour trees and transactions                                        *)

Inner ==
  ("f0" :> <<"sequence", <<"f1", "f2">>>>) @@ ("f1" :> <<"if", <<"cond", "a">>>>)
  @@ ("f2" :> <<"loop", <<"f3">>>>) @@ ("f3" :> <<"select", <<"b", "c">>>>)
  @@ ("w0" :> <<"parallel", <<"w1", "w2">>>>) @@ ("w1" :> <<"sequence", <<"a", "b">>>>)
  @@ ("w2" :> <<"select", <<"c", "d">>>>)
  @@ ("k0" :> <<"select", <<"k1", "k2">>>>) @@ ("k1" :> <<"sequence", <<"a", "k3">>>>)
  @@ ("k2" :> <<"loop", <<"k4">>>>) @@ ("k3" :> <<"parallel", <<"b", "c">>>>)
  @@ ("k4" :> <<"parallel", <<"d", "k5">>>>) @@ ("k5" :> <<"sequence", <<>>>>)
Leaf == {"a", "b", "c", "d"}

BehaviorTree == INSTANCE BehaviorTree WITH
  Tree <- {"fight", "watch", "work"},
  Root <- ("fight" :> "f0") @@ ("watch" :> "w0") @@ ("work" :> "k0"),
  Kind <- [n \in DOMAIN Inner |-> Inner[n][1]] @@ ("cond" :> "condition") @@ [n \in Leaf |-> "action"],
  Children <- [n \in DOMAIN Inner |-> Inner[n][2]] @@ [n \in Leaf \union {"cond"} |-> <<>>]

Transaction == INSTANCE Transaction WITH MaxMethods <- 2, MaxRetry <- 2, history <- ran

-----------------------------------------------------------------------------
(* What clients and servers encode and decode                              *)

Proto == INSTANCE Protobuf

D(option, type, name, tag) == [option |-> option, type |-> type, name |-> name, tag |-> tag]

Item == Proto!Parse(<<D("required", "sInt32", "a", 1), D("optional", "string", "b", 2)>>, <<>>)
Flat == Proto!Parse(<<D("required", "uInt32", "a", 1), D("optional", "int32", "b", 20),
                      D("optional", "string", "c", 3), D("optional", "uInt32", "d", 3)>>, <<>>)
Floats == Proto!Parse(<<D("repeated", "double", "a", 1), D("optional", "float", "b", 2)>>, <<>>)
Nested == Proto!Parse(<<D("optional", "Item", "g", 1), D("repeated", "Item", "h", 2),
                        D("repeated", "uInt32", "i", 3), D("repeated", "string", "j", 4)>>, "Item" :> Item)

Strings == {<<>>, <<233, 20013>>, <<55357, 56832>>, [k \in 1 .. 43 |-> 20013]}
Items == {"a" :> -1, "a" :> 64 @@ "b" :> <<233>>, "b" :> <<65>>}
Bodies ==
  (Flat :> ({"a" :> n : n \in {0, 2097152}} \union {"b" :> 1}
            \union {"a" :> 127 @@ "b" :> n @@ "d" :> 7 : n \in {-8193, 64}}
            \union {"a" :> 1 @@ "c" :> t : t \in Strings}))
  @@ (Floats :> {"a" :> <<>> @@ "b" :> 9, "a" :> <<1, 2, 3, 4>>, "a" :> <<1>> @@ "b" :> 7})
  @@ (Nested :> ({"g" :> x @@ "h" :> <<>> : x \in Items}
                 \union {"h" :> <<"a" :> 64 @@ "b" :> <<233>>, "a" :> 0>>,
                         "i" :> <<0, 200, 16384>> @@ "j" :> <<<<65>>, <<233>>>>}))

H(type, id, c, code, route, g) ==
  [type |-> type, id |-> id, compressRoute |-> c, code |-> code, route |-> route, compressGzip |-> g]
Headers == {H(0, 300, 1, 258, <<>>, 1), H(2, 2097151, 0, 0, <<>>, 0),
            H(1, 0, 0, 0, <<20013, 233>> \o [k \in 1 .. 7 |-> 97], 0), H(3, 0, 1, 65536, <<>>, 0)}

Codecs == INSTANCE Codecs WITH
  Protos <- {Flat, Floats, Nested}, Body <- Bodies, Header <- Headers

-----------------------------------------------------------------------------
ASSUME
  /\ CronTime!CalendarAssumption /\ BehaviorTree!TreesAssumption
  /\ Codecs!RouteAssumption

cronVars == <<trigger, nextTime>>
treeVars == <<tree, kept, result, ended, again, threw, ticks>>
codecVars == <<from, proto, sent, bytes, got>>
transactionVars == <<conditions, handlers, valid, retry, phase, at, ran, failed, errors>>
vars == <<part, cronVars, treeVars, codecVars, transactionVars>>

\* What does not run starts in one state, or has no value.
Init ==
  /\ part \in {"crons", "trees", "codecs", "transaction"}
  /\ IF part = "crons" THEN CronTime!Init ELSE trigger = "none" /\ nextTime = "none"
  /\ BehaviorTree!Init /\ (part # "trees" => tree = "work")
  /\ Codecs!Init /\ (part # "codecs" => from = "node" /\ proto = Flat)
  /\ Transaction!Init /\ (part # "transaction" => conditions = 0 /\ handlers = 0 /\ valid)

Next ==
  \/ /\ part = "crons" /\ CronTime!Next
     /\ UNCHANGED <<part, treeVars, codecVars, transactionVars>>
  \/ /\ part = "trees" /\ BehaviorTree!Next
     /\ UNCHANGED <<part, cronVars, codecVars, transactionVars>>
  \/ /\ part = "codecs" /\ Codecs!Next
     /\ UNCHANGED <<part, cronVars, treeVars, transactionVars>>
  \/ /\ part = "transaction" /\ Transaction!Next
     /\ UNCHANGED <<part, cronVars, treeVars, codecVars>>

Spec == Init /\ [][Next]_vars

-----------------------------------------------------------------------------
(* Properties *)

\* What goes on over several steps ends with what it means: a behaviour tree that
\* waits over ticks answers what its actions mean together, the search of a cron ends
\* at the first of its times, and the handlers of a transaction run in order, round by
\* round until none fails (ParallelNode, nextExcuteTime, transaction).
AnswersItsMeaning ==
  /\ part = "trees" => /\ BehaviorTree!TypeOK /\ BehaviorTree!AnswersItsMeaning
                       /\ BehaviorTree!NoneTwice /\ BehaviorTree!StartsAfresh
  /\ part = "crons" => CronTime!NextIsLeast
  /\ part = "transaction" => /\ Transaction!TypeOK /\ Transaction!RunsInRounds
                             /\ Transaction!BlamesTheFailed

\* What one end encodes the other decodes, however packages come together.
ReadAsSent == part = "codecs" => Codecs!ReadAsSent
=============================================================================
