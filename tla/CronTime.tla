------------------------------ MODULE CronTime ------------------------------
(***************************************************************************)
(* When a cron runs next: the search of nextExcuteTime through months,     *)
(* days, hours, minutes and seconds, for a trigger decoded from its text,  *)
(* against the least matching time.                                        *)
(*                                                                         *)
(*   scheduler/lib/cronTrigger.js                                          *)
(*                                                                         *)
(* The calendar is a parameter, so that a year is short enough to be       *)
(* searched exhaustively; its first day is day 0 of the week.  Time is a   *)
(* count of seconds.  A field of the text is "*", the part star alone, or  *)
(* parts that are numbers, ranges and periods.  Months are numbered from   *)
(* 0.  The limit of the code lets the hour HourCount through, too, which   *)
(* setHours turns into the first hour of the next day.                     *)
(***************************************************************************)
EXTENDS Integers, Sequences, FiniteSetsExt

CONSTANTS
  SecondCount, MinuteCount, HourCount, WeekDays,  \* 60, 60, 24 and 7
  YearMonths,  \* 12
  MonthDays,   \* days of each month of all the years, a sequence
  Texts        \* the triggers: functions from Field to sets of parts

\* What is assumed of the constants.
CalendarAssumption ==
  /\ {SecondCount, MinuteCount, HourCount, WeekDays, YearMonths} \subseteq Nat \ {0}
  /\ \A m \in DOMAIN MonthDays : MonthDays[m] \in Nat \ {0}

Field == {"second", "min", "hour", "dom", "month", "dow"}
Star == {-1}
None == -1

\* Limit.
First(f) == IF f = "dom" THEN 1 ELSE 0
Last(f) ==
  CASE f = "second" -> SecondCount - 1 [] f = "min" -> MinuteCount - 1
    [] f = "hour" -> HourCount [] f = "dom" -> Max({MonthDays[m] : m \in DOMAIN MonthDays})
    [] f = "month" -> YearMonths - 1 [] f = "dow" -> WeekDays - 1

-----------------------------------------------------------------------------
(* The text of a trigger *)

star == [kind |-> "star"]
num(n) == [kind |-> "num", n |-> n]
range(a, b) == [kind |-> "range", a |-> a, b |-> b]
period(remind, by) == [kind |-> "period", remind |-> remind, by |-> by]

\* decodeRangeTime: a range that is out of order adds nothing.
decodeRangeTime(p) == p.a..p.b

\* decodePeriodTime.
decodePeriodTime(f, p) ==
  IF p.by = 0 THEN {} ELSE {i \in p.remind..Last(f) : (i - p.remind) % p.by = 0}

decodePart(f, p) ==
  CASE p.kind = "star" -> Star
    [] p.kind = "num" -> {p.n}
    [] p.kind = "range" -> decodeRangeTime(p)
    [] p.kind = "period" -> decodePeriodTime(f, p)

decodeTimeStr(f, parts) == UNION {decodePart(f, p) : p \in parts}

checkNum(f, numbers) == numbers = Star \/ numbers \subseteq First(f)..Last(f)

\* decodeTrigger; a field out of its limits makes no trigger.
Triggers == [Field -> SUBSET Int]
Decoded(text) == [f \in Field |-> decodeTimeStr(f, text[f])]
Valid(text) == \A f \in Field : checkNum(f, Decoded(text)[f])

-----------------------------------------------------------------------------
(* The calendar: Date *)

Months == Len(MonthDays)
MonthStart[m \in 1..Months + 1] == IF m = 1 THEN 0 ELSE MonthStart[m - 1] + MonthDays[m - 1]
Days == MonthStart[Months + 1]
DayLength == HourCount * MinuteCount * SecondCount
End == Days * DayLength

\* Of a day: its month, counted from the first, and its number in it.
MonthOf(day) == CHOOSE m \in 1..Months : MonthStart[m] <= day /\ day < MonthStart[m + 1]
Dom(day) == day - MonthStart[MonthOf(day)] + 1
Month(day) == (MonthOf(day) - 1) % YearMonths
Dow(day) == day % WeekDays

\* Of a time.
Day(t) == t \div DayLength
Second(t) == t % SecondCount
Minute(t) == (t \div SecondCount) % MinuteCount
Hour(t) == (t \div (SecondCount * MinuteCount)) % HourCount
Time(day, h, m, s) == day * DayLength + (h * MinuteCount + m) * SecondCount + s
FirstOf(m) == IF m > Months THEN End ELSE Time(MonthStart[m], 0, 0, 0)

-----------------------------------------------------------------------------
(* The search *)

timeMatch(value, cronTime) == cronTime = Star \/ value \in cronTime

\* The next value the field has, from its first one again after its last.
nextCronTime(value, cronTime) ==
  CASE cronTime = Star -> value + 1
    [] cronTime = {} -> None
    [] OTHER -> LET later == {x \in cronTime : x > value} IN Min(IF later = {} THEN cronTime ELSE later)

\* A stage of the search leaves the time it has reached and whether the search goes
\* on with the next stage, begins again, or fails.
Goes(t) == [t |-> t, go |-> "next"]
Again(t) == [t |-> t, go |-> "again"]
Fails == [t |-> None, go |-> "none"]

MonthStage(c, t) ==
  LET day == Day(t)
      month == Month(day)
      next == nextCronTime(month, c["month"])
  IN CASE timeMatch(month, c["month"]) -> Goes(t)
       [] ~timeMatch(month, c["month"]) /\ next = None -> Fails
       [] OTHER -> LET m == MonthOf(day) - month + next
                   IN IF next <= month THEN Again(FirstOf(MonthOf(day) - month + YearMonths))
                                       ELSE IF m > Months THEN Again(End) ELSE Goes(FirstOf(m))

\* The day of the month advances until it falls on a day of the week of the cron.
DomLoop[c \in Triggers, day \in Nat] ==
  LET next == nextCronTime(Dom(day), c["dom"])
      m == MonthOf(day)
  IN CASE next = None -> Fails
       [] next # None /\ (next <= Dom(day) \/ next > MonthDays[m]) -> Again(FirstOf(m + 1))
       [] OTHER -> LET d == MonthStart[m] + next - 1
                   IN IF timeMatch(Dow(d), c["dow"]) THEN Goes(Time(d, 0, 0, 0)) ELSE DomLoop[c, d]

DomStage(c, t) ==
  IF timeMatch(Dom(Day(t)), c["dom"]) /\ timeMatch(Dow(Day(t)), c["dow"])
    THEN Goes(t) ELSE DomLoop[c, Day(t)]

\* null compares and is set as 0.
Number(n) == IF n = None THEN 0 ELSE n

\* A value that comes round again belongs to the next day, hour or minute.
Wraps(now, next, wrapped, later) == IF next <= now THEN Again(wrapped) ELSE Goes(later)

HourStage(c, t) ==
  LET next == Number(nextCronTime(Hour(t), c["hour"]))
  IN IF timeMatch(Hour(t), c["hour"]) THEN Goes(t)
     ELSE Wraps(Hour(t), next, Time(Day(t) + 1, next, 0, 0), Time(Day(t), next, 0, 0))

MinuteStage(c, t) ==
  LET next == Number(nextCronTime(Minute(t), c["min"]))
  IN IF timeMatch(Minute(t), c["min"]) THEN Goes(t)
     ELSE Wraps(Minute(t), next, Time(Day(t), Hour(t) + 1, next, 0), Time(Day(t), Hour(t), next, 0))

SecondStage(c, t) ==
  LET next == Number(nextCronTime(Second(t), c["second"]))
  IN IF timeMatch(Second(t), c["second"]) THEN Goes(t)
     ELSE Wraps(Second(t), next, Time(Day(t), Hour(t), Minute(t) + 1, next),
                Time(Day(t), Hour(t), Minute(t), next))

Then(x, stage(_, _), c) == IF x.go = "next" /\ x.t < End THEN stage(c, x.t) ELSE x

\* The loop of nextExcuteTime; its limit is the end of the calendar.
Search[c \in Triggers, t \in Nat] ==
  IF t >= End THEN None
  ELSE LET month == MonthStage(c, t)
           dom == Then(month, DomStage, c)
           hour == Then(dom, HourStage, c)
           minute == Then(hour, MinuteStage, c)
           second == Then(minute, SecondStage, c)
       IN CASE second.go = "again" -> Search[c, second.t]
            [] second.go = "none" -> None
            [] OTHER -> IF second.t >= End THEN None ELSE second.t

nextExcuteTime(c, t) == Search[c, t + 1]

-----------------------------------------------------------------------------
VARIABLES
  trigger,  \* CronTrigger.trigger
  nextTime  \* CronTrigger.nextTime, None when there is none

vars == <<trigger, nextTime>>

\* createTrigger, at some time of the calendar.
Init ==
  /\ \E text \in Texts : Valid(text) /\ trigger = Decoded(text)
  /\ nextTime \in 0..End - 1

\* The job has run at this time.
Advance ==
  /\ nextTime # None
  /\ nextTime' = nextExcuteTime(trigger, nextTime)
  /\ UNCHANGED trigger

Next == Advance

Spec == Init /\ [][Next]_vars

-----------------------------------------------------------------------------
(* Properties *)

Matches(c, t) ==
  /\ timeMatch(Month(Day(t)), c["month"]) /\ timeMatch(Dom(Day(t)), c["dom"])
  /\ timeMatch(Dow(Day(t)), c["dow"]) /\ timeMatch(Hour(t), c["hour"])
  /\ timeMatch(Minute(t), c["min"]) /\ timeMatch(Second(t), c["second"])

\* The search skips no time of the cron and stops at none that is not one: months
\* of different lengths, days given by the month and by the week, and fields that
\* come round again included; but a cron with the hour 24 may be given a time in the
\* first hour of a day before (nextExcuteTime).
NextIsLeast ==
  nextTime # None =>
    LET later == {t \in nextTime + 1..End - 1 : Matches(trigger, t)}
        found == nextExcuteTime(trigger, nextTime)
    IN \/ found = IF later = {} THEN None ELSE Min(later)
       \/ /\ HourCount \in trigger["hour"] /\ found \in nextTime + 1..End - 1 /\ Hour(found) = 0
          /\ \A t \in later : found < t
=============================================================================
