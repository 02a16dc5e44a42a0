----------------------------- MODULE Scheduler -----------------------------
(***************************************************************************)
(* The job scheduler of a server, the priority queue it keeps, and the     *)
(* crons that the server component schedules, adds and removes.            *)
(*                                                                         *)
(*   scheduler/lib/schedule.js, priorityQueue.js, job.js, simpleTrigger.js *)
(*   core/server/server.js   addCrons, removeCrons, scheduleCrons          *)
(*                                                                         *)
(* excuteJob runs jobs in a loop, and a job's function may call the        *)
(* scheduler: frames holds the jobs whose functions are running, the       *)
(* innermost last, each called by an excuteJob of its own.  A cancelled    *)
(* job stays in the queue until it comes to its head.  The next time of a  *)
(* cron (CronTime) is, like that of a simple trigger, some time after the  *)
(* one before.  The unit of time is the accuracy of the scheduler.          *)
(***************************************************************************)
EXTENDS Integers, Sequences, FiniteSets

CONSTANTS
  MaxJobs,   \* bound: jobs ever scheduled; their ids are 1, 2, ...
  MaxTime,   \* bound: of the clock
  Periods,   \* periods of triggers, 0 for a job that runs once
  Counts,    \* their counts, 0 for no limit
  MaxCalls,  \* bound: calls of the scheduler
  Cron,      \* ids of crons
  NoCron     \* that of a job the application scheduled itself

\* What is assumed of the constants.
SchedulerAssumption ==
  /\ {MaxJobs, MaxTime, MaxCalls} \subseteq Nat
  /\ Periods \subseteq Nat /\ Counts \subseteq Nat
  /\ NoCron \notin Cron

JobId == 1..MaxJobs
Never == -1

VARIABLES
  now,
  jobs,    \* Job objects, in the order of their ids
  live,    \* map: ids of the jobs that are not finished and not cancelled
  queue,   \* the heap
  timer,   \* when it fires, or Never
  frames,  \* jobs whose functions are running
  crons,   \* Server.crons
  jobOf,   \* Server.jobs: the job of each cron, 0 for none
  calls,   \* made so far
  history  \* what the properties ask about the calls

vars == <<now, jobs, live, queue, timer, frames, crons, jobOf, calls, history>>

Element == [id : JobId, time : Nat]

TypeOK ==
  /\ now \in 0..MaxTime
  /\ jobs \in Seq([next : Nat, period : Periods, count : Counts \union {0}, runTime : Nat, cron : Cron \union {NoCron}])
  /\ live \subseteq DOMAIN jobs
  /\ queue \in Seq(Element)
  /\ timer \in Nat \union {Never}
  /\ frames \in Seq(JobId)
  /\ crons \subseteq Cron
  /\ jobOf \in [Cron -> 0..MaxJobs]
  /\ calls \in 0..MaxCalls
  /\ history \in [reentered : BOOLEAN, twice : SUBSET Cron, removed : SUBSET Cron]

\* PriorityQueue.
NewQueue == <<>>

Init ==
  /\ now = 0
  /\ jobs = <<>> /\ live = {} /\ queue = NewQueue
  /\ timer = Never
  /\ frames = <<>>
  /\ crons \in SUBSET Cron
  /\ jobOf = [c \in Cron |-> 0]
  /\ calls = 0
  /\ history = [reentered |-> FALSE, twice |-> {}, removed |-> {}]

-----------------------------------------------------------------------------
(* PriorityQueue, with the comparator of the schedule module *)

\* A while loop is a function of its state: a round, which leaves the state alone
\* when the loop ends. After[n] is the state n rounds after x.
Rounds(round, x) == LET After[n \in Nat] == IF n = 0 THEN x ELSE round[After[n - 1]] IN After

Swap(h, i, j) == [h EXCEPT ![i] = h[j], ![j] = h[i]]

Elements == Seq(Element)
Sifting == [queue : Elements, pos : Nat \ {0}]

Later(h, i, j) == h[i].time > h[j].time

Moves(s, to) == [queue |-> Swap(s.queue, s.pos, to), pos |-> to]

\* The loop of offer: the element moves up while its parent is later.
Up ==
  [s \in Sifting |->
     IF s.pos > 1 /\ Later(s.queue, s.pos \div 2, s.pos) THEN Moves(s, s.pos \div 2) ELSE s]

\* The loop of pop: it moves down while a child is earlier.
Down ==
  [s \in Sifting |->
     LET left == 2 * s.pos
         right == left + 1
         size == Len(s.queue)
     IN IF right <= size /\ Later(s.queue, left, right) /\ Later(s.queue, s.pos, right)
          THEN Moves(s, right)
          ELSE IF left <= size /\ Later(s.queue, s.pos, left) THEN Moves(s, left) ELSE s]

\* In a queue of n elements no loop has more than n rounds.
Sifted(round, h, i) == Rounds(round, [queue |-> h, pos |-> i])[Len(h)].queue

Offer(h, e) == Sifted(Up, Append(h, e), Len(h) + 1)

\* What pop sorts: the last element has moved to the head.
LastFirst(h) == [SubSeq(h, 1, Len(h) - 1) EXCEPT ![1] = h[Len(h)]]

\* Mutant: it stays there.
PopUnsorted(h) == IF Len(h) < 2 THEN <<>> ELSE LastFirst(h)

Pop(h) == IF Len(h) < 2 THEN <<>> ELSE Sifted(Down, LastFirst(h), 1)

\* Elements of jobs that have gone are dropped.
Purge(alive) == [h \in Elements |-> IF h = <<>> \/ Head(h).id \in alive THEN h ELSE Pop(h)]
Purged(h, alive) == Rounds(Purge(alive), h)[Len(h)]

PeekNextJob(h, alive) ==
  LET q == Purged(h, alive) IN [queue |-> q, job |-> IF q = <<>> THEN 0 ELSE Head(q).id]

-----------------------------------------------------------------------------
(* The loop of excuteJob *)

\* It goes on, among the jobs js of which alive are in the map, with the queue q
\* and under the frames outer: the next job runs if it is due, or the timer is set.
Loop(outer, q, js, alive, t) ==
  LET next == PeekNextJob(q, alive)
      j == next.job
  IN /\ queue' = next.queue
     /\ live' = alive
     /\ CASE j = 0 ->
               frames' = outer /\ timer' = t /\ jobs' = js
          [] j # 0 /\ js[j].next <= now ->
               /\ frames' = Append(outer, j)
               /\ jobs' = [js EXCEPT ![j].runTime = @ + 1]
               /\ timer' = t
          [] OTHER ->
               frames' = outer /\ timer' = js[j].next /\ jobs' = js

TimerFires ==
  /\ frames = <<>>
  /\ timer # Never /\ timer <= now
  /\ Loop(<<>>, queue, jobs, live, Never)
  /\ UNCHANGED <<now, crons, jobOf, calls, history>>

\* nextExcuteTime of the trigger.
Finished(job) == job.period = 0 \/ (job.count > 0 /\ job.count <= job.runTime)

\* job.run returns: the head of the queue is popped, whatever it is by now, and
\* the job is offered again or leaves the map.
FunctionReturns ==
  /\ frames # <<>>
  /\ LET j == frames[Len(frames)]
         outer == SubSeq(frames, 1, Len(frames) - 1)
         next == jobs[j].next + jobs[j].period
     IN IF Finished(jobs[j])
          THEN Loop(outer, Pop(queue), jobs, live \ {j}, timer)
          ELSE Loop(outer, Offer(Pop(queue), [id |-> j, time |-> next]),
                    [jobs EXCEPT ![j].next = next], live, timer)
  /\ UNCHANGED <<now, crons, jobOf, calls, history>>

-----------------------------------------------------------------------------
(* The calls, of the application, of the server component or of a job *)

Reenters == [history EXCEPT !.reentered = @ \/ frames # <<>>]

NewJob(start, period, count, c) ==
  [next |-> start, period |-> period, count |-> count, runTime |-> 0, cron |-> c]

Remembered(c, j) == IF c = NoCron THEN jobOf ELSE [jobOf EXCEPT ![c] = j]

\* scheduleJob; a cron is remembered by the id of its job.
ScheduleJob(c, start, period, count) ==
  LET j == Len(jobs) + 1
  IN /\ calls < MaxCalls /\ calls' = calls + 1
     /\ j \in JobId
     /\ jobs' = Append(jobs, NewJob(start, period, count, c))
     /\ live' = live \union {j}
     /\ timer' = IF queue = <<>> \/ start < Head(queue).time THEN start ELSE timer
     /\ queue' = Offer(queue, [id |-> j, time |-> start])
     /\ jobOf' = Remembered(c, j)
     /\ UNCHANGED <<now, frames>>

Schedule(start, period, count) ==
  /\ ScheduleJob(NoCron, start, period, count)
  /\ history' = Reenters
  /\ UNCHANGED crons

\* cancelJob: the head of the queue goes at once, and excuteJob runs.
CancelJob(j) ==
  /\ calls < MaxCalls /\ calls' = calls + 1
  /\ IF queue # <<>> /\ Head(queue).id = j
       THEN Loop(frames, Pop(queue), jobs, live \ {j}, Never)
       ELSE /\ live' = live \ {j}
            /\ UNCHANGED <<jobs, queue, timer, frames>>

Cancel(j) ==
  /\ jobs[j].cron = NoCron
  /\ CancelJob(j)
  /\ history' = Reenters
  /\ UNCHANGED <<now, crons, jobOf>>

\* A cron is listed once.
checkAndAdd(c) == crons \union {c}

\* addCrons of one cron, or its turn in afterStart: it is scheduled even when it is
\* listed, and scheduled, already.
AddCrons(c, start, period) ==
  /\ ScheduleJob(c, start, period, 0)
  /\ crons' = checkAndAdd(c)
  /\ history' = [Reenters EXCEPT !.twice = IF jobOf[c] \in live THEN @ \union {c} ELSE @,
                                 !.removed = @ \ {c}]

\* removeCrons; its second loop finds the job cancelled.  The cron stays listed.
RemoveCrons(c) ==
  /\ jobOf[c] # 0
  /\ CancelJob(jobOf[c])
  /\ history' = [Reenters EXCEPT !.removed = @ \union {c}]
  /\ UNCHANGED <<now, crons, jobOf>>

Tick ==
  /\ now < MaxTime
  /\ now' = now + 1
  /\ UNCHANGED <<jobs, live, queue, timer, frames, crons, jobOf, calls, history>>

Times == now..MaxTime

Next ==
  \/ Tick \/ TimerFires \/ FunctionReturns
  \/ \E start \in Times, period \in Periods, count \in Counts : Schedule(start, period, count)
  \/ \E j \in DOMAIN jobs : Cancel(j)
  \/ \E c \in Cron, start \in Times, period \in Periods : AddCrons(c, start, period)
  \/ \E c \in Cron : RemoveCrons(c)

Spec == Init /\ [][Next]_vars

-----------------------------------------------------------------------------
(* Properties *)

\* The heap of PriorityQueue.
HeapOrdered == \A i \in DOMAIN queue : i > 1 => queue[i \div 2].time <= queue[i].time

\* A job that is in the map is in the queue, or is running and will be offered
\* again, so that it runs when it is due, as long as no function of a job calls
\* the scheduler: then the loop pops another job than the one it ran (excuteJob).
NoneLost ==
  history.reentered \/
    \A j \in live : j \in {frames[i] : i \in DOMAIN frames} \/ \E i \in DOMAIN queue : queue[i].id = j

\* The timer is set for the earliest job in the map, whatever was cancelled before
\* it in the queue, and even when functions of jobs call the scheduler (setTimer).
TimerInTime ==
  frames = <<>> =>
    \A i \in DOMAIN queue :
      queue[i].id \in live => timer # Never /\ timer <= queue[i].time

\* What removeCrons has removed does not run any more, unless it had been added
\* again while it ran: jobs keeps the last job of a cron (addCrons, scheduleCrons).
RemovedCronsStop ==
  \A j \in live : jobs[j].cron \in history.removed => jobs[j].cron \in history.twice
=============================================================================
