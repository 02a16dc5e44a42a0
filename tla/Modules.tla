------------------------------ MODULE Modules ------------------------------
(***************************************************************************)
(* Modules of the console service that collect: the pulled ones, which the *)
(* master runs periodically (nodeInfo, systemInfo), and the profiler.      *)
(*                                                                         *)
(*   admin/consoleService.js   start, stop, enable, disable, addToSchedule *)
(*   admin/modules/nodeInfo.js, systemInfo.js, profiler.js                 *)
(*   admin/util/profileProxy.js                                            *)
(*   admin/master/masterAgent.js notifyAll, notifyById, notifyCommand      *)
(*                                                                         *)
(* What a server sends arrives in order, or is lost with its connection;   *)
(* what the master sends it does on arrival.                               *)
(***************************************************************************)
EXTENDS Naturals, Sequences

CONSTANTS
  Server,
  MaxJobs,   \* bound: jobs that are scheduled
  MaxTaken   \* bound: CPU profiles that are taken

\* What is assumed of the constants.
ModulesAssumption == MaxJobs \in Nat /\ MaxTaken \in Nat

VARIABLES
  state,     \* of the console: "inited", "started", "stopped"
  enable,    \* of the record of the pulled module
  jobId,     \* of that record; 0 before there is one
  jobs,      \* jobs of it the scheduler has
  idMap,     \* servers that are registered
  pulls,     \* servers that are asked, and collect
  data,      \* servers the master has data of
  threw,     \* servers where a command from the master has thrown
  sampling,  \* servers whose profiler records
  taken,     \* CPU profiles so far; each is known by its number
  wire,      \* profiles that a server has sent
  profiles,  \* CPU profiles of the proxy; 0 is none
  headers,   \* newest profile of a server that a client was told of
  polls,     \* getProfile asks every five seconds for these
  answered   \* profiles that clients got, and what they had been told of

module == <<state, enable, jobId, jobs>>
collect == <<pulls, data, threw>>
profiler == <<sampling, taken, wire, profiles, headers, polls, answered>>
vars == <<module, idMap, collect, profiler>>

ProfileType == {"CPU", "HEAP"}

TypeOK ==
  /\ state \in {"inited", "started", "stopped"}
  /\ enable \in BOOLEAN
  /\ jobId \in 0 .. MaxJobs /\ jobs \subseteq 1 .. MaxJobs
  /\ \A ss \in {idMap, pulls, data, threw, sampling} : ss \subseteq Server
  /\ taken \in 0 .. MaxTaken
  /\ wire \in [Server -> Seq(1 .. MaxTaken)]
  /\ profiles \in [Server -> 0 .. MaxTaken] /\ headers \in [Server -> 0 .. MaxTaken]
  /\ polls \subseteq [from : Server, type : ProfileType]
  /\ answered \subseteq [from : Server, told : 0 .. MaxTaken, profile : 0 .. MaxTaken]

\* registerRecord.
Record == [enable |-> FALSE, jobId |-> 0]

Init ==
  /\ state = "inited" /\ enable = Record.enable /\ jobId = Record.jobId /\ jobs = {}
  /\ idMap = {} /\ pulls = {} /\ data = {} /\ threw = {}
  /\ sampling = {} /\ taken = 0
  /\ wire = [s \in Server |-> <<>>]
  /\ profiles = [s \in Server |-> 0] /\ headers = [s \in Server |-> 0]
  /\ polls = {} /\ answered = {}

-----------------------------------------------------------------------------
(* The record of a module *)

\* addToSchedule: a new job, remembered by its id.
AddToSchedule ==
  /\ jobId < MaxJobs
  /\ jobId' = jobId + 1
  /\ jobs' = jobs \union {jobId + 1}

CancelJob(j) == jobs \ {j}

Enable ==
  IF enable THEN UNCHANGED <<enable, jobId, jobs>>
  ELSE enable' = TRUE /\ AddToSchedule

Disable ==
  /\ enable' = FALSE
  /\ jobs' = IF enable THEN CancelJob(jobId) ELSE jobs
  /\ UNCHANGED jobId

\* start and stop enable and disable every module.
Start ==
  /\ state = "inited" /\ state' = "started"
  /\ Enable
  /\ UNCHANGED <<idMap, collect, profiler>>

Stop ==
  /\ state = "started" /\ state' = "stopped"
  /\ Disable
  /\ idMap' = {} /\ pulls' = {} /\ polls' = {}
  /\ wire' = [s \in Server |-> <<>>]
  /\ UNCHANGED <<data, threw, sampling, taken, profiles, headers, answered>>

\* The commands of clients; the master tells all servers, where aclControl asks
\* the agent for a client, which a monitor agent cannot: it throws.
ConsoleCommand ==
  /\ state = "started"
  /\ threw' = threw \union idMap
  /\ UNCHANGED <<state, idMap, pulls, data, profiler>>

EnableCommand == ConsoleCommand /\ Enable
DisableCommand == ConsoleCommand /\ Disable

-----------------------------------------------------------------------------
(* Pulled data *)

\* doScheduleJob, masterHandler without a message: notifyAll.
DoScheduleJob(j) ==
  /\ state = "started" /\ j \in jobs /\ enable
  /\ pulls' = pulls \union idMap
  /\ UNCHANGED <<module, idMap, data, threw, profiler>>

\* masterHandler with the data of a server: that of servers that have left stays.
Stored(s) == data \union {s}

\* The server has collected and notifies the master, whose handler runs if the
\* module is enabled.
Collected(s) ==
  /\ s \in pulls
  /\ pulls' = pulls \ {s}
  /\ data' = IF enable THEN Stored(s) ELSE data
  /\ UNCHANGED <<module, idMap, threw, profiler>>

CollectFails(s) ==
  /\ s \in pulls
  /\ pulls' = pulls \ {s}
  /\ UNCHANGED <<module, idMap, data, threw, profiler>>

-----------------------------------------------------------------------------
(* The profiler, where v8-profiler is installed *)

\* start, stop and takeHeapSnapshot of the proxy notify a server that is registered.
Notified(s) == s \in idMap

\* A profiler that records already goes on with it.
StartProfiling(s) ==
  /\ Notified(s)
  /\ sampling' = sampling \union {s}
  /\ UNCHANGED <<module, idMap, collect, taken, wire, profiles, headers, polls, answered>>

\* What v8-profiler does where nothing records is not modelled.
StopProfiling(s) ==
  /\ Notified(s) /\ s \in sampling /\ taken < MaxTaken
  /\ sampling' = sampling \ {s}
  /\ taken' = taken + 1
  /\ wire' = [wire EXCEPT ![s] = Append(@, taken')]
  /\ UNCHANGED <<module, idMap, collect, profiles, headers, polls, answered>>

\* The server's handler of a heap snapshot throws before it sends a chunk: it takes
\* the path of a file from a name that the module does not require.
TakeHeapSnapshot(s) ==
  /\ Notified(s)
  /\ threw' = threw \union {s}
  /\ UNCHANGED <<module, idMap, pulls, data, profiler>>

\* stopCallBack: a profile that is finished gives way to a new one.
KeepsFirst(old, new) == IF old # 0 THEN old ELSE new
Replaced(old, new) == new

\* The master stores the profile and tells the client of it.
StopCallBack(s) ==
  /\ wire[s] # <<>>
  /\ LET new == Head(wire[s])
     IN  /\ wire' = [wire EXCEPT ![s] = Tail(@)]
         /\ profiles' = [profiles EXCEPT ![s] = Replaced(@, new)]
         /\ headers' = [headers EXCEPT ![s] = IF @ < new THEN new ELSE @]
  /\ UNCHANGED <<module, idMap, collect, sampling, taken, polls, answered>>

\* No heap profile is ever stored.
Exists(s, type) == type = "CPU" /\ profiles[s] # 0

Answer(s) == answered' = answered \union {[from |-> s, told |-> headers[s], profile |-> profiles[s]]}

\* getProfile: a profile that is not there is asked for later, again and again.
GetProfile(s, type) ==
  /\ state = "started"
  /\ IF Exists(s, type) THEN Answer(s) /\ UNCHANGED polls
     ELSE polls' = polls \union {[from |-> s, type |-> type]} /\ UNCHANGED answered
  /\ UNCHANGED <<module, idMap, collect, sampling, taken, wire, profiles, headers>>

Poll(p) ==
  /\ p \in polls /\ Exists(p.from, p.type)
  /\ polls' = polls \ {p}
  /\ Answer(p.from)
  /\ UNCHANGED <<module, idMap, collect, sampling, taken, wire, profiles, headers>>

ClearProfiles ==
  /\ state = "started"
  /\ profiles' = [s \in Server |-> 0]
  /\ UNCHANGED <<module, idMap, collect, sampling, taken, wire, headers, polls, answered>>

-----------------------------------------------------------------------------
(* Servers *)

Registers(s) ==
  /\ state = "started" /\ s \notin idMap
  /\ idMap' = idMap \union {s}
  /\ UNCHANGED <<module, collect, profiler>>

\* A server whose connection is lost may have ended, and then records no more.
Disconnects(s) ==
  /\ s \in idMap
  /\ idMap' = idMap \ {s}
  /\ pulls' = pulls \ {s}
  /\ sampling' \in {sampling, sampling \ {s}}
  /\ wire' = [wire EXCEPT ![s] = <<>>]
  /\ UNCHANGED <<module, data, threw, taken, profiles, headers, polls, answered>>

-----------------------------------------------------------------------------

Next ==
  \/ Start \/ Stop \/ EnableCommand \/ DisableCommand \/ ClearProfiles
  \/ \E j \in 1 .. MaxJobs : DoScheduleJob(j)
  \/ \E s \in Server : \/ Collected(s) \/ CollectFails(s)
                       \/ StartProfiling(s) \/ StopProfiling(s) \/ StopCallBack(s) \/ TakeHeapSnapshot(s)
                       \/ \E type \in ProfileType : GetProfile(s, type)
                       \/ Registers(s) \/ Disconnects(s)
  \/ \E p \in polls : Poll(p)

Spec == Init /\ [][Next]_vars

-----------------------------------------------------------------------------
(* Properties *)

\* An enabled module has one job, and a disabled one none, whatever clients enable
\* and disable, and however often.
OneJob == jobs = IF enable THEN {jobId} ELSE {}

\* A client never gets an older profile of a server than one it was told of before,
\* whatever recordings follow each other, come late, are cleared or are cut.
NewestProfile == \A a \in answered : a.told <= a.profile /\ a.profile # 0
=============================================================================
