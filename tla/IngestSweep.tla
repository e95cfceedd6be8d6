----------------------------- MODULE IngestSweep -----------------------------
(***************************************************************************)
(* The ingest bench of scripts/loadgen.exs: for each VU count wait until   *)
(* the hot tier is empty, warm up, measure while the pods are sampled, and *)
(* in the end fetch the results, stop the metrics sampler and report.      *)
(*                                                                         *)
(* Three processes share the operator's VM: the sweep, the sampler of      *)
(* Bench.WatchMetrics and, during a measurement, the task of               *)
(* Bench.WatchPods.  fatal! and a linked task's crash end the VM with all  *)
(* of them; k6 goes on on the box.  Sweeps run one after the other with    *)
(* the same settings, so a point's files have the same names in all.       *)
(*                                                                         *)
(* Time is counted where a limit races calls that have none: while the     *)
(* sweep waits for the sampler to return.                                  *)
(***************************************************************************)
EXTENDS Naturals, FiniteSets

CONSTANTS Points,           \* length of VUS_LIST
          Clusters,         \* sizes of the cluster, as the rounds of scrapes in a
                            \* tick: pods / max_concurrency, rounded up
          HalfMinute,       \* units of time in 30 s
          MaxSweeps,        \* bound: sweeps run in a behaviour
          MaxDeaths         \* bound: dead sweeps after which none is killed or
                            \* loses its pods task

ASSUME IngestAssumption ==
    Clusters \cup {Points, HalfMinute, MaxSweeps} \subseteq Nat \ {0} /\ MaxDeaths \in Nat

VARIABLES
    pc,                     \* the sweep: see Steps
    sweep, point,           \* its number and current point
    left,                   \* the gate's last answer: "empty", "some", "unknown"
    gateLate,               \* DRAIN_WAIT_S is over
    cmd,                    \* the awaited SSM command: "none", "running", "ok", "failed"
    key,                    \* the api key is in the parameter store
    died, cause,            \* the sweeps that died, and what the last one died of
    pods,                   \* the pods task: "none", "sampling", "done"
    rounds,                 \* the cluster's size, of Clusters
    sampler,                \* "off", "check", "list", "scrape", "insert", "sleep", "done"
    round, age,             \* the scrapes of this tick over, the age of this one
    stop, waited,           \* the agent's stop flag, the time awaited since, and
    untimed,                \* that part of it spent in calls without a limit
    k6,                     \* k6 runs on the box: [sweep, point, kind]
    hot, drained,           \* external: the hot tier has files; it had none at some
                            \* time since the gate was entered
    boxK6, localK6, localPods   \* the sweep each point's result files are from

sweepVars == <<sweep, point, left, gateLate, cmd, key>>
deathVars == <<died, cause>>
waitVars == <<stop, waited, untimed>>
samplerVars == <<rounds, sampler, round, age, waitVars>>
boxVars == <<k6, hot, drained>>
files == <<boxK6, localK6, localPods>>
vars == <<pc, sweepVars, deathVars, pods, samplerVars, boxVars, files>>

PointIds == 1..Points
Over == {"idle", "done", "dead"}
Steps == Over \cup {"setup", "put", "clear", "gate", "polled", "warm", "pause",
                    "measure", "pods", "delete", "fetch", "stop", "await", "report"}
Kind(c, kind) == c.kind = kind

Init ==
    /\ pc = "idle" /\ sweep = 0 /\ point = 1 /\ left = "unknown" /\ gateLate = FALSE
    /\ cmd = "none" /\ key = FALSE /\ died = {} /\ cause = "none" /\ pods = "none"
    /\ rounds \in Clusters /\ sampler = "off" /\ round = 0 /\ age = 0
    /\ stop = FALSE /\ waited = 0 /\ untimed = 0
    /\ k6 = {} /\ hot \in BOOLEAN /\ drained = FALSE
    /\ boxK6 = [p \in PointIds |-> 0]
    /\ localK6 = [p \in PointIds |-> 0]
    /\ localPods = [p \in PointIds |-> 0]

-----------------------------------------------------------------------------
(* The sweep *)

Goto(from, to) == pc = from /\ pc' = to

StartSweep ==
    /\ pc \in Over /\ sweep < MaxSweeps
    /\ pc' = "setup" /\ sweep' = sweep + 1 /\ point' = 1 /\ cmd' = "none"
    /\ sampler' = "check" /\ round' = 0 /\ age' = 0
    /\ stop' = FALSE /\ waited' = 0 /\ untimed' = 0
    /\ pods' = "none" /\ cause' = "none"
    /\ UNCHANGED <<left, gateLate, key, died, rounds, boxVars, files>>

\* Remote.setup, preflight, push_code and build_body change nothing kept here.
Setup ==
    /\ Goto("setup", "put")
    /\ UNCHANGED <<sweepVars, deathVars, pods, samplerVars, boxVars, files>>

PutKey ==
    /\ Goto("put", "clear")
    /\ key' = TRUE
    /\ UNCHANGED <<sweep, point, left, gateLate, cmd, deathVars, pods, samplerVars, boxVars, files>>

EnterGate(p) == point' = p /\ left' = "unknown" /\ gateLate' = FALSE /\ drained' = ~hot

ClearResults ==
    /\ Goto("clear", "gate")
    /\ boxK6' = [p \in PointIds |-> 0]
    /\ EnterGate(1)
    /\ UNCHANGED <<sweep, cmd, key, deathVars, pods, samplerVars, k6, hot, localK6, localPods>>

\* hot_files: a query that fails, or an answer without the number, is :unknown.
BugUnknownIsEmpty(answer) == IF answer = "some" THEN "some" ELSE "empty"
Reading(answer) == answer

\* The query's answer is on its way to the gate: the hot tier may change again.
PollGate ==
    /\ Goto("gate", "polled")
    /\ \E answer \in {IF hot THEN "some" ELSE "empty", "unknown"} : left' = Reading(answer)
    /\ UNCHANGED <<sweep, point, gateLate, cmd, key, deathVars, pods, samplerVars, boxVars, files>>

DeadlineOver == gateLate

PollAgain ==
    /\ Goto("polled", "gate")
    /\ left # "empty" /\ ~DeadlineOver
    /\ UNCHANGED <<sweepVars, deathVars, pods, samplerVars, boxVars, files>>

WarmUp ==
    /\ Goto("polled", "warm")
    /\ left = "empty" \/ DeadlineOver
    /\ cmd' = "running"
    /\ k6' = k6 \cup {[sweep |-> sweep, point |-> point, kind |-> "warm"]}
    /\ UNCHANGED <<sweep, point, left, gateLate, key, deathVars, pods, samplerVars,
                   hot, drained, files>>

\* await_command returns when the invocation is over.
CommandOk == cmd = "ok"

WarmedUp ==
    /\ Goto("warm", "pause")
    /\ CommandOk
    /\ UNCHANGED <<sweepVars, deathVars, pods, samplerVars, boxVars, files>>

Measure ==
    /\ Goto("pause", "measure")
    /\ pods' = "sampling"
    /\ cmd' = "running"
    /\ k6' = k6 \cup {[sweep |-> sweep, point |-> point, kind |-> "measure"]}
    /\ UNCHANGED <<sweep, point, left, gateLate, key, deathVars, samplerVars, hot, drained, files>>

Measured ==
    /\ Goto("measure", "pods")
    /\ CommandOk
    /\ UNCHANGED <<sweepVars, deathVars, pods, samplerVars, boxVars, files>>

\* Task.await(pods_task), the point's pods.json, and the next point or the end.
WritePods ==
    /\ pc = "pods" /\ pods = "done"
    /\ pods' = "none"
    /\ localPods' = [localPods EXCEPT ![point] = sweep]
    /\ \/ point < Points /\ pc' = "gate" /\ EnterGate(point + 1)
       \/ point = Points /\ pc' = "delete" /\ UNCHANGED <<point, left, gateLate, drained>>
    /\ UNCHANGED <<sweep, cmd, key, deathVars, samplerVars, k6, hot, boxK6, localK6>>

DeleteKey ==
    /\ Goto("delete", "fetch")
    /\ key' \in {FALSE, key}                \* the call's result is not looked at
    /\ UNCHANGED <<sweep, point, left, gateLate, cmd, deathVars, pods, samplerVars, boxVars, files>>

\* tar x over what earlier sweeps have left.
BugKeepLocal(p) == IF localK6[p] = 0 THEN boxK6[p] ELSE localK6[p]
Fetched(p) == IF boxK6[p] = 0 THEN localK6[p] ELSE boxK6[p]

Fetch ==
    /\ Goto("fetch", "stop")
    /\ localK6' = [p \in PointIds |-> Fetched(p)]
    /\ UNCHANGED <<sweepVars, deathVars, pods, samplerVars, boxVars, boxK6, localPods>>

StopSampler ==
    /\ Goto("stop", "await")
    /\ stop' = TRUE
    /\ UNCHANGED <<sweepVars, deathVars, pods, rounds, sampler, round, age, waited,
                   untimed, boxVars, files>>

SamplerReturned == sampler = "done"

SamplerStopped ==
    /\ Goto("await", "report")
    /\ SamplerReturned
    /\ UNCHANGED <<sweepVars, deathVars, pods, samplerVars, boxVars, files>>

\* ReportHtml.generate, and the VM ends.
Report ==
    /\ Goto("report", "done")
    /\ sampler' = "off"
    /\ UNCHANGED <<sweepVars, deathVars, pods, rounds, round, age, waitVars, boxVars, files>>

Die(why) ==
    /\ pc \notin Over
    /\ pc' = "dead" /\ died' = died \cup {sweep} /\ cause' = why
    /\ pods' = "none" /\ sampler' = "off"
    /\ UNCHANGED <<sweepVars, rounds, round, age, waitVars, boxVars, files>>

\* By hand, by an AWS call that fails, or in a step on the cluster or the box.
MayDie == Cardinality(died) < MaxDeaths
Killed == MayDie /\ Die("killed")

CommandFailed == pc \in {"warm", "measure"} /\ cmd = "failed" /\ Die("command")

-----------------------------------------------------------------------------
(* The pods task and the sampler *)

PodsSampled ==
    /\ pods = "sampling"
    /\ pods' = "done"
    /\ UNCHANGED <<pc, sweepVars, deathVars, samplerVars, boxVars, files>>

\* No pod matches, kubectl get fails, or await_many's limit is passed.
PodsFailed == pods = "sampling" /\ MayDie /\ Die("pods")

samplerElse == <<pc, sweepVars, deathVars, pods, boxVars, files, rounds, waitVars>>

SamplerCheck ==
    /\ sampler = "check"
    /\ sampler' = IF stop THEN "done" ELSE "list"
    /\ round' = 0 /\ age' = 0
    /\ UNCHANGED samplerElse

\* pods() returns.  When kubectl get fails or no pod matches, nothing is scraped and
\* insert has nothing to do.
PodsListed ==
    /\ sampler = "list"
    /\ sampler' \in {"scrape", "sleep"}
    /\ UNCHANGED <<round, age, samplerElse>>

\* One round of at most 16 scrapes ends; a scrape that takes 60 s is killed.
BugOneMore == round = rounds
LastRound == round + 1 = rounds

SamplerRound ==
    /\ sampler = "scrape"
    /\ round' = round + 1 /\ age' = 0
    /\ sampler' = IF LastRound THEN "insert" ELSE "scrape"
    /\ UNCHANGED samplerElse

\* sqlite3 returns.
RowsInserted ==
    /\ sampler = "insert"
    /\ sampler' = "sleep"
    /\ UNCHANGED <<round, age, samplerElse>>

SamplerWakes ==
    /\ sampler = "sleep"
    /\ sampler' = "check"
    /\ UNCHANGED <<round, age, samplerElse>>

ScrapeLimit == 2 * HalfMinute               \* timeout: 60_000
BugNoTimeout == TRUE
ScrapeGoesOn == age < ScrapeLimit
AwaitLimit == 3 * HalfMinute                \* the 90 s beyond the interval slept

\* kubectl get and sqlite3 are called without a limit.
TimePasses ==
    /\ pc = "await" /\ waited <= AwaitLimit
    /\ waited' = waited + 1
    /\ \/ sampler = "scrape" /\ ScrapeGoesOn /\ age' = age + 1 /\ UNCHANGED untimed
       \/ sampler \in {"list", "insert"} /\ untimed' = untimed + 1 /\ UNCHANGED age
    /\ UNCHANGED <<pc, sweepVars, deathVars, pods, rounds, sampler, round, stop, boxVars, files>>

\* Task.await exits when its limit is passed.
AwaitTimesOut ==
    /\ pc = "await" /\ ~SamplerReturned /\ waited > AwaitLimit
    /\ Die("sampler")

-----------------------------------------------------------------------------
(* The box and the cluster *)

\* k6 ends and writes its summary, or its command fails.  What it loaded, and the
\* requests it abandoned, fill the hot tier now or later, and the cluster empties
\* it.
EndK6(c) ==
    /\ c \in k6
    /\ k6' = k6 \ {c}
    /\ \E status \in {"ok", "failed"} :
        /\ cmd' = IF c.sweep = sweep /\ pc \in {"warm", "measure"} THEN status ELSE cmd
        /\ boxK6' = IF Kind(c, "measure") /\ status = "ok"
                    THEN [boxK6 EXCEPT ![c.point] = c.sweep] ELSE boxK6
    /\ hot' \in BOOLEAN /\ drained' = (drained \/ ~hot')
    /\ UNCHANGED <<pc, sweep, point, left, gateLate, key, deathVars, pods, samplerVars,
                   localK6, localPods>>

HotChanges ==
    /\ hot' = ~hot /\ drained' = (drained \/ ~hot')
    /\ UNCHANGED <<pc, sweepVars, deathVars, pods, samplerVars, k6, files>>

DrainWaitOver ==
    /\ pc \in {"gate", "polled"} /\ ~gateLate
    /\ gateLate' = TRUE
    /\ UNCHANGED <<pc, sweep, point, left, cmd, key, deathVars, pods, samplerVars, boxVars, files>>

-----------------------------------------------------------------------------

SweepStep ==
    \/ Setup \/ PutKey \/ ClearResults \/ PollGate \/ PollAgain \/ WarmUp \/ WarmedUp
    \/ Measure \/ Measured \/ WritePods \/ DeleteKey \/ Fetch \/ StopSampler
    \/ SamplerStopped \/ Report
SamplerStep == SamplerCheck \/ SamplerRound \/ SamplerWakes

Rest == pc \in Over /\ sweep = MaxSweeps /\ UNCHANGED vars

Next ==
    \/ StartSweep \/ SweepStep \/ SamplerStep \/ Rest
    \/ Killed \/ CommandFailed \/ PodsSampled \/ PodsFailed
    \/ PodsListed \/ RowsInserted \/ TimePasses \/ AwaitTimesOut \/ HotChanges \/ DrainWaitOver
    \/ \E c \in k6 : EndK6(c)

Spec == Init /\ [][Next]_vars

\* The processes of the VM run, commands and scrapes end by their own limits, time
\* passes and the limits of the VM are enforced.  Nothing is assumed of the hot tier,
\* of kubectl get and of sqlite3.
FairSpec ==
    /\ Spec
    /\ WF_vars(SweepStep) /\ WF_vars(SamplerStep) /\ WF_vars(CommandFailed)
    /\ WF_vars(PodsSampled) /\ WF_vars(DrainWaitOver)
    /\ WF_vars(TimePasses) /\ WF_vars(AwaitTimesOut)
    /\ WF_vars(\E c \in k6 : EndK6(c))

-----------------------------------------------------------------------------
(* Properties *)

\* Types; the api key is in place while k6 may ask for it, and a tick has its
\* rounds.
TypeOK ==
    /\ pc \in Steps /\ sweep \in 0..MaxSweeps /\ point \in PointIds
    /\ left \in {"empty", "some", "unknown"} /\ gateLate \in BOOLEAN
    /\ cmd \in {"none", "running", "ok", "failed"}
    /\ pc \in {"warm", "pause", "measure", "pods"} => key
    /\ died \subseteq 1..MaxSweeps
    /\ cause \in {"none", "killed", "command", "pods", "sampler"}
    /\ pods \in {"none", "sampling", "done"}
    /\ sampler \in {"off", "check", "list", "scrape", "insert", "sleep", "done"}
    /\ rounds \in Clusters
    /\ round \in 0..rounds /\ (sampler \in {"list", "scrape"} => round < rounds)
    /\ age \in 0..ScrapeLimit /\ stop \in BOOLEAN
    /\ waited \in 0..AwaitLimit + 1 /\ untimed \in 0..AwaitLimit + 1
    /\ hot \in BOOLEAN /\ drained \in BOOLEAN
    /\ {boxK6, localK6, localPods} \subseteq [PointIds -> 0..MaxSweeps]

\* The cluster is loaded by the k6 of the current sweep, one at a time, and by one at
\* most for every dead sweep that left its own behind.
OneLoadAtATime ==
    /\ \A c \in k6 : c.sweep \in died \cup {sweep}
    /\ \A c, d \in k6 : c.sweep = d.sweep => c = d

\* README.md, Drain gate: no point warms up before the hot tier has been empty once
\* since the gate was entered, or DRAIN_WAIT_S is over, whatever the polls answer.
GateHolds ==
    pc \in {"warm", "pause", "measure", "pods"} => drained \/ gateLate

\* Loads begin behind the gate and one at a time.
LoadsAreGated == OneLoadAtATime /\ GateHolds

\* The k6 and the pods file of a point, which the report reads side by side, are of
\* the sweep just done; only the k6 of a sweep that died can have put its own summary
\* in the place of this sweep's.
ResultsAreOwn ==
    pc = "done" =>
        \A p \in PointIds : localK6[p] \in died \cup {sweep} /\ localPods[p] = sweep

\* The finished sweep gives up on the sampler's last tick only when the tick could take
\* too long: 60 s for each round of 16 scrapes and the time spent in kubectl get and
\* sqlite3 are more than the 90 s allowed.  Up to 16 pods, those two have 30 s.
LastTickInTime ==
    cause = "sampler" => rounds * ScrapeLimit + untimed > AwaitLimit

\* The comment on Bench.WatchMetrics: a kubectl failure "skips that pod for one
\* tick; it never stops the sweep".
SamplerNeverStopsSweep == cause # "sampler"

\* A sweep comes to an end, also when the hot tier never drains or kubectl get hangs.
SweepEnds == pc \notin Over ~> pc \in Over
=============================================================================
