------------------------------- MODULE RunArm -------------------------------
(***************************************************************************)
(* A measured run of one arm: Bench.RunArm.run of scripts/bench.exs, with  *)
(* the processes around it: tools/genbody, which wrote the body it posts,  *)
(* k6, tools/watch, which samples the server meanwhile, and for the remote *)
(* arm the task that samples the pods.                                     *)
(*                                                                         *)
(* The script awaits k6 first and the watcher second.  fatal! and a linked *)
(* task's crash end the script alone: a k6 or a watcher it has started     *)
(* goes on and writes its file when it ends.  All runs here have the same  *)
(* label, hence the same files.                                            *)
(***************************************************************************)
EXTENDS Integers

CONSTANTS Durations,        \* values of DURATION_S, in sampling intervals
          Slack,            \* how much longer the watcher runs than k6 loads
          Graceful,         \* gracefulStop of k6/insert.js
          MaxStartup,       \* bound: the longest start-up of k6 explored
          Remote,           \* whether the arm is "remote"
          MaxRuns,          \* bound: runs started
          MaxFaults         \* bound: interrupts, signals, failing ps and disk

ASSUME RunArmAssumption ==
    /\ Durations \subseteq Nat \ {0} /\ Remote \in BOOLEAN
    /\ {Slack, Graceful, MaxStartup, MaxRuns, MaxFaults} \subseteq Nat

Runs == 1..MaxRuns
NoRun == 0

VARIABLES
    gen, body,              \* genbody and the file it writes
    pc, run, duration,      \* the script, its number and DURATION_S
    k6, watch, pods,        \* processes of each run
    k6File, watchFile, podsFile,    \* the run that wrote <label>.*.json last
    faults,
    cut                     \* history: runs cut short

bodyVars == <<gen, body>>
script == <<pc, run, duration>>
procs == <<k6, watch, pods>>
files == <<k6File, watchFile, podsFile>>
vars == <<bodyVars, script, procs, files, faults, cut>>

NoK6(at, ok) == [at |-> at, ok |-> ok, left |-> 0, lasts |-> 0, took |-> 0]
NoWatch(at, ok) == [at |-> at, ok |-> ok, left |-> 0, tick |-> FALSE]
K6Live(r) == k6[r].at \in {"starting", "loading", "stopping"}
WatchLive(r) == watch[r].at \in {"select", "ps"}

Init ==
    /\ gen = "none" /\ body = "none"
    /\ pc = "idle" /\ run = NoRun /\ duration = 0
    /\ k6 = [r \in Runs |-> NoK6("unborn", TRUE)]
    /\ watch = [r \in Runs |-> NoWatch("unborn", TRUE)]
    /\ pods = [r \in Runs |-> "none"]
    /\ k6File = NoRun /\ watchFile = NoRun /\ podsFile = NoRun
    /\ faults = 0 /\ cut = {}

Fault == faults < MaxFaults /\ faults' = faults + 1

-----------------------------------------------------------------------------
(* genbody: rows go through a buffer of 1 MiB into the file itself *)

GenStep(from, to, left) ==
    /\ gen = from /\ gen' = to /\ body' = left
    /\ UNCHANGED <<script, procs, files, faults, cut>>

\* os.Create truncates the body that is there.  The operator generates between runs.
CreateBody ==
    /\ pc = "idle" /\ run < MaxRuns /\ \A r \in Runs : ~K6Live(r) /\ ~WatchLive(r)
    /\ GenStep("none", "encoding", "empty")

\* The buffer spills in the middle of a row.
SpillRows == GenStep("encoding", "encoding", "cut")

FlushBody == GenStep("encoding", "none", "whole")

\* -base-date is parsed after the file was created.
BadBaseDate == body = "empty" /\ GenStep("encoding", "none", "empty")

GenbodyKilled == GenStep("encoding", "none", body)

-----------------------------------------------------------------------------
(* The script *)

Goto(from, to) == pc = from /\ pc' = to /\ UNCHANGED <<run, duration>>

\* fatal!, the linked pods task or the person at the terminal: the VM ends, and with
\* it its pods task, not k6 nor the watcher.
EndScript ==
    /\ pc' = "idle" /\ duration' = 0 /\ UNCHANGED run
    /\ pods' = [pods EXCEPT ![run] = IF @ = "sampling" THEN "killed" ELSE @]
    /\ cut' = IF pc \in {"measure", "await", "pods"} THEN cut \cup {run} ELSE cut

\* Any body that exists will do; no run shares its start with genbody.
StartRun ==
    /\ pc = "idle" /\ gen = "none" /\ body # "none" /\ run < MaxRuns
    /\ pc' = "preflight" /\ run' = run + 1
    /\ duration' \in Durations
    /\ UNCHANGED <<bodyVars, procs, files, faults, cut>>

\* The whole body is posted once.  A row cut in half is an insert error; whether an
\* empty insert is one is the server's business.
RowsAccepted == body # "cut"

Preflight ==
    /\ \/ RowsAccepted /\ Goto("preflight", "warmup") /\ UNCHANGED <<pods, cut>>
       \/ pc = "preflight" /\ EndScript
    /\ UNCHANGED <<bodyVars, k6, watch, files, faults>>

Warmup ==
    /\ \/ Goto("warmup", "pause") /\ UNCHANGED <<pods, cut>>
       \/ pc = "warmup" /\ EndScript
    /\ UNCHANGED <<bodyVars, k6, watch, files, faults>>

BugNoSlack(d) == d
WatchTime(d) == d + Slack

\* Task.async of the watcher and of the pods, then k6.
StartMeasure ==
    /\ Goto("pause", "measure")
    /\ watch' = [watch EXCEPT ![run].at = "select", ![run].left = WatchTime(duration)]
    /\ pods' = [pods EXCEPT ![run] = IF Remote THEN "sampling" ELSE @]
    /\ k6' = [k6 EXCEPT ![run] =
            [at |-> "starting", ok |-> TRUE, left |-> 0, lasts |-> duration, took |-> 0]]
    /\ UNCHANGED <<bodyVars, files, faults, cut>>

\* k6! is fatal unless k6 exits with 0.
K6Returned ==
    /\ pc = "measure" /\ k6[run].at = "gone"
    /\ \/ k6[run].ok /\ Goto("measure", "await") /\ UNCHANGED <<pods, cut>>
       \/ ~k6[run].ok /\ EndScript
    /\ UNCHANGED <<bodyVars, k6, watch, files, faults>>

BugNoAwait == TRUE
WatchAwaited == watch[run].at = "gone"

WatchReturned ==
    /\ pc = "await" /\ WatchAwaited
    /\ \/ watch[run].ok /\ Goto("await", "pods") /\ UNCHANGED <<pods, cut>>
       \/ ~watch[run].ok /\ EndScript
    /\ UNCHANGED <<bodyVars, k6, watch, files, faults>>

PodsReturned ==
    /\ Goto("pods", "done") /\ pods[run] \in {"none", "written"}
    /\ UNCHANGED <<bodyVars, procs, files, faults, cut>>

Done == pc = "done" /\ EndScript /\ UNCHANGED <<bodyVars, k6, watch, files, faults>>

Interrupt ==
    /\ pc \notin {"idle", "done"} /\ Fault /\ EndScript
    /\ UNCHANGED <<bodyVars, k6, watch, files>>

-----------------------------------------------------------------------------
(* WatchPods.sample in its task *)

PodsSampled ==
    /\ pc # "idle" /\ pods[run] = "sampling"
    /\ pods' = [pods EXCEPT ![run] = "written"] /\ podsFile' = run
    /\ UNCHANGED <<bodyVars, script, k6, watch, k6File, watchFile, faults, cut>>

\* No pods, or a kubectl that fails: the task's crash is the script's.
PodsFail ==
    /\ pc # "idle" /\ pods[run] = "sampling" /\ Fault /\ EndScript
    /\ UNCHANGED <<bodyVars, k6, watch, files>>

-----------------------------------------------------------------------------
(* k6 run k6/insert.js *)

K6Goes(r, from, to) ==
    /\ k6[r].at = from /\ k6' = [k6 EXCEPT ![r] = to]
    /\ UNCHANGED <<bodyVars, script, watch, pods, watchFile, podsFile, faults, cut>>

Entering(r, at, left) == [k6[r] EXCEPT !.at = at, !.left = left]

\* Every VU has read the body and looked for its stamps, however long that took.
BeginLoad(r) == K6Goes(r, "starting", Entering(r, "loading", k6[r].lasts)) /\ UNCHANGED k6File

LastRequests(r) ==
    /\ k6[r].left = 0 /\ K6Goes(r, "loading", Entering(r, "stopping", Graceful))
    /\ UNCHANGED k6File

\* handleSummary writes JSON_OUT before k6 exits.
EndK6(r) == K6Goes(r, "stopping", NoK6("gone", TRUE)) /\ k6File' = r

\* A script error, a signal: with or without a summary.
K6Fails(r) ==
    /\ K6Live(r) /\ K6Goes(r, k6[r].at, NoK6("gone", FALSE))
    /\ k6File' \in {k6File, r}

-----------------------------------------------------------------------------
(* watch: a select over the ticker, the deadline and the signals *)

WatchGoes(r, from, to) ==
    /\ watch[r].at = from /\ watch' = [watch EXCEPT ![r] = to]
    /\ UNCHANGED <<bodyVars, script, k6, pods, k6File, podsFile, cut>>

OnTick(r) ==
    /\ watch[r].tick
    /\ WatchGoes(r, "select", [watch[r] EXCEPT !.at = "ps", !.tick = FALSE])
    /\ UNCHANGED <<watchFile, faults>>

\* A break without the label would leave the select only.
BugBreakSelect == "select"
AfterDeadline == "report"

OnDeadline(r) ==
    /\ watch[r].left = 0
    /\ WatchGoes(r, "select", [watch[r] EXCEPT !.at = AfterDeadline, !.tick = FALSE])
    /\ UNCHANGED <<watchFile, faults>>

OnSignal(r) ==
    /\ Fault
    /\ WatchGoes(r, "select", [watch[r] EXCEPT !.at = "report", !.left = 0, !.tick = FALSE])
    /\ UNCHANGED watchFile

PsReturns(r) ==
    /\ WatchGoes(r, "ps", [watch[r] EXCEPT !.at = "select"])
    /\ UNCHANGED <<watchFile, faults>>

\* log.Fatal: no report.
WatchFails(r, from) ==
    Fault /\ WatchGoes(r, from, NoWatch("gone", FALSE)) /\ UNCHANGED watchFile

PsFails(r) == WatchFails(r, "ps")
DiskFails(r) == WatchFails(r, "report")

\* A report without a sample is written too: its means are 0.
Report(r) ==
    /\ WatchGoes(r, "report", NoWatch("gone", TRUE)) /\ watchFile' = r
    /\ UNCHANGED faults

-----------------------------------------------------------------------------

BugNoFloor(left) == left - 1
Elapsed(left) == IF left > 0 THEN left - 1 ELSE 0

\* One sampling interval: timers run down and every ticker has a tick, of which its
\* channel holds one.  k6 leaves no state later than its timer says, and starts up for
\* as long as it takes.
Second ==
    /\ \E r \in Runs : K6Live(r) \/ WatchLive(r)
    /\ \A r \in Runs : IF k6[r].at = "starting" THEN k6[r].took < MaxStartup
                       ELSE K6Live(r) => k6[r].left > 0
    /\ k6' = [r \in Runs |-> IF k6[r].at = "starting" THEN [k6[r] EXCEPT !.took = @ + 1]
                             ELSE [k6[r] EXCEPT !.left = Elapsed(@)]]
    /\ watch' = [r \in Runs |-> IF WatchLive(r)
                                THEN [watch[r] EXCEPT !.left = Elapsed(@), !.tick = TRUE]
                                ELSE watch[r]]
    /\ UNCHANGED <<bodyVars, script, pods, files, faults, cut>>

Genbody == CreateBody \/ SpillRows \/ FlushBody \/ BadBaseDate \/ GenbodyKilled
ScriptStep ==
    Preflight \/ Warmup \/ StartMeasure \/ K6Returned \/ WatchReturned \/ PodsReturned \/ Done
K6Step(r) == BeginLoad(r) \/ LastRequests(r) \/ EndK6(r)
WatchStep(r) == PsReturns(r) \/ Report(r)
Faults(r) == K6Fails(r) \/ OnSignal(r) \/ PsFails(r) \/ DiskFails(r)

Rest == pc = "idle" /\ run = MaxRuns /\ UNCHANGED vars

Next ==
    \/ Genbody \/ StartRun \/ ScriptStep \/ Interrupt \/ PodsSampled \/ PodsFail
    \/ Second \/ Rest
    \/ \E r \in Runs : K6Step(r) \/ OnTick(r) \/ OnDeadline(r) \/ WatchStep(r) \/ Faults(r)

Spec == Init /\ [][Next]_vars

\* Processes run, time passes, ps and k6 come back.  A select with several ready
\* cases takes each with the same probability, so a deadline that stays ready is
\* taken although a tick is ready as well every time: strong fairness.
FairSpec ==
    /\ Spec
    /\ WF_vars(ScriptStep) /\ WF_vars(PodsSampled) /\ WF_vars(Second)
    /\ \A r \in Runs : WF_vars(K6Step(r)) /\ WF_vars(WatchStep(r)) /\ SF_vars(OnDeadline(r))

-----------------------------------------------------------------------------
(* Properties *)

K6At == {"unborn", "starting", "loading", "stopping", "gone"}
WatchAt == {"unborn", "select", "ps", "report", "gone"}
K6State == [at : K6At, ok : BOOLEAN, left : Nat, lasts : Nat, took : Nat]
WatchState == [at : WatchAt, ok : BOOLEAN, left : Nat, tick : BOOLEAN]

\* Every variable has its type; timers stop at zero.
TypeOK ==
    /\ gen \in {"none", "encoding"}
    /\ body \in {"none", "empty", "cut", "whole"}
    /\ pc \in {"idle", "preflight", "warmup", "pause", "measure", "await", "pods", "done"}
    /\ run \in 0..MaxRuns /\ duration \in Durations \cup {0}
    /\ k6 \in [Runs -> K6State] /\ watch \in [Runs -> WatchState]
    /\ pods \in [Runs -> {"none", "sampling", "written", "killed"}]
    /\ {k6File, watchFile, podsFile} \subseteq 0..MaxRuns
    /\ faults \in 0..MaxFaults /\ cut \subseteq Runs

\* A run that says it is done posted no row cut in half (but perhaps no row at all,
\* if the server accepts that), and the files it names are its own: only a k6 or a
\* watcher that outlived a run cut short may have written one of them since, and
\* pods.json none.
DoneRunIsSound ==
    pc = "done" =>
        /\ body # "cut"
        /\ k6File \in {run} \cup cut /\ watchFile \in {run} \cup cut
        /\ Remote => podsFile = run

\* When k6's start-up takes less than the slack leaves beside its graceful stop (3 s of
\* the 8), the watcher samples for as long as k6 loads, from its first request to its
\* last, unless it is signalled or ps or the disk fails.
StartsInTime(r) == k6[r].took + Graceful < Slack
WatcherDoesItsPart ==
    \A r \in Runs : K6Live(r) /\ StartsInTime(r) /\ faults = 0 => WatchLive(r)

\* The watcher runs as long as the load it measures, which nothing in the code
\* ensures: k6's start-up has no limit.
WatcherOutlivesK6 == \A r \in Runs : K6Live(r) /\ faults = 0 => WatchLive(r)

\* Every run ends, and so does every watcher, the ones left behind too, however busy
\* its ticker keeps it.
RunEnds ==
    /\ pc # "idle" ~> pc = "idle"
    /\ \A r \in Runs : WatchLive(r) ~> ~WatchLive(r)
=============================================================================
