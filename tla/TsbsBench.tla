------------------------------ MODULE TsbsBench ------------------------------
(***************************************************************************)
(* The tsbs bench of scripts/loadgen.exs.  For each scale: give it a       *)
(* window, generate its data and queries on the box unless they are there, *)
(* load the data with a detached tsbsrw and wait for the hot tier, run the *)
(* queries in a detached script, fetch what is in the scale's directory.   *)
(*                                                                         *)
(* The harness runs on the operator's machine and can die at any step;     *)
(* what it started on the box goes on.  Runs follow one another, with the  *)
(* same label and box.  One query type with one worker count stands for    *)
(* all.  A file is named by the run whose process truncated it last.       *)
(***************************************************************************)
EXTENDS Integers, Sequences

CONSTANTS Scales,
          Sweeps,           \* values of TSBS_SCALES
          HourCounts,       \* values of TSBS_HOURS
          Midnights,        \* when the days of the runs begin, in hours
          Slack,            \* TSBS_DRAIN_SLACK
          MaxHot,           \* bound: hot files
          MaxRuns,          \* bound: runs of the bench
          MaxKills,         \* bound: runs that die half way
          MaxFailures       \* bound: processes on the box that fail

ASSUME TsbsBenchAssumption ==
    /\ Sweeps \subseteq Seq(Scales)
    /\ HourCounts \subseteq Nat \ {0} /\ Midnights \subseteq Int
    /\ {Slack, MaxHot, MaxRuns, MaxKills, MaxFailures} \subseteq Nat

Runs == 1..MaxRuns
Jobs == Runs \X Scales
NoRun == 0
Unknown == -1               \* hot_files gives no number

VARIABLES
    pc, run, todo, hours, phases,   \* the harness and its settings
    windows,                        \* windows.json
    drain,                          \* what the load and the drain have found out
    tmp, data, written,             \* cpu-only.lp.tmp, cpu-only.lp, files completed
    queryFile,                      \* the .q file: "none", "cut" or "whole"
    gen, loader, script,            \* processes on the box
    out,                            \* the scale's directory on the box
    local,                          \* the scale's files in results/raw-tsbs
    kills, failures,
    cut, shared, torn               \* history: runs that died; scales with two
                                    \* generators at a tmp file, with a load of
                                    \* an unfinished file

harness == <<pc, run, todo, hours, phases>>
genFiles == <<tmp, data, written, queryFile>>
procs == <<gen, loader, script>>
faults == <<kills, failures>>
history == <<cut, shared, torn>>
vars == <<harness, windows, drain, genFiles, procs, out, local, faults, history>>

Scale == Head(todo)
Job == <<run, Scale>>
Absent == [of |-> NoRun, ok |-> TRUE]
NoLoad == [of |-> NoRun, source |-> NoRun]
NoDrain == [before |-> 0, baseline |-> 0, source |-> NoRun, files |-> 0, limit |-> FALSE]

Init ==
    /\ pc = "idle" /\ run = NoRun /\ todo = <<>> /\ hours = 0 /\ phases = {}
    /\ windows = <<>> /\ drain = NoDrain
    /\ tmp = [s \in Scales |-> NoRun] /\ data = [s \in Scales |-> NoRun]
    /\ written = {} /\ queryFile = [s \in Scales |-> "none"]
    /\ gen = [j \in Jobs |-> "none"]
    /\ loader = [j \in Jobs |-> "none"]
    /\ script = [j \in Jobs |-> "none"]
    /\ out = [s \in Scales |->
                [load |-> NoRun, done |-> FALSE, json |-> NoRun, log |-> Absent]]
    /\ local = [s \in Scales |-> [load |-> NoLoad, json |-> Absent, log |-> Absent]]
    /\ kills = 0 /\ failures = 0 /\ cut = {} /\ shared = {} /\ torn = {}

-----------------------------------------------------------------------------
(* The harness: run_tsbs *)

Goto(from, to) == pc = from /\ pc' = to /\ UNCHANGED <<run, todo, hours, phases>>

\* fatal!, and the end of the last scale.
Stop == pc' = "idle" /\ todo' = <<>> /\ hours' = 0 /\ phases' = {} /\ UNCHANGED run

StartRun ==
    /\ pc = "idle" /\ run < MaxRuns
    /\ pc' = "window" /\ run' = run + 1
    /\ todo' \in Sweeps /\ hours' \in HourCounts
    /\ phases' \in SUBSET {"load", "query"} \ {{}}
    /\ UNCHANGED <<windows, drain, genFiles, procs, out, local, faults, history>>

\* A new window ends where the earliest one starts, the first at midnight.
BugMidnight(midnight) == midnight
WindowEnd(midnight) ==
    IF DOMAIN windows = {} THEN midnight
    ELSE LET starts == {windows[s].start : s \in DOMAIN windows}
         IN  CHOOSE first \in starts : \A other \in starts : first <= other

Put(f, x, y) == [z \in DOMAIN f \cup {x} |-> IF z = x THEN y ELSE f[z]]

TakeWindow ==
    /\ todo # <<>> /\ Goto("window", "gen")
    /\ \/ Scale \in DOMAIN windows /\ UNCHANGED windows
       \/ /\ Scale \notin DOMAIN windows
          /\ \E midnight \in Midnights :
                LET finish == WindowEnd(midnight)
                IN  windows' = Put(windows, Scale, [start |-> finish - hours, end |-> finish])
    /\ gen' = [gen EXCEPT ![Job] = "test"]
    /\ UNCHANGED <<drain, genFiles, loader, script, out, local, faults, history>>

AllDone ==
    /\ pc = "window" /\ todo = <<>> /\ Stop
    /\ UNCHANGED <<windows, drain, genFiles, procs, out, local, faults, history>>

AfterLoad == IF "query" \in phases THEN "query" ELSE "fetch"
AfterGen == IF "load" \in phases THEN "load" ELSE AfterLoad

\* run! is fatal unless the command succeeds.
GenReturned ==
    /\ pc = "gen"
    /\ \/ gen[Job] = "done" /\ Goto("gen", AfterGen)
       \/ gen[Job] = "failed" /\ Stop
    /\ UNCHANGED <<windows, drain, genFiles, procs, out, local, faults, history>>

\* The baseline is read, or cannot be; load.json is removed and tsbsrw started.
BugKeepSummary(s) == out[s].load
SummaryRemoved(s) == NoRun

Launch ==
    /\ Goto("load", "poll_load")
    /\ \E before \in 0..MaxHot : \E baseline \in {before, Unknown} :
            drain' = [NoDrain EXCEPT !.before = before, !.baseline = baseline]
    /\ loader' = [loader EXCEPT ![Job] = "running"]
    /\ out' = [out EXCEPT ![Scale].load = SummaryRemoved(Scale)]
    /\ torn' = IF <<data[Scale], Scale>> \in written THEN torn ELSE torn \cup {Scale}
    /\ UNCHANGED <<windows, genFiles, gen, script, local, faults, cut, shared>>

\* kill -0 fails.
LoaderGone ==
    /\ Goto("poll_load", "summary") /\ loader[Job] \in {"done", "failed"}
    /\ UNCHANGED <<windows, drain, genFiles, procs, out, local, faults, history>>

BugAnySummary(s) == FALSE
SummaryMissing(s) == out[s].load = NoRun

ReadSummary ==
    /\ pc = "summary"
    /\ \/ SummaryMissing(Scale) /\ Stop /\ UNCHANGED drain
       \/ /\ ~SummaryMissing(Scale) /\ Goto("summary", "drain")
          /\ drain' = [drain EXCEPT !.source = out[Scale].load]
    /\ UNCHANGED <<windows, genFiles, procs, out, local, faults, history>>

Target(baseline) == IF baseline # Unknown THEN baseline + Slack ELSE Slack

\* Anything else sleeps and asks again; the limit can be over at any time.
EndDrain ==
    /\ Goto("drain", "report")
    /\ \E files \in 0..MaxHot \cup {Unknown} :
        LET drained == files # Unknown /\ files <= Target(drain.baseline)
        IN  drain' = [drain EXCEPT !.files = files, !.limit = ~drained]
    /\ UNCHANGED <<windows, genFiles, procs, out, local, faults, history>>

WriteReport ==
    /\ Goto("report", AfterLoad)
    /\ local' = [local EXCEPT ![Scale].load = [of |-> run, source |-> drain.source]]
    /\ drain' = NoDrain
    /\ UNCHANGED <<windows, genFiles, procs, out, faults, history>>

StartQueries ==
    /\ Goto("query", "poll_query")
    /\ out' = [out EXCEPT ![Scale].done = FALSE]
    /\ script' = [script EXCEPT ![Job] = "verify"]
    /\ UNCHANGED <<windows, drain, genFiles, gen, loader, local, faults, history>>

QueriesOver == out[Scale].done \/ script[Job] \in {"done", "failed"}

\* A script that died is printed, not fatal.
PollQueries ==
    /\ Goto("poll_query", "fetch") /\ QueriesOver
    /\ UNCHANGED <<windows, drain, genFiles, procs, out, local, faults, history>>

\* A poll that finds the loader or the script at work sleeps and asks again.
PollAgain ==
    /\ \/ pc = "poll_load" /\ loader[Job] = "running"
       \/ pc = "poll_query" /\ ~QueriesOver
    /\ UNCHANGED vars

\* A result that is not there leaves what an earlier fetch brought.  A query type
\* with a log and no result, neither here nor there, gets an error for a result.
ResultKept(here, log) ==
    IF here.of = NoRun /\ log.of # NoRun THEN [of |-> log.of, ok |-> FALSE] ELSE here

Fetch ==
    /\ pc = "fetch"
    /\ pc' = "window" /\ todo' = Tail(todo) /\ UNCHANGED <<run, hours, phases>>
    /\ LET box == out[Scale]
           here == local[Scale]
           log == IF box.log.of # NoRun THEN box.log ELSE here.log
           json == IF box.json # NoRun THEN [of |-> box.json, ok |-> TRUE]
                   ELSE ResultKept(here.json, log)
       IN  local' = [local EXCEPT ![Scale].json = json, ![Scale].log = log]
    /\ UNCHANGED <<windows, drain, genFiles, procs, out, faults, history>>

\* The operator's machine, a credential or an SSM call that fails.
Die ==
    /\ pc # "idle" /\ kills < MaxKills /\ kills' = kills + 1
    /\ Stop /\ drain' = NoDrain /\ cut' = cut \cup {run}
    /\ UNCHANGED <<windows, genFiles, procs, out, local, failures, shared, torn>>

-----------------------------------------------------------------------------
(* tsbs_gen: one shell command on the box, under set -e *)

GenStep(r, s, from, to) ==
    /\ gen[<<r, s>>] = from /\ gen' = [gen EXCEPT ![<<r, s>>] = to]
    /\ UNCHANGED <<harness, windows, drain, loader, script, out, local, kills, cut, torn>>

TestData(r, s) ==
    /\ GenStep(r, s, "test", IF data[s] = NoRun THEN "create" ELSE "queries")
    /\ UNCHANGED <<genFiles, failures, shared>>

\* The generator's output goes to the .tmp file.
BugInPlace(r, s) == data' = [data EXCEPT ![s] = r] /\ UNCHANGED tmp
OutputOpened(r, s) == tmp' = [tmp EXCEPT ![s] = r] /\ UNCHANGED data

CreateData(r, s) ==
    /\ GenStep(r, s, "create", "write") /\ OutputOpened(r, s)
    /\ shared' = IF \E other \in Runs : gen[<<other, s>>] \in {"write", "move"}
                 THEN shared \cup {s} ELSE shared
    /\ UNCHANGED <<written, queryFile, failures>>

\* Whoever truncates a file writes it from the start.
FinishData(r, s) ==
    /\ GenStep(r, s, "write", "move") /\ written' = written \cup {<<r, s>>}
    /\ UNCHANGED <<tmp, data, queryFile, failures, shared>>

\* mv takes whatever is at the name, and fails when another has moved it.
MoveData(r, s) ==
    /\ \/ /\ tmp[s] # NoRun /\ GenStep(r, s, "move", "queries")
          /\ data' = [data EXCEPT ![s] = tmp[s]] /\ tmp' = [tmp EXCEPT ![s] = NoRun]
       \/ /\ tmp[s] = NoRun /\ GenStep(r, s, "move", "failed") /\ UNCHANGED <<tmp, data>>
    /\ UNCHANGED <<written, queryFile, failures, shared>>

\* Queries are written to the file itself; one that is there is kept.
TestQueries(r, s) ==
    /\ \/ /\ queryFile[s] # "none" /\ GenStep(r, s, "queries", "done") /\ UNCHANGED queryFile
       \/ /\ queryFile[s] = "none" /\ GenStep(r, s, "queries", "write_queries")
          /\ queryFile' = [queryFile EXCEPT ![s] = "cut"]
    /\ UNCHANGED <<tmp, data, written, failures, shared>>

FinishQueries(r, s) ==
    /\ GenStep(r, s, "write_queries", "done")
    /\ queryFile' = [queryFile EXCEPT ![s] = "whole"]
    /\ UNCHANGED <<tmp, data, written, failures, shared>>

\* A full disk, a signal, at any command: the file stays as far as it got.
Generating == {"test", "create", "write", "move", "queries", "write_queries"}

GenFails(r, s) ==
    /\ failures < MaxFailures /\ failures' = failures + 1
    /\ \E from \in Generating : GenStep(r, s, from, "failed")
    /\ UNCHANGED <<genFiles, shared>>

-----------------------------------------------------------------------------
(* tsbsrw and query.sh, both detached *)

BoxStep == UNCHANGED <<harness, windows, drain, genFiles, gen, local, kills, history>>

LoaderReports(r, s) ==
    /\ loader[<<r, s>>] = "running" /\ loader' = [loader EXCEPT ![<<r, s>>] = "done"]
    /\ out' = [out EXCEPT ![s].load = r]
    /\ BoxStep /\ UNCHANGED <<script, failures>>

ScriptStep(r, s, from, to) ==
    /\ script[<<r, s>>] = from /\ script' = [script EXCEPT ![<<r, s>>] = to]
    /\ BoxStep /\ UNCHANGED loader

\* rm -f of the result, after the answers to verify.
StartPass(r, s) ==
    /\ ScriptStep(r, s, "verify", "pass") /\ out' = [out EXCEPT ![s].json = NoRun]
    /\ UNCHANGED failures

\* The runner writes its result at the end, and panics on an answer that is not a 200.
PassAnswered(r, s) ==
    /\ ScriptStep(r, s, "pass", "answered") /\ out' = [out EXCEPT ![s].json = r]
    /\ UNCHANGED failures

PassRefused(r, s) ==
    ScriptStep(r, s, "pass", "refused") /\ UNCHANGED <<out, failures>>

KeepLog(r, s) ==
    /\ \E end \in {"answered", "refused"} :
        /\ ScriptStep(r, s, end, "touch")
        /\ out' = [out EXCEPT ![s].log = [of |-> r, ok |-> end = "answered"]]
    /\ UNCHANGED failures

TouchDone(r, s) ==
    /\ ScriptStep(r, s, "touch", "done") /\ out' = [out EXCEPT ![s].done = TRUE]
    /\ UNCHANGED failures

\* A signal, or the box is out of memory; a loader also ends this way when tsbsrw
\* cannot write its summary.
DetachedFails(r, s) ==
    /\ failures < MaxFailures /\ failures' = failures + 1 /\ UNCHANGED out
    /\ \/ /\ loader[<<r, s>>] = "running"
          /\ loader' = [loader EXCEPT ![<<r, s>>] = "failed"]
          /\ BoxStep /\ UNCHANGED script
       \/ \E from \in {"verify", "pass", "answered", "refused", "touch"} :
            ScriptStep(r, s, from, "failed")

-----------------------------------------------------------------------------

Harness ==
    \/ TakeWindow \/ AllDone \/ GenReturned \/ Launch \/ LoaderGone \/ ReadSummary
    \/ EndDrain \/ WriteReport \/ StartQueries \/ PollQueries \/ Fetch
Generate(r, s) ==
    \/ TestData(r, s) \/ CreateData(r, s) \/ FinishData(r, s) \/ MoveData(r, s)
    \/ TestQueries(r, s) \/ FinishQueries(r, s)
Detached(r, s) ==
    \/ LoaderReports(r, s) \/ StartPass(r, s) \/ PassAnswered(r, s) \/ PassRefused(r, s)
    \/ KeepLog(r, s) \/ TouchDone(r, s)

Rest == pc = "idle" /\ run = MaxRuns /\ UNCHANGED vars

Next ==
    \/ StartRun \/ Harness \/ PollAgain \/ Die \/ Rest
    \/ \E r \in Runs, s \in Scales :
            Generate(r, s) \/ Detached(r, s) \/ GenFails(r, s) \/ DetachedFails(r, s)

Spec == Init /\ [][Next]_vars

\* The harness goes on, the drain up to its limit; processes on the box run.
FairSpec ==
    /\ Spec /\ WF_vars(Harness)
    /\ \A r \in Runs, s \in Scales : WF_vars(Generate(r, s)) /\ WF_vars(Detached(r, s))

-----------------------------------------------------------------------------
(* Properties *)

HarnessOK ==
    /\ pc \in {"idle", "window", "gen", "load", "poll_load", "summary", "drain", "report",
               "query", "poll_query", "fetch"}
    /\ run \in 0..MaxRuns /\ todo \in Seq(Scales)
    /\ hours \in Nat /\ phases \subseteq {"load", "query"}

WindowsOK ==
    /\ DOMAIN windows \subseteq Scales
    /\ \A s \in DOMAIN windows : windows[s].start \in Int /\ windows[s].end \in Int

GenOK ==
    /\ tmp \in [Scales -> 0..MaxRuns] /\ data \in [Scales -> 0..MaxRuns]
    /\ written \subseteq Jobs /\ queryFile \in [Scales -> {"none", "cut", "whole"}]
    /\ gen \in [Jobs -> {"none", "test", "create", "write", "move", "queries",
                         "write_queries", "done", "failed"}]
    /\ kills \in 0..MaxKills /\ failures \in 0..MaxFailures
    /\ cut \subseteq Runs /\ shared \cup torn \subseteq Scales

DrainState ==
    [before : Nat, baseline : Int, source : 0..MaxRuns, files : Int, limit : BOOLEAN]
Result == [of : 0..MaxRuns, ok : BOOLEAN]
OnBox == [load : 0..MaxRuns, done : BOOLEAN, json : 0..MaxRuns, log : Result]

DetachedOK ==
    /\ drain \in DrainState
    /\ loader \in [Jobs -> {"none", "running", "done", "failed"}]
    /\ script \in [Jobs -> {"none", "verify", "pass", "answered", "refused", "touch",
                            "done", "failed"}]
    /\ out \in [Scales -> OnBox]
    /\ local \in [Scales -> [load : {NoLoad} \cup [of : Runs, source : Runs],
                             json : Result, log : Result]]

\* Every variable has its type; a report on a load always has a summary.
TypeOK == HarnessOK /\ WindowsOK /\ GenOK /\ DetachedOK

\* The windows of two scales never overlap, whatever TSBS_HOURS the runs had and
\* whatever day they began on: the scales share their host names.
WindowsDisjoint ==
    \A s, t \in DOMAIN windows :
        s # t => windows[s].end <= windows[t].start \/ windows[t].end <= windows[s].start

\* A load reads a finished data file although generators fail and outlive their runs,
\* unless two of them had the .tmp file between opening and mv; and queries are missing
\* from a query file only while it is written or when a generator failed.
DataIsWhole ==
    /\ torn \subseteq shared
    /\ \A s \in Scales :
        queryFile[s] = "cut" =>
            \/ failures > 0
            \/ \E r \in Runs : gen[<<r, s>>] = "write_queries"

\* A load report holds the summary of its own run's tsbsrw, or of one whose run died;
\* the drain ended at the level of before the load, or at its limit above it unless
\* the baseline was unknown; and when no run died, a query log that tells of an
\* answer has the result of its run, or of a later one, beside it.
ReportsAreOwn ==
    /\ \A s \in Scales : local[s].load.source \in {local[s].load.of} \cup cut
    /\ pc = "report" => IF drain.limit THEN \/ Unknown \in {drain.files, drain.baseline}
                                            \/ drain.files > drain.before + Slack
                                       ELSE drain.files <= drain.before + Slack
    /\ cut = {} => \A s \in Scales :
        local[s].log.ok => local[s].json.ok /\ local[s].json.of >= local[s].log.of

\* "The report shows the refusal": a query log that tells of one has an error, or the
\* result of a later run, beside it.
RefusalIsShown ==
    \A s \in Scales :
        ~local[s].log.ok => ~local[s].json.ok \/ local[s].json.of > local[s].log.of

\* Every run ends, though loaders, generators and query scripts die.
RunEnds == pc # "idle" ~> pc = "idle"
=============================================================================
