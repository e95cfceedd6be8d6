# Formal model of smolquery_bench

smolquery_bench is a benchmark harness: Go tools that make data sets and load
them, and Elixir scripts that start servers, drive load from a laptop or from a
box in EC2, and collect the results. This directory holds TLA+ models of its
concurrent and failure-prone parts, the TLC runs that check them on small
instances, and proofs, checked by TLAPS, of the facts that hold for every
instance. A benchmark that miscounts, measures the wrong server or reports last
week's file does not crash. It prints a wrong number. That is what the
properties here are about.

Paths are relative to the repository root.

## 1. The system

### Components

| Component | Where | State it keeps | Operations |
|---|---|---|---|
| gen1brc | `tools/gen1brc/main.go` | two channels, a reordering map, the output file | feed indices, generate a block, write blocks in order |
| upload1brc | `tools/upload1brc/main.go` | a channel of batches, atomic counters, `stopped_early`, progress and summary files | cut batches, post with retries and a deadline, snapshot, summarise |
| tsbsrw | `tools/tsbsrw/main.go` | the same plus a busy-retry class and the time range (`recordTs`) | cut by samples, encode, post, three retry policies, exit code |
| local arms | `scripts/bench.exs`, `sweep.exs`, `stop.exs` | pid files, ports, data directories, server processes | setup, run, sweep, stop |
| ingest bench | `scripts/loadgen.exs` `sweep`, `run_ingest`; `Bench.WatchMetrics`, `Bench.WatchPods` | the VU point, the API key parameter, result files on two machines, a sampler and a pods task | drain gate, warm-up, measurement, fetch, report |
| onebrc bench | `scripts/loadgen.exs` `run_onebrc` | CSV and marker on the box, detached uploader, summary, tables | make the CSV, launch, poll, read, next point |
| box lifecycle | `scripts/loadgen.exs` 211-480, 2238 | an EC2 instance found by tag, SSM commands | up, bootstrap, push_code, run, down |
| tail bench | `scripts/loadgen.exs` 707-907 | a detached k6 and its log, the hot tier | idle, ingest and sealed phases |
| tsbs bench | `scripts/loadgen.exs` 1780-2204 | generated files, detached loader and query script, done marker | generate, load, drain, query, fetch in chunks |
| attrs, pruning, compaction | `scripts/loadgen.exs` | none | query, poll, write a file |
| local TSBS | `scripts/tsbs.exs` | worktrees, one node with a pid file, results per label | setup, build, gen, start, load, query, verify |
| remote arm | `scripts/bench.exs` `Bench.Remote`, `Bench.Kube` | none here; datasets and tables on the cluster | retried create and patch calls |
| RunArm, k6 | `scripts/bench.exs` `Bench.RunArm`, `k6/*.js` | watcher, pods task, k6 processes, three result files | preflight, warm-up, measurement |
| reports | `Bench.Report`, `scripts/report_html.exs` | none | counter deltas, resets, buckets, tables |
| watch, genbody, tsbsdigest | `tools/` | sample lists, random source | sample processes, make rows, digest responses |

### How they interact

* Inside the Go tools: goroutines over buffered channels and atomics. One
  goroutine closes each channel; `main` waits for the workers and writes files
  by rename.
* Go tools and cluster: HTTP posts under `client.Timeout`. A post that times out
  may still be processed later. Deduplication is by `insertId`, per pod.
* Scripts and local servers: a pid file, `kill -0`, SIGTERM, a health URL on a
  port that any process may hold.
* Scripts and the box: SSM commands that are awaited by polling, detached
  processes known by the pid they printed, marker files, result files fetched
  as a tarball. A script that dies (`fatal!`, a linked task's crash, a Ctrl-C)
  stops nothing on the box.
* In the operator's VM: the sweep, a sampler task with its agent, and a pods task
  per measurement, linked to one another.

### What is hard

* Interleavings of eight writers or uploaders, with full channels.
* Answers that are lost or late, and retries of what was already done.
* A deadline that passes between any two steps.
* Scripts killed between two steps whose leftovers the next script meets: servers,
  generators, uploaders, half-written files, filled tables.
* Stale files under the same names; liveness asked of a pid and health of a port.
* Waits that give up without a word.
* Limits that race what has none: a `kubectl get`, a `sqlite3` and rounds of scrapes of
  60 s against the 90 s the sampler's last tick is awaited for; k6's start-up and its
  graceful stop against the watcher's extra time.
* Files that are kept from run to run, and files that a failed step does not replace.

### What makes each component correct

* gen1brc: the file is the data set in order, each block once, whatever the
  goroutines do; the reported count is true; the program ends.
* Loaders: nothing is stored twice; the counters add up to the lines read; a
  summary without `stopped_early`, or an exit code 0, means a whole load; the
  deadline bounds the cost of a collapsed cluster; the program ends.
* Local arms: a sweep point measures the server it started, on a cold table; no
  server is forgotten; no two servers of an arm run together.
* Ingest bench: the gate holds; loads do not overlap; the files of one point
  that the report shows side by side belong to one sweep, or are a dead sweep's whose k6
  went on; every sweep ends.
* onebrc bench: the summary read is the launched uploader's; the rows it counts
  are in the table; no upload reads half a CSV.
* RunArm: a run that says it is done posted no row cut in half and names files of its own;
  it was watched from k6's first request to its last, if k6 starts up in time.
* tsbs bench: the windows of two scales never overlap; a load reads a finished file; the
  report and the fetched results are those of the run they name.
* tsbsdigest and the comparison: builds are called identical only when they agree.
* Reports: deltas between samples are right across pod restarts.

## 2. Modules

| Module | Models | Constants |
|---|---|---|
| `OrderedWriter` | abstract: a sequential writer of blocks | `Blocks` |
| `Gen1brc` | `tools/gen1brc/main.go` `main` | `Writers`, `Rows`, `BlockRows` |
| `Gen1brcProofs` | theorems about `Gen1brc` | |
| `BatchLoad` | abstract: what both loaders promise about batches | `Batches` |
| `Upload1brc` | `tools/upload1brc/main.go` | `Workers`, `Loads`, `Targets`, `MaxAttempts`, `HasDeadline`, `DiskFails` |
| `Upload1brcProofs` | theorems about `Upload1brc`; sums over finite sets | |
| `TsbsRw` | `tools/tsbsrw/main.go` | `Workers`, `Files`, `TargetSamples`, `MaxSamples`, `Targets`, `MaxAttempts`, `HasDeadline` |
| `RecordTs` | `recordTs` of tsbsrw, at the grain of its atomics | `Calls`, `Stamps` |
| `TsbsToolsProofs` | theorems about `TsbsRw`, `RecordTs` and `TsbsDigest` | |
| `LocalServers` | the local arms | bounds on processes, scripts, crashes, interrupts, retries |
| `LocalServersProofs` | theorems about `LocalServers` | |
| `IngestSweep` | the ingest bench and both samplers | `Points`, `Clusters`, `HalfMinute`, `MaxSweeps`, `MaxDeaths` |
| `IngestSweepProofs` | theorems about `IngestSweep` | |
| `OnebrcSweep` | the onebrc bench around the uploader | `Points`, `MaxSweeps`, `MaxKills` |
| `OnebrcSweepProofs` | theorems about `OnebrcSweep` | |
| `RunArm` | `Bench.RunArm.run`, `k6/insert.js`, `tools/watch`, how `tools/genbody` leaves its file | `Durations`, `Slack`, `Graceful`, `Remote`, `MaxStartup` and other bounds |
| `RunArmProofs` | theorems about `RunArm` | |
| `TsbsBench` | the tsbs bench of `scripts/loadgen.exs` | `Scales`, `Sweeps`, `HourCounts`, `Midnights`, `Slack`, `MaxHot`, bounds |
| `TsbsBenchProofs` | theorems about `TsbsBench` | |
| `TsbsDigest` | `tools/tsbsdigest`, `compare_answers` of `scripts/tsbs.exs` | `Builds`, `Outputs`, `Grain`, `Tolerance` |
| `MC...` | instances for TLC | |

The loaders are used inside two benches. `OnebrcSweep` and `TsbsBench` take the uploader
as one step that writes a summary and may fail; that it ends and that its summary is true
is what `Upload1brc` and `TsbsRw` show, and both implement `BatchLoad`.

Every definition that models code is mapped to its lines in `PROJECT.json`
(`map`). Definitions whose name starts with `Bug` are mutated forms of the
definition that follows them: no specification uses them. Each property is paired
in `PROJECT.json` (`mutants`) with one that must break it, which shows that the
property depends on the code and not on the shape of the model.

### Correspondence with the code

**Gen1brc.** One action per communication. `FeedJob`, `CloseJobs`, `CloseResults`
are the feeder goroutine; `TakeJob`, `SendBlock`, `ExitWriter` a writer;
`ReceiveBlock`, `WriteBlock`, `EndDrain`, `WriteFails`, `FlushAndReport` main. A
block is its index and row count. Channels are sequences with the capacities the
code gives them: one index per writer, two blocks per writer.

**Upload1brc.** The reader cuts a batch and then sends it, two steps, so that it
can block on a full channel. A worker takes a batch, posts, and sees one of:
success, busy, broken. `network` holds requests on their way, also those whose
client has given up; `Process` is the cluster, at any later moment, storing rows
once per `insertId` and pod. `late` turns TRUE at any moment. The progress snapshot
reads `rows_accepted` first and the other counters later, as the code does.
`load` picks one of several loads in the initial state.

**TsbsRw.** As above, with lines that carry fields and samples, `encode` errors that
end the process, refused samples, permanent statuses, busy answers retried without
limit, and the store of `stopped_early` that happens after `pastDeadline()` was
evaluated (`mark`, `StoreMark`), so that a stale FALSE can overwrite a TRUE. In the
code 409 is permanent although the header does not list it; `permanent()` is
followed.

**RecordTs.** Each load and each compare-and-swap is a step; 0 is the "nothing
recorded" value of `min_ts`.

**LocalServers.** `script` is the running script with its program counter; each
system call that another process can observe is a step: signal, poll for exit,
remove the pid file, erase, spawn, write the pid file, poll health, confirm the
process, create the table (for smolquery its dataset and settings too), measure. Any
request may fail, and a measurement also after rows were loaded. `Interrupt` kills the
script anywhere, also between spawn and pid file. Servers bind, drain, exit and crash by
themselves.

**IngestSweep.** `pc` walks through `sweep` and `run_ingest`; `polled` is the time between
an answer about the hot tier and what the gate does with it, in which the tier may change.
`sampler` and `pods` are the two other processes of the VM. A tick of the sampler lists the
pods (`list`), scrapes them in rounds of 16 (`scrape`) and inserts the rows (`insert`).
`k6` is what runs on the box, tagged with the sweep that started it. `boxK6`, `localK6` and
`localPods` say of every result file which sweep wrote it. `Die` ends all VM processes and
leaves the box alone; `died` has the sweeps it ended. `drained` is history: the tier has
been empty since the gate was entered. Time is counted, in units of 30 s / `HalfMinute`,
only while the finished sweep waits for the sampler (`waited`): a scrape lasts 60 s at most,
listing and insert as long as they like (`untimed`), and the limit is 90 s beyond the
interval the sampler sleeps.

**OnebrcSweep.** `gen[s]` is the shell command of sweep s on the box, step by step
under `set -e` (the test for the marker and the `rm` are two); `uploader[<<s, p>>]` the
detached uploader. `csv` says whose file is at the path, `whole` that it was written to the
end, `marker` that `.done` exists. A table is the set of uploads whose rows are in it. A
summary is the upload it is of, whether it counts rows as accepted, and whether some were
lost; an uploader whose batches all failed writes one too. `upload` is the summary the sweep
has read.

**RunArm.** `pc` is the script: `preflight` posts the body once, `warmup`, `pause`,
`measure` awaits k6, `await` the watcher, `pods` the pods task. `k6[r]`, `watch[r]` and
`pods[r]` are the processes of run r; `fatal!`, an interrupt and the crash of the linked
pods task end the script and its tasks, not k6 nor the watcher. `watch` is the `select`
loop: a tick is one slot of a channel, the deadline a timer that stays ready, a signal
takes the same way out, and only the labelled break reaches the report. `Second` lets one
sampling interval pass for all timers. `took` is how long a k6 has been starting up, for
which the code has no limit. All runs have one label, so `k6File`, `watchFile`
and `podsFile` say which run wrote each file last. `gen` and `body` are genbody, whose
1 MiB buffer spills in the middle of a row (`SpillRows`), whose base date is parsed after
the file is created (`BadBaseDate`), and which a signal stops anywhere.

**TsbsBench.** `pc` walks through `run_tsbs` for the scale at the head of `todo`. On the
box, `gen[<<r, s>>]` is the shell command of run r for scale s, under `set -e`: test, create
the `.tmp`, write, `mv`, and the query file that is written in place; `loader` the detached
tsbsrw, `script` the detached `query.sh` without `set -e`. A file is named by the run that
truncated it last; `written` says which of them were completed. `windows` is
`windows.json`. `out` is the scale's directory on the box (summary, done marker, result,
log), `local` what `results/raw-tsbs` holds after the report and the fetch. `Die` ends the
harness in any step. `cut`, `shared` and `torn` are history: runs that died, scales
with two generators between opening and moving one `.tmp`, scales with a load of an
unfinished file.

**TsbsDigest.** `Scan` is one turn of tsbsdigest's scanner (or of the text being read),
`CompareAnswers` the comparison. `Digest` is what tsbsdigest prints of a body, `Compared` the `cond`
of `compare_answers`. A sorted list of lines is how often each line is in it; a hash is
what is hashed; ten significant digits are `Rounded`.

## 3. Runs

| Run | Question | Result |
|---|---|---|
| `gen1brc` | Can the pipeline lose, repeat or reorder a block, close a channel early, or hang? | no; refines `OrderedWriter` |
| `upload1brc` | Do counters, table, progress and summary agree under timeouts, retries, deadline, `-max-rows`, disk errors? Does it end? | yes; refines `BatchLoad` |
| `tsbsrw` | The same with three retry classes and the racing `stopped_early` | yes; refines `BatchLoad` |
| `recordts` | Do the lock-free extremes end exact? | yes |
| `local_servers` | What can scripts, failed requests, interrupts and crashes leave behind? | one unnamed server per killed script; sweeps measure their own server |
| `onebrc_sweep` | Are summaries, rows and CSV a point's own? | yes |
| `onebrc_fresh` | Is each upload into a fresh table? | not in a second sweep, finding |
| `ingest_sweep` | Does the gate hold, do loads overlap, do files belong together, does every sweep end, the last tick included? | the first four hold, up to a k6 that a dead sweep left; the last tick ends the sweep only if its un-timed calls or a second round of scrapes take too long |
| `run_arm` | Does a finished run post no half row and name its own files? Is all of the load watched? Do run and watchers end? | yes, up to files a process of a run cut short wrote again, and if k6 starts up in less than 3 s |
| `tsbs_bench` | Do windows stay apart, do loads read finished data, are reports and results the run's own, does every run end? | yes, up to two generators at one `.tmp` |
| `tsbs_refusal` | Does the report show a refused query type? | not after an answered run of the same label, finding |
| `tsbs_digest` | Is the verdict on two builds the one a comparison up to the order of series gives? | yes |

### Properties

*Gen1brc.* `EachBlockInOnePlace`: what was fed is the disjoint union of what is in the
channels, in a writer's hands, in the map and in the file. `NoSendOnClosed`.
`Termination`. `ImplementsOrderedWriter`. `ReportedIsComplete` (a summary is printed only
of a complete file) is proved.

*Upload1brc.* `StoredAtMostOnce`: one `insertId` to one pod. `FilesAreTrue` is what the
progress and summary files claim: `SummaryAccounts` (every line read is accepted, failed
or refused), `CountExactUnlessFailed` (`rows_accepted` never exceeds the table, and equals
it when no batch failed), `UnmarkedIsWhole` (no `stopped_early` means the whole file) and
`ProgressConsistent` (a snapshot taken counter by counter never shows more accepted than
posted). `DeadlineBoundsAttempts`: at most one attempt per batch after the deadline.
`Termination`. `ImplementsBatchLoad`.

*TsbsRw.* `ReportIsTrue`: `SummaryAccounts`, and `CleanExitIsWhole`: exit 0 means that every
batch with samples is stored exactly once, and without `stopped_early` that the whole file was
cut, unless a batch without samples was given up; in spite of the racing store.
`Termination`, which needs the deadline. `ImplementsBatchLoad`.

*RecordTs.* `ExactWhenDone`; `OnlyWidens` is proved.

*LocalServers.* `ServersAccountedFor`: `NoneForgotten` (a server with no pid file to its name
is one that a killed script left) and `OnePerArm`. `SweepIsCold`: `SweepIsFreshAndCold` and
`SmolquerySweepIsCold` (also after killed scripts, because the smolquery setup takes a
conflict for an error). `ScriptsEnd`.

*IngestSweep.* `LoadsAreGated`: `OneLoadAtATime` (one k6, and one more at most per dead sweep)
and `GateHolds` (the hot tier was empty once since the gate was entered, or the gate's limit
is over, whatever the polls answer). `ResultsAreOwn`, up to the summaries that the k6 of a
dead sweep writes. `LastTickInTime`: the finished sweep gives up on the sampler only if 60 s
per round of 16 scrapes and the time spent in `kubectl get` and `sqlite3` are more than 90 s.
`SweepEnds`.

*OnebrcSweep.* `ReportsOwnUpload`: `SummaryIsOwn`, and `AcceptedAreThere` (a summary that counts
rows as accepted is of an upload with rows in the table). `UploadsReadWholeCsv`, `SweepEnds`.

*RunArm.* `DoneRunIsSound`: whatever earlier runs left at work, a run that says it is done
posted a body with no row cut in half, its `pods.json` is its own, and its other two files
are its own or those of a process that outlived a run cut short; the body may be empty, if
the server accepts an empty insert. `WatcherDoesItsPart`: the watcher samples for as long as
k6 lives, unless it is signalled or `ps` or the disk fails, under the condition that k6's
start-up takes less than the slack leaves beside the graceful stop (8 s and 5 s, so 3 s).
`RunEnds`: every run, and every watcher left behind, however busy its ticker.

*TsbsBench.* `WindowsDisjoint`: the scales share host names, so overlapping windows would mix
their data; runs may ask for other hours on other days. `DataIsWhole`: generators that fail
and that outlive their run leave no half-written file to a load, up to `shared`.
`ReportsAreOwn`: the report's summary is the launched loader's, or of one whose run died;
the drain ended at the level of before the load or at its limit; with no death, an answered
log has its result beside it. `RunEnds`.

*TsbsDigest.* `VerdictIsRight`: "identical" only for builds that agree on every query,
whatever the order of the series and however a line was split; digests of builds
that agree are never said to differ; a refusal is reported only where there is one, and "no
answer" exactly when a build answered no query.

Several are stated up to the number of scripts or sweeps that were killed
(`interrupts`, `kills`, `died`, `cut`): a killed script leaves a server, an uploader or a k6
behind, the code does not claim otherwise, and the properties say exactly how much one
death can cost. What happens after a death is still explored by the same runs.

### Bounds

* Gen1brc: two writers, seven blocks, the last one short. More blocks than
  either channel holds, so that every goroutine blocks at some time and a writer
  overtakes the other by more than a channel.
* Upload1brc: two loads. Two workers with two batches, of which `-max-rows` cuts the
  second, one progress tick, a refused and a skipped row; and one worker with four
  batches, so that one is in hand, two fill the channel and the reader blocks with the
  fourth. Two attempts show first, last and repeated failures; two pods show a retry at
  the wrong one.
* TsbsRw: a file whose first batch has a comment line and an unreadable field and whose
  third `MaxSamples` cuts off, one that
  ends inside a batch, one with a line `encode` refuses, one whose first batch has no samples
  (every field empty or `null`).
* RecordTs: three calls over three time stamps, which lets a call lose its
  compare-and-swap to two others. The proofs remove the bound.
* LocalServers: four processes, three scripts, one crash, one interrupt, two points.
  A sweep of two points takes two processes, which leaves two for leftovers. Retry
  counts are scaled to 2: enough for "again" and "exhausted".
* IngestSweep: two sweeps of two points, one death. A cluster is given by
  the rounds of scrapes of a tick: 1 up to 16 pods, 2 up to 32. A unit of time is 30 s, of
  which all limits are multiples; the theorem is for any unit.
* OnebrcSweep: three sweeps of two points, two deaths: the CSV hazard needs two dead
  sweeps and a third one.
* RunArm: two runs and one fault: the first is cut short and its processes meet the second.
  A load of one interval, a slack of three, a graceful stop of one and start-ups of none to
  two intervals, so that some are within what the slack leaves and some are not. The theorem
  is for every duration, slack, graceful stop and start-up.
* TsbsBench: two runs over two scales, one death and one failure: enough for a generator that
  outlives its run to meet the next one, and for a log, a result and a load report to come
  from different runs. One hour count and one midnight: with others TLC's states multiply,
  and the windows are proved for all of them.
* TsbsDigest: two builds, two queries, nine answers that differ in the order of series, in
  a digit within and beyond rounding, in a series or in status; whole, in two parts,
  or cut off.

Counters that only bound the exploration (`MaxScripts`, `MaxSweeps`, `MaxKills`,
`MaxDeaths`, `MaxInterrupts`, `MaxCrashes`, `MaxStarts`) stand in guards and are named
as bounds where they are declared; a `Rest` step loops where a bound is reached, so that
deadlock stays checked everywhere.

### Fairness

* Gen1brc, Upload1brc, TsbsRw: weak fairness of every goroutine, which Go's scheduler
  gives. A posted request is answered or timed out, because the client has a
  `Timeout`; nothing is assumed of the cluster. `DeadlinePasses` is fair in TsbsRw only,
  where the busy retries have no other end, and the run has a deadline.
* LocalServers: a script goes on (its waits are loops with a counter), and a server that
  was told to stop exits. The second is assumed in the prompt case only;
  `MCLocalServersCold.cfg` has `SlowExit` and checks an invariant.
* OnebrcSweep: the sweep keeps polling, and generators and uploaders end; the latter is
  `Termination` of Upload1brc, the former SSM's one hour limit.
* IngestSweep: the VM's processes run, k6 ends after its duration, scrapes have a limit, time
  passes and the VM keeps its own limits. Nothing is assumed of the hot tier, which may never
  drain, nor of `kubectl get` and `sqlite3`, which may hang.
* RunArm: script, pods task, k6 and `ps` come back and time passes. `OnDeadline` has strong
  fairness: Go's `select` takes each of several ready cases with the same probability, so
  a deadline that stays ready is taken although a tick is ready each time as well.
* TsbsBench: the harness goes on, the drain has a limit, generators, loader and script run.
* TsbsDigest checks safety only.

## 4. Findings

1. `onebrc_fresh`: `README.md:300` promises each point "a fresh `<TABLE>_w<N>` table"; a second
   sweep appends to the first one's tables, since the name has nothing of the sweep in it
   and the conflict of a table that exists counts as success.
2. `tsbs_refusal`: `README.md:674` says "The report shows the refusal". On the cluster the error
   is written only if no result of that name is in `results/raw-tsbs`, so a refusal in
   a later run of the same label leaves the earlier result to be reported.

Five further instances are kept beside these, not among the runs. Each checks one
property and TLC refutes it:

| Configuration | Module | Property | What TLC shows |
|---|---|---|---|
| `MCTsbsRwRetries.cfg` | `MCTsbsRw` | `BrokenIsRetriedInFull` | busy answers use up the attempts of a later dropped connection |
| `MCLocalServersCold.cfg` | `MCLocalServers` | `ColdTableEachRun` | a clickhouse that outlives the 30 checks of the stop is measured again with its rows |
| `MCOnebrcSweepCsv.cfg` | `MCOnebrcSweep` | `RerunReadsSameBytes` | two generators left by dead sweeps can mark an unfinished CSV as done |
| `MCIngestSweepPods.cfg` | `MCIngestSweep` | `SamplerNeverStopsSweep` | with one pod already, a `kubectl get` that hangs in the sampler's last tick ends the finished sweep before its report, against the comment of `scripts/bench.exs:812`; more than 16 pods with slow scrapes do it alone |
| `MCRunArmStart.cfg` | `MCRunArm` | `WatcherOutlivesK6` | a k6 whose start-up takes the 3 s that the slack leaves beside `gracefulStop` (`scripts/bench.exs:1071`, `k6/insert.js:29`) is not watched to its end; each VU scans the whole body before the load begins (`k6/insert.js:8-9,35-53`) |

Smaller disagreements met while modelling, without a run of their own:

* upload1brc's header says a failing batch is not retried past the deadline
  (`tools/upload1brc/main.go:7`); the deadline is checked before the sleep, so a worker
  that slept through it posts once more. `DeadlineBoundsAttempts` is what does hold.
* `README.md:525` says `count(*)` after the drain should match `rows_accepted` exactly; a
  batch counted as failed may have been stored, so the table can hold more when `rows_failed` > 0.
* tsbsrw calls a load partial when samples failed (`tools/tsbsrw/main.go:248`). A batch that is
  given up adds its samples to that count, and a batch without samples adds nothing: such a
  load exits with 0, and without `stopped_early` if the store of line 385 went wrong too.
  `ReportIsTrue` excludes exactly those batches.
* `tools/upload1brc/main.go:258` logs the constant `maxAttempts` also when the
  deadline cut the attempts short.
* `README.md:37` says stop stops the servers; it returns after 30 checks whether they
  did or not.
* `README.md:403` says "One server at a time"; a setup stops its own arm only.
* `README.md:632` has the drain wait until the hot tier is "back to its file count from
  before the load, plus slack"; with a baseline that could not be read it waits for the
  slack alone, which `ReportsAreOwn` allows for.
* `README.md:625-627`: "a later run and a new box generate the same queries"; a query file that
  a killed generator left half written is kept and used. `DataIsWhole` says when that
  can happen: only after a failure, or while the generator still writes.
* Two generators at one `.tmp` (a run that died and the next one) are no hazard by
  themselves, because `mv` fails for the second; with a failure more, a load can read
  an unfinished file. `DataIsWhole` excludes those scales (`shared`).
* `README.md:677` speaks of answers within 1e-9; digests compare ten significant digits,
  so that two values on the two sides of a rounding boundary differ. Kept texts are compared
  with their series in order, two texts cut off alike count as identical, and a digest
  is never equal to a text.

## 5. Proofs

TLAPS checks the theorems below, for every value of the constants. Each component has an
inductive invariant `IInv`, a conjunction of named parts, with a lemma for the step of each
part and one case per action in it. The checked properties are not inductive alone, and
each paragraph says what they need beside themselves. TLC has checked every `IInv` on
the instance of the component's run.

`Gen1brcProofs` assumes a finite non-empty set of writers, any number of rows and any
positive block length (`WritersAssumption`, `RowsAssumption`). The inductive invariant is
`IInv`: types, `EachBlockInOnePlace`, `ShutdownInv` (which flags and states of the
goroutines go together once the channels are closed) and `OutputInv` (the file is
`0 .. next-1` and the row count is the smaller of `next * BlockRows` and `Rows`).
None of the checked properties is inductive alone:
completeness of a report needs that no block is anywhere else once results is closed,
which is `EachBlockInOnePlace` together with `ShutdownInv`. Lemmas about sending to and
receiving from a channel, and about the hands of the writers as a finite set, carry the
steps. `Refinement` shows that each step is one of `OrderedWriter` or a stutter.

`Upload1brcProofs` assumes of the loads that they have workers, lines and a positive batch
size, and that one of them is longest (`UploadAssumption`; a program has one input, and any
finite set of inputs has a longest). `IInv`, per part:

* `CutInv`: a batch has lines, all of them read; the channel keeps to its capacity.
* `PlaceInv`: a batch is still to be sent, in the channel, in one worker's hands or done,
  and in one of these only; the channel keeps the order of the file.
* `ClusterInv`: whatever is on the network was addressed to its batch's pod, a batch is in
  the table as often as that pod has seen its id, and what counts as accepted was stored.
* `DeadlineInv`: an attempt past the deadline is a batch's last, so that no worker is about to
  post one that had it.
* `EndInv`: workers leave a closed, empty channel, main ends after them, and what is cut
  short is marked `stopped_early`.
* `SumInv`: each counter is the sum over the batches of what became of them.
* `FileInv`: what a snapshot has loaded half way was read before, and stays so.

`StoredAtMostOnce` is not inductive alone: a retry goes to the same pod only because
`ClusterInv` ties the pod to the batch. `FilesAreTrue` rests on `SumInv` and on lemmas about
sums over finite sets (`SumSplit`, `SumGrow`, `SumChange`), which open the module, and `TsbsToolsProofs` too. Their
induction is stated of a set and drawn from the well-foundedness of `<` on the naturals, so
that it needs no theorem with an operator for a parameter. `Refinement` shows that
each step is one of `BatchLoad` or a stutter.

`TsbsToolsProofs` has three parts. For `TsbsRw` it assumes workers, pods, attempts and a batch size
that are positive, lines with numbers of fields and samples, and a longest file
(`TsbsRwAssumption`). `CutInv`, `PlaceInv` and `EdgeInv` are what their namesakes (and
`ClusterInv`) are for the uploader; a batch has the same pod at every attempt. Beyond them:

* `EndInv`: workers leave a closed, empty channel, main reports after all of them, and
  exit code 0 is chosen when no counter shows a loss.
* `SumInv`: what a worker took could be encoded, and the three counters together are the
  sum of the samples over the batches that are done.
* `LossInv`: a batch with samples that was refused or given up shows in the counters. So does
  a load that was cut short although `stopped_early` is FALSE: only a worker that gave up
  a batch can have overwritten it, and if the batch had samples, `samples_failed` tells.

`CleanExitIsWhole` is not inductive alone because of that overwritten flag; `LossInv` is what
the code relies on in its place. `SummaryAccounts` needs that all batches are done when the
workers have exited (`AllResolved`), which follows from `PlaceInv` and `EndInv`. `NextCases`
reduces the answers of the edge to three outcomes of a worker's step: it tries again, gives
up, or resolves its batch. `Refinement` is the uploader's argument.

For `RecordTs` it assumes positive time stamps (`StampsAssumption`). `RecordInv` adds to the
types that a bound is never lost once it covers a call's argument (`NoLostUpdate`) and that
each atomic holds some call's argument (`Witnessed`); exactness follows when all calls are done.

For `TsbsDigest` it assumes builds, a positive grain and outputs made of lines with answers
(`TsbsDigestAssumption`). The inductive invariant is `DigestInv`: what `bodies` holds of a query
is what the lines read so far say of it (`ReadInv`, over `UpTo`, the parts of a query in the
first `n` lines), and a verdict was given of everything. Its weight is in two lemmas about the
operators. `CountsMatch` and `MatchCounts`: two functions on finite sets have the same values
as often as each other exactly when a bijection takes the values of one to those of the other;
so sorted lines are equal exactly when the series are the same in some order, to ten digits
(`LineSame`). `MatchSums`: a bijection that keeps the values keeps their sum, so that
the number of points in a digest adds nothing to the comparison. `DigestSame` draws from them that
successful answers have one digest exactly when they agree, and `CompareRight` goes through
the verdicts.

`LocalServersProofs` assumes only that the bounds are numbers (`LocalServersAssumption`).
`IInv` is in two layers. Whatever the servers do: `ServerInv` (one server at most serves an
arm's port), `PidInv` (the script knows its server, and puts no pid in a file that names a
server it would then forget) and `LostInv`: of the servers that no pid file names and that
nobody told to stop there are as many as killed scripts at most. That gives
`NothingForgotten` unconditionally. `AccountedFor` and `ColdSweeps` have the hypothesis
`~SlowExit`, that a server told to stop exits before the wait for it is over: `wait_for_exit`
of `scripts/bench.exs` returns `:ok` after 30 checks whether the server is gone or not, and
`MCLocalServersCold.cfg` refutes cold sweeps without it. Under it `PromptInv` says that no
server told to stop is left of an arm when its pid file is free, and `ColdInv` that the data
directory stays empty until the table is created.

`IngestSweepProofs` assumes positive bounds and a positive number of units in 30 s
(`IngestAssumption`). `IInv` adds to the types:

* `ShapeInv`: at most the sweeps so far have died, the last of them when `pc` says so.
* `LoadInv`: of each sweep there is one k6 on the box at most, the current one's only while a
  step awaits it, others only of sweeps that died.
* `GateInv`: an answer "empty" is one the tier gave since the gate was entered.
* `ResultInv`: the points behind the current one have their files from this sweep, or a summary
  of a dead one; on the box until the fetch, on the laptop after it.
* `TickInv`: no time is waited before the stop flag is set, and from then on what was waited is
  within what the last tick may take: its un-timed part and a scrape limit per round.

`OnebrcSweepProofs` assumes positive bounds (`OnebrcAssumption`). `IInv` adds to the types that
a sweep at work has a point and a draining one a summary (`ControlInv`), further
`StoredInv`, that a summary which counts rows as accepted is of an upload with rows in
the point's table, and, while no sweep died, `OwnInv` (only the current point's uploader
runs) and `CsvInv` (one generator at most is at work, the marker goes with a whole file and
is there when uploads begin). `UploadsReadWholeCsv` needs both of the latter.

`RunArmProofs` assumes the types of the constants only (`RunArmAssumption`). `IInv` adds to
the types: `ControlInv`, which processes are born and gone at which step of the script, that
a process of another run belongs to one that was cut short, and that a run past its preflight
has an accepted body; `FilesInv`, that what has returned has written its file, which only
processes of runs cut short can have written again; `TimeInv`, that without a fault the
watcher has more time left than k6 can still take, as long as k6's start-up took less than
slack minus graceful stop. `WatcherDoesItsPart` is not inductive alone, because a step of time
must not let the watcher's timer run down first.

`TsbsBenchProofs` assumes only the types of the constants. `IInv`, per part:

* `ControlInv`: past the choice of a window there is a current scale.
* `WindowInv`: windows are disjoint, and there is an earliest one, at whose start the
  next one ends.
* `OwnInv`: a generator or a loader at work is the current run's, at its scale, or belongs to
  a run that died.
* `DataInv`: between opening and `mv` the `.tmp` is its generator's alone, and what has been
  moved was finished, unless the scale is in `shared`.
* `LoadInv`, `DrainInv`: a summary is the current run's or of one that died; the drain
  compares with the level before the load, if that is known.
* `QueryInv`, while no run died: only the current run's script works; log, result and marker
  on the box and the fetched ones are in step with it.

| Theorem | States |
|---|---|
| `Gen1brcProofs!TypeCorrect` | types and channel capacities |
| `OnePlace` | `EachBlockInOnePlace` |
| `OutputInOrder` | the file is an in-order prefix of the data set |
| `RowCountExact` | the reported count is the generated count |
| `ReportIsComplete` | `ReportedIsComplete` |
| `NoReadyBlockWaits` | main does not wait with a writable block |
| `SendsBeforeClose` | `NoSendOnClosed` |
| `Refinement` | `ImplementsOrderedWriter` |
| `Upload1brcProofs!TypeCorrect` | types, counters within the file, channel within its capacity |
| `StoredOnce` | `StoredAtMostOnce`, for any loads, workers, pods and attempts |
| `DeadlineBound` | `DeadlineBoundsAttempts` |
| `FilesTrue` | `FilesAreTrue`, for any file and interleaving |
| `Refinement` | `ImplementsBatchLoad` |
| `TsbsToolsProofs!TypeCorrect` | types, batches that partition what was read, channel within its capacity |
| `ReportTrue` | `ReportIsTrue`, for any files, workers, pods, attempts and answers |
| `Refinement` | `ImplementsBatchLoad` |
| `RecordTypeCorrect` | `RecordTypeOK`: a swap moves a bound outwards |
| `UpdatesKept` | no interleaving loses a time stamp |
| `ExtremesExact` | `ExactWhenDone` |
| `IntervalWidens` | `OnlyWidens` |
| `VerdictRight` | `VerdictIsRight`, for any builds, outputs, grain and splitting of the lines |
| `LocalServersProofs!TypeCorrect` | types; an arm's port has one listener at most |
| `NothingForgotten` | `NoneForgotten`, however slowly servers exit |
| `AccountedFor` | `ServersAccountedFor`, if servers told to stop exit within the wait |
| `ColdSweeps` | `SweepIsCold`, under the same hypothesis |
| `IngestSweepProofs!TypeCorrect` | types |
| `LoadsGated` | `LoadsAreGated`, for any number of points, sweeps and deaths |
| `OwnResults` | `ResultsAreOwn`, after any deaths |
| `LastTick` | `LastTickInTime`, for any cluster and unit of time |
| `OnebrcSweepProofs!TypeCorrect` | types |
| `OwnUploadReported` | `ReportsOwnUpload`, for any number of points and sweeps |
| `WholeCsvRead` | `UploadsReadWholeCsv` |
| `RunArmProofs!TypeCorrect` | types; no timer falls below zero |
| `DoneIsSound` | `DoneRunIsSound`, for any number of runs and faults |
| `WatcherCoversLoad` | `WatcherDoesItsPart`, for every duration, slack, graceful stop and start-up |
| `TsbsBenchProofs!TypeCorrect` | types; a report on a load has a summary |
| `WindowsApart` | `WindowsDisjoint`, for any scales, hours, midnights and order of runs |
| `DataWhole` | `DataIsWhole`, for any number of deaths and failures |
| `ReportsOwn` | `ReportsAreOwn` |

Only model-checked: all liveness, which is out of the prover's reach. What the verdict "close"
promises is no theorem and no run's property: nearness is not transitive, and the code compares
with the first build only.

## 6. Not modelled

* Bytes, formats, wording, latencies, the PRNG: data no property tells apart.
* Reuse of pids by a kernel: the code makes no claim, and kill -0 on a reused pid
  depends on the machine.
* The phase tag of samples and the contents of samples in IngestSweep; its preflight
  insert.
* tsbsrw's progress ticker, which only reads counters.
* TsbsBench: the build of the tools on the box, the live sha in the report, the chunks of
  the fetch (its local copying is one step), a box that is replaced between runs, a
  `windows.json` half written when the harness dies (it is written and the generator
  launched in one step).
* LocalServers: a script that dies between the smolquery dataset, its table and the table's
  settings, which are one step; the next setup erases the server's data in any case.
* RunArm: a `genbody` that the operator starts while a run is at work.
* genbody's rows, 30 random fields each; Bench.Genbody's call of it.
* Box lifecycle: a handful of AWS calls in a row, whose state and eventual consistency are
  AWS's.
* Tail bench: its gate and ingest are IngestSweep's, its detached process one like
  TsbsBench's; the phases are not composed.
* attrs, pruning and compaction benches, Bench.Report, report_html.exs: sequential, they
  read and print; nothing is shared and nothing is kept.
* scripts/tsbs.exs: the lifecycle of LocalServers with one arm and the load of TsbsRw in
  one sequential script; its comparison is in TsbsDigest.
* Bench.Remote, Bench.Kube: retried idempotent calls with no state; what a table that
  survives does to a sweep is in OnebrcSweep.

## 7. Plan

`TailBench`: the detached tail queries, the wait that gives up, the gate between the
phases, composed with the gate of IngestSweep; its theorems in `IngestSweepProofs`.
