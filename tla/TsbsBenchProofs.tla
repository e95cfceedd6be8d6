-------------------------- MODULE TsbsBenchProofs --------------------------
(***************************************************************************)
(* The safety properties of TsbsBench for any scales, sweeps, windows and  *)
(* any number of runs, of runs that die and of processes that fail.        *)
(***************************************************************************)
EXTENDS TsbsBench, TLAPS

\* Past the choice of a window there is a current scale.
ControlInv ==
    /\ pc # "idle" => run \in Runs
    /\ pc \notin {"idle", "window"} => todo # <<>> /\ Scale \in Scales

\* One window starts no later than any other: the end of the next one.
WindowInv ==
    /\ WindowsDisjoint
    /\ DOMAIN windows # {} =>
            \E s \in DOMAIN windows :
                \A t \in DOMAIN windows : windows[s].start <= windows[t].start

\* Between opening and mv the .tmp file is its generator's alone, unless shared.
JobInv(r, s) ==
    /\ gen[<<r, s>>] = "move" => <<r, s>> \in written
    /\ gen[<<r, s>>] \in {"write", "move"} => tmp[s] = r \/ s \in shared
    /\ gen[<<r, s>>] \in {"queries", "write_queries", "done"} => data[s] # NoRun

\* What has been moved was finished, unless shared.
FileInv(s) ==
    /\ data[s] # NoRun => <<data[s], s>> \in written \/ s \in shared
    /\ queryFile[s] = "cut" =>
            failures > 0 \/ \E r \in Runs : gen[<<r, s>>] = "write_queries"

DataInv ==
    /\ \A r \in Runs, s \in Scales : JobInv(r, s)
    /\ \A s \in Scales : FileInv(s)
    /\ pc = "load" => gen[Job] = "done"
    /\ torn \subseteq shared

\* A generator or a loader at work is the current run's, at its scale, or belongs to a
\* run that died.
OwnInv ==
    /\ \A r \in cut : r <= run
    /\ pc # "idle" => run \notin cut
    /\ \A r \in Runs, s \in Scales :
        /\ gen[<<r, s>>] \in Generating => r \in cut \/ (r = run /\ pc = "gen" /\ s = Scale)
        /\ loader[<<r, s>>] = "running" =>
                r \in cut \/ (r = run /\ pc = "poll_load" /\ s = Scale)

\* A summary is the current run's, or comes from one that died.
LoadInv ==
    /\ pc \in {"poll_load", "summary"} => out[Scale].load \in {NoRun, run} \cup cut
    /\ pc \in {"drain", "report"} => drain.source \in {run} \cup cut
    /\ \A s \in Scales : local[s].load.source \in {local[s].load.of} \cup cut

\* The drain compares with the level before the load, if it is known.
DrainInv ==
    /\ pc \in {"poll_load", "summary", "drain", "report"} =>
            drain.baseline \in {drain.before, Unknown}
    /\ pc = "report" => IF drain.limit THEN \/ Unknown \in {drain.files, drain.baseline}
                                            \/ drain.files > drain.before + Slack
                                       ELSE drain.files <= drain.before + Slack

\* The result that a log tells of has been fetched, or is on the box.
Fetched(s) == out[s].log.ok => local[s].json.ok /\ local[s].json.of >= out[s].log.of
OnTheBox(s) == out[s].json # NoRun /\ out[s].json = out[s].log.of
Querying == {"verify", "pass", "answered", "refused"}

\* While no run has died, only the current run's script works, on the current scale.
ScriptInv(r, s) ==
    /\ script[<<r, s>>] \in Querying \cup {"touch"} => r = run /\ pc = "poll_query" /\ s = Scale
    /\ script[<<r, s>>] = "answered" => out[s].json = r
    /\ script[<<r, s>>] \in {"pass", "refused"} => out[s].json = NoRun

\* What has been fetched belongs together, or the script is about to be over.
ResultInv(s) ==
    /\ out[s].json <= run /\ out[s].log.of <= run
    /\ out[s].json # NoRun => out[s].json >= out[s].log.of
    /\ out[s].log.of = NoRun => local[s].log = Absent /\ out[s].log.ok /\ local[s].json.ok
    /\ local[s].log.ok => local[s].json.ok /\ local[s].json.of >= local[s].log.of
    /\ \/ Fetched(s)
       \/ /\ s = Scale /\ pc \in {"poll_query", "fetch"} /\ OnTheBox(s)
          /\ script[Job] \notin Querying

QueryInv ==
    /\ \A r \in Runs, s \in Scales : ScriptInv(r, s)
    /\ pc = "poll_query" /\ out[Scale].done => script[Job] = "done"
    /\ \A s \in Scales : ResultInv(s)

IInv ==
    /\ TypeOK /\ ControlInv /\ WindowInv /\ OwnInv /\ DataInv /\ LoadInv /\ DrainInv
    /\ cut = {} => QueryInv

-----------------------------------------------------------------------------

\* The steps of Next, one by one.
LEMMA NextCases ==
    ASSUME [Next]_vars
    PROVE  \/ StartRun \/ TakeWindow \/ AllDone \/ GenReturned \/ Launch \/ LoaderGone
           \/ ReadSummary \/ EndDrain \/ WriteReport \/ StartQueries \/ PollQueries
           \/ PollAgain \/ Fetch \/ Die \/ UNCHANGED vars
           \/ \E r \in Runs, s \in Scales :
                \/ TestData(r, s) \/ CreateData(r, s) \/ FinishData(r, s) \/ MoveData(r, s)
                \/ TestQueries(r, s) \/ FinishQueries(r, s) \/ GenFails(r, s)
                \/ LoaderReports(r, s) \/ StartPass(r, s) \/ PassAnswered(r, s)
                \/ PassRefused(r, s) \/ KeepLog(r, s) \/ TouchDone(r, s)
                \/ DetachedFails(r, s)
  BY DEF Next, Harness, Generate, Detached, Rest

\* Every step preserves the harness's own types and its control invariant.
LEMMA ControlStep == HarnessOK /\ ControlInv /\ [Next]_vars => (HarnessOK /\ ControlInv)'
<1> SUFFICES ASSUME HarnessOK, ControlInv, [Next]_vars PROVE (HarnessOK /\ ControlInv)'
  OBVIOUS
<1> USE TsbsBenchAssumption DEF HarnessOK, ControlInv, Scale, Runs, harness, genFiles, procs,
    faults, history
<1>1. CASE StartRun
  BY <1>1 DEF StartRun
<1>2. CASE TakeWindow
  BY <1>2 DEF TakeWindow, Goto
<1>3. CASE AllDone
  BY <1>3 DEF AllDone, Stop
<1>4. CASE GenReturned
  <2>1. CASE Stop
    BY <2>1, <1>4 DEF Stop, GenReturned
  <2>2. CASE Goto("gen", AfterGen)
    BY <2>2, <1>4 DEF Goto, GenReturned, AfterGen, AfterLoad
  <2> QED
    BY <1>4, <2>1, <2>2 DEF GenReturned
<1>5. CASE Launch
  BY <1>5 DEF Launch, Goto
<1>6. CASE LoaderGone
  BY <1>6 DEF LoaderGone, Goto
<1>7. CASE ReadSummary
  <2>1. CASE Stop
    BY <2>1, <1>7 DEF Stop, ReadSummary
  <2>2. CASE Goto("summary", "drain")
    BY <2>2, <1>7 DEF Goto, ReadSummary
  <2> QED
    BY <1>7, <2>1, <2>2 DEF ReadSummary
<1>8. CASE EndDrain
  BY <1>8 DEF EndDrain, Goto
<1>9. CASE WriteReport
  BY <1>9 DEF WriteReport, Goto, AfterLoad
<1>10. CASE StartQueries
  BY <1>10 DEF StartQueries, Goto
<1>11. CASE PollQueries
  BY <1>11 DEF PollQueries, Goto
<1>12. CASE PollAgain
  BY <1>12 DEF PollAgain, vars
<1>13. CASE Fetch
  BY <1>13 DEF Fetch
<1>14. CASE Die
  BY <1>14 DEF Die, Stop
<1>15. CASE UNCHANGED vars
  BY <1>15 DEF vars
<1>16. ASSUME NEW r \in Runs, NEW s \in Scales,
             \/ TestData(r, s) \/ CreateData(r, s) \/ FinishData(r, s) \/ MoveData(r, s)
             \/ TestQueries(r, s) \/ FinishQueries(r, s) \/ GenFails(r, s)
             \/ LoaderReports(r, s) \/ StartPass(r, s) \/ PassAnswered(r, s)
             \/ PassRefused(r, s) \/ KeepLog(r, s) \/ TouchDone(r, s)
             \/ DetachedFails(r, s)
      PROVE  (HarnessOK /\ ControlInv)'
  <2>1. CASE TestData(r, s)
    BY <2>1 DEF TestData, GenStep, genFiles
  <2>2. CASE CreateData(r, s)
    BY <2>2 DEF CreateData, GenStep, OutputOpened
  <2>3. CASE FinishData(r, s)
    BY <2>3 DEF FinishData, GenStep
  <2>4. CASE MoveData(r, s)
    BY <2>4 DEF MoveData, GenStep
  <2>5. CASE TestQueries(r, s)
    BY <2>5 DEF TestQueries, GenStep
  <2>6. CASE FinishQueries(r, s)
    BY <2>6 DEF FinishQueries, GenStep
  <2>7. CASE GenFails(r, s)
    BY <2>7 DEF GenFails, GenStep, genFiles
  <2>8. CASE LoaderReports(r, s)
    BY <2>8 DEF LoaderReports, BoxStep
  <2>9. CASE StartPass(r, s)
    BY <2>9 DEF StartPass, BoxStep, ScriptStep
  <2>10. CASE PassAnswered(r, s)
    BY <2>10 DEF PassAnswered, BoxStep, ScriptStep
  <2>11. CASE PassRefused(r, s)
    BY <2>11 DEF PassRefused, BoxStep, ScriptStep
  <2>12. CASE KeepLog(r, s)
    BY <2>12 DEF KeepLog, BoxStep, ScriptStep
  <2>13. CASE TouchDone(r, s)
    BY <2>13 DEF TouchDone, BoxStep, ScriptStep
  <2>14. CASE DetachedFails(r, s)
    BY <2>14 DEF DetachedFails, BoxStep, ScriptStep
  <2> QED
    BY <1>16, <2>1, <2>2, <2>3, <2>4, <2>5, <2>6, <2>7, <2>8, <2>9, <2>10, <2>11, <2>12, <2>13,
       <2>14
<1> QED
  BY <1>1, <1>2, <1>3, <1>4, <1>5, <1>6, <1>7, <1>8, <1>9, <1>10, <1>11, <1>12, <1>13, <1>14,
     <1>15, <1>16, NextCases

\* A new window ends at a midnight or where one starts, the one that starts first.
LEMMA NextEnd ==
    ASSUME WindowsOK, WindowInv, NEW midnight \in Midnights
    PROVE  /\ WindowEnd(midnight) \in Int
           /\ \A t \in DOMAIN windows : WindowEnd(midnight) <= windows[t].start
<1>1. CASE DOMAIN windows = {}
  BY <1>1, TsbsBenchAssumption DEF WindowEnd
<1>2. CASE DOMAIN windows # {}
  <2> DEFINE starts == {windows[s].start : s \in DOMAIN windows}
             first == CHOOSE x \in starts : \A y \in starts : x <= y
  <2>1. \E x \in starts : \A y \in starts : x <= y
    BY <1>2 DEF WindowInv
  <2>2. first \in starts /\ \A y \in starts : first <= y
    BY <2>1
  <2>3. WindowEnd(midnight) = first
    BY <1>2 DEF WindowEnd
  <2>4. \A y \in starts : y \in Int
    BY DEF WindowsOK
  <2> QED
    BY <2>2, <2>3, <2>4
<1> QED
  BY <1>1, <1>2

\* Every step keeps the windows well-formed and apart.
LEMMA WindowStep ==
    HarnessOK /\ ControlInv /\ WindowsOK /\ WindowInv /\ [Next]_vars
        => (WindowsOK /\ WindowInv)'
<1> SUFFICES ASSUME HarnessOK, ControlInv, WindowsOK, WindowInv, [Next]_vars
             PROVE  (WindowsOK /\ WindowInv)'
  OBVIOUS
<1> USE DEF WindowsOK, WindowInv, WindowsDisjoint, harness, genFiles, procs, faults, history
<1>1. CASE StartRun
  BY <1>1 DEF StartRun
<1>2. CASE TakeWindow
  <2>1. CASE UNCHANGED windows
    BY <2>1, <1>2 DEF TakeWindow, Goto, Scale
  <2>2. ASSUME Scale \notin DOMAIN windows, NEW midnight \in Midnights,
               windows' = Put(windows, Scale, [start |-> WindowEnd(midnight) - hours,
                                               end |-> WindowEnd(midnight)])
        PROVE  WindowsOK' /\ WindowInv'
    <3> DEFINE finish == WindowEnd(midnight)
    <3>1. finish \in Int /\ \A t \in DOMAIN windows : finish <= windows[t].start
      BY NextEnd DEF WindowInv, WindowsOK
    <3>2. Scale \in Scales /\ hours \in Nat
      BY <1>2 DEF TakeWindow, Scale, HarnessOK
    <3> HIDE DEF finish
    <3>3. DOMAIN windows' = DOMAIN windows \cup {Scale}
      BY <2>2 DEF Put
    <3>4. /\ windows'[Scale].start = finish - hours /\ windows'[Scale].end = finish
          /\ \A t \in DOMAIN windows : windows'[t] = windows[t]
      BY <2>2 DEF Put, finish
    <3>5. WindowsOK'
      BY <3>1, <3>2, <3>3, <3>4 DEF WindowsOK
    <3>6. WindowsDisjoint'
      BY <3>1, <3>2, <3>3, <3>4 DEF WindowInv, WindowsDisjoint
    <3>7. \A t \in DOMAIN windows' : windows'[Scale].start <= windows'[t].start
      BY <3>1, <3>2, <3>3, <3>4 DEF WindowsOK
    <3> QED
      BY <3>3, <3>5, <3>6, <3>7 DEF WindowInv
  <2> QED
    BY <1>2, <2>1, <2>2 DEF TakeWindow
<1>3. CASE AllDone
  BY <1>3 DEF AllDone, Stop
<1>4. CASE GenReturned
  BY <1>4 DEF GenReturned, Goto, Stop, AfterGen, AfterLoad
<1>5. CASE Launch
  BY <1>5 DEF Launch, Goto
<1>6. CASE LoaderGone
  BY <1>6 DEF LoaderGone, Goto
<1>7. CASE ReadSummary
  BY <1>7 DEF ReadSummary, Goto, Stop
<1>8. CASE EndDrain
  BY <1>8 DEF EndDrain, Goto
<1>9. CASE WriteReport
  BY <1>9 DEF WriteReport, Goto, AfterLoad
<1>10. CASE StartQueries
  BY <1>10 DEF StartQueries, Goto
<1>11. CASE PollQueries
  BY <1>11 DEF PollQueries, Goto
<1>12. CASE PollAgain
  BY <1>12 DEF PollAgain, vars
<1>13. CASE Fetch
  BY <1>13 DEF Fetch
<1>14. CASE Die
  BY <1>14 DEF Die, Stop
<1>15. CASE UNCHANGED vars
  BY <1>15 DEF vars
<1>16. ASSUME NEW r \in Runs, NEW s \in Scales,
             \/ TestData(r, s) \/ CreateData(r, s) \/ FinishData(r, s) \/ MoveData(r, s)
             \/ TestQueries(r, s) \/ FinishQueries(r, s) \/ GenFails(r, s)
             \/ LoaderReports(r, s) \/ StartPass(r, s) \/ PassAnswered(r, s)
             \/ PassRefused(r, s) \/ KeepLog(r, s) \/ TouchDone(r, s)
             \/ DetachedFails(r, s)
      PROVE  (WindowsOK /\ WindowInv)'
  <2>1. CASE TestData(r, s)
    BY <2>1 DEF TestData, GenStep, genFiles
  <2>2. CASE CreateData(r, s)
    BY <2>2 DEF CreateData, GenStep, OutputOpened
  <2>3. CASE FinishData(r, s)
    BY <2>3 DEF FinishData, GenStep
  <2>4. CASE MoveData(r, s)
    BY <2>4 DEF MoveData, GenStep
  <2>5. CASE TestQueries(r, s)
    BY <2>5 DEF TestQueries, GenStep
  <2>6. CASE FinishQueries(r, s)
    BY <2>6 DEF FinishQueries, GenStep
  <2>7. CASE GenFails(r, s)
    BY <2>7 DEF GenFails, GenStep, genFiles
  <2>8. CASE LoaderReports(r, s)
    BY <2>8 DEF LoaderReports, BoxStep
  <2>9. CASE StartPass(r, s)
    BY <2>9 DEF StartPass, BoxStep, ScriptStep
  <2>10. CASE PassAnswered(r, s)
    BY <2>10 DEF PassAnswered, BoxStep, ScriptStep
  <2>11. CASE PassRefused(r, s)
    BY <2>11 DEF PassRefused, BoxStep, ScriptStep
  <2>12. CASE KeepLog(r, s)
    BY <2>12 DEF KeepLog, BoxStep, ScriptStep
  <2>13. CASE TouchDone(r, s)
    BY <2>13 DEF TouchDone, BoxStep, ScriptStep
  <2>14. CASE DetachedFails(r, s)
    BY <2>14 DEF DetachedFails, BoxStep, ScriptStep
  <2> QED
    BY <1>16, <2>1, <2>2, <2>3, <2>4, <2>5, <2>6, <2>7, <2>8, <2>9, <2>10, <2>11, <2>12, <2>13,
       <2>14
<1> QED
  BY <1>1, <1>2, <1>3, <1>4, <1>5, <1>6, <1>7, <1>8, <1>9, <1>10, <1>11, <1>12, <1>13, <1>14,
     <1>15, <1>16, NextCases

\* Every step preserves the types of the generated files.
LEMMA GenTypeStep == HarnessOK /\ ControlInv /\ GenOK /\ [Next]_vars => GenOK'
<1> SUFFICES ASSUME HarnessOK, ControlInv, GenOK, [Next]_vars PROVE GenOK'
  OBVIOUS
<1>a. MaxRuns \in Nat /\ NoRun = 0 /\ MaxKills \in Nat /\ MaxFailures \in Nat
  BY TsbsBenchAssumption DEF NoRun
<1> USE DEF GenOK, harness, genFiles, procs, faults, history
<1>1. CASE StartRun
  BY <1>1 DEF StartRun
<1>2. CASE TakeWindow
  BY <1>2 DEF TakeWindow, Goto
<1>3. CASE AllDone
  BY <1>3 DEF AllDone, Stop
<1>4. CASE GenReturned
  BY <1>4 DEF GenReturned, Goto, Stop, AfterGen, AfterLoad
<1>5. CASE Launch
  <2>1. Scale \in Scales
    BY <1>5 DEF Launch, Goto, ControlInv
  <2> QED
    BY <2>1, <1>5 DEF Launch, Goto
<1>6. CASE LoaderGone
  BY <1>6 DEF LoaderGone, Goto
<1>7. CASE ReadSummary
  BY <1>7 DEF ReadSummary, Goto, Stop
<1>8. CASE EndDrain
  BY <1>8 DEF EndDrain, Goto
<1>9. CASE WriteReport
  BY <1>9 DEF WriteReport, Goto, AfterLoad
<1>10. CASE StartQueries
  BY <1>10 DEF StartQueries, Goto
<1>11. CASE PollQueries
  BY <1>11 DEF PollQueries, Goto
<1>12. CASE PollAgain
  BY <1>12 DEF PollAgain, vars
<1>13. CASE Fetch
  BY <1>13 DEF Fetch
<1>14. CASE Die
  <2>1. run \in Runs
    BY <1>14 DEF Die, ControlInv
  <2>2. kills' \in 0..MaxKills
    BY <1>a, <1>14 DEF Die
  <2>3. UNCHANGED <<genFiles, gen, failures, shared, torn>> /\ cut' = cut \cup {run}
    BY <1>14 DEF Die
  <2> QED
    BY <2>1, <2>2, <2>3
<1>15. CASE UNCHANGED vars
  BY <1>15 DEF vars
<1>16. ASSUME NEW r \in Runs, NEW s \in Scales,
             \/ TestData(r, s) \/ CreateData(r, s) \/ FinishData(r, s) \/ MoveData(r, s)
             \/ TestQueries(r, s) \/ FinishQueries(r, s) \/ GenFails(r, s)
             \/ LoaderReports(r, s) \/ StartPass(r, s) \/ PassAnswered(r, s)
             \/ PassRefused(r, s) \/ KeepLog(r, s) \/ TouchDone(r, s)
             \/ DetachedFails(r, s)
      PROVE  GenOK'
  <2>1. CASE TestData(r, s)
    BY <2>1 DEF TestData, GenStep, genFiles
  <2>2. CASE CreateData(r, s)
    <3>1. r \in 0..MaxRuns
      BY DEF Runs
    <3> QED
      BY <3>1, <2>2 DEF CreateData, GenStep, OutputOpened
  <2>3. CASE FinishData(r, s)
    <3>1. <<r, s>> \in Jobs
      BY DEF Jobs
    <3> QED
      BY <3>1, <2>3 DEF FinishData, GenStep
  <2>4. CASE MoveData(r, s)
    <3>1. tmp' \in [Scales -> 0..MaxRuns] /\ data' \in [Scales -> 0..MaxRuns]
      BY <1>a, <2>4 DEF MoveData
    <3>2. gen' \in [Jobs -> {"none", "test", "create", "write", "move", "queries",
                             "write_queries", "done", "failed"}]
      BY <2>4 DEF MoveData, GenStep
    <3> QED
      BY <3>1, <3>2, <2>4 DEF MoveData, GenStep
  <2>5. CASE TestQueries(r, s)
    <3>1. gen' \in [Jobs -> {"none", "test", "create", "write", "move", "queries",
                             "write_queries", "done", "failed"}]
      BY <2>5 DEF TestQueries, GenStep
    <3>2. queryFile' \in [Scales -> {"none", "cut", "whole"}]
      BY <2>5 DEF TestQueries
    <3> QED
      BY <3>1, <3>2, <2>5 DEF TestQueries, GenStep
  <2>6. CASE FinishQueries(r, s)
    BY <2>6 DEF FinishQueries, GenStep
  <2>7. CASE GenFails(r, s)
    <3>1. failures' \in 0..MaxFailures
      BY <1>a, <2>7 DEF GenFails
    <3> QED
      BY <3>1, <2>7 DEF GenFails, Generating, GenStep
  <2>8. CASE LoaderReports(r, s)
    BY <2>8 DEF LoaderReports, BoxStep
  <2>9. CASE StartPass(r, s)
    BY <2>9 DEF StartPass, BoxStep, ScriptStep
  <2>10. CASE PassAnswered(r, s)
    BY <2>10 DEF PassAnswered, BoxStep, ScriptStep
  <2>11. CASE PassRefused(r, s)
    BY <2>11 DEF PassRefused, BoxStep, ScriptStep
  <2>12. CASE KeepLog(r, s)
    BY <2>12 DEF KeepLog, BoxStep, ScriptStep
  <2>13. CASE TouchDone(r, s)
    BY <2>13 DEF TouchDone, BoxStep, ScriptStep
  <2>14. CASE DetachedFails(r, s)
    <3>1. failures' \in 0..MaxFailures
      BY <1>a, <2>14 DEF DetachedFails
    <3>2. UNCHANGED <<genFiles, gen, kills, history>>
      BY <2>14 DEF DetachedFails, BoxStep, ScriptStep
    <3> QED
      BY <3>1, <3>2
  <2> QED
    BY <1>16, <2>1, <2>2, <2>3, <2>4, <2>5, <2>6, <2>7, <2>8, <2>9, <2>10, <2>11, <2>12, <2>13,
       <2>14
<1> QED
  BY <1>1, <1>2, <1>3, <1>4, <1>5, <1>6, <1>7, <1>8, <1>9, <1>10, <1>11, <1>12, <1>13, <1>14,
     <1>15, <1>16, NextCases

\* Nothing that leaves the generators and their files alone disturbs what is known.
LEMMA DataFrame ==
    ASSUME DataInv, GenOK, UNCHANGED <<genFiles, gen, shared>>,
           failures' = failures \/ failures' = failures + 1
    PROVE  /\ \A r \in Runs, s \in Scales : JobInv(r, s)'
           /\ \A s \in Scales : FileInv(s)'
<1>1. failures > 0 => failures' > 0
  BY DEF GenOK
<1>2. ASSUME NEW r \in Runs, NEW s \in Scales PROVE JobInv(r, s)'
  BY DEF DataInv, JobInv, genFiles
<1>3. ASSUME NEW s \in Scales PROVE FileInv(s)'
  <2>1. FileInv(s)
    BY DEF DataInv
  <2>2. UNCHANGED <<data[s], written, shared, queryFile[s], gen>>
    BY DEF genFiles
  <2> QED
    BY <1>1, <2>1, <2>2 DEF FileInv
<1> QED
  BY <1>2, <1>3

\* A step of a generator moves that generator only, and never one that is done.
LEMMA GenMoves ==
    ASSUME GenOK, NEW r \in Runs, NEW s \in Scales, NEW from, NEW to,
           GenStep(r, s, from, to)
    PROVE  /\ gen[<<r, s>>] = from /\ gen'[<<r, s>>] = to
           /\ \A q \in Runs, t \in Scales : q # r \/ t # s => gen'[<<q, t>>] = gen[<<q, t>>]
           /\ \A j \in Jobs : gen[j] # from => gen'[j] = gen[j]
           /\ UNCHANGED <<pc, run, todo, torn>>
  BY DEF GenStep, GenOK, Jobs, harness

\* Every step keeps processes with their runs.
LEMMA OwnStep ==
    HarnessOK /\ ControlInv /\ GenOK /\ DetachedOK /\ OwnInv /\ [Next]_vars => OwnInv'
<1> SUFFICES ASSUME HarnessOK, ControlInv, GenOK, DetachedOK, OwnInv, [Next]_vars PROVE OwnInv'
  OBVIOUS
<1> USE DEF HarnessOK, ControlInv, GenOK, DetachedOK, OwnInv, Generating, Scale, Job, Jobs,
    Runs, harness, genFiles, procs, faults, history
<1>1. CASE StartRun
  BY <1>1 DEF StartRun
<1>2. CASE TakeWindow
  BY <1>2 DEF TakeWindow, Goto
<1>3. CASE AllDone
  BY <1>3 DEF AllDone, Stop
<1>4. CASE GenReturned
  BY <1>4 DEF GenReturned, Goto, Stop, AfterGen, AfterLoad
<1>5. CASE Launch
  BY <1>5 DEF Launch, Goto
<1>6. CASE LoaderGone
  BY <1>6 DEF LoaderGone, Goto
<1>7. CASE ReadSummary
  BY <1>7 DEF ReadSummary, Goto, Stop
<1>8. CASE EndDrain
  BY <1>8 DEF EndDrain, Goto
<1>9. CASE WriteReport
  BY <1>9 DEF WriteReport, Goto, AfterLoad
<1>10. CASE StartQueries
  BY <1>10 DEF StartQueries, Goto
<1>11. CASE PollQueries
  BY <1>11 DEF PollQueries, Goto
<1>12. CASE PollAgain
  BY <1>12 DEF PollAgain, vars
<1>13. CASE Fetch
  BY <1>13 DEF Fetch
<1>14. CASE Die
  BY <1>14 DEF Die, Stop
<1>15. CASE UNCHANGED vars
  BY <1>15 DEF vars
<1>16. ASSUME NEW r \in Runs, NEW s \in Scales,
             \/ TestData(r, s) \/ CreateData(r, s) \/ FinishData(r, s) \/ MoveData(r, s)
             \/ TestQueries(r, s) \/ FinishQueries(r, s) \/ GenFails(r, s)
             \/ LoaderReports(r, s) \/ StartPass(r, s) \/ PassAnswered(r, s)
             \/ PassRefused(r, s) \/ KeepLog(r, s) \/ TouchDone(r, s)
             \/ DetachedFails(r, s)
      PROVE  OwnInv'
  <2>1. CASE TestData(r, s)
    BY <2>1 DEF TestData, GenStep, genFiles
  <2>2. CASE CreateData(r, s)
    <3>1. \A q \in Runs, t \in Scales : gen'[<<q, t>>] \in Generating => gen[<<q, t>>] \in Generating
      BY <2>2 DEF CreateData, GenStep
    <3>2. UNCHANGED <<harness, cut, loader>>
      BY <2>2 DEF CreateData, GenStep
    <3> HIDE DEF Generating
    <3> QED
      BY <3>1, <3>2
  <2>3. CASE FinishData(r, s)
    BY <2>3 DEF FinishData, GenStep
  <2>4. CASE MoveData(r, s)
    <3>1. \A q \in Runs, t \in Scales : gen'[<<q, t>>] \in Generating => gen[<<q, t>>] \in Generating
      BY <2>4 DEF MoveData, GenStep
    <3>2. UNCHANGED <<harness, cut, loader>>
      BY <2>4 DEF MoveData, GenStep
    <3> HIDE DEF Generating
    <3> QED
      BY <3>1, <3>2
  <2>5. CASE TestQueries(r, s)
    <3>1. PICK to : GenStep(r, s, "queries", to)
      BY <2>5 DEF TestQueries
    <3>2. \A q \in Runs, t \in Scales : gen'[<<q, t>>] \in Generating => gen[<<q, t>>] \in Generating
      <4>1. /\ gen[<<r, s>>] = "queries"
            /\ \A q \in Runs, t \in Scales : q # r \/ t # s => gen'[<<q, t>>] = gen[<<q, t>>]
          <5>1. gen[<<r, s>>] = "queries"
            BY <3>1 DEF GenStep
          <5>2. ASSUME NEW q \in Runs, NEW t \in Scales, q # r \/ t # s
                PROVE  gen'[<<q, t>>] = gen[<<q, t>>]
            <6>1. <<q, t>> \in Jobs /\ <<q, t>> # <<r, s>>
              BY <5>2
            <6>2. gen' = [gen EXCEPT ![<<r, s>>] = to]
              BY <3>1 DEF GenStep
            <6> QED
              BY <6>1, <6>2
          <5> QED
            BY <5>1, <5>2
      <4>2. TAKE q \in Runs, t \in Scales
      <4>3. CASE q = r /\ t = s
        BY <4>1, <4>3
      <4>4. CASE q # r \/ t # s
        BY <4>1, <4>4
      <4> QED
        BY <4>3, <4>4
    <3>3. UNCHANGED <<harness, cut, loader>>
      BY <3>1 DEF GenStep
    <3> HIDE DEF Generating
    <3> QED
      BY <3>2, <3>3
  <2>6. CASE FinishQueries(r, s)
    BY <2>6 DEF FinishQueries, GenStep
  <2>7. CASE GenFails(r, s)
    BY <2>7 DEF GenFails, GenStep, genFiles
  <2>8. CASE LoaderReports(r, s)
    BY <2>8 DEF LoaderReports, BoxStep
  <2>9. CASE StartPass(r, s)
    BY <2>9 DEF StartPass, BoxStep, ScriptStep
  <2>10. CASE PassAnswered(r, s)
    BY <2>10 DEF PassAnswered, BoxStep, ScriptStep
  <2>11. CASE PassRefused(r, s)
    BY <2>11 DEF PassRefused, BoxStep, ScriptStep
  <2>12. CASE KeepLog(r, s)
    <3>1. UNCHANGED <<harness, cut, gen, loader>>
      BY <2>12 DEF KeepLog, BoxStep, ScriptStep
    <3> QED
      BY <3>1
  <2>13. CASE TouchDone(r, s)
    BY <2>13 DEF TouchDone, BoxStep, ScriptStep
  <2>14. CASE DetachedFails(r, s)
    <3>1. \A q \in Runs, t \in Scales : loader'[<<q, t>>] = "running" => loader[<<q, t>>] = "running"
      BY <2>14 DEF DetachedFails, BoxStep, ScriptStep
    <3>2. UNCHANGED <<harness, cut, gen>>
      BY <2>14 DEF DetachedFails, BoxStep, ScriptStep
    <3> QED
      BY <3>1, <3>2
  <2> QED
    BY <1>16, <2>1, <2>2, <2>3, <2>4, <2>5, <2>6, <2>7, <2>8, <2>9, <2>10, <2>11, <2>12, <2>13,
       <2>14
<1> QED
  BY <1>1, <1>2, <1>3, <1>4, <1>5, <1>6, <1>7, <1>8, <1>9, <1>10, <1>11, <1>12, <1>13, <1>14,
     <1>15, <1>16, NextCases

\* Every step preserves what is known of the data files.
LEMMA DataStep ==
    HarnessOK /\ ControlInv /\ GenOK /\ OwnInv /\ DataInv /\ [Next]_vars => DataInv'
<1> SUFFICES ASSUME HarnessOK, ControlInv, GenOK, OwnInv, DataInv, [Next]_vars PROVE DataInv'
  OBVIOUS
<1>a. HarnessOK /\ ControlInv /\ GenOK /\ OwnInv /\ DataInv
  OBVIOUS
<1>1. CASE StartRun
  <2>1. /\ \A q \in Runs, t \in Scales : JobInv(q, t)'
        /\ \A t \in Scales : FileInv(t)'
    BY <1>a, <1>1, DataFrame DEF StartRun, faults, history, procs
  <2>2. (pc = "load" => gen[Job] = "done")'
    BY <1>a, <1>1 DEF StartRun, procs, harness, DataInv, Job, Scale
  <2>3. (torn \subseteq shared)'
    BY <1>a, <1>1 DEF StartRun, history, DataInv
  <2> QED
    BY <2>1, <2>2, <2>3 DEF DataInv
<1>2. CASE TakeWindow
  <2>1. pc' = "gen" /\ UNCHANGED <<genFiles, faults, history, run, todo>>
    BY <1>2 DEF TakeWindow, Goto
  <2>2. /\ Scale \in Scales /\ run \in Runs /\ gen' = [gen EXCEPT ![<<run, Scale>>] = "test"]
        /\ gen[<<run, Scale>>] # "write_queries"
    BY <1>a, <1>2 DEF TakeWindow, Goto, Job, Scale, HarnessOK, ControlInv, OwnInv, Generating
  <2>3. ASSUME NEW q \in Runs, NEW t \in Scales PROVE JobInv(q, t)'
    <3>1. JobInv(q, t)
      BY <1>a DEF DataInv
    <3> QED
      BY <1>a, <2>1, <2>2, <3>1 DEF JobInv, genFiles, history, GenOK, Jobs
  <2>4. ASSUME NEW t \in Scales PROVE FileInv(t)'
    <3>1. FileInv(t)
      BY <1>a DEF DataInv
    <3>2. \A q \in Runs : gen[<<q, t>>] = "write_queries" => gen'[<<q, t>>] = "write_queries"
      BY <1>a, <2>2 DEF GenOK, Jobs
    <3> QED
      BY <2>1, <3>1, <3>2 DEF FileInv, genFiles, history, faults
  <2> QED
    BY <1>a, <2>1, <2>3, <2>4 DEF DataInv, history
<1>3. CASE AllDone
  <2>1. /\ \A q \in Runs, t \in Scales : JobInv(q, t)'
        /\ \A t \in Scales : FileInv(t)'
    BY <1>a, <1>3, DataFrame DEF AllDone, Stop, faults, history, procs
  <2>2. (pc = "load" => gen[Job] = "done")'
    BY <1>a, <1>3 DEF AllDone, Stop, procs, harness, DataInv, Job, Scale
  <2>3. (torn \subseteq shared)'
    BY <1>a, <1>3 DEF AllDone, Stop, history, DataInv
  <2> QED
    BY <2>1, <2>2, <2>3 DEF DataInv
<1>4. CASE GenReturned
  <2>1. /\ \A q \in Runs, t \in Scales : JobInv(q, t)'
        /\ \A t \in Scales : FileInv(t)'
    BY <1>a, <1>4, DataFrame DEF GenReturned, Goto, Stop, AfterGen, AfterLoad, faults, history,
       procs
  <2>2. (pc = "load" => gen[Job] = "done")'
    BY <1>a, <1>4 DEF GenReturned, Goto, Stop, AfterGen, AfterLoad, procs, harness, DataInv,
       Job, Scale
  <2>3. (torn \subseteq shared)'
    BY <1>a, <1>4 DEF GenReturned, Goto, Stop, AfterGen, AfterLoad, history, DataInv
  <2> QED
    BY <2>1, <2>2, <2>3 DEF DataInv
<1>5. CASE Launch
  <2>1. /\ \A q \in Runs, t \in Scales : JobInv(q, t)'
        /\ \A t \in Scales : FileInv(t)'
    BY <1>a, <1>5, DataFrame DEF Launch, Goto, faults, history, procs
  <2>2. pc' # "load"
    BY <1>5 DEF Launch, Goto
  <2>3. (torn \subseteq shared)'
    <3>1. Scale \in Scales /\ run \in Runs /\ gen[Job] = "done"
      BY <1>a, <1>5 DEF Launch, Goto, ControlInv, DataInv
    <3>2. JobInv(run, Scale) /\ FileInv(Scale)
      BY <1>a, <3>1 DEF DataInv
    <3>3. <<data[Scale], Scale>> \in written \/ Scale \in shared
      BY <3>1, <3>2 DEF JobInv, FileInv, Job
    <3> QED
      BY <1>a, <3>3, <1>5 DEF Launch, DataInv
  <2> QED
    BY <2>1, <2>2, <2>3 DEF DataInv
<1>6. CASE LoaderGone
  <2>1. /\ \A q \in Runs, t \in Scales : JobInv(q, t)'
        /\ \A t \in Scales : FileInv(t)'
    BY <1>a, <1>6, DataFrame DEF LoaderGone, Goto, faults, history, procs
  <2>2. (pc = "load" => gen[Job] = "done")'
    BY <1>a, <1>6 DEF LoaderGone, Goto, procs, harness, DataInv, Job, Scale
  <2>3. (torn \subseteq shared)'
    BY <1>a, <1>6 DEF LoaderGone, Goto, history, DataInv
  <2> QED
    BY <2>1, <2>2, <2>3 DEF DataInv
<1>7. CASE ReadSummary
  <2>1. /\ \A q \in Runs, t \in Scales : JobInv(q, t)'
        /\ \A t \in Scales : FileInv(t)'
    BY <1>a, <1>7, DataFrame DEF ReadSummary, Goto, Stop, faults, history, procs
  <2>2. (pc = "load" => gen[Job] = "done")'
    BY <1>a, <1>7 DEF ReadSummary, Goto, Stop, procs, harness, DataInv, Job, Scale
  <2>3. (torn \subseteq shared)'
    BY <1>a, <1>7 DEF ReadSummary, Goto, Stop, history, DataInv
  <2> QED
    BY <2>1, <2>2, <2>3 DEF DataInv
<1>8. CASE EndDrain
  <2>1. /\ \A q \in Runs, t \in Scales : JobInv(q, t)'
        /\ \A t \in Scales : FileInv(t)'
    BY <1>a, <1>8, DataFrame DEF EndDrain, Goto, faults, history, procs
  <2>2. (pc = "load" => gen[Job] = "done")'
    BY <1>a, <1>8 DEF EndDrain, Goto, procs, harness, DataInv, Job, Scale
  <2>3. (torn \subseteq shared)'
    BY <1>a, <1>8 DEF EndDrain, Goto, history, DataInv
  <2> QED
    BY <2>1, <2>2, <2>3 DEF DataInv
<1>9. CASE WriteReport
  <2>1. /\ \A q \in Runs, t \in Scales : JobInv(q, t)'
        /\ \A t \in Scales : FileInv(t)'
    BY <1>a, <1>9, DataFrame DEF WriteReport, Goto, AfterLoad, faults, history, procs
  <2>2. (pc = "load" => gen[Job] = "done")'
    BY <1>a, <1>9 DEF WriteReport, Goto, AfterLoad, procs, harness, DataInv, Job, Scale
  <2>3. (torn \subseteq shared)'
    BY <1>a, <1>9 DEF WriteReport, Goto, AfterLoad, history, DataInv
  <2> QED
    BY <2>1, <2>2, <2>3 DEF DataInv
<1>10. CASE StartQueries
  <2>1. /\ \A q \in Runs, t \in Scales : JobInv(q, t)'
        /\ \A t \in Scales : FileInv(t)'
    BY <1>a, <1>10, DataFrame DEF StartQueries, Goto, faults, history, procs
  <2>2. (pc = "load" => gen[Job] = "done")'
    BY <1>a, <1>10 DEF StartQueries, Goto, procs, harness, DataInv, Job, Scale
  <2>3. (torn \subseteq shared)'
    BY <1>a, <1>10 DEF StartQueries, Goto, history, DataInv
  <2> QED
    BY <2>1, <2>2, <2>3 DEF DataInv
<1>11. CASE PollQueries
  <2>1. /\ \A q \in Runs, t \in Scales : JobInv(q, t)'
        /\ \A t \in Scales : FileInv(t)'
    BY <1>a, <1>11, DataFrame DEF PollQueries, Goto, faults, history, procs
  <2>2. (pc = "load" => gen[Job] = "done")'
    BY <1>a, <1>11 DEF PollQueries, Goto, procs, harness, DataInv, Job, Scale
  <2>3. (torn \subseteq shared)'
    BY <1>a, <1>11 DEF PollQueries, Goto, history, DataInv
  <2> QED
    BY <2>1, <2>2, <2>3 DEF DataInv
<1>12. CASE PollAgain
  <2>1. /\ \A q \in Runs, t \in Scales : JobInv(q, t)'
        /\ \A t \in Scales : FileInv(t)'
    BY <1>a, <1>12, DataFrame DEF PollAgain, vars, faults, history, procs
  <2>2. (pc = "load" => gen[Job] = "done")'
    BY <1>a, <1>12 DEF PollAgain, vars, procs, harness, DataInv, Job, Scale
  <2>3. (torn \subseteq shared)'
    BY <1>a, <1>12 DEF PollAgain, vars, history, DataInv
  <2> QED
    BY <2>1, <2>2, <2>3 DEF DataInv
<1>13. CASE Fetch
  <2>1. /\ \A q \in Runs, t \in Scales : JobInv(q, t)'
        /\ \A t \in Scales : FileInv(t)'
    BY <1>a, <1>13, DataFrame DEF Fetch, faults, history, procs
  <2>2. (pc = "load" => gen[Job] = "done")'
    BY <1>a, <1>13 DEF Fetch, procs, harness, DataInv, Job, Scale
  <2>3. (torn \subseteq shared)'
    BY <1>a, <1>13 DEF Fetch, history, DataInv
  <2> QED
    BY <2>1, <2>2, <2>3 DEF DataInv
<1>14. CASE Die
  <2>1. /\ \A q \in Runs, t \in Scales : JobInv(q, t)'
        /\ \A t \in Scales : FileInv(t)'
    BY <1>a, <1>14, DataFrame DEF Die, Stop, faults, history, procs
  <2>2. (pc = "load" => gen[Job] = "done")'
    BY <1>a, <1>14 DEF Die, Stop, procs, harness, DataInv, Job, Scale
  <2>3. (torn \subseteq shared)'
    BY <1>a, <1>14 DEF Die, Stop, history, DataInv
  <2> QED
    BY <2>1, <2>2, <2>3 DEF DataInv
<1>15. CASE UNCHANGED vars
  <2>1. /\ \A q \in Runs, t \in Scales : JobInv(q, t)'
        /\ \A t \in Scales : FileInv(t)'
    BY <1>a, <1>15, DataFrame DEF vars, faults, history, procs
  <2>2. (pc = "load" => gen[Job] = "done")'
    BY <1>a, <1>15 DEF vars, procs, harness, DataInv, Job, Scale
  <2>3. (torn \subseteq shared)'
    BY <1>a, <1>15 DEF vars, history, DataInv
  <2> QED
    BY <2>1, <2>2, <2>3 DEF DataInv
<1>16. ASSUME NEW r \in Runs, NEW s \in Scales,
             \/ TestData(r, s) \/ CreateData(r, s) \/ FinishData(r, s) \/ MoveData(r, s)
             \/ TestQueries(r, s) \/ FinishQueries(r, s) \/ GenFails(r, s)
             \/ LoaderReports(r, s) \/ StartPass(r, s) \/ PassAnswered(r, s)
             \/ PassRefused(r, s) \/ KeepLog(r, s) \/ TouchDone(r, s)
             \/ DetachedFails(r, s)
      PROVE  DataInv'
  <2>1. CASE TestData(r, s)
    <3>1. \E from \in {"test"} : \E to : GenStep(r, s, from, to)
      BY <2>1 DEF TestData
    <3>2. PICK from \in {"test"} : \E to : GenStep(r, s, from, to)
      BY <3>1
    <3>3. /\ gen[<<r, s>>] = from
          /\ \A q \in Runs, t \in Scales : q # r \/ t # s => gen'[<<q, t>>] = gen[<<q, t>>]
          /\ \A j \in Jobs : gen[j] # from => gen'[j] = gen[j]
          /\ UNCHANGED <<pc, run, todo, torn>>
      BY <1>a, <3>2, GenMoves
    <3>4. ASSUME NEW q \in Runs, NEW t \in Scales PROVE JobInv(q, t)'
      <4>1. JobInv(q, t) /\ JobInv(r, s) /\ FileInv(s)
        BY <1>a DEF DataInv
      <4>2. CASE q = r /\ t = s
        BY <1>a, <3>3, <4>1, <4>2, <2>1 DEF TestData, GenStep, genFiles, GenOK, JobInv,
           FileInv, NoRun, Jobs, Runs
      <4>3. CASE q # r \/ t # s
        BY <1>a, <3>3, <4>1, <4>3, <2>1 DEF TestData, GenStep, genFiles, GenOK, JobInv, NoRun,
           Jobs, Runs
      <4> QED
        BY <4>2, <4>3
    <3>5. ASSUME NEW t \in Scales PROVE FileInv(t)'
      <4>1. FileInv(t) /\ JobInv(r, s)
        BY <1>a DEF DataInv
      <4>2. CASE t = s
        <5>1. \A q \in Runs : gen[<<q, t>>] = "write_queries" => gen'[<<q, t>>] = "write_queries"
          BY <3>3, <4>2, <2>1 DEF TestData, GenStep, GenOK, Jobs
        <5>2. UNCHANGED <<data, queryFile, failures>> /\ shared \subseteq shared' /\ written \subseteq written'
          BY <2>1 DEF TestData, GenStep, genFiles
        <5> QED
          BY <4>1, <5>1, <5>2 DEF FileInv
      <4>3. CASE t # s
        BY <1>a, <3>3, <4>1, <4>3, <2>1 DEF TestData, GenStep, genFiles, GenOK, FileInv, Jobs,
           Runs
      <4> QED
        BY <4>2, <4>3
    <3>6. (pc = "load" => gen[Job] = "done")'
      BY <1>a, <3>2, <3>3 DEF DataInv, ControlInv, Job, Scale, Jobs
    <3>7. (torn \subseteq shared)'
      BY <1>a, <3>3, <2>1 DEF TestData, DataInv
    <3> QED
      BY <3>4, <3>5, <3>6, <3>7 DEF DataInv
  <2>2. CASE CreateData(r, s)
    <3>1. \E from \in {"create"} : \E to : GenStep(r, s, from, to)
      BY <2>2 DEF CreateData
    <3>2. PICK from \in {"create"} : \E to : GenStep(r, s, from, to)
      BY <3>1
    <3>3. /\ gen[<<r, s>>] = from
          /\ \A q \in Runs, t \in Scales : q # r \/ t # s => gen'[<<q, t>>] = gen[<<q, t>>]
          /\ \A j \in Jobs : gen[j] # from => gen'[j] = gen[j]
          /\ UNCHANGED <<pc, run, todo, torn>>
      BY <1>a, <3>2, GenMoves
    <3>4. ASSUME NEW q \in Runs, NEW t \in Scales PROVE JobInv(q, t)'
      <4>1. JobInv(q, t) /\ JobInv(r, s) /\ FileInv(s)
        BY <1>a DEF DataInv
      <4>2. CASE q = r /\ t = s
        BY <1>a, <3>3, <4>1, <4>2, <2>2 DEF CreateData, GenStep, OutputOpened, GenOK, JobInv,
           FileInv, NoRun, Jobs, Runs
      <4>3. CASE q # r \/ t # s
        <5>1. tmp'[t] = tmp[t] \/ t = s
          BY <1>a, <2>2 DEF CreateData, GenStep, OutputOpened, GenOK
        <5>2. t = s /\ gen[<<q, t>>] \in {"write", "move"} => t \in shared'
          BY <2>2 DEF CreateData
        <5>3. shared \subseteq shared' /\ UNCHANGED <<written, data>>
          BY <2>2 DEF CreateData, GenStep, OutputOpened
        <5> QED
          BY <3>3, <4>1, <4>3, <5>1, <5>2, <5>3 DEF JobInv
      <4> QED
        BY <4>2, <4>3
    <3>5. ASSUME NEW t \in Scales PROVE FileInv(t)'
      <4>1. FileInv(t) /\ JobInv(r, s)
        BY <1>a DEF DataInv
      <4>2. CASE t = s
        <5>1. \A q \in Runs : gen[<<q, t>>] = "write_queries" => gen'[<<q, t>>] = "write_queries"
          BY <3>3, <4>2, <2>2 DEF CreateData, GenStep, GenOK, Jobs
        <5>2. UNCHANGED <<data, queryFile, failures>> /\ shared \subseteq shared' /\ written \subseteq written'
          BY <2>2 DEF CreateData, GenStep, OutputOpened
        <5> QED
          BY <4>1, <5>1, <5>2 DEF FileInv
      <4>3. CASE t # s
        BY <1>a, <3>3, <4>1, <4>3, <2>2 DEF CreateData, GenStep, OutputOpened, GenOK, FileInv,
           Jobs, Runs
      <4> QED
        BY <4>2, <4>3
    <3>6. (pc = "load" => gen[Job] = "done")'
      BY <1>a, <3>2, <3>3 DEF DataInv, ControlInv, Job, Scale, Jobs
    <3>7. (torn \subseteq shared)'
      BY <1>a, <3>3, <2>2 DEF CreateData, DataInv
    <3> QED
      BY <3>4, <3>5, <3>6, <3>7 DEF DataInv
  <2>3. CASE FinishData(r, s)
    <3>1. \E from \in {"write"} : \E to : GenStep(r, s, from, to)
      BY <2>3 DEF FinishData
    <3>2. PICK from \in {"write"} : \E to : GenStep(r, s, from, to)
      BY <3>1
    <3>3. /\ gen[<<r, s>>] = from
          /\ \A q \in Runs, t \in Scales : q # r \/ t # s => gen'[<<q, t>>] = gen[<<q, t>>]
          /\ \A j \in Jobs : gen[j] # from => gen'[j] = gen[j]
          /\ UNCHANGED <<pc, run, todo, torn>>
      BY <1>a, <3>2, GenMoves
    <3>4. ASSUME NEW q \in Runs, NEW t \in Scales PROVE JobInv(q, t)'
      <4>1. JobInv(q, t) /\ JobInv(r, s) /\ FileInv(s)
        BY <1>a DEF DataInv
      <4>2. CASE q = r /\ t = s
        BY <1>a, <3>3, <4>1, <4>2, <2>3 DEF FinishData, GenStep, GenOK, JobInv, FileInv, NoRun,
           Jobs, Runs
      <4>3. CASE q # r \/ t # s
        BY <1>a, <3>3, <4>1, <4>3, <2>3 DEF FinishData, GenStep, GenOK, JobInv, NoRun, Jobs,
           Runs
      <4> QED
        BY <4>2, <4>3
    <3>5. ASSUME NEW t \in Scales PROVE FileInv(t)'
      <4>1. FileInv(t) /\ JobInv(r, s)
        BY <1>a DEF DataInv
      <4>2. CASE t = s
        <5>1. \A q \in Runs : gen[<<q, t>>] = "write_queries" => gen'[<<q, t>>] = "write_queries"
          BY <3>3, <4>2, <2>3 DEF FinishData, GenStep, GenOK, Jobs
        <5>2. UNCHANGED <<data, queryFile, failures>> /\ shared \subseteq shared' /\ written \subseteq written'
          BY <2>3 DEF FinishData, GenStep
        <5> QED
          BY <4>1, <5>1, <5>2 DEF FileInv
      <4>3. CASE t # s
        BY <1>a, <3>3, <4>1, <4>3, <2>3 DEF FinishData, GenStep, GenOK, FileInv, Jobs, Runs
      <4> QED
        BY <4>2, <4>3
    <3>6. (pc = "load" => gen[Job] = "done")'
      BY <1>a, <3>2, <3>3 DEF DataInv, ControlInv, Job, Scale, Jobs
    <3>7. (torn \subseteq shared)'
      BY <1>a, <3>3, <2>3 DEF FinishData, DataInv
    <3> QED
      BY <3>4, <3>5, <3>6, <3>7 DEF DataInv
  <2>4. CASE MoveData(r, s)
    <3>1. \E from \in {"move"} : \E to : GenStep(r, s, from, to)
      BY <2>4 DEF MoveData
    <3>2. PICK from \in {"move"} : \E to : GenStep(r, s, from, to)
      BY <3>1
    <3>3. /\ gen[<<r, s>>] = from
          /\ \A q \in Runs, t \in Scales : q # r \/ t # s => gen'[<<q, t>>] = gen[<<q, t>>]
          /\ \A j \in Jobs : gen[j] # from => gen'[j] = gen[j]
          /\ UNCHANGED <<pc, run, todo, torn>>
      BY <1>a, <3>2, GenMoves
    <3>4. ASSUME NEW q \in Runs, NEW t \in Scales PROVE JobInv(q, t)'
      <4>1. JobInv(q, t) /\ JobInv(r, s) /\ FileInv(s)
        BY <1>a DEF DataInv
      <4>2. CASE q = r /\ t = s
        BY <1>a, <3>3, <4>1, <4>2, <2>4 DEF MoveData, GenStep, GenOK, JobInv, FileInv, NoRun,
           Jobs, Runs
      <4>3. CASE q # r \/ t # s
        BY <1>a, <3>3, <4>1, <4>3, <2>4 DEF MoveData, GenStep, GenOK, JobInv, NoRun, Jobs, Runs
      <4> QED
        BY <4>2, <4>3
    <3>5. ASSUME NEW t \in Scales PROVE FileInv(t)'
      <4>1. FileInv(t) /\ JobInv(r, s)
        BY <1>a DEF DataInv
      <4>2. CASE t = s
        BY <1>a, <3>3, <4>1, <4>2, <2>4 DEF MoveData, GenStep, GenOK, JobInv, FileInv, NoRun,
           Jobs, Runs
      <4>3. CASE t # s
        <5>1. /\ data'[t] = data[t] /\ queryFile'[t] = queryFile[t]
              /\ written' = written /\ shared' = shared /\ failures' = failures
          BY <1>a, <4>3, <2>4 DEF MoveData, GenOK
        <5>2. \A q \in Runs : gen'[<<q, t>>] = gen[<<q, t>>]
          BY <3>3, <4>3
        <5>3. data'[t] # NoRun => <<data'[t], t>> \in written' \/ t \in shared'
          BY <4>1, <5>1 DEF FileInv
        <5>4. queryFile'[t] = "cut" =>
                 failures' > 0 \/ \E q \in Runs : gen'[<<q, t>>] = "write_queries"
          BY <4>1, <5>1, <5>2 DEF FileInv
        <5> QED
          BY <5>3, <5>4 DEF FileInv
      <4> QED
        BY <4>2, <4>3
    <3>6. (pc = "load" => gen[Job] = "done")'
      BY <1>a, <3>2, <3>3 DEF DataInv, ControlInv, Job, Scale, Jobs
    <3>7. (torn \subseteq shared)'
      BY <1>a, <3>3, <2>4 DEF MoveData, DataInv
    <3> QED
      BY <3>4, <3>5, <3>6, <3>7 DEF DataInv
  <2>5. CASE TestQueries(r, s)
    <3>1. \E from \in {"queries"} : \E to : GenStep(r, s, from, to)
      BY <2>5 DEF TestQueries
    <3>2. PICK from \in {"queries"} : \E to : GenStep(r, s, from, to)
      BY <3>1
    <3>3. /\ gen[<<r, s>>] = from
          /\ \A q \in Runs, t \in Scales : q # r \/ t # s => gen'[<<q, t>>] = gen[<<q, t>>]
          /\ \A j \in Jobs : gen[j] # from => gen'[j] = gen[j]
          /\ UNCHANGED <<pc, run, todo, torn>>
      BY <1>a, <3>2, GenMoves
    <3>4. ASSUME NEW q \in Runs, NEW t \in Scales PROVE JobInv(q, t)'
      <4>1. JobInv(q, t) /\ JobInv(r, s) /\ FileInv(s)
        BY <1>a DEF DataInv
      <4>2. CASE q = r /\ t = s
        BY <1>a, <3>3, <4>1, <4>2, <2>5 DEF TestQueries, GenStep, GenOK, JobInv, FileInv,
           NoRun, Jobs, Runs
      <4>3. CASE q # r \/ t # s
        BY <1>a, <3>3, <4>1, <4>3, <2>5 DEF TestQueries, GenStep, GenOK, JobInv, NoRun, Jobs,
           Runs
      <4> QED
        BY <4>2, <4>3
    <3>5. ASSUME NEW t \in Scales PROVE FileInv(t)'
      <4>1. FileInv(t) /\ JobInv(r, s)
        BY <1>a DEF DataInv
      <4>2. CASE t = s
        BY <1>a, <3>3, <4>1, <4>2, <2>5 DEF TestQueries, GenStep, GenOK, JobInv, FileInv,
           NoRun, Jobs, Runs
      <4>3. CASE t # s
        BY <1>a, <3>3, <4>1, <4>3, <2>5 DEF TestQueries, GenStep, GenOK, FileInv, Jobs, Runs
      <4> QED
        BY <4>2, <4>3
    <3>6. (pc = "load" => gen[Job] = "done")'
      BY <1>a, <3>2, <3>3 DEF DataInv, ControlInv, Job, Scale, Jobs
    <3>7. (torn \subseteq shared)'
      BY <1>a, <3>3, <2>5 DEF TestQueries, DataInv
    <3> QED
      BY <3>4, <3>5, <3>6, <3>7 DEF DataInv
  <2>6. CASE FinishQueries(r, s)
    <3>1. \E from \in {"write_queries"} : \E to : GenStep(r, s, from, to)
      BY <2>6 DEF FinishQueries
    <3>2. PICK from \in {"write_queries"} : \E to : GenStep(r, s, from, to)
      BY <3>1
    <3>3. /\ gen[<<r, s>>] = from
          /\ \A q \in Runs, t \in Scales : q # r \/ t # s => gen'[<<q, t>>] = gen[<<q, t>>]
          /\ \A j \in Jobs : gen[j] # from => gen'[j] = gen[j]
          /\ UNCHANGED <<pc, run, todo, torn>>
      BY <1>a, <3>2, GenMoves
    <3>4. ASSUME NEW q \in Runs, NEW t \in Scales PROVE JobInv(q, t)'
      <4>1. JobInv(q, t) /\ JobInv(r, s) /\ FileInv(s)
        BY <1>a DEF DataInv
      <4>2. CASE q = r /\ t = s
        BY <1>a, <3>3, <4>1, <4>2, <2>6 DEF FinishQueries, GenStep, GenOK, JobInv, FileInv,
           NoRun, Jobs, Runs
      <4>3. CASE q # r \/ t # s
        BY <1>a, <3>3, <4>1, <4>3, <2>6 DEF FinishQueries, GenStep, GenOK, JobInv, NoRun, Jobs,
           Runs
      <4> QED
        BY <4>2, <4>3
    <3>5. ASSUME NEW t \in Scales PROVE FileInv(t)'
      <4>1. FileInv(t) /\ JobInv(r, s)
        BY <1>a DEF DataInv
      <4>2. CASE t = s
        BY <1>a, <3>3, <4>1, <4>2, <2>6 DEF FinishQueries, GenStep, GenOK, JobInv, FileInv,
           NoRun, Jobs, Runs
      <4>3. CASE t # s
        BY <1>a, <3>3, <4>1, <4>3, <2>6 DEF FinishQueries, GenStep, GenOK, FileInv, Jobs, Runs
      <4> QED
        BY <4>2, <4>3
    <3>6. (pc = "load" => gen[Job] = "done")'
      BY <1>a, <3>2, <3>3 DEF DataInv, ControlInv, Job, Scale, Jobs
    <3>7. (torn \subseteq shared)'
      BY <1>a, <3>3, <2>6 DEF FinishQueries, DataInv
    <3> QED
      BY <3>4, <3>5, <3>6, <3>7 DEF DataInv
  <2>7. CASE GenFails(r, s)
    <3>1. \E from \in Generating : \E to : GenStep(r, s, from, to)
      BY <2>7 DEF GenFails
    <3>2. PICK from \in Generating : \E to : GenStep(r, s, from, to)
      BY <3>1
    <3>3. /\ gen[<<r, s>>] = from
          /\ \A q \in Runs, t \in Scales : q # r \/ t # s => gen'[<<q, t>>] = gen[<<q, t>>]
          /\ \A j \in Jobs : gen[j] # from => gen'[j] = gen[j]
          /\ UNCHANGED <<pc, run, todo, torn>>
      BY <1>a, <3>2, GenMoves
    <3>4. ASSUME NEW q \in Runs, NEW t \in Scales PROVE JobInv(q, t)'
      <4>1. JobInv(q, t) /\ JobInv(r, s) /\ FileInv(s)
        BY <1>a DEF DataInv
      <4>2. CASE q = r /\ t = s
        BY <1>a, <3>3, <4>1, <4>2, <2>7 DEF GenFails, Generating, GenStep, genFiles, GenOK, JobInv,
           FileInv, NoRun, Jobs, Runs
      <4>3. CASE q # r \/ t # s
        BY <1>a, <3>3, <4>1, <4>3, <2>7 DEF GenFails, Generating, GenStep, genFiles, GenOK, JobInv,
           NoRun, Jobs, Runs
      <4> QED
        BY <4>2, <4>3
    <3>5. ASSUME NEW t \in Scales PROVE FileInv(t)'
      <4>1. FileInv(t) /\ JobInv(r, s)
        BY <1>a DEF DataInv
      <4>2. CASE t = s
        BY <1>a, <3>3, <4>1, <4>2, <2>7 DEF GenFails, Generating, GenStep, genFiles, GenOK, JobInv,
           FileInv, NoRun, Jobs, Runs
      <4>3. CASE t # s
        BY <1>a, <3>3, <4>1, <4>3, <2>7 DEF GenFails, Generating, GenStep, genFiles, GenOK, FileInv,
           Jobs, Runs
      <4> QED
        BY <4>2, <4>3
    <3>6. (pc = "load" => gen[Job] = "done")'
      BY <1>a, <3>2, <3>3 DEF Generating, DataInv, ControlInv, Job, Scale, Jobs
    <3>7. (torn \subseteq shared)'
      BY <1>a, <3>3, <2>7 DEF GenFails, DataInv
    <3> QED
      BY <3>4, <3>5, <3>6, <3>7 DEF DataInv
  <2>8. CASE LoaderReports(r, s)
    <3>1. /\ \A q \in Runs, t \in Scales : JobInv(q, t)'
          /\ \A t \in Scales : FileInv(t)'
      BY <1>a, <2>8, DataFrame DEF LoaderReports, BoxStep, faults, history, procs
    <3>2. (pc = "load" => gen[Job] = "done")'
      BY <1>a, <2>8 DEF LoaderReports, BoxStep, procs, harness, DataInv, Job, Scale
    <3>3. (torn \subseteq shared)'
      BY <1>a, <2>8 DEF LoaderReports, BoxStep, history, DataInv
    <3> QED
      BY <3>1, <3>2, <3>3 DEF DataInv
  <2>9. CASE StartPass(r, s)
    <3>1. /\ \A q \in Runs, t \in Scales : JobInv(q, t)'
          /\ \A t \in Scales : FileInv(t)'
      BY <1>a, <2>9, DataFrame DEF StartPass, BoxStep, ScriptStep, faults, history, procs
    <3>2. (pc = "load" => gen[Job] = "done")'
      BY <1>a, <2>9 DEF StartPass, BoxStep, ScriptStep, procs, harness, DataInv, Job, Scale
    <3>3. (torn \subseteq shared)'
      BY <1>a, <2>9 DEF StartPass, BoxStep, ScriptStep, history, DataInv
    <3> QED
      BY <3>1, <3>2, <3>3 DEF DataInv
  <2>10. CASE PassAnswered(r, s)
    <3>1. /\ \A q \in Runs, t \in Scales : JobInv(q, t)'
          /\ \A t \in Scales : FileInv(t)'
      BY <1>a, <2>10, DataFrame DEF PassAnswered, BoxStep, ScriptStep, faults, history, procs
    <3>2. (pc = "load" => gen[Job] = "done")'
      BY <1>a, <2>10 DEF PassAnswered, BoxStep, ScriptStep, procs, harness, DataInv, Job, Scale
    <3>3. (torn \subseteq shared)'
      BY <1>a, <2>10 DEF PassAnswered, BoxStep, ScriptStep, history, DataInv
    <3> QED
      BY <3>1, <3>2, <3>3 DEF DataInv
  <2>11. CASE PassRefused(r, s)
    <3>1. /\ \A q \in Runs, t \in Scales : JobInv(q, t)'
          /\ \A t \in Scales : FileInv(t)'
      BY <1>a, <2>11, DataFrame DEF PassRefused, BoxStep, ScriptStep, faults, history, procs
    <3>2. (pc = "load" => gen[Job] = "done")'
      BY <1>a, <2>11 DEF PassRefused, BoxStep, ScriptStep, procs, harness, DataInv, Job, Scale
    <3>3. (torn \subseteq shared)'
      BY <1>a, <2>11 DEF PassRefused, BoxStep, ScriptStep, history, DataInv
    <3> QED
      BY <3>1, <3>2, <3>3 DEF DataInv
  <2>12. CASE KeepLog(r, s)
    <3>1. /\ \A q \in Runs, t \in Scales : JobInv(q, t)'
          /\ \A t \in Scales : FileInv(t)'
      BY <1>a, <2>12, DataFrame DEF KeepLog, BoxStep, ScriptStep, faults, history, procs
    <3>2. (pc = "load" => gen[Job] = "done")'
      BY <1>a, <2>12 DEF KeepLog, BoxStep, ScriptStep, procs, harness, DataInv, Job, Scale
    <3>3. (torn \subseteq shared)'
      BY <1>a, <2>12 DEF KeepLog, BoxStep, ScriptStep, history, DataInv
    <3> QED
      BY <3>1, <3>2, <3>3 DEF DataInv
  <2>13. CASE TouchDone(r, s)
    <3>1. /\ \A q \in Runs, t \in Scales : JobInv(q, t)'
          /\ \A t \in Scales : FileInv(t)'
      BY <1>a, <2>13, DataFrame DEF TouchDone, BoxStep, ScriptStep, faults, history, procs
    <3>2. (pc = "load" => gen[Job] = "done")'
      BY <1>a, <2>13 DEF TouchDone, BoxStep, ScriptStep, procs, harness, DataInv, Job, Scale
    <3>3. (torn \subseteq shared)'
      BY <1>a, <2>13 DEF TouchDone, BoxStep, ScriptStep, history, DataInv
    <3> QED
      BY <3>1, <3>2, <3>3 DEF DataInv
  <2>14. CASE DetachedFails(r, s)
    <3>1. /\ \A q \in Runs, t \in Scales : JobInv(q, t)'
          /\ \A t \in Scales : FileInv(t)'
      BY <1>a, <2>14, DataFrame DEF DetachedFails, BoxStep, ScriptStep, faults, history, procs
    <3>2. (pc = "load" => gen[Job] = "done")'
      BY <1>a, <2>14 DEF DetachedFails, BoxStep, ScriptStep, procs, harness, DataInv, Job, Scale
    <3>3. (torn \subseteq shared)'
      BY <1>a, <2>14 DEF DetachedFails, BoxStep, ScriptStep, history, DataInv
    <3> QED
      BY <3>1, <3>2, <3>3 DEF DataInv
  <2> QED
    BY <1>16, <2>1, <2>2, <2>3, <2>4, <2>5, <2>6, <2>7, <2>8, <2>9, <2>10, <2>11, <2>12, <2>13,
       <2>14
<1> QED
  BY <1>1, <1>2, <1>3, <1>4, <1>5, <1>6, <1>7, <1>8, <1>9, <1>10, <1>11, <1>12, <1>13, <1>14,
     <1>15, <1>16, NextCases

\* A scale's files in the results.
Fetchable == [load : {NoLoad} \cup [of : Runs, source : Runs], json : Result, log : Result]

\* Every step preserves the types of the detached processes, the drain and the results.
LEMMA DetachedStep ==
    HarnessOK /\ ControlInv /\ GenOK /\ DetachedOK /\ OwnInv /\ LoadInv /\ [Next]_vars
        => DetachedOK'
<1> SUFFICES ASSUME HarnessOK, ControlInv, GenOK, DetachedOK, OwnInv, LoadInv, [Next]_vars
             PROVE  DetachedOK'
  OBVIOUS
<1>a. MaxRuns \in Nat /\ NoRun = 0
  BY TsbsBenchAssumption DEF NoRun
<1>b. HarnessOK /\ ControlInv /\ GenOK /\ DetachedOK /\ OwnInv /\ LoadInv
  OBVIOUS
<1> USE DEF harness, genFiles, procs, faults, history
<1>1. CASE StartRun
  BY <1>a, <1>b, <1>1 DEF DetachedOK, DrainState, StartRun
<1>2. CASE TakeWindow
  BY <1>a, <1>b, <1>2 DEF DetachedOK, DrainState, TakeWindow, Goto
<1>3. CASE AllDone
  BY <1>a, <1>b, <1>3 DEF DetachedOK, DrainState, AllDone, Stop
<1>4. CASE GenReturned
  BY <1>a, <1>b, <1>4 DEF DetachedOK, DrainState, GenReturned, Goto, Stop, AfterGen, AfterLoad
<1>5. CASE Launch
  <2>0. Scale \in Scales
    BY <1>b, <1>5 DEF Launch, Goto, ControlInv
  <2>1. drain' \in DrainState
    <3>1. PICK before \in 0..MaxHot, baseline \in 0..MaxHot \cup {Unknown} :
              drain' = [NoDrain EXCEPT !.before = before, !.baseline = baseline]
      BY <1>5 DEF Launch
    <3>2. before \in Nat /\ baseline \in Int
      BY TsbsBenchAssumption DEF Unknown
    <3>3. NoDrain \in DrainState
      BY <1>a DEF DrainState, NoDrain
    <3> HIDE DEF NoDrain
    <3> QED
      BY <3>1, <3>2, <3>3 DEF DrainState
  <2>2. /\ loader' \in [Jobs -> {"none", "running", "done", "failed"}]
        /\ script' \in [Jobs -> {"none", "verify", "pass", "answered", "refused", "touch",
                                 "done", "failed"}]
    BY <1>b, <1>5 DEF Launch, Goto, DetachedOK, procs
  <2>3. out' \in [Scales -> OnBox]
    <3>1. out[Scale] \in OnBox
      BY <1>b, <2>0 DEF DetachedOK
    <3>2. [out[Scale] EXCEPT !.load = NoRun] \in OnBox
      BY <1>a, <3>1 DEF OnBox, Runs, NoRun
    <3>3. out' = [out EXCEPT ![Scale] = [out[Scale] EXCEPT !.load = NoRun]]
      BY <1>5 DEF Launch, SummaryRemoved
    <3> QED
      BY <1>b, <2>0, <3>2, <3>3 DEF DetachedOK
  <2>4. local' \in [Scales -> Fetchable]
    BY <1>b, <1>5 DEF Launch, Goto, DetachedOK, Fetchable
  <2> QED
    BY <1>b, <2>1, <2>2, <2>3, <2>4 DEF DetachedOK, Fetchable
<1>6. CASE LoaderGone
  BY <1>a, <1>b, <1>6 DEF DetachedOK, DrainState, LoaderGone, Goto
<1>7. CASE ReadSummary
  <2>0. Scale \in Scales
    BY <1>b, <1>7 DEF ReadSummary, ControlInv
  <2>1. out[Scale].load \in 0..MaxRuns
    BY <1>b, <2>0 DEF DetachedOK, OnBox
  <2>2. drain' = drain \/ drain' = [drain EXCEPT !.source = out[Scale].load]
    BY <1>7 DEF ReadSummary
  <2>3. UNCHANGED <<procs, out, local>>
    BY <1>7 DEF ReadSummary
  <2> QED
    BY <1>b, <2>1, <2>2, <2>3 DEF DetachedOK, DrainState, procs
<1>8. CASE EndDrain
  <2>0. Scale \in Scales
    BY <1>b, <1>8 DEF EndDrain, Goto, ControlInv
  <2>1. drain' \in DrainState
    <3>1. PICK files \in 0..MaxHot \cup {Unknown} :
              drain' = [drain EXCEPT !.files = files,
                                     !.limit = ~(files # Unknown /\ files <= Target(drain.baseline))]
      BY <1>8 DEF EndDrain
    <3>2. files \in Int
      BY TsbsBenchAssumption DEF Unknown
    <3> QED
      BY <1>b, <3>1, <3>2 DEF DetachedOK, DrainState
  <2>2. /\ loader' \in [Jobs -> {"none", "running", "done", "failed"}]
        /\ script' \in [Jobs -> {"none", "verify", "pass", "answered", "refused", "touch",
                                 "done", "failed"}]
    BY <1>b, <1>8 DEF EndDrain, Goto, DetachedOK, procs
  <2>3. out' \in [Scales -> OnBox]
    BY <1>b, <1>8 DEF EndDrain, Goto, DetachedOK
  <2>4. local' \in [Scales -> Fetchable]
    BY <1>b, <1>8 DEF EndDrain, Goto, DetachedOK, Fetchable
  <2> QED
    BY <1>b, <2>1, <2>2, <2>3, <2>4 DEF DetachedOK, Fetchable
<1>9. CASE WriteReport
  <2>0. Scale \in Scales
    BY <1>b, <1>9 DEF WriteReport, Goto, AfterLoad, ControlInv
  <2>1. drain' \in DrainState
    BY <1>a, <1>b, <1>9, TsbsBenchAssumption DEF WriteReport, Goto, AfterLoad, DetachedOK,
       DrainState, NoDrain, Unknown, NoRun
  <2>2. /\ loader' \in [Jobs -> {"none", "running", "done", "failed"}]
        /\ script' \in [Jobs -> {"none", "verify", "pass", "answered", "refused", "touch",
                                 "done", "failed"}]
    BY <1>b, <1>9 DEF WriteReport, Goto, AfterLoad, DetachedOK, procs
  <2>3. out' \in [Scales -> OnBox]
    BY <1>b, <1>9 DEF WriteReport, Goto, AfterLoad, DetachedOK
  <2>4. local' \in [Scales -> Fetchable]
    <3>1. [of |-> run, source |-> drain.source] \in [of : Runs, source : Runs]
      BY <1>a, <1>b, <1>9 DEF WriteReport, Goto, ControlInv, LoadInv, OwnInv, GenOK
    <3>2. local \in [Scales -> Fetchable]
      BY <1>b DEF DetachedOK, Fetchable
    <3>3. local[Scale] \in Fetchable
      BY <2>0, <3>2
    <3>4. [local[Scale] EXCEPT !.load = [of |-> run, source |-> drain.source]] \in Fetchable
      BY <3>1, <3>3 DEF Fetchable
    <3>5. local' = [local EXCEPT ![Scale] =
                      [local[Scale] EXCEPT !.load = [of |-> run, source |-> drain.source]]]
      BY <1>9 DEF WriteReport
    <3> QED
      BY <2>0, <3>2, <3>4, <3>5
  <2> QED
    BY <1>b, <2>1, <2>2, <2>3, <2>4 DEF DetachedOK, Fetchable
<1>10. CASE StartQueries
  <2>0. Scale \in Scales
    BY <1>b, <1>10 DEF StartQueries, Goto, ControlInv
  <2>1. drain' \in DrainState
    BY <1>a, <1>b, <1>10, TsbsBenchAssumption DEF StartQueries, Goto, DetachedOK, DrainState,
       NoDrain, Unknown, NoRun
  <2>2. /\ loader' \in [Jobs -> {"none", "running", "done", "failed"}]
        /\ script' \in [Jobs -> {"none", "verify", "pass", "answered", "refused", "touch",
                                 "done", "failed"}]
    BY <1>b, <1>10 DEF StartQueries, Goto, DetachedOK, procs
  <2>3. out' \in [Scales -> OnBox]
    <3>1. out[Scale] \in OnBox
      BY <1>b, <2>0 DEF DetachedOK
    <3>2. [out[Scale] EXCEPT !.done = FALSE] \in OnBox
      BY <1>a, <3>1 DEF OnBox, Runs, NoRun
    <3>3. out' = [out EXCEPT ![Scale] = [out[Scale] EXCEPT !.done = FALSE]]
      BY <1>10 DEF StartQueries, SummaryRemoved
    <3> QED
      BY <1>b, <2>0, <3>2, <3>3 DEF DetachedOK
  <2>4. local' \in [Scales -> Fetchable]
    BY <1>b, <1>10 DEF StartQueries, Goto, DetachedOK, Fetchable
  <2> QED
    BY <1>b, <2>1, <2>2, <2>3, <2>4 DEF DetachedOK, Fetchable
<1>11. CASE PollQueries
  BY <1>a, <1>b, <1>11 DEF DetachedOK, DrainState, PollQueries, Goto
<1>12. CASE PollAgain
  BY <1>a, <1>b, <1>12 DEF DetachedOK, DrainState, PollAgain, vars
<1>13. CASE Fetch
  <2>0. Scale \in Scales
    BY <1>b, <1>13 DEF Fetch, ControlInv
  <2>1. drain' \in DrainState
    BY <1>a, <1>b, <1>13, TsbsBenchAssumption DEF Fetch, DetachedOK, DrainState, NoDrain,
       Unknown, NoRun
  <2>2. /\ loader' \in [Jobs -> {"none", "running", "done", "failed"}]
        /\ script' \in [Jobs -> {"none", "verify", "pass", "answered", "refused", "touch",
                                 "done", "failed"}]
    BY <1>b, <1>13 DEF Fetch, DetachedOK, procs
  <2>3. out' \in [Scales -> OnBox]
    BY <1>b, <1>13 DEF Fetch, DetachedOK
  <2>4. local' \in [Scales -> Fetchable]
    <3> DEFINE box == out[Scale]
               here == local[Scale]
               log == IF box.log.of # NoRun THEN box.log ELSE here.log
               json == IF box.json # NoRun THEN [of |-> box.json, ok |-> TRUE]
                       ELSE ResultKept(here.json, log)
    <3>1. local \in [Scales -> Fetchable]
      BY <1>b DEF DetachedOK, Fetchable
    <3>2. box \in OnBox /\ here \in Fetchable
      BY <1>b, <2>0, <3>1 DEF DetachedOK
    <3>3. log \in Result
      BY <3>2 DEF OnBox, Fetchable
    <3>4. json \in Result
      BY <3>2, <3>3 DEF OnBox, Fetchable, Result, ResultKept
    <3>5. local' = [local EXCEPT ![Scale].json = json, ![Scale].log = log]
      BY <1>13 DEF Fetch
    <3> HIDE DEF json, log
    <3>6. [here EXCEPT !.json = json, !.log = log] \in Fetchable
      BY <3>2, <3>3, <3>4 DEF Fetchable
    <3>7. local' = [local EXCEPT ![Scale] = [here EXCEPT !.json = json, !.log = log]]
      BY <3>5
    <3> QED
      BY <2>0, <3>1, <3>6, <3>7
  <2> QED
    BY <1>b, <2>1, <2>2, <2>3, <2>4 DEF DetachedOK, Fetchable
<1>14. CASE Die
  <2>1. UNCHANGED <<procs, out, local>> /\ drain' = NoDrain
    BY <1>14 DEF Die
  <2> QED
    BY <1>a, <1>b, <2>1 DEF DetachedOK, DrainState, NoDrain, procs
<1>15. CASE UNCHANGED vars
  BY <1>a, <1>b, <1>15 DEF DetachedOK, DrainState, vars
<1>16. ASSUME NEW r \in Runs, NEW s \in Scales,
             \/ TestData(r, s) \/ CreateData(r, s) \/ FinishData(r, s) \/ MoveData(r, s)
             \/ TestQueries(r, s) \/ FinishQueries(r, s) \/ GenFails(r, s)
             \/ LoaderReports(r, s) \/ StartPass(r, s) \/ PassAnswered(r, s)
             \/ PassRefused(r, s) \/ KeepLog(r, s) \/ TouchDone(r, s)
             \/ DetachedFails(r, s)
      PROVE  DetachedOK'
  <2>1. CASE TestData(r, s)
    BY <1>b, <2>1 DEF DetachedOK, TestData, GenStep, genFiles
  <2>2. CASE CreateData(r, s)
    BY <1>b, <2>2 DEF DetachedOK, CreateData, GenStep, OutputOpened
  <2>3. CASE FinishData(r, s)
    BY <1>b, <2>3 DEF DetachedOK, FinishData, GenStep
  <2>4. CASE MoveData(r, s)
    BY <1>b, <2>4 DEF DetachedOK, MoveData, GenStep
  <2>5. CASE TestQueries(r, s)
    BY <1>b, <2>5 DEF DetachedOK, TestQueries, GenStep
  <2>6. CASE FinishQueries(r, s)
    BY <1>b, <2>6 DEF DetachedOK, FinishQueries, GenStep
  <2>7. CASE GenFails(r, s)
    BY <1>b, <2>7 DEF DetachedOK, GenFails, GenStep, genFiles
  <2>8. CASE LoaderReports(r, s)
    <3>1. UNCHANGED <<drain, local>>
      BY <2>8 DEF LoaderReports, BoxStep
    <3>2. /\ loader' \in [Jobs -> {"none", "running", "done", "failed"}]
          /\ script' \in [Jobs -> {"none", "verify", "pass", "answered", "refused", "touch",
                                   "done", "failed"}]
      BY <1>b, <2>8 DEF LoaderReports, BoxStep, DetachedOK
    <3>3. out' \in [Scales -> OnBox]
      <4>1. out[s] \in OnBox
        BY <1>b DEF DetachedOK
      <4>2. [out[s] EXCEPT !.load = r] \in OnBox
        BY <1>a, <4>1 DEF OnBox, Runs, NoRun
      <4>3. out' = [out EXCEPT ![s] = [out[s] EXCEPT !.load = r]]
        BY <2>8 DEF LoaderReports, SummaryRemoved
      <4> QED
        BY <1>b, <4>2, <4>3 DEF DetachedOK
    <3> QED
      BY <1>b, <3>1, <3>2, <3>3 DEF DetachedOK
  <2>9. CASE StartPass(r, s)
    <3>1. UNCHANGED <<drain, local>>
      BY <2>9 DEF StartPass, BoxStep, ScriptStep
    <3>2. /\ loader' \in [Jobs -> {"none", "running", "done", "failed"}]
          /\ script' \in [Jobs -> {"none", "verify", "pass", "answered", "refused", "touch",
                                   "done", "failed"}]
      BY <1>b, <2>9 DEF StartPass, BoxStep, ScriptStep, DetachedOK
    <3>3. out' \in [Scales -> OnBox]
      <4>1. out[s] \in OnBox
        BY <1>b DEF DetachedOK
      <4>2. [out[s] EXCEPT !.json = NoRun] \in OnBox
        BY <1>a, <4>1 DEF OnBox, Runs, NoRun
      <4>3. out' = [out EXCEPT ![s] = [out[s] EXCEPT !.json = NoRun]]
        BY <2>9 DEF StartPass, SummaryRemoved
      <4> QED
        BY <1>b, <4>2, <4>3 DEF DetachedOK
    <3> QED
      BY <1>b, <3>1, <3>2, <3>3 DEF DetachedOK
  <2>10. CASE PassAnswered(r, s)
    <3>1. UNCHANGED <<drain, local>>
      BY <2>10 DEF PassAnswered, BoxStep, ScriptStep
    <3>2. /\ loader' \in [Jobs -> {"none", "running", "done", "failed"}]
          /\ script' \in [Jobs -> {"none", "verify", "pass", "answered", "refused", "touch",
                                   "done", "failed"}]
      BY <1>b, <2>10 DEF PassAnswered, BoxStep, ScriptStep, DetachedOK
    <3>3. out' \in [Scales -> OnBox]
      <4>1. out[s] \in OnBox
        BY <1>b DEF DetachedOK
      <4>2. [out[s] EXCEPT !.json = r] \in OnBox
        BY <1>a, <4>1 DEF OnBox, Runs, NoRun
      <4>3. out' = [out EXCEPT ![s] = [out[s] EXCEPT !.json = r]]
        BY <2>10 DEF PassAnswered, SummaryRemoved
      <4> QED
        BY <1>b, <4>2, <4>3 DEF DetachedOK
    <3> QED
      BY <1>b, <3>1, <3>2, <3>3 DEF DetachedOK
  <2>11. CASE PassRefused(r, s)
    BY <1>b, <2>11 DEF DetachedOK, PassRefused, BoxStep, ScriptStep
  <2>12. CASE KeepLog(r, s)
    <3>1. UNCHANGED <<drain, local>>
      BY <2>12 DEF KeepLog, BoxStep, ScriptStep
    <3>2. /\ loader' \in [Jobs -> {"none", "running", "done", "failed"}]
          /\ script' \in [Jobs -> {"none", "verify", "pass", "answered", "refused", "touch",
                                   "done", "failed"}]
      BY <1>b, <2>12 DEF KeepLog, BoxStep, ScriptStep, DetachedOK
    <3>3. out' \in [Scales -> OnBox]
      <4>1. PICK end \in {"answered", "refused"} :
                out' = [out EXCEPT ![s].log = [of |-> r, ok |-> end = "answered"]]
        BY <2>12 DEF KeepLog
      <4> DEFINE log == [of |-> r, ok |-> end = "answered"]
      <4>2. log \in Result
        BY <1>a DEF Result, Runs
      <4>3. out[s] \in OnBox
        BY <1>b DEF DetachedOK
      <4> HIDE DEF log
      <4>4. [out[s] EXCEPT !.log = log] \in OnBox
        BY <4>2, <4>3 DEF OnBox
      <4>5. out' = [out EXCEPT ![s] = [out[s] EXCEPT !.log = log]]
        BY <4>1 DEF log
      <4> QED
        BY <1>b, <4>4, <4>5 DEF DetachedOK
    <3> QED
      BY <1>b, <3>1, <3>2, <3>3 DEF DetachedOK
  <2>13. CASE TouchDone(r, s)
    <3>1. UNCHANGED <<drain, local>>
      BY <2>13 DEF TouchDone, BoxStep, ScriptStep
    <3>2. /\ loader' \in [Jobs -> {"none", "running", "done", "failed"}]
          /\ script' \in [Jobs -> {"none", "verify", "pass", "answered", "refused", "touch",
                                   "done", "failed"}]
      BY <1>b, <2>13 DEF TouchDone, BoxStep, ScriptStep, DetachedOK
    <3>3. out' \in [Scales -> OnBox]
      <4>1. out[s] \in OnBox
        BY <1>b DEF DetachedOK
      <4>2. [out[s] EXCEPT !.done = TRUE] \in OnBox
        BY <1>a, <4>1 DEF OnBox, Runs, NoRun
      <4>3. out' = [out EXCEPT ![s] = [out[s] EXCEPT !.done = TRUE]]
        BY <2>13 DEF TouchDone, SummaryRemoved
      <4> QED
        BY <1>b, <4>2, <4>3 DEF DetachedOK
    <3> QED
      BY <1>b, <3>1, <3>2, <3>3 DEF DetachedOK
  <2>14. CASE DetachedFails(r, s)
    BY <1>b, <2>14 DEF DetachedOK, DetachedFails, BoxStep, ScriptStep
  <2> QED
    BY <1>16, <2>1, <2>2, <2>3, <2>4, <2>5, <2>6, <2>7, <2>8, <2>9, <2>10, <2>11, <2>12, <2>13,
       <2>14
<1> QED
  BY <1>1, <1>2, <1>3, <1>4, <1>5, <1>6, <1>7, <1>8, <1>9, <1>10, <1>11, <1>12, <1>13, <1>14,
     <1>15, <1>16, NextCases

\* Every step preserves what the drain compares.
LEMMA DrainStep == DetachedOK /\ DrainInv /\ [Next]_vars => DrainInv'
<1> SUFFICES ASSUME DetachedOK, DrainInv, [Next]_vars PROVE DrainInv'
  OBVIOUS
<1> USE DEF DrainInv, DetachedOK, DrainState, NoDrain, Unknown, harness, genFiles, procs,
    faults, history
<1>1. CASE StartRun
  BY <1>1 DEF StartRun
<1>2. CASE TakeWindow
  BY <1>2 DEF TakeWindow, Goto
<1>3. CASE AllDone
  BY <1>3 DEF AllDone, Stop
<1>4. CASE GenReturned
  BY <1>4 DEF GenReturned, Goto, Stop, AfterGen, AfterLoad
<1>5. CASE Launch
  BY <1>5 DEF Launch, Goto
<1>6. CASE LoaderGone
  BY <1>6 DEF LoaderGone, Goto
<1>7. CASE ReadSummary
  BY <1>7 DEF ReadSummary, Goto, Stop
<1>8. CASE EndDrain
  <2>1. PICK files \in 0..MaxHot \cup {Unknown} :
           LET drained == files # Unknown /\ files <= Target(drain.baseline)
           IN  drain' = [drain EXCEPT !.files = files, !.limit = ~drained]
    BY <1>8 DEF EndDrain
  <2>2. /\ drain'.before = drain.before /\ drain'.baseline = drain.baseline /\ drain'.files = files
        /\ drain'.limit <=> ~(files # Unknown /\ files <= Target(drain.baseline))
    BY <2>1 DEF DetachedOK, DrainState
  <2>3. drain.baseline \in {drain.before, Unknown} /\ drain.before \in Nat /\ pc = "drain"
    BY <1>8 DEF EndDrain, Goto, DrainInv, DetachedOK, DrainState
  <2>4. files \in Int /\ Slack \in Nat
    BY TsbsBenchAssumption DEF Unknown
  <2>5. IF drain'.limit THEN Unknown \in {files, drain.baseline} \/ files > drain.before + Slack
        ELSE files <= drain.before + Slack
    <3>1. CASE drain.baseline = Unknown
      <4>1. Target(drain.baseline) = Slack
        BY <3>1 DEF Target
      <4> HIDE DEF Unknown
      <4> QED
        BY <2>2, <2>3, <2>4, <3>1, <4>1
    <3>2. CASE drain.baseline # Unknown
      <4>1. Target(drain.baseline) = drain.before + Slack
        BY <2>3, <3>2 DEF Target
      <4> HIDE DEF Unknown
      <4> QED
        BY <2>2, <2>3, <2>4, <3>2, <4>1
    <3> QED
      BY <3>1, <3>2
  <2> QED
    BY <2>2, <2>3, <2>5 DEF DrainInv
<1>9. CASE WriteReport
  BY <1>9 DEF WriteReport, Goto, AfterLoad
<1>10. CASE StartQueries
  BY <1>10 DEF StartQueries, Goto
<1>11. CASE PollQueries
  BY <1>11 DEF PollQueries, Goto
<1>12. CASE PollAgain
  BY <1>12 DEF PollAgain, vars
<1>13. CASE Fetch
  BY <1>13 DEF Fetch
<1>14. CASE Die
  BY <1>14 DEF Die, Stop
<1>15. CASE UNCHANGED vars
  BY <1>15 DEF vars
<1>16. ASSUME NEW r \in Runs, NEW s \in Scales,
             \/ TestData(r, s) \/ CreateData(r, s) \/ FinishData(r, s) \/ MoveData(r, s)
             \/ TestQueries(r, s) \/ FinishQueries(r, s) \/ GenFails(r, s)
             \/ LoaderReports(r, s) \/ StartPass(r, s) \/ PassAnswered(r, s)
             \/ PassRefused(r, s) \/ KeepLog(r, s) \/ TouchDone(r, s)
             \/ DetachedFails(r, s)
      PROVE  DrainInv'
  <2>1. CASE TestData(r, s)
    BY <2>1 DEF TestData, GenStep, genFiles
  <2>2. CASE CreateData(r, s)
    BY <2>2 DEF CreateData, GenStep, OutputOpened
  <2>3. CASE FinishData(r, s)
    BY <2>3 DEF FinishData, GenStep
  <2>4. CASE MoveData(r, s)
    BY <2>4 DEF MoveData, GenStep
  <2>5. CASE TestQueries(r, s)
    BY <2>5 DEF TestQueries, GenStep
  <2>6. CASE FinishQueries(r, s)
    BY <2>6 DEF FinishQueries, GenStep
  <2>7. CASE GenFails(r, s)
    BY <2>7 DEF GenFails, GenStep, genFiles
  <2>8. CASE LoaderReports(r, s)
    BY <2>8 DEF LoaderReports, BoxStep
  <2>9. CASE StartPass(r, s)
    BY <2>9 DEF StartPass, BoxStep, ScriptStep
  <2>10. CASE PassAnswered(r, s)
    BY <2>10 DEF PassAnswered, BoxStep, ScriptStep
  <2>11. CASE PassRefused(r, s)
    BY <2>11 DEF PassRefused, BoxStep, ScriptStep
  <2>12. CASE KeepLog(r, s)
    BY <2>12 DEF KeepLog, BoxStep, ScriptStep
  <2>13. CASE TouchDone(r, s)
    BY <2>13 DEF TouchDone, BoxStep, ScriptStep
  <2>14. CASE DetachedFails(r, s)
    BY <2>14 DEF DetachedFails, BoxStep, ScriptStep
  <2> QED
    BY <1>16, <2>1, <2>2, <2>3, <2>4, <2>5, <2>6, <2>7, <2>8, <2>9, <2>10, <2>11, <2>12, <2>13,
       <2>14
<1> QED
  BY <1>1, <1>2, <1>3, <1>4, <1>5, <1>6, <1>7, <1>8, <1>9, <1>10, <1>11, <1>12, <1>13, <1>14,
     <1>15, <1>16, NextCases

\* Every step preserves whose summary a report is made of.
LEMMA LoadStep ==
    HarnessOK /\ ControlInv /\ DetachedOK /\ OwnInv /\ LoadInv /\ [Next]_vars => LoadInv'
<1> SUFFICES ASSUME HarnessOK, ControlInv, DetachedOK, OwnInv, LoadInv, [Next]_vars
             PROVE  LoadInv'
  OBVIOUS
<1> USE DEF HarnessOK, ControlInv, DetachedOK, OwnInv, LoadInv, OnBox, Scale, Job, Jobs, Runs,
    harness, genFiles, procs, faults, history
<1>1. CASE StartRun
  BY <1>1 DEF StartRun
<1>2. CASE TakeWindow
  BY <1>2 DEF TakeWindow, Goto
<1>3. CASE AllDone
  BY <1>3 DEF AllDone, Stop
<1>4. CASE GenReturned
  BY <1>4 DEF GenReturned, Goto, Stop, AfterGen, AfterLoad
<1>5. CASE Launch
  <2>1. Scale \in Scales /\ UNCHANGED <<run, todo, local, cut>> /\ pc' = "poll_load"
    BY <1>5 DEF Launch, Goto
  <2>2. out' = [out EXCEPT ![Scale].load = NoRun]
    BY <1>5 DEF Launch, SummaryRemoved
  <2>3. out'[Scale].load = NoRun
    BY <2>1, <2>2
  <2> QED
    BY <2>1, <2>3
<1>6. CASE LoaderGone
  BY <1>6 DEF LoaderGone, Goto
<1>7. CASE ReadSummary
  <2>1. CASE Stop
    BY <2>1, <1>7 DEF Stop, ReadSummary
  <2>2. CASE ~SummaryMissing(Scale)
    <3>1. drain'.source = out[Scale].load /\ out[Scale].load # NoRun
      BY <2>2, <1>7 DEF ReadSummary, SummaryMissing, DrainState
    <3> QED
      BY <2>2, <3>1, <1>7 DEF ReadSummary, Goto
  <2> QED
    BY <1>7, <2>1, <2>2 DEF ReadSummary
<1>8. CASE EndDrain
  BY <1>8 DEF EndDrain, Goto
<1>9. CASE WriteReport
  BY <1>9 DEF WriteReport, Goto, AfterLoad
<1>10. CASE StartQueries
  BY <1>10 DEF StartQueries, Goto
<1>11. CASE PollQueries
  BY <1>11 DEF PollQueries, Goto
<1>12. CASE PollAgain
  BY <1>12 DEF PollAgain, vars
<1>13. CASE Fetch
  <2>1. \A s \in Scales : local'[s].load = local[s].load
    BY <1>13 DEF Fetch
  <2>2. pc' = "window" /\ UNCHANGED cut
    BY <1>13 DEF Fetch
  <2> QED
    BY <2>1, <2>2
<1>14. CASE Die
  BY <1>14 DEF Die, Stop
<1>15. CASE UNCHANGED vars
  BY <1>15 DEF vars
<1>16. ASSUME NEW r \in Runs, NEW s \in Scales,
             \/ TestData(r, s) \/ CreateData(r, s) \/ FinishData(r, s) \/ MoveData(r, s)
             \/ TestQueries(r, s) \/ FinishQueries(r, s) \/ GenFails(r, s)
             \/ LoaderReports(r, s) \/ StartPass(r, s) \/ PassAnswered(r, s)
             \/ PassRefused(r, s) \/ KeepLog(r, s) \/ TouchDone(r, s)
             \/ DetachedFails(r, s)
      PROVE  LoadInv'
  <2>1. CASE TestData(r, s)
    BY <2>1 DEF TestData, GenStep, genFiles
  <2>2. CASE CreateData(r, s)
    BY <2>2 DEF CreateData, GenStep, OutputOpened
  <2>3. CASE FinishData(r, s)
    BY <2>3 DEF FinishData, GenStep
  <2>4. CASE MoveData(r, s)
    BY <2>4 DEF MoveData, GenStep
  <2>5. CASE TestQueries(r, s)
    BY <2>5 DEF TestQueries, GenStep
  <2>6. CASE FinishQueries(r, s)
    BY <2>6 DEF FinishQueries, GenStep
  <2>7. CASE GenFails(r, s)
    BY <2>7 DEF GenFails, GenStep, genFiles
  <2>8. CASE LoaderReports(r, s)
    BY <2>8 DEF LoaderReports, BoxStep
  <2>9. CASE StartPass(r, s)
    BY <2>9 DEF StartPass, BoxStep, ScriptStep
  <2>10. CASE PassAnswered(r, s)
    BY <2>10 DEF PassAnswered, BoxStep, ScriptStep
  <2>11. CASE PassRefused(r, s)
    BY <2>11 DEF PassRefused, BoxStep, ScriptStep
  <2>12. CASE KeepLog(r, s)
    BY <2>12 DEF KeepLog, BoxStep, ScriptStep
  <2>13. CASE TouchDone(r, s)
    BY <2>13 DEF TouchDone, BoxStep, ScriptStep
  <2>14. CASE DetachedFails(r, s)
    BY <2>14 DEF DetachedFails, BoxStep, ScriptStep
  <2> QED
    BY <1>16, <2>1, <2>2, <2>3, <2>4, <2>5, <2>6, <2>7, <2>8, <2>9, <2>10, <2>11, <2>12, <2>13,
       <2>14
<1> QED
  BY <1>1, <1>2, <1>3, <1>4, <1>5, <1>6, <1>7, <1>8, <1>9, <1>10, <1>11, <1>12, <1>13, <1>14,
     <1>15, <1>16, NextCases

\* What a step has to leave alone while no script is at work and nothing is fetched.
SameResults ==
    /\ \A s \in Scales : /\ out'[s].json = out[s].json /\ out'[s].log = out[s].log
                        /\ local'[s].json = local[s].json /\ local'[s].log = local[s].log

\* A step that leaves scripts and results alone, of a run that awaits none, preserves
\* the invariant on queries.
LEMMA NoQueries ==
    ASSUME QueryInv, DetachedOK, run \in Nat, pc \notin {"poll_query", "fetch"},
           pc' # "poll_query", script' = script, run' \in {run, run + 1}, SameResults
    PROVE  QueryInv'
<1>1. ASSUME NEW r \in Runs, NEW s \in Scales PROVE ScriptInv(r, s)'
  <2>1. ScriptInv(r, s)
    BY DEF QueryInv
  <2> QED
    BY <2>1 DEF ScriptInv, SameResults, Querying
<1>2. ASSUME NEW s \in Scales PROVE ResultInv(s)'
  <2>1. ResultInv(s) /\ out[s] \in OnBox
    BY DEF QueryInv, DetachedOK
  <2>2. Fetched(s)'
    BY <2>1 DEF ResultInv, Fetched, SameResults
  <2> QED
    BY <2>1, <2>2 DEF ResultInv, SameResults, OnBox, Result
<1> QED
  BY <1>1, <1>2 DEF QueryInv

\* What a step of another process leaves alone.
LEMMA OtherProcess ==
    ASSUME QueryInv, UNCHANGED <<harness, script>>, SameResults,
           \A s \in Scales : out'[s].done = out[s].done,
           pc = "poll_query" => Scale \in Scales
    PROVE  QueryInv'
<1>1. UNCHANGED <<pc, run, todo, Scale, Job>>
  BY DEF harness, Scale, Job
<1>2. ASSUME NEW r \in Runs, NEW s \in Scales PROVE ScriptInv(r, s)'
  <2>1. ScriptInv(r, s)
    BY DEF QueryInv
  <2> QED
    BY <1>1, <2>1 DEF ScriptInv, SameResults
<1>3. ASSUME NEW s \in Scales PROVE ResultInv(s)'
  <2>1. ResultInv(s)
    BY DEF QueryInv
  <2> QED
    BY <1>1, <2>1 DEF ResultInv, SameResults, Fetched, OnTheBox
<1> QED
  BY <1>1, <1>2, <1>3 DEF QueryInv

\* A step of the script is one of the current run's, on the current scale.
LEMMA ScriptMoves ==
    ASSUME QueryInv, DetachedOK, NEW r \in Runs, NEW s \in Scales,
           NEW from \in Querying \cup {"touch"}, NEW to, ScriptStep(r, s, from, to)
    PROVE  /\ r = run /\ s = Scale /\ pc = "poll_query" /\ Job = <<r, s>>
           /\ script[<<r, s>>] = from /\ script'[<<r, s>>] = to /\ ~out[s].done
           /\ \A q \in Runs, t \in Scales : q # r \/ t # s =>
                    /\ script'[<<q, t>>] = script[<<q, t>>]
                    /\ script[<<q, t>>] \notin Querying \cup {"touch"}
           /\ UNCHANGED <<pc, run, todo, local, Scale, Job>>
<1>1. script[<<r, s>>] = from
  BY DEF ScriptStep
<1>2. r = run /\ s = Scale /\ pc = "poll_query" /\ Job = <<r, s>>
  BY <1>1 DEF QueryInv, ScriptInv, Job
<1>3. ~out[s].done
  BY <1>1, <1>2 DEF QueryInv, Querying
<1>4. UNCHANGED <<pc, run, todo, local, Scale, Job>>
  BY DEF ScriptStep, BoxStep, harness, Scale, Job
<1>5. script' = [script EXCEPT ![<<r, s>>] = to]
  BY DEF ScriptStep
<1>6. script'[<<r, s>>] = to
  BY <1>5 DEF DetachedOK, Jobs
<1>7. ASSUME NEW q \in Runs, NEW t \in Scales, q # r \/ t # s
      PROVE  /\ script'[<<q, t>>] = script[<<q, t>>]
             /\ script[<<q, t>>] \notin Querying \cup {"touch"}
  <2>1. ScriptInv(q, t)
    BY DEF QueryInv
  <2> QED
    BY <1>2, <1>5, <1>7, <2>1 DEF DetachedOK, Jobs, ScriptInv
<1> QED
  BY <1>1, <1>2, <1>3, <1>4, <1>6, <1>7

\* While no run dies, every step keeps what has been fetched together.
LEMMA QueryStep ==
    HarnessOK /\ ControlInv /\ DetachedOK /\ QueryInv /\ cut' = {} /\ [Next]_vars => QueryInv'
<1> SUFFICES ASSUME HarnessOK, ControlInv, DetachedOK, QueryInv, cut' = {}, [Next]_vars
             PROVE  QueryInv'
  OBVIOUS
<1>a. HarnessOK /\ ControlInv /\ DetachedOK /\ QueryInv /\ cut' = {}
  OBVIOUS
<1> USE DEF genFiles, faults, history
<1>1. CASE StartRun
  <2>1. /\ pc \notin {"poll_query", "fetch"} /\ pc' # "poll_query"
        /\ script' = script /\ run' \in {run, run + 1}
    BY <1>a, <1>1 DEF StartRun, harness, procs
  <2>2. SameResults
    BY <1>a, <1>1 DEF StartRun, SameResults, DetachedOK
  <2> QED
    BY <1>a, <2>1, <2>2, NoQueries DEF HarnessOK
<1>2. CASE TakeWindow
  <2>1. /\ pc \notin {"poll_query", "fetch"} /\ pc' # "poll_query"
        /\ script' = script /\ run' \in {run, run + 1}
    BY <1>a, <1>2 DEF TakeWindow, Goto, harness, procs
  <2>2. SameResults
    BY <1>a, <1>2 DEF TakeWindow, Goto, SameResults, DetachedOK
  <2> QED
    BY <1>a, <2>1, <2>2, NoQueries DEF HarnessOK
<1>3. CASE AllDone
  <2>1. /\ pc \notin {"poll_query", "fetch"} /\ pc' # "poll_query"
        /\ script' = script /\ run' \in {run, run + 1}
    BY <1>a, <1>3 DEF AllDone, Stop, harness, procs
  <2>2. SameResults
    BY <1>a, <1>3 DEF AllDone, Stop, SameResults, DetachedOK
  <2> QED
    BY <1>a, <2>1, <2>2, NoQueries DEF HarnessOK
<1>4. CASE GenReturned
  <2>1. /\ pc \notin {"poll_query", "fetch"} /\ pc' # "poll_query"
        /\ script' = script /\ run' \in {run, run + 1}
    BY <1>a, <1>4 DEF GenReturned, Goto, Stop, AfterGen, AfterLoad, harness, procs
  <2>2. SameResults
    BY <1>a, <1>4 DEF GenReturned, Goto, Stop, AfterGen, AfterLoad, SameResults, DetachedOK
  <2> QED
    BY <1>a, <2>1, <2>2, NoQueries DEF HarnessOK
<1>5. CASE Launch
  <2>1. /\ pc \notin {"poll_query", "fetch"} /\ pc' # "poll_query"
        /\ script' = script /\ run' \in {run, run + 1}
    BY <1>a, <1>5 DEF Launch, Goto, harness, procs
  <2>2. SameResults
    BY <1>a, <1>5 DEF Launch, Goto, SameResults, DetachedOK
  <2> QED
    BY <1>a, <2>1, <2>2, NoQueries DEF HarnessOK
<1>6. CASE LoaderGone
  <2>1. /\ pc \notin {"poll_query", "fetch"} /\ pc' # "poll_query"
        /\ script' = script /\ run' \in {run, run + 1}
    BY <1>a, <1>6 DEF LoaderGone, Goto, harness, procs
  <2>2. SameResults
    BY <1>a, <1>6 DEF LoaderGone, Goto, SameResults, DetachedOK
  <2> QED
    BY <1>a, <2>1, <2>2, NoQueries DEF HarnessOK
<1>7. CASE ReadSummary
  <2>1. /\ pc \notin {"poll_query", "fetch"} /\ pc' # "poll_query"
        /\ script' = script /\ run' \in {run, run + 1}
    BY <1>a, <1>7 DEF ReadSummary, Goto, Stop, harness, procs
  <2>2. SameResults
    BY <1>a, <1>7 DEF ReadSummary, Goto, Stop, SameResults, DetachedOK
  <2> QED
    BY <1>a, <2>1, <2>2, NoQueries DEF HarnessOK
<1>8. CASE EndDrain
  <2>1. /\ pc \notin {"poll_query", "fetch"} /\ pc' # "poll_query"
        /\ script' = script /\ run' \in {run, run + 1}
    BY <1>a, <1>8 DEF EndDrain, Goto, harness, procs
  <2>2. SameResults
    BY <1>a, <1>8 DEF EndDrain, Goto, SameResults, DetachedOK
  <2> QED
    BY <1>a, <2>1, <2>2, NoQueries DEF HarnessOK
<1>9. CASE WriteReport
  <2>1. /\ pc \notin {"poll_query", "fetch"} /\ pc' # "poll_query"
        /\ script' = script /\ run' \in {run, run + 1}
    BY <1>a, <1>9 DEF WriteReport, Goto, AfterLoad, harness, procs
  <2>2. SameResults
    BY <1>a, <1>9 DEF WriteReport, Goto, AfterLoad, SameResults, DetachedOK
  <2> QED
    BY <1>a, <2>1, <2>2, NoQueries DEF HarnessOK
<1>10. CASE StartQueries
  <2>1. /\ Scale \in Scales /\ run \in Runs /\ pc = "query" /\ pc' = "poll_query"
        /\ UNCHANGED <<run, todo, local, Scale, Job>>
    BY <1>a, <1>10 DEF StartQueries, Goto, ControlInv, Scale, Job
  <2>2. /\ out'[Scale].done = FALSE /\ script'[Job] = "verify"
        /\ \A s \in Scales : out'[s].json = out[s].json /\ out'[s].log = out[s].log
        /\ \A r \in Runs, s \in Scales : <<r, s>> # Job => script'[<<r, s>>] = script[<<r, s>>]
    BY <1>a, <2>1, <1>10 DEF StartQueries, DetachedOK, OnBox, Jobs, Job
  <2>3. ASSUME NEW r \in Runs, NEW s \in Scales PROVE ScriptInv(r, s)'
    <3>1. ScriptInv(r, s)
      BY <1>a DEF QueryInv
    <3> QED
      BY <2>1, <2>2, <3>1 DEF ScriptInv, Job, Querying
  <2>4. ASSUME NEW s \in Scales PROVE ResultInv(s)'
    <3>1. ResultInv(s)
      BY <1>a DEF QueryInv
    <3> QED
      BY <2>1, <2>2, <3>1 DEF ResultInv, Fetched
  <2> QED
    BY <2>1, <2>2, <2>3, <2>4 DEF QueryInv
<1>11. CASE PollQueries
  <2>1. /\ Scale \in Scales /\ run \in Runs /\ pc = "poll_query" /\ pc' = "fetch"
        /\ UNCHANGED <<run, script, local, out, Scale, Job>>
    BY <1>a, <1>11 DEF PollQueries, Goto, ControlInv, Scale, Job, procs
  <2>2. script[Job] \in {"done", "failed"}
    BY <1>a, <2>1, <1>11 DEF PollQueries, QueriesOver, QueryInv
  <2>3. ASSUME NEW r \in Runs, NEW s \in Scales PROVE ScriptInv(r, s)'
    <3>1. ScriptInv(r, s)
      BY <1>a DEF QueryInv
    <3> QED
      BY <2>1, <2>2, <3>1 DEF ScriptInv, Job, Querying
  <2>4. ASSUME NEW s \in Scales PROVE ResultInv(s)'
    <3>1. ResultInv(s)
      BY <1>a DEF QueryInv
    <3> QED
      BY <2>1, <3>1 DEF ResultInv, Fetched, OnTheBox
  <2> QED
    BY <2>1, <2>3, <2>4 DEF QueryInv
<1>12. CASE PollAgain
  <2>1. UNCHANGED <<harness, script>> /\ SameResults
        /\ \A t \in Scales : out'[t].done = out[t].done
    BY <1>a, <1>12 DEF PollAgain, vars, procs, SameResults, DetachedOK
  <2> QED
    BY <1>a, <2>1, OtherProcess DEF ControlInv
<1>13. CASE Fetch
  <2>1. /\ Scale \in Scales /\ pc = "fetch" /\ pc' = "window" /\ UNCHANGED <<run, script, out>>
    BY <1>a, <1>13 DEF Fetch, ControlInv, procs
  <2>2. ASSUME NEW r \in Runs, NEW s \in Scales PROVE ScriptInv(r, s)'
    <3>1. ScriptInv(r, s)
      BY <1>a DEF QueryInv
    <3> QED
      BY <2>1, <3>1 DEF ScriptInv, Querying
  <2>3. ASSUME NEW s \in Scales, s # Scale PROVE ResultInv(s)'
    <3>1. ResultInv(s) /\ Fetched(s)
      BY <1>a, <2>3 DEF QueryInv, ResultInv
    <3>2. local'[s] = local[s]
      BY <1>a, <2>3, <1>13 DEF Fetch, DetachedOK
    <3> QED
      BY <2>1, <3>1, <3>2 DEF ResultInv, Fetched
  <2>4. ASSUME NEW s \in Scales, s = Scale PROVE ResultInv(s)'
    <3> DEFINE box == out[s]
               here == local[s]
               log == IF box.log.of # NoRun THEN box.log ELSE here.log
               json == IF box.json # NoRun THEN [of |-> box.json, ok |-> TRUE]
                       ELSE ResultKept(here.json, log)
    <3>1. ResultInv(s) /\ out[s] \in OnBox /\ local[s].json \in Result /\ run \in Nat
      BY <1>a DEF QueryInv, DetachedOK, HarnessOK
    <3>2. /\ box.json \in Nat /\ box.log.of \in Nat /\ here.json.of \in Nat
          /\ box.log.ok \in BOOLEAN
      BY <3>1 DEF OnBox, Result
    <3>3. local'[s].log = log /\ local'[s].json = json
      BY <1>a, <2>4, <1>13 DEF Fetch, DetachedOK
    <3>4. CASE box.log.of = NoRun
      <4>1. log = Absent /\ here.json.ok /\ box.log.ok
        BY <3>1, <3>4 DEF ResultInv
      <4>2. json.ok /\ json.of \in Nat
        BY <3>2, <4>1 DEF ResultKept, Absent, NoRun
      <4> HIDE DEF json, log
      <4> QED
        BY <2>1, <3>1, <3>2, <3>3, <3>4, <4>1, <4>2 DEF ResultInv, Fetched, Absent, NoRun
    <3>5. CASE box.log.of # NoRun
      <4>1. log = box.log
        BY <3>5
      <4>2. box.log.ok => json.ok /\ json.of >= box.log.of
        <5>1. CASE box.json # NoRun
          BY <3>1, <5>1 DEF ResultInv
        <5>2. CASE box.json = NoRun
          <6>1. box.log.ok => here.json.ok /\ here.json.of >= box.log.of
            BY <3>1, <5>2 DEF ResultInv, Fetched, OnTheBox
          <6> QED
            BY <3>2, <3>5, <5>2, <6>1 DEF ResultKept, NoRun
        <5> QED
          BY <5>1, <5>2
      <4> HIDE DEF json, log
      <4> QED
        BY <2>1, <3>1, <3>2, <3>3, <3>5, <4>1, <4>2 DEF ResultInv, Fetched
    <3> QED
      BY <3>4, <3>5
  <2> QED
    BY <2>1, <2>2, <2>3, <2>4 DEF QueryInv
<1>14. CASE Die
  <2> QED
    BY <1>a, <1>14 DEF Die
<1>15. CASE UNCHANGED vars
  <2>1. UNCHANGED <<harness, script, out, local>>
    BY <1>15 DEF vars, procs
  <2> QED
    BY <1>a, <2>1, OtherProcess DEF SameResults, ControlInv
<1>16. ASSUME NEW r \in Runs, NEW s \in Scales,
             \/ TestData(r, s) \/ CreateData(r, s) \/ FinishData(r, s) \/ MoveData(r, s)
             \/ TestQueries(r, s) \/ FinishQueries(r, s) \/ GenFails(r, s)
             \/ LoaderReports(r, s) \/ StartPass(r, s) \/ PassAnswered(r, s)
             \/ PassRefused(r, s) \/ KeepLog(r, s) \/ TouchDone(r, s)
             \/ DetachedFails(r, s)
      PROVE  QueryInv'
  <2>1. CASE TestData(r, s)
    <3>1. UNCHANGED <<harness, script>> /\ SameResults
          /\ \A t \in Scales : out'[t].done = out[t].done
      BY <1>a, <2>1 DEF TestData, GenStep, genFiles, SameResults, DetachedOK
    <3> QED
      BY <1>a, <3>1, OtherProcess DEF ControlInv
  <2>2. CASE CreateData(r, s)
    <3>1. UNCHANGED <<harness, script>> /\ SameResults
          /\ \A t \in Scales : out'[t].done = out[t].done
      BY <1>a, <2>2 DEF CreateData, GenStep, OutputOpened, SameResults, DetachedOK
    <3> QED
      BY <1>a, <3>1, OtherProcess DEF ControlInv
  <2>3. CASE FinishData(r, s)
    <3>1. UNCHANGED <<harness, script>> /\ SameResults
          /\ \A t \in Scales : out'[t].done = out[t].done
      BY <1>a, <2>3 DEF FinishData, GenStep, SameResults, DetachedOK
    <3> QED
      BY <1>a, <3>1, OtherProcess DEF ControlInv
  <2>4. CASE MoveData(r, s)
    <3>1. UNCHANGED <<harness, script>> /\ SameResults
          /\ \A t \in Scales : out'[t].done = out[t].done
      BY <1>a, <2>4 DEF MoveData, GenStep, SameResults, DetachedOK
    <3> QED
      BY <1>a, <3>1, OtherProcess DEF ControlInv
  <2>5. CASE TestQueries(r, s)
    <3>1. UNCHANGED <<harness, script>> /\ SameResults
          /\ \A t \in Scales : out'[t].done = out[t].done
      BY <1>a, <2>5 DEF TestQueries, GenStep, SameResults, DetachedOK
    <3> QED
      BY <1>a, <3>1, OtherProcess DEF ControlInv
  <2>6. CASE FinishQueries(r, s)
    <3>1. UNCHANGED <<harness, script>> /\ SameResults
          /\ \A t \in Scales : out'[t].done = out[t].done
      BY <1>a, <2>6 DEF FinishQueries, GenStep, SameResults, DetachedOK
    <3> QED
      BY <1>a, <3>1, OtherProcess DEF ControlInv
  <2>7. CASE GenFails(r, s)
    <3>1. UNCHANGED <<harness, script>> /\ SameResults
          /\ \A t \in Scales : out'[t].done = out[t].done
      BY <1>a, <2>7 DEF GenFails, GenStep, genFiles, SameResults, DetachedOK
    <3> QED
      BY <1>a, <3>1, OtherProcess DEF ControlInv
  <2>8. CASE LoaderReports(r, s)
    <3>1. UNCHANGED <<harness, script>> /\ SameResults
          /\ \A t \in Scales : out'[t].done = out[t].done
      BY <1>a, <2>8 DEF LoaderReports, BoxStep, SameResults, DetachedOK
    <3> QED
      BY <1>a, <3>1, OtherProcess DEF ControlInv
  <2>9. CASE StartPass(r, s)
    <3>1. PICK from \in {"verify"} : \E to : ScriptStep(r, s, from, to)
      BY <2>9 DEF StartPass
    <3>2. PICK to : ScriptStep(r, s, from, to)
      BY <3>1
    <3>3. from \in Querying \cup {"touch"}
      BY <3>1 DEF Querying
    <3>4. /\ r = run /\ s = Scale /\ pc = "poll_query" /\ Job = <<r, s>>
          /\ script[<<r, s>>] = from /\ script'[<<r, s>>] = to /\ ~out[s].done
          /\ \A q \in Runs, t \in Scales : q # r \/ t # s =>
                   /\ script'[<<q, t>>] = script[<<q, t>>]
                   /\ script[<<q, t>>] \notin Querying \cup {"touch"}
          /\ UNCHANGED <<pc, run, todo, local, Scale, Job>>
      BY <1>a, <3>2, <3>3, ScriptMoves
    <3>5. /\ \A t \in Scales : t # s => out'[t] = out[t]
          /\ out'[s].log = out[s].log
          /\ out'[s].done = out[s].done
          /\ out'[s].json = NoRun
      BY <1>a, <3>1, <3>2, <2>9 DEF StartPass, BoxStep, ScriptStep, DetachedOK, OnBox
    <3>6. /\ to \in {"pass"}
          /\ script[<<r, s>>] \in {"verify"}
      <4>1. <<r, s>> \in Jobs
        BY DEF Jobs
      <4>2. script'[<<r, s>>] \in {"pass"}
        BY <1>a, <4>1, <2>9 DEF StartPass, BoxStep, ScriptStep, DetachedOK
      <4> QED
        BY <3>1, <3>4, <4>2
    <3>7. ASSUME NEW q \in Runs, NEW t \in Scales PROVE ScriptInv(q, t)'
      <4>1. ScriptInv(q, t)
        BY <1>a DEF QueryInv
      <4> QED
        BY <3>4, <3>5, <3>6, <4>1 DEF ScriptInv, Querying
    <3>8. ASSUME NEW t \in Scales PROVE ResultInv(t)'
      <4>1. ResultInv(t) /\ out[t] \in OnBox /\ run \in Nat
        BY <1>a DEF QueryInv, DetachedOK, HarnessOK
      <4>2. CASE t # s
        BY <3>4, <3>5, <4>1, <4>2 DEF ResultInv, Fetched, OnTheBox
      <4>3. CASE t = s
        <5>1. ScriptInv(r, s)
          BY <1>a DEF QueryInv
        <5> QED
          BY <3>4, <3>5, <3>6, <4>1, <4>3, <5>1 DEF ResultInv, Fetched, OnTheBox, ScriptInv,
             OnBox, Result, NoRun, Querying, Runs
      <4> QED
        BY <4>2, <4>3
    <3> QED
      BY <3>4, <3>5, <3>6, <3>7, <3>8 DEF QueryInv
  <2>10. CASE PassAnswered(r, s)
    <3>1. PICK from \in {"pass"} : \E to : ScriptStep(r, s, from, to)
      BY <2>10 DEF PassAnswered
    <3>2. PICK to : ScriptStep(r, s, from, to)
      BY <3>1
    <3>3. from \in Querying \cup {"touch"}
      BY <3>1 DEF Querying
    <3>4. /\ r = run /\ s = Scale /\ pc = "poll_query" /\ Job = <<r, s>>
          /\ script[<<r, s>>] = from /\ script'[<<r, s>>] = to /\ ~out[s].done
          /\ \A q \in Runs, t \in Scales : q # r \/ t # s =>
                   /\ script'[<<q, t>>] = script[<<q, t>>]
                   /\ script[<<q, t>>] \notin Querying \cup {"touch"}
          /\ UNCHANGED <<pc, run, todo, local, Scale, Job>>
      BY <1>a, <3>2, <3>3, ScriptMoves
    <3>5. /\ \A t \in Scales : t # s => out'[t] = out[t]
          /\ out'[s].log = out[s].log
          /\ out'[s].done = out[s].done
          /\ out'[s].json = r
      BY <1>a, <3>1, <3>2, <2>10 DEF PassAnswered, BoxStep, ScriptStep, DetachedOK, OnBox
    <3>6. /\ to \in {"answered"}
          /\ script[<<r, s>>] \in {"pass"}
      <4>1. <<r, s>> \in Jobs
        BY DEF Jobs
      <4>2. script'[<<r, s>>] \in {"answered"}
        BY <1>a, <4>1, <2>10 DEF PassAnswered, BoxStep, ScriptStep, DetachedOK
      <4> QED
        BY <3>1, <3>4, <4>2
    <3>7. ASSUME NEW q \in Runs, NEW t \in Scales PROVE ScriptInv(q, t)'
      <4>1. ScriptInv(q, t)
        BY <1>a DEF QueryInv
      <4> QED
        BY <3>4, <3>5, <3>6, <4>1 DEF ScriptInv, Querying
    <3>8. ASSUME NEW t \in Scales PROVE ResultInv(t)'
      <4>1. ResultInv(t) /\ out[t] \in OnBox /\ run \in Nat
        BY <1>a DEF QueryInv, DetachedOK, HarnessOK
      <4>2. CASE t # s
        BY <3>4, <3>5, <4>1, <4>2 DEF ResultInv, Fetched, OnTheBox
      <4>3. CASE t = s
        <5>1. ScriptInv(r, s)
          BY <1>a DEF QueryInv
        <5> QED
          BY <3>4, <3>5, <3>6, <4>1, <4>3, <5>1 DEF ResultInv, Fetched, OnTheBox, ScriptInv,
             OnBox, Result, NoRun, Querying, Runs
      <4> QED
        BY <4>2, <4>3
    <3> QED
      BY <3>4, <3>5, <3>6, <3>7, <3>8 DEF QueryInv
  <2>11. CASE PassRefused(r, s)
    <3>1. PICK from \in {"pass"} : \E to : ScriptStep(r, s, from, to)
      BY <2>11 DEF PassRefused
    <3>2. PICK to : ScriptStep(r, s, from, to)
      BY <3>1
    <3>3. from \in Querying \cup {"touch"}
      BY <3>1 DEF Querying
    <3>4. /\ r = run /\ s = Scale /\ pc = "poll_query" /\ Job = <<r, s>>
          /\ script[<<r, s>>] = from /\ script'[<<r, s>>] = to /\ ~out[s].done
          /\ \A q \in Runs, t \in Scales : q # r \/ t # s =>
                   /\ script'[<<q, t>>] = script[<<q, t>>]
                   /\ script[<<q, t>>] \notin Querying \cup {"touch"}
          /\ UNCHANGED <<pc, run, todo, local, Scale, Job>>
      BY <1>a, <3>2, <3>3, ScriptMoves
    <3>5. out' = out
      BY <1>a, <3>1, <3>2, <2>11 DEF PassRefused, BoxStep, ScriptStep, DetachedOK, OnBox
    <3>6. /\ to \in {"refused"}
          /\ script[<<r, s>>] \in {"pass"}
      <4>1. <<r, s>> \in Jobs
        BY DEF Jobs
      <4>2. script'[<<r, s>>] \in {"refused"}
        BY <1>a, <4>1, <2>11 DEF PassRefused, BoxStep, ScriptStep, DetachedOK
      <4> QED
        BY <3>1, <3>4, <4>2
    <3>7. ASSUME NEW q \in Runs, NEW t \in Scales PROVE ScriptInv(q, t)'
      <4>1. ScriptInv(q, t)
        BY <1>a DEF QueryInv
      <4> QED
        BY <3>4, <3>5, <3>6, <4>1 DEF ScriptInv, Querying
    <3>8. ASSUME NEW t \in Scales PROVE ResultInv(t)'
      <4>1. ResultInv(t) /\ out[t] \in OnBox /\ run \in Nat
        BY <1>a DEF QueryInv, DetachedOK, HarnessOK
      <4>2. CASE t # s
        BY <3>4, <3>5, <4>1, <4>2 DEF ResultInv, Fetched, OnTheBox
      <4>3. CASE t = s
        <5>1. ScriptInv(r, s)
          BY <1>a DEF QueryInv
        <5> QED
          BY <3>4, <3>5, <3>6, <4>1, <4>3, <5>1 DEF ResultInv, Fetched, OnTheBox, ScriptInv,
             OnBox, Result, NoRun, Querying, Runs
      <4> QED
        BY <4>2, <4>3
    <3> QED
      BY <3>4, <3>5, <3>6, <3>7, <3>8 DEF QueryInv
  <2>12. CASE KeepLog(r, s)
    <3>1. PICK from \in {"answered", "refused"} : \E to : ScriptStep(r, s, from, to)
      BY <2>12 DEF KeepLog
    <3>2. PICK to : ScriptStep(r, s, from, to)
      BY <3>1
    <3>3. from \in Querying \cup {"touch"}
      BY <3>1 DEF Querying
    <3>4. /\ r = run /\ s = Scale /\ pc = "poll_query" /\ Job = <<r, s>>
          /\ script[<<r, s>>] = from /\ script'[<<r, s>>] = to /\ ~out[s].done
          /\ \A q \in Runs, t \in Scales : q # r \/ t # s =>
                   /\ script'[<<q, t>>] = script[<<q, t>>]
                   /\ script[<<q, t>>] \notin Querying \cup {"touch"}
          /\ UNCHANGED <<pc, run, todo, local, Scale, Job>>
      BY <1>a, <3>2, <3>3, ScriptMoves
    <3>5. /\ \A t \in Scales : t # s => out'[t] = out[t]
          /\ out'[s].json = out[s].json
          /\ out'[s].done = out[s].done
          /\ out'[s].log = [of |-> r, ok |-> from = "answered"]
      BY <1>a, <3>1, <3>2, <2>12 DEF KeepLog, BoxStep, ScriptStep, DetachedOK, OnBox
    <3>6. /\ to \in {"touch"}
          /\ script[<<r, s>>] \in {"answered", "refused"}
      <4>1. <<r, s>> \in Jobs
        BY DEF Jobs
      <4>2. script'[<<r, s>>] \in {"touch"}
        BY <1>a, <4>1, <2>12 DEF KeepLog, BoxStep, ScriptStep, DetachedOK
      <4> QED
        BY <3>1, <3>4, <4>2
    <3>7. ASSUME NEW q \in Runs, NEW t \in Scales PROVE ScriptInv(q, t)'
      <4>1. ScriptInv(q, t)
        BY <1>a DEF QueryInv
      <4> QED
        BY <3>4, <3>5, <3>6, <4>1 DEF ScriptInv, Querying
    <3>8. ASSUME NEW t \in Scales PROVE ResultInv(t)'
      <4>1. ResultInv(t) /\ out[t] \in OnBox /\ run \in Nat
        BY <1>a DEF QueryInv, DetachedOK, HarnessOK
      <4>2. CASE t # s
        BY <3>4, <3>5, <4>1, <4>2 DEF ResultInv, Fetched, OnTheBox
      <4>3. CASE t = s
        <5>1. ScriptInv(r, s)
          BY <1>a DEF QueryInv
        <5> QED
          BY <3>4, <3>5, <3>6, <4>1, <4>3, <5>1 DEF ResultInv, Fetched, OnTheBox, ScriptInv,
             OnBox, Result, NoRun, Querying, Runs
      <4> QED
        BY <4>2, <4>3
    <3> QED
      BY <3>4, <3>5, <3>6, <3>7, <3>8 DEF QueryInv
  <2>13. CASE TouchDone(r, s)
    <3>1. PICK from \in {"touch"} : \E to : ScriptStep(r, s, from, to)
      BY <2>13 DEF TouchDone
    <3>2. PICK to : ScriptStep(r, s, from, to)
      BY <3>1
    <3>3. from \in Querying \cup {"touch"}
      BY <3>1 DEF Querying
    <3>4. /\ r = run /\ s = Scale /\ pc = "poll_query" /\ Job = <<r, s>>
          /\ script[<<r, s>>] = from /\ script'[<<r, s>>] = to /\ ~out[s].done
          /\ \A q \in Runs, t \in Scales : q # r \/ t # s =>
                   /\ script'[<<q, t>>] = script[<<q, t>>]
                   /\ script[<<q, t>>] \notin Querying \cup {"touch"}
          /\ UNCHANGED <<pc, run, todo, local, Scale, Job>>
      BY <1>a, <3>2, <3>3, ScriptMoves
    <3>5. /\ \A t \in Scales : t # s => out'[t] = out[t]
          /\ out'[s].log = out[s].log
          /\ out'[s].json = out[s].json
      BY <1>a, <3>1, <3>2, <2>13 DEF TouchDone, BoxStep, ScriptStep, DetachedOK, OnBox
    <3>6. /\ to \in {"done"}
          /\ script[<<r, s>>] \in {"touch"}
      <4>1. <<r, s>> \in Jobs
        BY DEF Jobs
      <4>2. script'[<<r, s>>] \in {"done"}
        BY <1>a, <4>1, <2>13 DEF TouchDone, BoxStep, ScriptStep, DetachedOK
      <4> QED
        BY <3>1, <3>4, <4>2
    <3>7. ASSUME NEW q \in Runs, NEW t \in Scales PROVE ScriptInv(q, t)'
      <4>1. ScriptInv(q, t)
        BY <1>a DEF QueryInv
      <4> QED
        BY <3>4, <3>5, <3>6, <4>1 DEF ScriptInv, Querying
    <3>8. ASSUME NEW t \in Scales PROVE ResultInv(t)'
      <4>1. ResultInv(t) /\ out[t] \in OnBox /\ run \in Nat
        BY <1>a DEF QueryInv, DetachedOK, HarnessOK
      <4>2. CASE t # s
        BY <3>4, <3>5, <4>1, <4>2 DEF ResultInv, Fetched, OnTheBox
      <4>3. CASE t = s
        <5>1. ScriptInv(r, s)
          BY <1>a DEF QueryInv
        <5> QED
          BY <3>4, <3>5, <3>6, <4>1, <4>3, <5>1 DEF ResultInv, Fetched, OnTheBox, ScriptInv,
             OnBox, Result, NoRun, Querying, Runs
      <4> QED
        BY <4>2, <4>3
    <3> QED
      BY <3>4, <3>5, <3>6, <3>7, <3>8 DEF QueryInv
  <2>14. CASE DetachedFails(r, s)
    <3>1. CASE UNCHANGED script
      <4>1. UNCHANGED <<harness, script, out, local>>
        BY <3>1, <2>14 DEF DetachedFails, BoxStep, ScriptStep
      <4> QED
        BY <1>a, <4>1, OtherProcess DEF SameResults, ControlInv
    <3>2. CASE \E from \in Querying \cup {"touch"} : ScriptStep(r, s, from, "failed")
      <4>1. PICK from \in Querying \cup {"touch"} : ScriptStep(r, s, from, "failed")
        BY <3>2
      <4>2. /\ r = run /\ s = Scale /\ pc = "poll_query" /\ Job = <<r, s>>
            /\ script'[<<r, s>>] = "failed" /\ ~out[s].done
            /\ \A q \in Runs, t \in Scales : q # r \/ t # s => script'[<<q, t>>] = script[<<q, t>>]
            /\ UNCHANGED <<pc, run, todo, local, Scale, Job, out>>
        BY <1>a, <4>1, <2>14, ScriptMoves DEF DetachedFails
      <4>3. ASSUME NEW q \in Runs, NEW t \in Scales PROVE ScriptInv(q, t)'
        <5>1. ScriptInv(q, t)
          BY <1>a DEF QueryInv
        <5> QED
          BY <4>2, <5>1 DEF ScriptInv, Querying
      <4>4. ASSUME NEW t \in Scales PROVE ResultInv(t)'
        <5>1. ResultInv(t)
          BY <1>a DEF QueryInv
        <5> QED
          BY <4>2, <5>1 DEF ResultInv, Fetched, OnTheBox, Querying
      <4> QED
        BY <4>2, <4>3, <4>4 DEF QueryInv
    <3> QED
      BY <2>14, <3>1, <3>2 DEF DetachedFails, Querying, BoxStep
  <2> QED
    BY <1>16, <2>1, <2>2, <2>3, <2>4, <2>5, <2>6, <2>7, <2>8, <2>9, <2>10, <2>11, <2>12, <2>13,
       <2>14
<1> QED
  BY <1>1, <1>2, <1>3, <1>4, <1>5, <1>6, <1>7, <1>8, <1>9, <1>10, <1>11, <1>12, <1>13, <1>14,
     <1>15, <1>16, NextCases

\* A run that has died stays so.
LEMMA CutStep == [Next]_vars => cut \subseteq cut'
<1> SUFFICES ASSUME [Next]_vars PROVE cut \subseteq cut'
  OBVIOUS
<1> USE DEF harness, genFiles, procs, faults, history
<1>1. CASE StartRun
  BY <1>1 DEF StartRun
<1>2. CASE TakeWindow
  BY <1>2 DEF TakeWindow, Goto
<1>3. CASE AllDone
  BY <1>3 DEF AllDone, Stop
<1>4. CASE GenReturned
  BY <1>4 DEF GenReturned, Goto, Stop, AfterGen, AfterLoad
<1>5. CASE Launch
  BY <1>5 DEF Launch, Goto
<1>6. CASE LoaderGone
  BY <1>6 DEF LoaderGone, Goto
<1>7. CASE ReadSummary
  BY <1>7 DEF ReadSummary, Goto, Stop
<1>8. CASE EndDrain
  BY <1>8 DEF EndDrain, Goto
<1>9. CASE WriteReport
  BY <1>9 DEF WriteReport, Goto, AfterLoad
<1>10. CASE StartQueries
  BY <1>10 DEF StartQueries, Goto
<1>11. CASE PollQueries
  BY <1>11 DEF PollQueries, Goto
<1>12. CASE PollAgain
  BY <1>12 DEF PollAgain, vars
<1>13. CASE Fetch
  BY <1>13 DEF Fetch
<1>14. CASE Die
  BY <1>14 DEF Die, Stop
<1>15. CASE UNCHANGED vars
  BY <1>15 DEF vars
<1>16. ASSUME NEW r \in Runs, NEW s \in Scales,
             \/ TestData(r, s) \/ CreateData(r, s) \/ FinishData(r, s) \/ MoveData(r, s)
             \/ TestQueries(r, s) \/ FinishQueries(r, s) \/ GenFails(r, s)
             \/ LoaderReports(r, s) \/ StartPass(r, s) \/ PassAnswered(r, s)
             \/ PassRefused(r, s) \/ KeepLog(r, s) \/ TouchDone(r, s)
             \/ DetachedFails(r, s)
      PROVE  cut \subseteq cut'
  <2>1. CASE TestData(r, s)
    BY <2>1 DEF TestData, GenStep, genFiles
  <2>2. CASE CreateData(r, s)
    BY <2>2 DEF CreateData, GenStep, OutputOpened
  <2>3. CASE FinishData(r, s)
    BY <2>3 DEF FinishData, GenStep
  <2>4. CASE MoveData(r, s)
    BY <2>4 DEF MoveData, GenStep
  <2>5. CASE TestQueries(r, s)
    BY <2>5 DEF TestQueries, GenStep
  <2>6. CASE FinishQueries(r, s)
    BY <2>6 DEF FinishQueries, GenStep
  <2>7. CASE GenFails(r, s)
    BY <2>7 DEF GenFails, GenStep, genFiles
  <2>8. CASE LoaderReports(r, s)
    BY <2>8 DEF LoaderReports, BoxStep
  <2>9. CASE StartPass(r, s)
    BY <2>9 DEF StartPass, BoxStep, ScriptStep
  <2>10. CASE PassAnswered(r, s)
    BY <2>10 DEF PassAnswered, BoxStep, ScriptStep
  <2>11. CASE PassRefused(r, s)
    BY <2>11 DEF PassRefused, BoxStep, ScriptStep
  <2>12. CASE KeepLog(r, s)
    BY <2>12 DEF KeepLog, BoxStep, ScriptStep
  <2>13. CASE TouchDone(r, s)
    BY <2>13 DEF TouchDone, BoxStep, ScriptStep
  <2>14. CASE DetachedFails(r, s)
    BY <2>14 DEF DetachedFails, BoxStep, ScriptStep
  <2> QED
    BY <1>16, <2>1, <2>2, <2>3, <2>4, <2>5, <2>6, <2>7, <2>8, <2>9, <2>10, <2>11, <2>12, <2>13,
       <2>14
<1> QED
  BY <1>1, <1>2, <1>3, <1>4, <1>5, <1>6, <1>7, <1>8, <1>9, <1>10, <1>11, <1>12, <1>13, <1>14,
     <1>15, <1>16, NextCases

-----------------------------------------------------------------------------

\* The initial state satisfies the invariant.
LEMMA InitIInv == Init => IInv
<1> SUFFICES ASSUME Init PROVE IInv
  OBVIOUS
<1>a. MaxRuns \in Nat /\ MaxKills \in Nat /\ MaxFailures \in Nat /\ NoRun = 0
  BY TsbsBenchAssumption DEF NoRun
<1>1. HarnessOK /\ ControlInv
  BY <1>a DEF Init, HarnessOK, ControlInv
<1>2. DOMAIN windows = {}
  BY DEF Init
<1>3. WindowsOK /\ WindowInv
  BY <1>2 DEF WindowsOK, WindowInv, WindowsDisjoint
<1>4. GenOK
  BY <1>a DEF Init, GenOK
<1>5. DetachedOK
  <2>1. drain \in DrainState
    BY <1>a DEF Init, DrainState, NoDrain
  <2>2. Absent \in Result
    BY <1>a DEF Absent, Result
  <2>3. [load |-> NoRun, done |-> FALSE, json |-> NoRun, log |-> Absent] \in OnBox
    BY <1>a, <2>2 DEF OnBox
  <2>4. [load |-> NoLoad, json |-> Absent, log |-> Absent]
            \in [load : {NoLoad} \cup [of : Runs, source : Runs], json : Result, log : Result]
    BY <2>2
  <2> QED
    BY <2>1, <2>3, <2>4 DEF Init, DetachedOK
<1>6. OwnInv
  BY DEF Init, OwnInv, Jobs, Generating
<1>7. DataInv
  BY DEF Init, DataInv, JobInv, FileInv, Jobs
<1>8. LoadInv
  BY DEF Init, LoadInv, NoLoad
<1>9. DrainInv
  BY DEF Init, DrainInv
<1>10. QueryInv
  <2>1. ASSUME NEW r \in Runs, NEW s \in Scales PROVE ScriptInv(r, s)
    BY DEF Init, ScriptInv, Querying, Jobs
  <2>2. ASSUME NEW s \in Scales PROVE ResultInv(s)
    <3>1. /\ out[s] = [load |-> NoRun, done |-> FALSE, json |-> NoRun, log |-> Absent]
          /\ local[s] = [load |-> NoLoad, json |-> Absent, log |-> Absent] /\ run = NoRun
      BY DEF Init
    <3> QED
      BY <1>a, <3>1 DEF ResultInv, Fetched, Absent
  <2> QED
    BY <2>1, <2>2 DEF Init, QueryInv
<1> QED
  BY <1>1, <1>3, <1>4, <1>5, <1>6, <1>7, <1>8, <1>9, <1>10 DEF IInv, TypeOK

\* The invariant follows step by step: each part needs the ones named before it, the
\* types of the reports what is known of their summaries.
THEOREM Invariance == Spec => []IInv
<1>1. ASSUME IInv, [Next]_vars PROVE IInv'
  <2> USE <1>1 DEF IInv, TypeOK
  <2>1. HarnessOK' /\ ControlInv'
    BY ControlStep
  <2>2. WindowsOK' /\ WindowInv'
    BY WindowStep
  <2>3. GenOK'
    BY GenTypeStep
  <2>4. DetachedOK'
    BY DetachedStep
  <2>5. OwnInv' /\ DataInv'
    BY OwnStep, DataStep
  <2>6. LoadInv' /\ DrainInv'
    BY LoadStep, DrainStep
  <2>7. cut' = {} => QueryInv'
    <3>1. cut \subseteq cut'
      BY CutStep
    <3> QED
      BY <3>1, QueryStep
  <2> QED
    BY <2>1, <2>2, <2>3, <2>4, <2>5, <2>6, <2>7
<1> QED
  BY InitIInv, <1>1, PTL DEF Spec

\* Type correctness; a report on a load is never without a summary.
THEOREM TypeCorrect == Spec => []TypeOK
<1>1. IInv => TypeOK
  BY DEF IInv
<1> QED
  BY Invariance, <1>1, PTL

\* No two scales' windows ever overlap, for any hours and any midnights.
THEOREM WindowsApart == Spec => []WindowsDisjoint
<1>1. IInv => WindowsDisjoint
  BY DEF IInv, WindowInv
<1> QED
  BY Invariance, <1>1, PTL

\* A load reads a finished file unless two generators shared the .tmp file, for any
\* number of runs that die and of generators that fail.
THEOREM DataWhole == Spec => []DataIsWhole
<1>1. IInv => DataIsWhole
  BY DEF IInv, DataInv, FileInv, DataIsWhole
<1> QED
  BY Invariance, <1>1, PTL

\* Load reports, drains and fetched query results are those of the runs they name.
THEOREM ReportsOwn == Spec => []ReportsAreOwn
<1>1. IInv => ReportsAreOwn
  BY DEF IInv, LoadInv, DrainInv, QueryInv, ResultInv, ReportsAreOwn
<1> QED
  BY Invariance, <1>1, PTL
=============================================================================
