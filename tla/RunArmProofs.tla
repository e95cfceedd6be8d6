---------------------------- MODULE RunArmProofs ----------------------------
(***************************************************************************)
(* The safety properties of RunArm for any durations, any number of runs   *)
(* and any number of faults.                                               *)
(***************************************************************************)
EXTENDS RunArm, TLAPS

\* Stages in which the body of the run in progress has been accepted.
Accepted == {"warmup", "pause", "measure", "await", "pods", "done"}
Measuring == {"measure", "await", "pods", "done"}
WatchWorks(r) == watch[r].at \in {"select", "ps", "report"}

\* Where the script is tells which of its processes are born and gone; a process of
\* another run belongs to one that was cut short.
ControlInv ==
    /\ pc # "idle" => gen = "none" /\ run \in Runs
    /\ pc \in Accepted => body # "cut"
    /\ \A r \in Runs : r > run => pods[r] = "none"
    /\ pc \in {"preflight", "warmup", "pause"} => pods[run] = "none"
    /\ pc \in {"await", "pods", "done"} => k6[run].at = "gone"
    /\ pc \in {"pods", "done"} => watch[run].at = "gone"
    /\ \A r \in Runs : K6Live(r) => r \in cut \/ (r = run /\ pc = "measure")
    /\ \A r \in Runs : WatchWorks(r) => r \in cut \/ (r = run /\ pc \in {"measure", "await"})

\* What has returned has written its file, and only processes of runs cut short can
\* have written it again.
FilesInv ==
    /\ pc = "measure" /\ k6[run].at = "gone" /\ k6[run].ok => k6File \in {run} \cup cut
    /\ pc \in {"await", "pods", "done"} => k6File \in {run} \cup cut
    /\ pc \in {"measure", "await"} /\ watch[run].at = "gone" /\ watch[run].ok =>
            watchFile \in {run} \cup cut
    /\ pc \in {"pods", "done"} => watchFile \in {run} \cup cut
    /\ pc \in Measuring /\ Remote => pods[run] # "none"
    /\ pc \in Measuring /\ pods[run] = "written" => podsFile = run
    /\ pc = "done" => pods[run] \in {"none", "written"}

\* The longest a k6 that starts up in time may go on.
LeftOfK6(r) ==
    CASE k6[r].at = "starting" -> k6[r].lasts + Slack - 1 - k6[r].took
      [] k6[r].at = "loading" -> k6[r].left + Graceful
      [] OTHER -> k6[r].left

\* Without a signal, a disk or a ps that fails, the watcher has more time left.
TimeInv ==
    \A r \in Runs : K6Live(r) /\ StartsInTime(r) /\ faults = 0 =>
                        WatchLive(r) /\ watch[r].left > LeftOfK6(r)

IInv == TypeOK /\ ControlInv /\ FilesInv /\ TimeInv

-----------------------------------------------------------------------------

\* The initial state satisfies the invariant.
LEMMA InitIInv == Init => IInv
<1> SUFFICES ASSUME Init PROVE IInv
  OBVIOUS
<1> USE RunArmAssumption
<1>1. TypeOK
  BY DEF Init, TypeOK, NoK6, NoWatch, Runs, NoRun, K6State, WatchState, K6At, WatchAt
<1>2. ControlInv
  BY DEF Init, ControlInv, NoK6, NoWatch, Runs, K6Live, WatchWorks, Accepted
<1>3. FilesInv
  BY DEF Init, FilesInv, Measuring
<1>4. TimeInv
  BY DEF Init, TimeInv, NoK6, NoWatch, K6Live
<1> QED
  BY <1>1, <1>2, <1>3, <1>4 DEF IInv

\* The steps of Next, one by one.
LEMMA NextCases ==
    ASSUME [Next]_vars
    PROVE  \/ CreateBody \/ SpillRows \/ FlushBody \/ BadBaseDate \/ GenbodyKilled
           \/ StartRun \/ Preflight \/ Warmup \/ StartMeasure \/ K6Returned
           \/ WatchReturned \/ PodsReturned \/ Done \/ Interrupt \/ PodsSampled
           \/ PodsFail \/ Second \/ UNCHANGED vars
           \/ \E r \in Runs : \/ BeginLoad(r) \/ LastRequests(r) \/ EndK6(r) \/ K6Fails(r)
                              \/ OnTick(r) \/ OnDeadline(r) \/ PsReturns(r) \/ Report(r)
                              \/ OnSignal(r) \/ PsFails(r) \/ DiskFails(r)
  BY DEF Next, Genbody, ScriptStep, K6Step, WatchStep, Faults, Rest

\* The states a process starts or ends in.
LEMMA StatesNew ==
    ASSUME NEW ok \in BOOLEAN, NEW left \in Nat, NEW lasts \in Nat
    PROVE  /\ NoK6("gone", ok) \in K6State /\ NoWatch("gone", ok) \in WatchState
           /\ [at |-> "starting", ok |-> TRUE, left |-> left, lasts |-> lasts,
               took |-> 0] \in K6State
  BY DEF K6State, WatchState, K6At, WatchAt, NoK6, NoWatch

\* A second moves timers and tickers only.
LEMMA SecondMoves ==
    ASSUME k6 \in [Runs -> K6State], watch \in [Runs -> WatchState], Second
    PROVE  /\ k6' \in [Runs -> K6State] /\ watch' \in [Runs -> WatchState]
           /\ \A r \in Runs :
                /\ k6'[r].at = k6[r].at /\ k6'[r].ok = k6[r].ok /\ k6'[r].lasts = k6[r].lasts
                /\ k6'[r].left = IF k6[r].at = "starting" THEN k6[r].left ELSE Elapsed(k6[r].left)
                /\ k6'[r].took = IF k6[r].at = "starting" THEN k6[r].took + 1 ELSE k6[r].took
                /\ watch'[r].at = watch[r].at /\ watch'[r].ok = watch[r].ok
                /\ watch'[r].left = IF WatchLive(r) THEN Elapsed(watch[r].left)
                                    ELSE watch[r].left
<1>1. \A left \in Nat : Elapsed(left) \in Nat
  BY DEF Elapsed
<1>2. ASSUME NEW r \in Runs
      PROVE  /\ k6'[r] = IF k6[r].at = "starting" THEN [k6[r] EXCEPT !.took = @ + 1]
                         ELSE [k6[r] EXCEPT !.left = Elapsed(@)]
             /\ k6'[r] \in K6State
             /\ watch'[r] = IF WatchLive(r)
                            THEN [watch[r] EXCEPT !.left = Elapsed(@), !.tick = TRUE]
                            ELSE watch[r]
             /\ watch'[r] \in WatchState
  <2>1. k6[r] \in K6State /\ watch[r] \in WatchState
    OBVIOUS
  <2>2. Elapsed(k6[r].left) \in Nat /\ Elapsed(watch[r].left) \in Nat /\ k6[r].took + 1 \in Nat
    BY <1>1, <2>1 DEF K6State, WatchState
  <2>3. [k6[r] EXCEPT !.left = Elapsed(@)] \in K6State /\ [k6[r] EXCEPT !.took = @ + 1] \in K6State
    BY <2>1, <2>2 DEF K6State
  <2>4. [watch[r] EXCEPT !.left = Elapsed(@), !.tick = TRUE] \in WatchState
    BY <2>1, <2>2 DEF WatchState
  <2> QED
    BY <2>1, <2>3, <2>4 DEF Second
<1>3. k6' \in [Runs -> K6State] /\ watch' \in [Runs -> WatchState]
  BY <1>2 DEF Second
<1>4. ASSUME NEW r \in Runs
      PROVE  /\ k6'[r].at = k6[r].at /\ k6'[r].ok = k6[r].ok /\ k6'[r].lasts = k6[r].lasts
             /\ k6'[r].left = IF k6[r].at = "starting" THEN k6[r].left ELSE Elapsed(k6[r].left)
             /\ k6'[r].took = IF k6[r].at = "starting" THEN k6[r].took + 1 ELSE k6[r].took
             /\ watch'[r].at = watch[r].at /\ watch'[r].ok = watch[r].ok
             /\ watch'[r].left = IF WatchLive(r) THEN Elapsed(watch[r].left)
                                 ELSE watch[r].left
  <2>1. /\ k6[r] \in K6State
        /\ k6'[r] = IF k6[r].at = "starting" THEN [k6[r] EXCEPT !.took = @ + 1]
                    ELSE [k6[r] EXCEPT !.left = Elapsed(@)]
    BY <1>2
  <2>2. /\ k6'[r].at = k6[r].at /\ k6'[r].ok = k6[r].ok /\ k6'[r].lasts = k6[r].lasts
        /\ k6'[r].left = IF k6[r].at = "starting" THEN k6[r].left ELSE Elapsed(k6[r].left)
        /\ k6'[r].took = IF k6[r].at = "starting" THEN k6[r].took + 1 ELSE k6[r].took
    BY <2>1 DEF K6State
  <2>3. /\ watch[r] \in WatchState
        /\ watch'[r] = IF WatchLive(r) THEN [watch[r] EXCEPT !.left = Elapsed(@), !.tick = TRUE]
                       ELSE watch[r]
    BY <1>2
  <2>4. /\ watch'[r].at = watch[r].at /\ watch'[r].ok = watch[r].ok
        /\ watch'[r].left = IF WatchLive(r) THEN Elapsed(watch[r].left) ELSE watch[r].left
    BY <2>3 DEF WatchState
  <2> QED
    BY <2>2, <2>4
<1> QED
  BY <1>3, <1>4

\* Every step preserves the types.
LEMMA TypeStep == IInv /\ [Next]_vars => TypeOK'
<1> SUFFICES ASSUME IInv, [Next]_vars PROVE TypeOK'
  OBVIOUS
<1>a. /\ TypeOK
      /\ pc # "idle" => run \in Runs
  BY DEF IInv, ControlInv
<1>b. /\ Slack \in Nat /\ MaxStartup \in Nat /\ Graceful \in Nat
      /\ MaxRuns \in Nat /\ MaxFaults \in Nat /\ Durations \subseteq Nat
  BY RunArmAssumption
<1> USE <1>a, <1>b DEF TypeOK, bodyVars, script, procs, files
<1>1. CASE CreateBody
  BY <1>1 DEF CreateBody, GenStep
<1>2. CASE SpillRows
  BY <1>2 DEF SpillRows, GenStep
<1>3. CASE FlushBody
  BY <1>3 DEF FlushBody, GenStep
<1>4. CASE BadBaseDate
  BY <1>4 DEF BadBaseDate, GenStep
<1>5. CASE GenbodyKilled
  BY <1>5 DEF GenbodyKilled, GenStep
<1>6. CASE StartRun
  BY <1>6 DEF StartRun, Runs
<1>7. CASE Preflight
  BY <1>7 DEF Preflight, RowsAccepted, Goto, EndScript
<1>8. CASE Warmup
  BY <1>8 DEF Warmup, Goto, EndScript
<1>9. CASE StartMeasure
  <2>1. run \in Runs /\ duration \in Nat /\ WatchTime(duration) \in Nat
    BY <1>9 DEF StartMeasure, Goto, WatchTime
  <2>2. [at |-> "starting", ok |-> TRUE, left |-> 0, lasts |-> duration, took |-> 0] \in K6State
    BY <2>1, StatesNew
  <2>3. k6' \in [Runs -> K6State]
    BY <2>2, <1>9 DEF StartMeasure
  <2>4. [watch[run] EXCEPT !.at = "select", !.left = WatchTime(duration)] \in WatchState
    BY <2>1 DEF WatchState, WatchAt
  <2>5. watch' = [watch EXCEPT ![run] = [watch[run] EXCEPT !.at = "select", !.left = WatchTime(duration)]]
    BY <2>1, <1>9 DEF StartMeasure
  <2>6. watch' \in [Runs -> WatchState]
    BY <2>4, <2>5
  <2> QED
    BY <2>1, <2>3, <2>6, <1>9 DEF StartMeasure, Goto
<1>10. CASE K6Returned
  BY <1>10 DEF K6Returned, Goto, EndScript
<1>11. CASE WatchReturned
  BY <1>11 DEF WatchReturned, WatchAwaited, Goto, EndScript
<1>12. CASE PodsReturned
  BY <1>12 DEF PodsReturned, Goto
<1>13. CASE Done
  BY <1>13 DEF Done, EndScript
<1>14. CASE Interrupt
  BY <1>14 DEF Interrupt, Fault, EndScript
<1>15. CASE PodsSampled
  BY <1>15 DEF PodsSampled
<1>16. CASE PodsFail
  BY <1>16 DEF PodsFail, Fault, EndScript
<1>17. CASE Second
  <2>1. k6' \in [Runs -> K6State] /\ watch' \in [Runs -> WatchState]
    BY <1>17, SecondMoves
  <2> QED
    BY <2>1, <1>17 DEF Second
<1>18. CASE UNCHANGED vars
  BY <1>18 DEF vars, script
<1>19. ASSUME NEW r \in Runs,
             \/ BeginLoad(r) \/ LastRequests(r) \/ EndK6(r) \/ K6Fails(r)
             \/ OnTick(r) \/ OnDeadline(r) \/ PsReturns(r) \/ Report(r)
             \/ OnSignal(r) \/ PsFails(r) \/ DiskFails(r)
      PROVE  TypeOK'
  <2>1. CASE BeginLoad(r)
    <3>1. Entering(r, "loading", k6[r].lasts) \in K6State
      BY <2>1 DEF Entering, K6State, K6At
    <3> QED
      BY <3>1, <2>1 DEF BeginLoad, K6Goes
  <2>2. CASE LastRequests(r)
    <3>1. Entering(r, "stopping", Graceful) \in K6State
      BY <2>2 DEF Entering, K6State, K6At
    <3> QED
      BY <3>1, <2>2 DEF LastRequests, K6Goes
  <2>3. CASE EndK6(r)
    <3>1. NoK6("gone", TRUE) \in K6State /\ NoK6("gone", FALSE) \in K6State
      BY StatesNew
    <3>2. k6' \in [Runs -> K6State]
      BY <3>1, <2>3 DEF EndK6, K6Goes
    <3>3. r \in 0..MaxRuns
      BY DEF Runs
    <3> QED
      BY <3>2, <3>3, <2>3 DEF EndK6, K6Goes
  <2>4. CASE K6Fails(r)
    <3>1. NoK6("gone", TRUE) \in K6State /\ NoK6("gone", FALSE) \in K6State
      BY StatesNew
    <3>2. k6' \in [Runs -> K6State]
      BY <3>1, <2>4 DEF K6Fails, K6Goes
    <3>3. r \in 0..MaxRuns
      BY DEF Runs
    <3> QED
      BY <3>2, <3>3, <2>4 DEF K6Fails, K6Goes
  <2>5. CASE OnTick(r)
    <3>1. [watch[r] EXCEPT !.at = "ps", !.tick = FALSE] \in WatchState
      BY <2>5 DEF WatchState, WatchAt
    <3> QED
      BY <3>1, <2>5 DEF OnTick, WatchGoes
  <2>6. CASE OnDeadline(r)
    <3>1. [watch[r] EXCEPT !.at = AfterDeadline, !.tick = FALSE] \in WatchState
      BY <2>6 DEF AfterDeadline, WatchState, WatchAt
    <3> QED
      BY <3>1, <2>6 DEF OnDeadline, AfterDeadline, WatchGoes
  <2>7. CASE PsReturns(r)
    <3>1. [watch[r] EXCEPT !.at = "select"] \in WatchState
      BY <2>7 DEF WatchState, WatchAt
    <3> QED
      BY <3>1, <2>7 DEF PsReturns, WatchGoes
  <2>8. CASE Report(r)
    <3>1. NoWatch("gone", TRUE) \in WatchState /\ NoWatch("gone", FALSE) \in WatchState
      BY StatesNew
    <3>2. watch' \in [Runs -> WatchState]
      BY <3>1, <2>8 DEF Report, WatchGoes
    <3>3. r \in 0..MaxRuns
      BY DEF Runs
    <3> QED
      BY <3>2, <3>3, <2>8 DEF Report, WatchGoes
  <2>9. CASE OnSignal(r)
    <3>1. [watch[r] EXCEPT !.at = "report", !.left = 0, !.tick = FALSE] \in WatchState
      BY <2>9 DEF WatchState, WatchAt
    <3> QED
      BY <3>1, <2>9 DEF OnSignal, Fault, WatchGoes
  <2>10. CASE PsFails(r)
    <3>1. NoWatch("gone", TRUE) \in WatchState /\ NoWatch("gone", FALSE) \in WatchState
      BY StatesNew
    <3>2. watch' \in [Runs -> WatchState]
      BY <3>1, <2>10 DEF PsFails, WatchFails, WatchGoes
    <3>3. faults' \in 0..MaxFaults
      BY <2>10 DEF PsFails, WatchFails, Fault
    <3> QED
      BY <3>2, <3>3, <2>10 DEF PsFails, WatchFails, WatchGoes
  <2>11. CASE DiskFails(r)
    <3>1. NoWatch("gone", TRUE) \in WatchState /\ NoWatch("gone", FALSE) \in WatchState
      BY StatesNew
    <3>2. watch' \in [Runs -> WatchState]
      BY <3>1, <2>11 DEF DiskFails, WatchFails, WatchGoes
    <3>3. faults' \in 0..MaxFaults
      BY <2>11 DEF DiskFails, WatchFails, Fault
    <3> QED
      BY <3>2, <3>3, <2>11 DEF DiskFails, WatchFails, WatchGoes
  <2> QED
    BY <1>19, <2>1, <2>2, <2>3, <2>4, <2>5, <2>6, <2>7, <2>8, <2>9, <2>10, <2>11
<1> QED
  BY <1>1, <1>2, <1>3, <1>4, <1>5, <1>6, <1>7, <1>8, <1>9, <1>10, <1>11, <1>12, <1>13, <1>14, <1>15, <1>16, <1>17, <1>18, <1>19, NextCases

\* Every step preserves the control invariant.
LEMMA ControlStep == IInv /\ [Next]_vars => ControlInv'
<1> SUFFICES ASSUME IInv, [Next]_vars PROVE ControlInv'
  OBVIOUS
<1> USE RunArmAssumption DEF IInv, TypeOK, K6State, WatchState, ControlInv, Accepted, WatchWorks, K6Live, WatchLive, bodyVars, script, procs, files
<1>1. CASE CreateBody
  BY <1>1 DEF CreateBody, GenStep
<1>2. CASE SpillRows
  BY <1>2 DEF SpillRows, GenStep
<1>3. CASE FlushBody
  BY <1>3 DEF FlushBody, GenStep
<1>4. CASE BadBaseDate
  BY <1>4 DEF BadBaseDate, GenStep
<1>5. CASE GenbodyKilled
  BY <1>5 DEF GenbodyKilled, GenStep
<1>6. CASE StartRun
  BY <1>6 DEF StartRun, Runs
<1>7. CASE Preflight
  BY <1>7 DEF Preflight, RowsAccepted, Goto, EndScript
<1>8. CASE Warmup
  BY <1>8 DEF Warmup, Goto, EndScript
<1>9. CASE StartMeasure
  BY <1>9 DEF StartMeasure, Goto, WatchTime
<1>10. CASE K6Returned
  BY <1>10 DEF K6Returned, Goto, EndScript
<1>11. CASE WatchReturned
  BY <1>11 DEF WatchReturned, WatchAwaited, Goto, EndScript
<1>12. CASE PodsReturned
  BY <1>12 DEF PodsReturned, Goto
<1>13. CASE Done
  BY <1>13 DEF Done, EndScript
<1>14. CASE Interrupt
  BY <1>14 DEF Interrupt, Fault, EndScript
<1>15. CASE PodsSampled
  BY <1>15 DEF PodsSampled
<1>16. CASE PodsFail
  BY <1>16 DEF PodsFail, Fault, EndScript
<1>17. CASE Second
  <2>1. k6 \in [Runs -> K6State] /\ watch \in [Runs -> WatchState]
    BY DEF TypeOK
  <2>2. \A r \in Runs :
          /\ k6'[r].at = k6[r].at /\ k6'[r].ok = k6[r].ok /\ k6'[r].lasts = k6[r].lasts
          /\ k6'[r].left = IF k6[r].at = "starting" THEN k6[r].left ELSE Elapsed(k6[r].left)
          /\ k6'[r].took = IF k6[r].at = "starting" THEN k6[r].took + 1 ELSE k6[r].took
          /\ watch'[r].at = watch[r].at /\ watch'[r].ok = watch[r].ok
          /\ watch'[r].left = IF WatchLive(r) THEN Elapsed(watch[r].left) ELSE watch[r].left
    BY <2>1, <1>17, SecondMoves
  <2>3. /\ UNCHANGED <<bodyVars, script, pods, files, faults, cut>>
        /\ \A r \in Runs : K6Live(r) => k6[r].at = "starting" \/ k6[r].left > 0
    BY <1>17 DEF Second
  <2> QED
    BY <2>1, <2>2, <2>3 DEF Elapsed, Runs
<1>18. CASE UNCHANGED vars
  BY <1>18 DEF vars, script
<1>19. ASSUME NEW r \in Runs,
             \/ BeginLoad(r) \/ LastRequests(r) \/ EndK6(r) \/ K6Fails(r)
             \/ OnTick(r) \/ OnDeadline(r) \/ PsReturns(r) \/ Report(r)
             \/ OnSignal(r) \/ PsFails(r) \/ DiskFails(r)
      PROVE  ControlInv'
  <2>1. CASE BeginLoad(r)
    BY <2>1 DEF BeginLoad, K6Goes, Entering
  <2>2. CASE LastRequests(r)
    BY <2>2 DEF LastRequests, K6Goes, Entering
  <2>3. CASE EndK6(r)
    BY <2>3 DEF EndK6, K6Goes, NoK6
  <2>4. CASE K6Fails(r)
    BY <2>4 DEF K6Fails, K6Goes, NoK6
  <2>5. CASE OnTick(r)
    BY <2>5 DEF OnTick, WatchGoes
  <2>6. CASE OnDeadline(r)
    BY <2>6 DEF OnDeadline, AfterDeadline, WatchGoes
  <2>7. CASE PsReturns(r)
    BY <2>7 DEF PsReturns, WatchGoes
  <2>8. CASE Report(r)
    BY <2>8 DEF Report, NoWatch, WatchGoes
  <2>9. CASE OnSignal(r)
    BY <2>9 DEF OnSignal, Fault, WatchGoes
  <2>10. CASE PsFails(r)
    BY <2>10 DEF PsFails, WatchFails, NoWatch, Fault, WatchGoes
  <2>11. CASE DiskFails(r)
    BY <2>11 DEF DiskFails, WatchFails, NoWatch, Fault, WatchGoes
  <2> QED
    BY <1>19, <2>1, <2>2, <2>3, <2>4, <2>5, <2>6, <2>7, <2>8, <2>9, <2>10, <2>11
<1> QED
  BY <1>1, <1>2, <1>3, <1>4, <1>5, <1>6, <1>7, <1>8, <1>9, <1>10, <1>11, <1>12, <1>13, <1>14, <1>15, <1>16, <1>17, <1>18, <1>19, NextCases

\* Every step preserves what is known of the files.
LEMMA FilesStep == IInv /\ [Next]_vars => FilesInv'
<1> SUFFICES ASSUME IInv, [Next]_vars PROVE FilesInv'
  OBVIOUS
<1> USE RunArmAssumption DEF IInv, TypeOK, K6State, WatchState, ControlInv, FilesInv, Accepted, Measuring, WatchWorks, K6Live, WatchLive, bodyVars, script, procs, files
<1>1. CASE CreateBody
  BY <1>1 DEF CreateBody, GenStep
<1>2. CASE SpillRows
  BY <1>2 DEF SpillRows, GenStep
<1>3. CASE FlushBody
  BY <1>3 DEF FlushBody, GenStep
<1>4. CASE BadBaseDate
  BY <1>4 DEF BadBaseDate, GenStep
<1>5. CASE GenbodyKilled
  BY <1>5 DEF GenbodyKilled, GenStep
<1>6. CASE StartRun
  BY <1>6 DEF StartRun, Runs
<1>7. CASE Preflight
  BY <1>7 DEF Preflight, RowsAccepted, Goto, EndScript
<1>8. CASE Warmup
  BY <1>8 DEF Warmup, Goto, EndScript
<1>9. CASE StartMeasure
  BY <1>9 DEF StartMeasure, Goto, WatchTime
<1>10. CASE K6Returned
  BY <1>10 DEF K6Returned, Goto, EndScript
<1>11. CASE WatchReturned
  BY <1>11 DEF WatchReturned, WatchAwaited, Goto, EndScript
<1>12. CASE PodsReturned
  BY <1>12 DEF PodsReturned, Goto
<1>13. CASE Done
  BY <1>13 DEF Done, EndScript
<1>14. CASE Interrupt
  BY <1>14 DEF Interrupt, Fault, EndScript
<1>15. CASE PodsSampled
  BY <1>15 DEF PodsSampled
<1>16. CASE PodsFail
  BY <1>16 DEF PodsFail, Fault, EndScript
<1>17. CASE Second
  <2>1. k6 \in [Runs -> K6State] /\ watch \in [Runs -> WatchState]
    BY DEF TypeOK
  <2>2. \A r \in Runs :
          /\ k6'[r].at = k6[r].at /\ k6'[r].ok = k6[r].ok /\ k6'[r].lasts = k6[r].lasts
          /\ k6'[r].left = IF k6[r].at = "starting" THEN k6[r].left ELSE Elapsed(k6[r].left)
          /\ k6'[r].took = IF k6[r].at = "starting" THEN k6[r].took + 1 ELSE k6[r].took
          /\ watch'[r].at = watch[r].at /\ watch'[r].ok = watch[r].ok
          /\ watch'[r].left = IF WatchLive(r) THEN Elapsed(watch[r].left) ELSE watch[r].left
    BY <2>1, <1>17, SecondMoves
  <2>3. /\ UNCHANGED <<bodyVars, script, pods, files, faults, cut>>
        /\ \A r \in Runs : K6Live(r) => k6[r].at = "starting" \/ k6[r].left > 0
    BY <1>17 DEF Second
  <2> QED
    BY <2>1, <2>2, <2>3 DEF Elapsed, Runs
<1>18. CASE UNCHANGED vars
  BY <1>18 DEF vars, script
<1>19. ASSUME NEW r \in Runs,
             \/ BeginLoad(r) \/ LastRequests(r) \/ EndK6(r) \/ K6Fails(r)
             \/ OnTick(r) \/ OnDeadline(r) \/ PsReturns(r) \/ Report(r)
             \/ OnSignal(r) \/ PsFails(r) \/ DiskFails(r)
      PROVE  FilesInv'
  <2>1. CASE BeginLoad(r)
    BY <2>1 DEF BeginLoad, K6Goes, Entering
  <2>2. CASE LastRequests(r)
    BY <2>2 DEF LastRequests, K6Goes, Entering
  <2>3. CASE EndK6(r)
    BY <2>3 DEF EndK6, K6Goes, NoK6
  <2>4. CASE K6Fails(r)
    BY <2>4 DEF K6Fails, K6Goes, NoK6
  <2>5. CASE OnTick(r)
    BY <2>5 DEF OnTick, WatchGoes
  <2>6. CASE OnDeadline(r)
    BY <2>6 DEF OnDeadline, AfterDeadline, WatchGoes
  <2>7. CASE PsReturns(r)
    BY <2>7 DEF PsReturns, WatchGoes
  <2>8. CASE Report(r)
    BY <2>8 DEF Report, NoWatch, WatchGoes
  <2>9. CASE OnSignal(r)
    BY <2>9 DEF OnSignal, Fault, WatchGoes
  <2>10. CASE PsFails(r)
    BY <2>10 DEF PsFails, WatchFails, NoWatch, Fault, WatchGoes
  <2>11. CASE DiskFails(r)
    BY <2>11 DEF DiskFails, WatchFails, NoWatch, Fault, WatchGoes
  <2> QED
    BY <1>19, <2>1, <2>2, <2>3, <2>4, <2>5, <2>6, <2>7, <2>8, <2>9, <2>10, <2>11
<1> QED
  BY <1>1, <1>2, <1>3, <1>4, <1>5, <1>6, <1>7, <1>8, <1>9, <1>10, <1>11, <1>12, <1>13, <1>14, <1>15, <1>16, <1>17, <1>18, <1>19, NextCases

\* Every step preserves the watcher's lead over k6.
LEMMA TimeStep == IInv /\ [Next]_vars => TimeInv'
<1> SUFFICES ASSUME IInv, [Next]_vars PROVE TimeInv'
  OBVIOUS
<1> USE RunArmAssumption DEF IInv, TypeOK, K6State, WatchState, ControlInv, TimeInv, LeftOfK6, StartsInTime, WatchWorks, K6Live, WatchLive, bodyVars, script, procs, files
<1>1. CASE CreateBody
  BY <1>1 DEF CreateBody, GenStep
<1>2. CASE SpillRows
  BY <1>2 DEF SpillRows, GenStep
<1>3. CASE FlushBody
  BY <1>3 DEF FlushBody, GenStep
<1>4. CASE BadBaseDate
  BY <1>4 DEF BadBaseDate, GenStep
<1>5. CASE GenbodyKilled
  BY <1>5 DEF GenbodyKilled, GenStep
<1>6. CASE StartRun
  BY <1>6 DEF StartRun, Runs
<1>7. CASE Preflight
  BY <1>7 DEF Preflight, RowsAccepted, Goto, EndScript
<1>8. CASE Warmup
  BY <1>8 DEF Warmup, Goto, EndScript
<1>9. CASE StartMeasure
  BY <1>9 DEF StartMeasure, Goto, WatchTime
<1>10. CASE K6Returned
  BY <1>10 DEF K6Returned, Goto, EndScript
<1>11. CASE WatchReturned
  BY <1>11 DEF WatchReturned, WatchAwaited, Goto, EndScript
<1>12. CASE PodsReturned
  BY <1>12 DEF PodsReturned, Goto
<1>13. CASE Done
  BY <1>13 DEF Done, EndScript
<1>14. CASE Interrupt
  BY <1>14 DEF Interrupt, Fault, EndScript
<1>15. CASE PodsSampled
  BY <1>15 DEF PodsSampled
<1>16. CASE PodsFail
  BY <1>16 DEF PodsFail, Fault, EndScript
<1>17. CASE Second
  <2>1. k6 \in [Runs -> K6State] /\ watch \in [Runs -> WatchState]
    BY DEF TypeOK
  <2>2. \A r \in Runs :
          /\ k6'[r].at = k6[r].at /\ k6'[r].ok = k6[r].ok /\ k6'[r].lasts = k6[r].lasts
          /\ k6'[r].left = IF k6[r].at = "starting" THEN k6[r].left ELSE Elapsed(k6[r].left)
          /\ k6'[r].took = IF k6[r].at = "starting" THEN k6[r].took + 1 ELSE k6[r].took
          /\ watch'[r].at = watch[r].at /\ watch'[r].ok = watch[r].ok
          /\ watch'[r].left = IF WatchLive(r) THEN Elapsed(watch[r].left) ELSE watch[r].left
    BY <2>1, <1>17, SecondMoves
  <2>3. /\ UNCHANGED <<bodyVars, script, pods, files, faults, cut>>
        /\ \A r \in Runs : K6Live(r) => k6[r].at = "starting" \/ k6[r].left > 0
    BY <1>17 DEF Second
  <2>4. ASSUME NEW r \in Runs
        PROVE  /\ k6[r].left \in Nat /\ k6[r].lasts \in Nat /\ k6[r].took \in Nat
               /\ watch[r].left \in Nat
    BY <2>1 DEF K6State, WatchState
  <2>5. ASSUME NEW r \in Runs, K6Live(r)', StartsInTime(r)', faults' = 0
        PROVE  WatchLive(r)' /\ (watch[r].left > LeftOfK6(r))'
    <3>1. K6Live(r) /\ faults = 0
      BY <2>2, <2>3, <2>5
    <3>2. StartsInTime(r)
      BY <2>2, <2>4, <2>5 DEF StartsInTime
    <3>3. WatchLive(r) /\ watch[r].left > LeftOfK6(r)
      BY <3>1, <3>2
    <3>4. WatchLive(r)'
      BY <2>2, <3>3
    <3>5. CASE k6[r].at = "starting"
      <4>1. watch[r].left > k6[r].lasts + Slack - 1 - k6[r].took
        BY <3>3, <3>5
      <4>2. k6[r].took + 1 + Graceful < Slack
        BY <2>2, <2>5, <3>5 DEF StartsInTime
      <4>3. watch'[r].left = watch[r].left - 1
        BY <2>2, <2>4, <3>3, <4>1, <4>2 DEF Elapsed
      <4>4. LeftOfK6(r)' = k6[r].lasts + Slack - 1 - (k6[r].took + 1)
        BY <2>2, <3>5
      <4> QED
        BY <2>4, <3>4, <4>1, <4>3, <4>4
    <3>6. CASE k6[r].at # "starting"
      <4>1. k6[r].left > 0 /\ k6'[r].left = k6[r].left - 1
        BY <2>2, <2>3, <2>4, <3>1, <3>6 DEF Elapsed
      <4>2. watch'[r].left = watch[r].left - 1
        BY <2>2, <2>4, <3>3, <3>6, <4>1 DEF Elapsed
      <4> QED
        BY <2>2, <2>4, <3>3, <3>4, <3>6, <4>1, <4>2
    <3> QED
      BY <3>5, <3>6
  <2> QED
    BY <2>5
<1>18. CASE UNCHANGED vars
  BY <1>18 DEF vars, script
<1>19. ASSUME NEW r \in Runs,
             \/ BeginLoad(r) \/ LastRequests(r) \/ EndK6(r) \/ K6Fails(r)
             \/ OnTick(r) \/ OnDeadline(r) \/ PsReturns(r) \/ Report(r)
             \/ OnSignal(r) \/ PsFails(r) \/ DiskFails(r)
      PROVE  TimeInv'
  <2>1. CASE BeginLoad(r)
    BY <2>1 DEF BeginLoad, K6Goes, Entering
  <2>2. CASE LastRequests(r)
    BY <2>2 DEF LastRequests, K6Goes, Entering
  <2>3. CASE EndK6(r)
    BY <2>3 DEF EndK6, K6Goes, NoK6
  <2>4. CASE K6Fails(r)
    BY <2>4 DEF K6Fails, K6Goes, NoK6
  <2>5. CASE OnTick(r)
    BY <2>5 DEF OnTick, WatchGoes
  <2>6. CASE OnDeadline(r)
    BY <2>6 DEF OnDeadline, AfterDeadline, WatchGoes
  <2>7. CASE PsReturns(r)
    BY <2>7 DEF PsReturns, WatchGoes
  <2>8. CASE Report(r)
    BY <2>8 DEF Report, NoWatch, WatchGoes
  <2>9. CASE OnSignal(r)
    BY <2>9 DEF OnSignal, Fault, WatchGoes
  <2>10. CASE PsFails(r)
    BY <2>10 DEF PsFails, WatchFails, NoWatch, Fault, WatchGoes
  <2>11. CASE DiskFails(r)
    BY <2>11 DEF DiskFails, WatchFails, NoWatch, Fault, WatchGoes
  <2> QED
    BY <1>19, <2>1, <2>2, <2>3, <2>4, <2>5, <2>6, <2>7, <2>8, <2>9, <2>10, <2>11
<1> QED
  BY <1>1, <1>2, <1>3, <1>4, <1>5, <1>6, <1>7, <1>8, <1>9, <1>10, <1>11, <1>12, <1>13, <1>14, <1>15, <1>16, <1>17, <1>18, <1>19, NextCases

-----------------------------------------------------------------------------

\* The strengthened invariant holds of every reachable state.
THEOREM Invariance == Spec => []IInv
<1>1. IInv /\ [Next]_vars => IInv'
  BY TypeStep, ControlStep, FilesStep, TimeStep DEF IInv
<1> QED
  BY <1>1, InitIInv, PTL DEF Spec

\* Every variable keeps its type, for any number of runs and faults and any durations:
\* timers of k6 and the watcher never fall below zero.
THEOREM TypeCorrect == Spec => []TypeOK
<1>1. IInv => TypeOK
  BY DEF IInv
<1> QED
  BY <1>1, Invariance, PTL

\* RunArm.run reports as done only a run that posted no row cut in half, and whose
\* k6.json and watch.json are its own or were written again by a k6 or a watcher that
\* outlived a run cut short; pods.json is its own.
THEOREM DoneIsSound == Spec => []DoneRunIsSound
<1>1. IInv => DoneRunIsSound
  BY DEF IInv, ControlInv, FilesInv, DoneRunIsSound, Accepted, Measuring
<1> QED
  BY <1>1, Invariance, PTL

\* For every duration and slack, the watcher samples until k6 has answered its last request
\* if k6's start-up and gracefulStop together take less than the slack.
THEOREM WatcherCoversLoad == Spec => []WatcherDoesItsPart
<1>1. IInv => WatcherDoesItsPart
  BY DEF IInv, TimeInv, WatcherDoesItsPart
<1> QED
  BY <1>1, Invariance, PTL
=============================================================================
