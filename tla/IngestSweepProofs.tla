-------------------------- MODULE IngestSweepProofs --------------------------
(***************************************************************************)
(* The safety properties of IngestSweep for any number of points, sizes of *)
(* the cluster, units of time, sweeps and deaths.                          *)
(***************************************************************************)
EXTENDS IngestSweep, TLAPS

Loads == [sweep : 1..MaxSweeps, point : PointIds, kind : {"warm", "measure"}]
Keyed == {"clear", "gate", "polled", "warm", "pause", "measure", "pods", "delete"}
AtPoint == {"gate", "polled", "warm", "pause", "measure", "pods"}
Stopped == {"await", "report", "done", "dead"}

\* What TypeOK leaves open; a sweep that is not over did not die.
ShapeInv ==
    /\ k6 \in SUBSET Loads
    /\ pc \in Keyed => key
    /\ pc # "idle" => sweep \in 1..MaxSweeps
    /\ died \subseteq 1..sweep /\ (pc \notin Over => sweep \notin died)

\* A k6 is on the box for the step that awaits it, or of a dead sweep.
Awaiting == pc \in {"warm", "measure"} /\ cmd = "running"
Awaited(c) == Awaiting /\ c = [sweep |-> sweep, point |-> point, kind |-> pc]
LoadInv ==
    /\ \A c \in k6 : c.sweep \in died \/ Awaited(c)
    /\ \A c, d \in k6 : c.sweep = d.sweep => c = d

\* A reading of "empty" was true since the gate was entered.
GateInv ==
    /\ pc \in {"gate", "polled"} /\ ~hot => drained
    /\ pc = "polled" /\ left = "empty" => drained
    /\ GateHolds

\* The points behind have their files from this sweep, up to what the k6 of dead sweeps
\* have written over them.
Own == {sweep} \cup died
ResultInv ==
    /\ pc \in AtPoint => \A p \in PointIds : p < point => boxK6[p] \in Own /\ localPods[p] = sweep
    /\ pc = "pods" \/ (pc = "measure" /\ cmd = "ok") => boxK6[point] \in Own
    /\ pc \in {"delete", "fetch"} =>
          \A p \in PointIds : boxK6[p] \in Own /\ localPods[p] = sweep
    /\ pc \in {"stop", "await", "report", "done"} =>
          \A p \in PointIds : localK6[p] \in Own /\ localPods[p] = sweep

\* No time is waited before the stop flag is set; after that there is the rest of one tick to
\* wait for, at most the calls without a limit and the rounds of scrapes so far.
Rounds(n) == n * ScrapeLimit
TickInv ==
    /\ pc \notin Stopped => waited = 0 /\ untimed = 0
    /\ untimed <= waited
    /\ pc = "await" =>
          /\ stop /\ waited <= untimed + Rounds(rounds)
          /\ sampler = "list" => waited <= untimed
          /\ sampler = "scrape" => waited <= untimed + Rounds(round) + age
    /\ cause = "sampler" => Rounds(rounds) + untimed > AwaitLimit

IInv == TypeOK /\ ShapeInv /\ LoadInv /\ GateInv /\ ResultInv /\ TickInv

-----------------------------------------------------------------------------

\* The constants are positive numbers.
LEMMA Constants ==
    /\ Points \in Nat /\ Points > 0 /\ MaxSweeps \in Nat /\ MaxSweeps > 0
    /\ HalfMinute \in Nat /\ HalfMinute > 0
    /\ \A n \in Clusters : n \in Nat /\ n > 0
  BY IngestAssumption

\* The limits are numbers.
LEMMA Limits == ScrapeLimit \in Nat /\ AwaitLimit \in Nat
  BY Constants DEF ScrapeLimit, AwaitLimit

\* The longest time that some rounds of scrapes take.
LEMMA RoundTime ==
    ASSUME NEW m \in Nat, NEW n \in Nat
    PROVE  /\ Rounds(m) \in Nat /\ Rounds(0) = 0
           /\ Rounds(m + 1) = Rounds(m) + ScrapeLimit
           /\ m < n => Rounds(m) + ScrapeLimit <= Rounds(n)
<1>1. \A s \in Nat : m * s \in Nat /\ 0 * s = 0 /\ (m + 1) * s = m * s + s
  OBVIOUS
<1>2. ASSUME NEW s \in Nat, m < n PROVE m * s + s <= n * s
  <2>1. PICK k \in Nat : n = m + 1 + k
    <3>1. n - m - 1 \in Nat /\ n = m + 1 + (n - m - 1)
      BY <1>2
    <3> QED
      BY <3>1
  <2>2. n * s = m * s + s + k * s /\ k * s \in Nat /\ m * s \in Nat
    BY <2>1
  <2> QED
    BY <2>2
<1> QED
  BY <1>1, <1>2, Limits DEF Rounds

\* The initial state satisfies the invariant.
LEMMA InitIInv == Init => IInv
<1> SUFFICES ASSUME Init PROVE IInv
  OBVIOUS
<1> USE DEF Init
<1>1. TypeOK
  <2>1. rounds \in Clusters /\ rounds \in Nat /\ rounds > 0 /\ 1 \in 1..Points
    BY Constants
  <2>2. boxK6 \in [PointIds -> 0..MaxSweeps] /\ localK6 = boxK6 /\ localPods = boxK6
    BY Constants
  <2>3. sweep \in 0..MaxSweeps /\ died \subseteq 1..MaxSweeps /\ point \in PointIds
    BY <2>1, Constants DEF PointIds
  <2>4. round \in 0..rounds /\ age \in 0..ScrapeLimit
    BY <2>1, Limits
  <2>5. waited \in 0..AwaitLimit + 1 /\ untimed \in 0..AwaitLimit + 1
    BY Limits
  <2> QED
    BY <2>1, <2>2, <2>3, <2>4, <2>5 DEF TypeOK, Steps, Over
<1>2. ShapeInv
  BY Constants DEF ShapeInv, Keyed, Over
<1>3. LoadInv /\ GateInv
  BY DEF LoadInv, GateInv, GateHolds
<1>4. ResultInv /\ TickInv
  BY DEF ResultInv, AtPoint, TickInv, Stopped
<1> QED
  BY <1>1, <1>2, <1>3, <1>4 DEF IInv

\* The steps of Next, one by one.
LEMMA NextCases ==
    ASSUME [Next]_vars
    PROVE  \/ StartSweep \/ Setup \/ PutKey \/ ClearResults \/ PollGate \/ PollAgain
           \/ WarmUp \/ WarmedUp \/ Measure \/ Measured \/ WritePods \/ DeleteKey
           \/ Fetch \/ StopSampler \/ SamplerStopped \/ Report \/ Killed
           \/ CommandFailed \/ PodsSampled \/ PodsFailed \/ SamplerCheck \/ PodsListed
           \/ SamplerRound \/ RowsInserted \/ SamplerWakes \/ TimePasses
           \/ AwaitTimesOut \/ HotChanges \/ DrainWaitOver \/ UNCHANGED vars
           \/ \E c \in k6 : EndK6(c)
  BY DEF Next, SweepStep, SamplerStep, Rest

\* The k6 that the current step starts.
LEMMA ThisLoad ==
    ASSUME TypeOK, ShapeInv, pc # "idle", NEW kind \in {"warm", "measure"}
    PROVE  [sweep |-> sweep, point |-> point, kind |-> kind] \in Loads
  BY DEF TypeOK, ShapeInv, Loads

\* Every step preserves the types.
LEMMA TypeStep == TypeOK /\ ShapeInv /\ TickInv /\ [Next]_vars => TypeOK'
<1> SUFFICES ASSUME TypeOK, ShapeInv, TickInv, [Next]_vars PROVE TypeOK'
  OBVIOUS
<1> USE DEF TypeOK, ShapeInv, Steps, Over, PointIds, Keyed, sweepVars, deathVars, waitVars, samplerVars, boxVars,
    files
<1>1. CASE StartSweep
  <2>1. sweep' \in 0..MaxSweeps /\ waited' \in 0..AwaitLimit + 1 /\ untimed' \in 0..AwaitLimit + 1
    BY <1>1, Constants, Limits DEF StartSweep
  <2>2. point' \in PointIds /\ round' \in 0..rounds' /\ age' \in 0..ScrapeLimit
    BY <1>1, Constants, Limits DEF StartSweep
  <2>3. ~(pc' \in {"warm", "pause", "measure", "pods"}) /\ pc' \in Steps
    BY <1>1 DEF StartSweep
  <2> QED
    BY <1>1, <2>1, <2>2, <2>3 DEF StartSweep
<1>2. CASE Setup
  BY <1>2 DEF Setup, Goto
<1>3. CASE PutKey
  BY <1>3 DEF PutKey, Goto
<1>4. CASE ClearResults
  <2>1. point' \in PointIds
    BY <1>4, Constants DEF ClearResults, EnterGate
  <2>2. boxK6' \in [PointIds -> 0..MaxSweeps]
    BY <1>4, Constants DEF ClearResults
  <2>3. /\ pc' = "gate" /\ left' = "unknown" /\ gateLate' = FALSE /\ drained' \in BOOLEAN
        /\ UNCHANGED <<sweep, cmd, key, deathVars, pods, samplerVars, k6, hot, localK6, localPods>>
    BY <1>4 DEF ClearResults, Goto, EnterGate
  <2> QED
    <3>1. ({boxK6, localK6, localPods} \subseteq [PointIds -> 0..MaxSweeps])'
      BY <2>2, <2>3
    <3>2. (round \in 0..rounds /\ (sampler \in {"list", "scrape"} => round < rounds))'
      BY <2>3
    <3>3. (pc \in Steps)' /\ pc' \notin {"warm", "pause", "measure", "pods"}
      BY <2>3
    <3>4. (left \in {"empty", "some", "unknown"} /\ gateLate \in BOOLEAN)'
      BY <2>3
    <3>5. UNCHANGED <<sweep, cmd, died, cause, pods, sampler, rounds, age, stop, waited,
                      untimed, hot>>
      BY <2>3
    <3> QED
      BY <2>1, <2>3, <3>1, <3>2, <3>3, <3>4, <3>5
<1>5. CASE PollGate
  <2>1. left' \in {"empty", "some", "unknown"} /\ pc' = "polled"
    BY <1>5 DEF PollGate, Goto, Reading
  <2>2. UNCHANGED <<sweep, point, gateLate, cmd, key, deathVars, pods, samplerVars, boxVars, files>>
    BY <1>5 DEF PollGate
  <2> QED
    BY <2>1, <2>2
<1>6. CASE PollAgain
  BY <1>6 DEF PollAgain, Goto, DeadlineOver
<1>7. CASE WarmUp
  BY <1>7 DEF WarmUp, Goto, DeadlineOver
<1>8. CASE WarmedUp
  BY <1>8 DEF WarmedUp, Goto, CommandOk
<1>9. CASE Measure
  <2>1. pc = "pause" /\ pc' = "measure" /\ pods' = "sampling" /\ cmd' = "running"
    BY <1>9 DEF Measure, Goto
  <2>2. UNCHANGED <<sweep, point, left, gateLate, key, deathVars, samplerVars, hot, drained, files>>
    BY <1>9 DEF Measure
  <2> QED
    BY <2>1, <2>2
<1>10. CASE Measured
  BY <1>10 DEF Measured, Goto, CommandOk
<1>11. CASE WritePods
  <2>1. point' \in PointIds
    <3>1. CASE point < Points /\ point' = point + 1
      BY <3>1, Constants
    <3> QED
      BY <1>11, <3>1 DEF WritePods, EnterGate
  <2>2. localPods' \in [PointIds -> 0..MaxSweeps]
    BY <1>11 DEF WritePods
  <2>3. /\ pc = "pods" /\ pc' \in {"gate", "delete"} /\ pods' = "none"
        /\ left' \in {"unknown", left} /\ gateLate' \in {FALSE, gateLate}
        /\ drained' \in {~hot, drained}
    BY <1>11 DEF WritePods, EnterGate
  <2>4. UNCHANGED <<sweep, cmd, key, deathVars, samplerVars, k6, hot, boxK6, localK6>>
    BY <1>11 DEF WritePods
  <2> QED
    <3>1. ({boxK6, localK6, localPods} \subseteq [PointIds -> 0..MaxSweeps])'
      BY <2>2, <2>4
    <3>2. (round \in 0..rounds /\ (sampler \in {"list", "scrape"} => round < rounds))'
      BY <2>4
    <3>3. (pc \in Steps /\ (pc \in {"warm", "pause", "measure", "pods"} => key))'
      BY <2>3, <2>4
    <3>4. (left \in {"empty", "some", "unknown"} /\ gateLate \in BOOLEAN /\ drained \in BOOLEAN)'
      BY <2>3
    <3>5. (pods \in {"none", "sampling", "done"})'
      BY <2>3
    <3>6. UNCHANGED <<sweep, cmd, died, cause, sampler, rounds, age, stop, waited, untimed, hot>>
      BY <2>4
    <3> QED
      BY <2>1, <3>1, <3>2, <3>3, <3>4, <3>5, <3>6
<1>12. CASE DeleteKey
  BY <1>12 DEF DeleteKey, Goto
<1>13. CASE Fetch
  BY <1>13 DEF Fetch, Goto, Fetched
<1>14. CASE StopSampler
  BY <1>14 DEF StopSampler, Goto
<1>15. CASE SamplerStopped
  BY <1>15 DEF SamplerStopped, Goto, SamplerReturned
<1>16. CASE Report
  BY <1>16 DEF Report, Goto
<1>17. CASE Killed
  <2>1. died' \subseteq 1..MaxSweeps /\ pc' = "dead"
    BY <1>17, Constants DEF Killed, Die
  <2> QED
    BY <1>17, <2>1 DEF Killed, Die
<1>18. CASE CommandFailed
  <2>1. died' \subseteq 1..MaxSweeps /\ pc' = "dead"
    BY <1>18, Constants DEF CommandFailed, Die
  <2> QED
    BY <1>18, <2>1 DEF CommandFailed, Die
<1>19. CASE PodsSampled
  BY <1>19 DEF PodsSampled
<1>20. CASE PodsFailed
  <2>1. died' \subseteq 1..MaxSweeps /\ pc' = "dead"
    BY <1>20, Constants DEF PodsFailed, Die
  <2> QED
    BY <1>20, <2>1 DEF PodsFailed, Die
<1>21. CASE SamplerCheck
  <2>1. round' \in 0..rounds' /\ round' < rounds' /\ age' \in 0..ScrapeLimit
    BY <1>21, Constants, Limits DEF SamplerCheck, samplerElse
  <2> QED
    BY <1>21, <2>1 DEF SamplerCheck, samplerElse
<1>22. CASE PodsListed
  <2>1. sampler = "list" /\ sampler' \in {"scrape", "sleep"} /\ round' = round /\ age' = age
    BY <1>22 DEF PodsListed
  <2>2. round' \in 0..rounds' /\ round' < rounds'
    BY <1>22, <2>1, Constants DEF PodsListed, samplerElse
  <2> QED
    BY <1>22, <2>1, <2>2 DEF PodsListed, samplerElse
<1>23. CASE SamplerRound
  <2>1. round' \in Nat /\ round' <= rounds /\ age' \in 0..ScrapeLimit
    BY <1>23, Constants, Limits DEF SamplerRound, samplerElse
  <2>2. sampler' \in {"scrape", "insert"} /\ (sampler' \in {"list", "scrape"} => round' < rounds)
    <3>1. round \in Nat /\ rounds \in Nat /\ round < rounds /\ round' = round + 1
      BY <1>23, Constants DEF SamplerRound
    <3>2. sampler' = IF round + 1 = rounds THEN "insert" ELSE "scrape"
      BY <1>23 DEF SamplerRound, LastRound
    <3> QED
      BY ONLY <3>1, <3>2
  <2>3. UNCHANGED samplerElse
    BY <1>23 DEF SamplerRound
  <2> QED
    <3>1. (round \in 0..rounds /\ (sampler \in {"list", "scrape"} => round < rounds))'
      BY <2>1, <2>2, <2>3, Constants DEF samplerElse
    <3>2. UNCHANGED <<pc, sweepVars, deathVars, pods, boxVars, files, rounds, waitVars>>
      BY <2>3 DEF samplerElse
    <3> QED
      BY <2>1, <2>2, <3>1, <3>2
<1>24. CASE RowsInserted
  BY <1>24 DEF RowsInserted, samplerElse
<1>25. CASE SamplerWakes
  BY <1>25 DEF SamplerWakes, samplerElse
<1>26. CASE TimePasses
  <2>1. waited \in Nat /\ waited <= AwaitLimit /\ untimed \in Nat /\ untimed <= waited
    BY <1>26, Limits DEF TimePasses, TickInv
  <2>2. waited' = waited + 1 /\ untimed' \in {untimed, untimed + 1}
    BY <1>26 DEF TimePasses
  <2>3. waited' \in 0..AwaitLimit + 1 /\ untimed' \in 0..AwaitLimit + 1
    BY ONLY <2>1, <2>2, Limits
  <2>4. age' \in 0..ScrapeLimit
    BY <1>26, Limits DEF TimePasses, ScrapeGoesOn
  <2>5. UNCHANGED <<pc, sweepVars, deathVars, pods, rounds, sampler, round, stop, boxVars, files>>
    BY <1>26 DEF TimePasses
  <2> QED
    BY <2>3, <2>4, <2>5
<1>27. CASE AwaitTimesOut
  <2>1. died' \subseteq 1..MaxSweeps /\ pc' = "dead"
    BY <1>27, Constants DEF AwaitTimesOut, Die, SamplerReturned
  <2> QED
    BY <1>27, <2>1 DEF AwaitTimesOut, Die, SamplerReturned
<1>28. CASE HotChanges
  BY <1>28 DEF HotChanges
<1>29. CASE DrainWaitOver
  BY <1>29 DEF DrainWaitOver
<1>30. CASE UNCHANGED vars
  BY <1>30 DEF vars
<1>31. CASE \E c \in k6 : EndK6(c)
  <2>1. PICK c \in k6 : EndK6(c)
    BY <1>31
  <2>2. c.sweep \in 0..MaxSweeps /\ c.point \in PointIds
    BY <2>1 DEF Loads
  <2>3. cmd' \in {"none", "running", "ok", "failed"}
    BY <2>1 DEF EndK6
  <2>4. boxK6' \in [PointIds -> 0..MaxSweeps]
    BY <2>1, <2>2 DEF EndK6
  <2>5. hot' \in BOOLEAN /\ drained' \in BOOLEAN
    BY <2>1 DEF EndK6
  <2>6. UNCHANGED <<pc, sweep, point, left, gateLate, key, deathVars, pods, samplerVars, localK6,
                    localPods>>
    BY <2>1 DEF EndK6
  <2> QED
    BY <2>3, <2>4, <2>5, <2>6
<1> QED
  BY NextCases, <1>1, <1>2, <1>3, <1>4, <1>5, <1>6, <1>7, <1>8, <1>9, <1>10, <1>11, <1>12,
     <1>13, <1>14, <1>15, <1>16, <1>17, <1>18, <1>19, <1>20, <1>21, <1>22, <1>23, <1>24,
     <1>25, <1>26, <1>27, <1>28, <1>29, <1>30, <1>31

\* A sweep dies once, and its key is there until it is over.
LEMMA ShapeStep == TypeOK /\ ShapeInv /\ [Next]_vars => ShapeInv'
<1> SUFFICES ASSUME TypeOK, ShapeInv, [Next]_vars PROVE ShapeInv'
  OBVIOUS
<1> USE DEF TypeOK, ShapeInv, Over, Keyed, sweepVars, deathVars, waitVars, samplerVars, boxVars,
    files
<1>1. CASE StartSweep
  BY <1>1, Constants DEF StartSweep
<1>2. CASE Setup
  BY <1>2 DEF Setup, Goto
<1>3. CASE PutKey
  BY <1>3 DEF PutKey, Goto
<1>4. CASE ClearResults
  BY <1>4, Constants DEF ClearResults, Goto, EnterGate
<1>5. CASE PollGate
  BY <1>5 DEF PollGate, Goto, Reading
<1>6. CASE PollAgain
  BY <1>6 DEF PollAgain, Goto, DeadlineOver
<1>7. CASE WarmUp
  BY <1>7, ThisLoad DEF WarmUp, Goto, DeadlineOver
<1>8. CASE WarmedUp
  BY <1>8 DEF WarmedUp, Goto, CommandOk
<1>9. CASE Measure
  BY <1>9, ThisLoad DEF Measure, Goto
<1>10. CASE Measured
  BY <1>10 DEF Measured, Goto, CommandOk
<1>11. CASE WritePods
  BY <1>11, Constants DEF WritePods, EnterGate
<1>12. CASE DeleteKey
  BY <1>12 DEF DeleteKey, Goto
<1>13. CASE Fetch
  BY <1>13 DEF Fetch, Goto, Fetched
<1>14. CASE StopSampler
  BY <1>14 DEF StopSampler, Goto
<1>15. CASE SamplerStopped
  BY <1>15 DEF SamplerStopped, Goto, SamplerReturned
<1>16. CASE Report
  BY <1>16 DEF Report, Goto
<1>17. CASE Killed
  BY <1>17, Constants DEF Killed, Die
<1>18. CASE CommandFailed
  BY <1>18, Constants DEF CommandFailed, Die
<1>19. CASE PodsSampled
  BY <1>19 DEF PodsSampled
<1>20. CASE PodsFailed
  BY <1>20, Constants DEF PodsFailed, Die
<1>21. CASE SamplerCheck
  BY <1>21 DEF SamplerCheck, samplerElse
<1>22. CASE PodsListed
  BY <1>22 DEF PodsListed, samplerElse
<1>23. CASE SamplerRound
  BY <1>23 DEF SamplerRound, LastRound, samplerElse
<1>24. CASE RowsInserted
  BY <1>24 DEF RowsInserted, samplerElse
<1>25. CASE SamplerWakes
  BY <1>25 DEF SamplerWakes, samplerElse
<1>26. CASE TimePasses
  BY <1>26 DEF TimePasses, ScrapeGoesOn
<1>27. CASE AwaitTimesOut
  BY <1>27, Constants DEF AwaitTimesOut, Die, SamplerReturned
<1>28. CASE HotChanges
  BY <1>28 DEF HotChanges
<1>29. CASE DrainWaitOver
  BY <1>29 DEF DrainWaitOver
<1>30. CASE UNCHANGED vars
  BY <1>30 DEF vars
<1>31. CASE \E c \in k6 : EndK6(c)
  BY <1>31 DEF EndK6, Kind
<1> QED
  BY NextCases, <1>1, <1>2, <1>3, <1>4, <1>5, <1>6, <1>7, <1>8, <1>9, <1>10, <1>11, <1>12,
     <1>13, <1>14, <1>15, <1>16, <1>17, <1>18, <1>19, <1>20, <1>21, <1>22, <1>23, <1>24,
     <1>25, <1>26, <1>27, <1>28, <1>29, <1>30, <1>31

\* A sweep starts a k6 when it awaits none, and leaves one behind only by dying.
LEMMA LoadStep == TypeOK /\ ShapeInv /\ LoadInv /\ [Next]_vars => LoadInv'
<1> SUFFICES ASSUME TypeOK, ShapeInv, LoadInv, [Next]_vars PROVE LoadInv'
  OBVIOUS
<1> USE DEF TypeOK, ShapeInv, LoadInv, Awaited, Awaiting, Over, sweepVars, deathVars, waitVars, samplerVars, boxVars,
    files
<1>1. CASE StartSweep
  BY <1>1 DEF StartSweep
<1>2. CASE Setup
  BY <1>2 DEF Setup, Goto
<1>3. CASE PutKey
  BY <1>3 DEF PutKey, Goto
<1>4. CASE ClearResults
  BY <1>4 DEF ClearResults, Goto, EnterGate
<1>5. CASE PollGate
  BY <1>5 DEF PollGate, Goto, Reading
<1>6. CASE PollAgain
  BY <1>6 DEF PollAgain, Goto, DeadlineOver
<1>7. CASE WarmUp
  BY <1>7 DEF WarmUp, Goto, DeadlineOver
<1>8. CASE WarmedUp
  BY <1>8 DEF WarmedUp, Goto, CommandOk
<1>9. CASE Measure
  BY <1>9 DEF Measure, Goto
<1>10. CASE Measured
  BY <1>10 DEF Measured, Goto, CommandOk
<1>11. CASE WritePods
  BY <1>11 DEF WritePods, EnterGate
<1>12. CASE DeleteKey
  BY <1>12 DEF DeleteKey, Goto
<1>13. CASE Fetch
  BY <1>13 DEF Fetch, Goto, Fetched
<1>14. CASE StopSampler
  BY <1>14 DEF StopSampler, Goto
<1>15. CASE SamplerStopped
  BY <1>15 DEF SamplerStopped, Goto, SamplerReturned
<1>16. CASE Report
  BY <1>16 DEF Report, Goto
<1>17. CASE Killed
  BY <1>17 DEF Killed, Die
<1>18. CASE CommandFailed
  BY <1>18 DEF CommandFailed, Die
<1>19. CASE PodsSampled
  BY <1>19 DEF PodsSampled
<1>20. CASE PodsFailed
  BY <1>20 DEF PodsFailed, Die
<1>21. CASE SamplerCheck
  BY <1>21 DEF SamplerCheck, samplerElse
<1>22. CASE PodsListed
  BY <1>22 DEF PodsListed, samplerElse
<1>23. CASE SamplerRound
  BY <1>23 DEF SamplerRound, LastRound, samplerElse
<1>24. CASE RowsInserted
  BY <1>24 DEF RowsInserted, samplerElse
<1>25. CASE SamplerWakes
  BY <1>25 DEF SamplerWakes, samplerElse
<1>26. CASE TimePasses
  BY <1>26 DEF TimePasses, ScrapeGoesOn
<1>27. CASE AwaitTimesOut
  BY <1>27 DEF AwaitTimesOut, Die, SamplerReturned
<1>28. CASE HotChanges
  BY <1>28 DEF HotChanges
<1>29. CASE DrainWaitOver
  BY <1>29 DEF DrainWaitOver
<1>30. CASE UNCHANGED vars
  BY <1>30 DEF vars
<1>31. CASE \E c \in k6 : EndK6(c)
  BY <1>31 DEF EndK6, Kind
<1> QED
  BY NextCases, <1>1, <1>2, <1>3, <1>4, <1>5, <1>6, <1>7, <1>8, <1>9, <1>10, <1>11, <1>12,
     <1>13, <1>14, <1>15, <1>16, <1>17, <1>18, <1>19, <1>20, <1>21, <1>22, <1>23, <1>24,
     <1>25, <1>26, <1>27, <1>28, <1>29, <1>30, <1>31

\* The gate lets go on a reading of this point, or late.
LEMMA GateStep == TypeOK /\ GateInv /\ [Next]_vars => GateInv'
<1> SUFFICES ASSUME TypeOK, GateInv, [Next]_vars PROVE GateInv'
  OBVIOUS
<1> USE DEF TypeOK, GateInv, GateHolds, Over, sweepVars, deathVars, waitVars, samplerVars, boxVars,
    files
<1>1. CASE StartSweep
  BY <1>1 DEF StartSweep
<1>2. CASE Setup
  BY <1>2 DEF Setup, Goto
<1>3. CASE PutKey
  BY <1>3 DEF PutKey, Goto
<1>4. CASE ClearResults
  BY <1>4 DEF ClearResults, Goto, EnterGate
<1>5. CASE PollGate
  BY <1>5 DEF PollGate, Goto, Reading
<1>6. CASE PollAgain
  BY <1>6 DEF PollAgain, Goto, DeadlineOver
<1>7. CASE WarmUp
  BY <1>7 DEF WarmUp, Goto, DeadlineOver
<1>8. CASE WarmedUp
  BY <1>8 DEF WarmedUp, Goto, CommandOk
<1>9. CASE Measure
  BY <1>9 DEF Measure, Goto
<1>10. CASE Measured
  BY <1>10 DEF Measured, Goto, CommandOk
<1>11. CASE WritePods
  BY <1>11 DEF WritePods, EnterGate
<1>12. CASE DeleteKey
  BY <1>12 DEF DeleteKey, Goto
<1>13. CASE Fetch
  BY <1>13 DEF Fetch, Goto, Fetched
<1>14. CASE StopSampler
  BY <1>14 DEF StopSampler, Goto
<1>15. CASE SamplerStopped
  BY <1>15 DEF SamplerStopped, Goto, SamplerReturned
<1>16. CASE Report
  BY <1>16 DEF Report, Goto
<1>17. CASE Killed
  BY <1>17 DEF Killed, Die
<1>18. CASE CommandFailed
  BY <1>18 DEF CommandFailed, Die
<1>19. CASE PodsSampled
  BY <1>19 DEF PodsSampled
<1>20. CASE PodsFailed
  BY <1>20 DEF PodsFailed, Die
<1>21. CASE SamplerCheck
  BY <1>21 DEF SamplerCheck, samplerElse
<1>22. CASE PodsListed
  BY <1>22 DEF PodsListed, samplerElse
<1>23. CASE SamplerRound
  BY <1>23 DEF SamplerRound, LastRound, samplerElse
<1>24. CASE RowsInserted
  BY <1>24 DEF RowsInserted, samplerElse
<1>25. CASE SamplerWakes
  BY <1>25 DEF SamplerWakes, samplerElse
<1>26. CASE TimePasses
  BY <1>26 DEF TimePasses, ScrapeGoesOn
<1>27. CASE AwaitTimesOut
  BY <1>27 DEF AwaitTimesOut, Die, SamplerReturned
<1>28. CASE HotChanges
  BY <1>28 DEF HotChanges
<1>29. CASE DrainWaitOver
  BY <1>29 DEF DrainWaitOver
<1>30. CASE UNCHANGED vars
  BY <1>30 DEF vars
<1>31. CASE \E c \in k6 : EndK6(c)
  BY <1>31 DEF EndK6, Kind
<1> QED
  BY NextCases, <1>1, <1>2, <1>3, <1>4, <1>5, <1>6, <1>7, <1>8, <1>9, <1>10, <1>11, <1>12,
     <1>13, <1>14, <1>15, <1>16, <1>17, <1>18, <1>19, <1>20, <1>21, <1>22, <1>23, <1>24,
     <1>25, <1>26, <1>27, <1>28, <1>29, <1>30, <1>31

\* Each point's files are written before the next point.
LEMMA ResultStep == TypeOK /\ ShapeInv /\ LoadInv /\ ResultInv /\ [Next]_vars => ResultInv'
<1> SUFFICES ASSUME TypeOK, ShapeInv, LoadInv, ResultInv, [Next]_vars PROVE ResultInv'
  OBVIOUS
<1> USE DEF TypeOK, ShapeInv, LoadInv, ResultInv, Awaited, Awaiting, Own, AtPoint, Over, PointIds,
    sweepVars, deathVars, waitVars, samplerVars, boxVars,
    files
<1>1. CASE StartSweep
  BY <1>1 DEF StartSweep
<1>2. CASE Setup
  BY <1>2 DEF Setup, Goto
<1>3. CASE PutKey
  BY <1>3 DEF PutKey, Goto
<1>4. CASE ClearResults
  BY <1>4 DEF ClearResults, Goto, EnterGate
<1>5. CASE PollGate
  BY <1>5 DEF PollGate, Goto, Reading
<1>6. CASE PollAgain
  BY <1>6 DEF PollAgain, Goto, DeadlineOver
<1>7. CASE WarmUp
  BY <1>7 DEF WarmUp, Goto, DeadlineOver
<1>8. CASE WarmedUp
  BY <1>8 DEF WarmedUp, Goto, CommandOk
<1>9. CASE Measure
  BY <1>9 DEF Measure, Goto
<1>10. CASE Measured
  BY <1>10 DEF Measured, Goto, CommandOk
<1>11. CASE WritePods
  <2>1. /\ pc = "pods" /\ UNCHANGED <<sweep, died, boxK6, localK6>>
        /\ localPods' = [localPods EXCEPT ![point] = sweep]
    BY <1>11 DEF WritePods
  <2>2. \A p \in PointIds : p <= point => boxK6'[p] \in Own' /\ localPods'[p] = sweep'
    <3> SUFFICES ASSUME NEW p \in PointIds, p <= point
                 PROVE  boxK6'[p] \in Own' /\ localPods'[p] = sweep'
      OBVIOUS
    <3>1. p < point \/ p = point
      BY Constants
    <3>2. boxK6[p] \in Own /\ (p < point => localPods[p] = sweep)
      BY <2>1, <3>1
    <3>3. localPods'[p] = IF p = point THEN sweep ELSE localPods[p]
      BY <2>1
    <3> QED
      BY <2>1, <3>1, <3>2, <3>3
  <2>3. CASE pc' = "gate" /\ point' = point + 1
    <3>1. \A p \in PointIds : p < point' => p <= point
      BY <2>3, Constants
    <3> QED
      BY <2>1, <2>2, <2>3, <3>1
  <2>4. CASE pc' = "delete" /\ point = Points
    <3>1. \A p \in PointIds : p <= point
      BY <2>4, Constants
    <3> QED
      BY <2>1, <2>2, <2>4, <3>1
  <2> QED
    BY <1>11, <2>3, <2>4 DEF WritePods, EnterGate
<1>12. CASE DeleteKey
  BY <1>12 DEF DeleteKey, Goto
<1>13. CASE Fetch
  BY <1>13 DEF Fetch, Goto, Fetched
<1>14. CASE StopSampler
  BY <1>14 DEF StopSampler, Goto
<1>15. CASE SamplerStopped
  BY <1>15 DEF SamplerStopped, Goto, SamplerReturned
<1>16. CASE Report
  BY <1>16 DEF Report, Goto
<1>17. CASE Killed
  BY <1>17 DEF Killed, Die
<1>18. CASE CommandFailed
  BY <1>18 DEF CommandFailed, Die
<1>19. CASE PodsSampled
  BY <1>19 DEF PodsSampled
<1>20. CASE PodsFailed
  BY <1>20 DEF PodsFailed, Die
<1>21. CASE SamplerCheck
  BY <1>21 DEF SamplerCheck, samplerElse
<1>22. CASE PodsListed
  BY <1>22 DEF PodsListed, samplerElse
<1>23. CASE SamplerRound
  BY <1>23 DEF SamplerRound, LastRound, samplerElse
<1>24. CASE RowsInserted
  BY <1>24 DEF RowsInserted, samplerElse
<1>25. CASE SamplerWakes
  BY <1>25 DEF SamplerWakes, samplerElse
<1>26. CASE TimePasses
  BY <1>26 DEF TimePasses, ScrapeGoesOn
<1>27. CASE AwaitTimesOut
  BY <1>27 DEF AwaitTimesOut, Die, SamplerReturned
<1>28. CASE HotChanges
  BY <1>28 DEF HotChanges
<1>29. CASE DrainWaitOver
  BY <1>29 DEF DrainWaitOver
<1>30. CASE UNCHANGED vars
  BY <1>30 DEF vars
<1>31. CASE \E c \in k6 : EndK6(c)
  BY <1>31 DEF EndK6, Kind
<1> QED
  BY NextCases, <1>1, <1>2, <1>3, <1>4, <1>5, <1>6, <1>7, <1>8, <1>9, <1>10, <1>11, <1>12,
     <1>13, <1>14, <1>15, <1>16, <1>17, <1>18, <1>19, <1>20, <1>21, <1>22, <1>23, <1>24,
     <1>25, <1>26, <1>27, <1>28, <1>29, <1>30, <1>31

\* The last tick takes no longer than its calls without a limit and its rounds.
LEMMA TickStep == TypeOK /\ TickInv /\ [Next]_vars => TickInv'
<1> SUFFICES ASSUME TypeOK, TickInv, [Next]_vars PROVE TickInv'
  OBVIOUS
<1> USE DEF TypeOK, TickInv, Stopped, Over, sweepVars, deathVars, waitVars, samplerVars, boxVars,
    files
<1>1. CASE StartSweep
  BY <1>1 DEF StartSweep
<1>2. CASE Setup
  BY <1>2 DEF Setup, Goto
<1>3. CASE PutKey
  BY <1>3 DEF PutKey, Goto
<1>4. CASE ClearResults
  BY <1>4 DEF ClearResults, Goto, EnterGate
<1>5. CASE PollGate
  BY <1>5 DEF PollGate, Goto, Reading
<1>6. CASE PollAgain
  BY <1>6 DEF PollAgain, Goto, DeadlineOver
<1>7. CASE WarmUp
  BY <1>7 DEF WarmUp, Goto, DeadlineOver
<1>8. CASE WarmedUp
  BY <1>8 DEF WarmedUp, Goto, CommandOk
<1>9. CASE Measure
  BY <1>9 DEF Measure, Goto
<1>10. CASE Measured
  BY <1>10 DEF Measured, Goto, CommandOk
<1>11. CASE WritePods
  BY <1>11 DEF WritePods, EnterGate
<1>12. CASE DeleteKey
  BY <1>12 DEF DeleteKey, Goto
<1>13. CASE Fetch
  BY <1>13 DEF Fetch, Goto, Fetched
<1>14. CASE StopSampler
  <2>1. /\ Rounds(round) \in Nat /\ Rounds(rounds) \in Nat /\ age \in Nat
        /\ waited' = 0 /\ untimed' = 0 /\ stop' = TRUE
    BY <1>14, RoundTime, Limits, Constants DEF StopSampler, Goto
  <2>2. UNCHANGED <<rounds, sampler, round, age, cause, untimed>>
    BY <1>14 DEF StopSampler
  <2>3. waited' <= untimed' /\ waited' <= untimed' + Rounds(rounds)
        /\ waited' <= untimed' + Rounds(round) + age
    BY <2>1
  <2> QED
    BY <2>1, <2>2, <2>3
<1>15. CASE SamplerStopped
  BY <1>15 DEF SamplerStopped, Goto, SamplerReturned
<1>16. CASE Report
  BY <1>16 DEF Report, Goto
<1>17. CASE Killed
  BY <1>17 DEF Killed, Die
<1>18. CASE CommandFailed
  BY <1>18 DEF CommandFailed, Die
<1>19. CASE PodsSampled
  BY <1>19 DEF PodsSampled
<1>20. CASE PodsFailed
  BY <1>20 DEF PodsFailed, Die
<1>21. CASE SamplerCheck
  BY <1>21 DEF SamplerCheck, samplerElse
<1>22. CASE PodsListed
  <2>1. Rounds(round) \in Nat /\ waited \in Nat /\ untimed \in Nat /\ age \in Nat
    BY RoundTime, Limits, Constants
  <2>2. waited <= untimed => waited <= untimed + Rounds(round) + age
    BY <2>1
  <2> QED
    BY <1>22, <2>2 DEF PodsListed, samplerElse
<1>23. CASE SamplerRound
  <2>1. /\ Rounds(round) \in Nat /\ waited \in Nat /\ untimed \in Nat /\ age \in Nat
        /\ age <= ScrapeLimit /\ round' = round + 1 /\ age' = 0
    BY <1>23, RoundTime, Limits, Constants DEF SamplerRound
  <2>2. Rounds(round') = Rounds(round) + ScrapeLimit
    BY <2>1, RoundTime, Constants
  <2>3. waited <= untimed + Rounds(round) + age => waited <= untimed + Rounds(round') + age'
    BY <2>1, <2>2, Limits
  <2> QED
    BY <1>23, <2>3 DEF SamplerRound, samplerElse
<1>24. CASE RowsInserted
  BY <1>24 DEF RowsInserted, samplerElse
<1>25. CASE SamplerWakes
  BY <1>25 DEF SamplerWakes, samplerElse
<1>26. CASE TimePasses
  <2>1. pc = "await" /\ pc' = "await" /\ waited' = waited + 1
    BY <1>26 DEF TimePasses
  <2>2. UNCHANGED <<sampler, round, rounds, stop, cause>>
    BY <1>26 DEF TimePasses
  <2>3. waited \in Nat /\ untimed \in Nat /\ age \in Nat /\ Rounds(round) \in Nat /\ Rounds(rounds) \in Nat
    BY RoundTime, Limits, Constants
  <2>4. CASE sampler = "scrape" /\ ScrapeGoesOn /\ age' = age + 1 /\ UNCHANGED untimed
    <3>1. Rounds(round) + ScrapeLimit <= Rounds(rounds) /\ age + 1 <= ScrapeLimit
      BY <2>4, RoundTime, Limits, Constants DEF ScrapeGoesOn
    <3>2. waited' <= untimed' + Rounds(round) + age'
      BY <2>1, <2>3, <2>4
    <3>3. waited' <= untimed' + Rounds(rounds)
      BY ONLY <3>1, <3>2, <2>1, <2>3, <2>4, Limits
    <3> QED
      BY <2>1, <2>2, <2>4, <3>2, <3>3
  <2>5. CASE sampler \in {"list", "insert"} /\ untimed' = untimed + 1 /\ UNCHANGED age
    <3>1. waited' <= untimed' + Rounds(rounds) /\ (sampler = "list" => waited' <= untimed')
      BY <2>1, <2>3, <2>5
    <3>2. cause = "sampler" => Rounds(rounds) + untimed' > AwaitLimit
      BY <2>3, <2>5, Limits
    <3> QED
      BY <2>1, <2>2, <2>5, <3>1, <3>2
  <2> QED
    BY <1>26, <2>4, <2>5 DEF TimePasses
<1>27. CASE AwaitTimesOut
  <2>1. Rounds(rounds) \in Nat /\ waited \in Nat /\ untimed \in Nat
    BY RoundTime, Constants
  <2>2. waited > AwaitLimit /\ waited <= untimed + Rounds(rounds)
    BY <1>27 DEF AwaitTimesOut, SamplerReturned
  <2>3. Rounds(rounds) + untimed > AwaitLimit
    BY <2>1, <2>2, Limits
  <2> QED
    BY <1>27, <2>3 DEF AwaitTimesOut, Die
<1>28. CASE HotChanges
  BY <1>28 DEF HotChanges
<1>29. CASE DrainWaitOver
  BY <1>29 DEF DrainWaitOver
<1>30. CASE UNCHANGED vars
  BY <1>30 DEF vars
<1>31. CASE \E c \in k6 : EndK6(c)
  BY <1>31 DEF EndK6, Kind
<1> QED
  BY NextCases, <1>1, <1>2, <1>3, <1>4, <1>5, <1>6, <1>7, <1>8, <1>9, <1>10, <1>11, <1>12,
     <1>13, <1>14, <1>15, <1>16, <1>17, <1>18, <1>19, <1>20, <1>21, <1>22, <1>23, <1>24,
     <1>25, <1>26, <1>27, <1>28, <1>29, <1>30, <1>31

-----------------------------------------------------------------------------

\* The strengthened invariant holds of every reachable state.
THEOREM Invariance == Spec => []IInv
<1>1. IInv /\ [Next]_vars => IInv'
  BY TypeStep, ShapeStep, LoadStep, GateStep, ResultStep, TickStep DEF IInv
<1> QED
  BY <1>1, InitIInv, PTL DEF Spec

\* Every variable has its type, and the api key is in place while k6 may ask for it.
THEOREM TypeCorrect == Spec => []TypeOK
<1>1. IInv => TypeOK
  BY DEF IInv
<1> QED
  BY <1>1, Invariance, PTL

\* run_ingest's loads begin behind the drain gate, and no two are on the box at once
\* except those that dead sweeps have left there.
THEOREM LoadsGated == Spec => []LoadsAreGated
<1>1. IInv => LoadsAreGated
  BY DEF IInv, LoadInv, Awaited, GateInv, OneLoadAtATime, LoadsAreGated
<1> QED
  BY <1>1, Invariance, PTL

\* The files that a sweep's report reads are of that sweep, or were written over by the k6
\* of one that died.
THEOREM OwnResults == Spec => []ResultsAreOwn
<1>1. IInv => ResultsAreOwn
  BY DEF IInv, ResultInv, Own, ResultsAreOwn
<1> QED
  BY <1>1, Invariance, PTL

\* The finished sweep gives up on the sampler only when the scrapes of a tick at their
\* limit and the calls without one take longer than Task.await allows.
THEOREM LastTick == Spec => []LastTickInTime
<1>1. IInv => LastTickInTime
  BY DEF IInv, TickInv, Rounds, LastTickInTime
<1> QED
  BY <1>1, Invariance, PTL
=============================================================================
