------------------------------- MODULE TsbsRw -------------------------------
(***************************************************************************)
(* tools/tsbsrw/main.go: the pipeline of upload1brc with another contract. *)
(* A line of the file yields as many samples as it has readable fields; a  *)
(* line that cannot be encoded ends the process; a busy answer is retried  *)
(* without limit, a permanent one is final, anything else is retried until *)
(* the loop variable reaches maxAttempts.  The edge is external: it keys a *)
(* block by its bytes, so one batch is stored once per pod.                *)
(*                                                                         *)
(* A line is [fields, samples]: what fieldCount() counts and what encode() *)
(* yields, -1 samples for a line that encode() refuses.  `late` is TRUE    *)
(* once -deadline has passed.  attempt stops counting at maxAttempts, the  *)
(* only value the code compares it with.                                   *)
(***************************************************************************)
EXTENDS Integers, Sequences, FiniteSets, FiniteSetsExt

CONSTANTS Workers,          \* the posting goroutines (-workers)
          Files,            \* the files to load: sequences of lines
          TargetSamples,    \* -samples
          MaxSamples,       \* -max-samples, 0 for the whole file
          Targets,          \* how many -urls
          MaxAttempts,      \* maxAttempts, 30 in the code
          HasDeadline       \* whether -deadline is positive

ASSUME TsbsRwAssumption ==
    /\ IsFiniteSet(Workers) /\ Workers # {}
    /\ Files \subseteq Seq([fields : Nat, samples : Nat \cup {-1}])
    /\ \E f \in Files : \A g \in Files : Len(g) <= Len(f)
    /\ TargetSamples \in Nat \ {0} /\ MaxSamples \in Nat
    /\ Targets \in Nat \ {0} /\ MaxAttempts \in Nat \ {0}
    /\ HasDeadline \in BOOLEAN

VARIABLES
    file,                   \* the file of this behaviour
    late,                   \* the deadline has passed
    reader,                 \* "cut", "send" or "closed"
    eof,                    \* readBatches' done: the reader has met the end of file
    cut,                    \* cut[i]: the lines <<first, last>> of batch i - 1
    jobs,                   \* channel of batch indices
    worker,                 \* "recv", "post", "reply", "mark" or "exited"
    batch, attempt,         \* the batch a worker holds and its loop variable
    mark,                   \* the pastDeadline() a worker is about to store
    network,                \* requests the edge has not processed
    seen, copies,           \* external: blocks each pod knows, copies stored
    samplesRead, samplesAccepted, samplesRejected, samplesFailed, stoppedEarly,
    main,                   \* "run", "exit0", "exit1" or "fatal"
    outcome,                \* history: what each batch was counted as
    broken                  \* history: failures of the batch a worker holds that
                            \* were not busy answers

readerVars == <<reader, eof, cut, samplesRead>>
workerVars == <<worker, batch, attempt, mark, broken>>
edgeVars == <<network, seen, copies>>
countVars == <<samplesAccepted, samplesRejected, samplesFailed, stoppedEarly, outcome>>
vars == <<file, late, readerVars, jobs, workerVars, edgeVars, countVars, main>>

Up == main = "run"
JobsCap == 2 * Cardinality(Workers)
Indices == 0 .. Max({Len(f) : f \in Files}) - 1
LinesOf(b) == cut[b + 1][1] .. cut[b + 1][2]
Encoded(b) == MapThenSumSet(LAMBDA i : file[i].samples, LinesOf(b))
Encodable(b) == \A i \in LinesOf(b) : file[i].samples >= 0

Init ==
    /\ file \in Files
    /\ late = FALSE
    /\ reader = "cut" /\ eof = FALSE /\ cut = <<>>
    /\ jobs = <<>>
    /\ worker = [w \in Workers |-> "recv"]
    /\ batch = [w \in Workers |-> 0] /\ attempt = [w \in Workers |-> 0]
    /\ mark = [w \in Workers |-> FALSE] /\ broken = [w \in Workers |-> 0]
    /\ network = {} /\ seen = {} /\ copies = [b \in Indices |-> 0]
    /\ samplesRead = 0 /\ samplesAccepted = 0 /\ samplesRejected = 0
    /\ samplesFailed = 0 /\ stoppedEarly = FALSE
    /\ main = "run"
    /\ outcome = [b \in Indices |-> "none"]

DeadlinePasses ==
    /\ Up /\ HasDeadline /\ ~late
    /\ late' = TRUE
    /\ UNCHANGED <<file, readerVars, jobs, workerVars, edgeVars, countVars, main>>

-----------------------------------------------------------------------------
(* readBatches *)

BugDropsLine == IF cut = <<>> THEN 0 ELSE cut[Len(cut)][2] + 1
Position == IF cut = <<>> THEN 0 ELSE cut[Len(cut)][2]
Fields(a, b) == MapThenSumSet(LAMBDA i : file[i].fields, a..b)
AtLimit == MaxSamples > 0 /\ samplesRead >= MaxSamples

\* The inner loop reads on until the batch or the whole load has enough
\* samples; it meets the end of file when they run out first.
Enough(n) == n >= TargetSamples \/ (MaxSamples > 0 /\ samplesRead + n >= MaxSamples)
LastLines ==
    {i \in Position + 1 .. Len(file) : Enough(Fields(Position + 1, i))}
CutEnd == IF LastLines = {} THEN Len(file) ELSE Min(LastLines)

CutBatch ==
    /\ Up /\ reader = "cut" /\ ~eof
    /\ ~AtLimit /\ ~late /\ Position < Len(file)
    /\ cut' = Append(cut, <<Position + 1, CutEnd>>)
    /\ samplesRead' = samplesRead + Fields(Position + 1, CutEnd)
    /\ eof' = (LastLines = {})
    /\ reader' = "send"
    /\ UNCHANGED <<file, late, jobs, workerVars, edgeVars, countVars, main>>

StoppedAtTop == stoppedEarly \/ (~eof /\ ~AtLimit /\ late)

ReaderReturns ==
    /\ Up /\ reader = "cut"
    /\ eof \/ AtLimit \/ late \/ Position = Len(file)
    /\ stoppedEarly' = StoppedAtTop
    /\ reader' = "closed"
    /\ UNCHANGED <<file, late, eof, cut, samplesRead, jobs, workerVars, edgeVars,
                   samplesAccepted, samplesRejected, samplesFailed, outcome, main>>

SendBatch ==
    /\ Up /\ reader = "send" /\ Len(jobs) < JobsCap
    /\ jobs' = Append(jobs, Len(cut) - 1)
    /\ reader' = "cut"
    /\ UNCHANGED <<file, late, eof, cut, samplesRead, workerVars, edgeVars, countVars, main>>

-----------------------------------------------------------------------------
(* work *)

TakeBatch(w) ==
    /\ Up /\ worker[w] = "recv" /\ jobs # <<>> /\ Encodable(Head(jobs))
    /\ batch' = [batch EXCEPT ![w] = Head(jobs)]
    /\ attempt' = [attempt EXCEPT ![w] = 1]
    /\ broken' = [broken EXCEPT ![w] = 0]
    /\ worker' = [worker EXCEPT ![w] = "post"]
    /\ jobs' = Tail(jobs)
    /\ UNCHANGED <<file, late, readerVars, mark, edgeVars, countVars, main>>

\* log.Fatalf on a line encode() refuses: no summary, whatever is in flight.
EncodeFails(w) ==
    /\ Up /\ worker[w] = "recv" /\ jobs # <<>> /\ ~Encodable(Head(jobs))
    /\ main' = "fatal"
    /\ UNCHANGED <<file, late, readerVars, jobs, workerVars, edgeVars, countVars>>

ExitWorker(w) ==
    /\ Up /\ worker[w] = "recv" /\ jobs = <<>> /\ reader = "closed"
    /\ worker' = [worker EXCEPT ![w] = "exited"]
    /\ UNCHANGED <<file, late, readerVars, jobs, batch, attempt, mark, broken,
                   edgeVars, countVars, main>>

TargetOf(b, a) == b % Targets
Request(w) == [id |-> batch[w], target |-> TargetOf(batch[w], attempt[w]), try |-> attempt[w]]

Post(w) ==
    /\ Up /\ worker[w] = "post"
    /\ network' = network \cup {Request(w)}
    /\ worker' = [worker EXCEPT ![w] = "reply"]
    /\ UNCHANGED <<file, late, readerVars, jobs, batch, attempt, mark, broken, seen,
                   copies, countVars, main>>

Replying(w) ==
    /\ Up /\ worker[w] = "reply"
    /\ UNCHANGED <<file, late, readerVars, jobs, batch, seen, copies, main>>

Counted(w, o) ==
    /\ outcome' = [outcome EXCEPT ![batch[w]] = o]
    /\ worker' = [worker EXCEPT ![w] = "recv"]
    /\ UNCHANGED <<attempt, mark, broken>>

ReplyOk(w) ==
    /\ Replying(w) /\ Request(w) \notin network
    /\ <<TargetOf(batch[w], attempt[w]), batch[w]>> \in seen
    /\ samplesAccepted' = samplesAccepted + Encoded(batch[w])
    /\ Counted(w, "accepted")
    /\ UNCHANGED <<network, samplesRejected, samplesFailed, stoppedEarly>>

\* 400, 401, 409, 413, 415.
SamplesRefused(b) == Encoded(b)

ReplyPermanent(w) ==
    /\ Replying(w) /\ Request(w) \in network
    /\ network' = network \ {Request(w)}
    /\ samplesRejected' = samplesRejected + SamplesRefused(batch[w])
    /\ Counted(w, "rejected")
    /\ UNCHANGED <<samplesAccepted, samplesFailed, stoppedEarly>>

Again(w) ==
    /\ attempt' = [attempt EXCEPT ![w] = IF @ < MaxAttempts THEN @ + 1 ELSE @]
    /\ worker' = [worker EXCEPT ![w] = "post"]
    /\ UNCHANGED <<mark, samplesAccepted, samplesRejected, samplesFailed, stoppedEarly,
                   outcome>>

\* 429 or 503: retried for as long as it takes, or until the deadline.
BugForever(w) == FALSE
BusyGivesUp(w) == late

ReplyBusy(w) ==
    /\ Replying(w) /\ Request(w) \in network
    /\ network' = network \ {Request(w)}
    /\ \/ /\ BusyGivesUp(w)
          /\ stoppedEarly' = TRUE
          /\ samplesFailed' = samplesFailed + Encoded(batch[w])
          /\ Counted(w, "failed")
          /\ UNCHANGED <<samplesAccepted, samplesRejected>>
       \/ /\ ~BusyGivesUp(w)
          /\ Again(w)
          /\ UNCHANGED broken

\* Any other answer or none: `attempt >= maxAttempts || pastDeadline(deadline)`.
\* Giving up evaluates pastDeadline() a second time and stores the result later.
ReplyBroken(w) ==
    /\ Replying(w)
    /\ network' \in {network, network \ {Request(w)}}
    /\ broken' = [broken EXCEPT ![w] = IF @ < MaxAttempts THEN @ + 1 ELSE @]
    /\ \/ /\ attempt[w] = MaxAttempts \/ late
          /\ worker' = [worker EXCEPT ![w] = "mark"]
          /\ mark' = [mark EXCEPT ![w] = late]
          /\ UNCHANGED <<attempt, countVars>>
       \/ /\ attempt[w] < MaxAttempts /\ ~late
          /\ Again(w)

SamplesLost(b) == Encoded(b)

StoreMark(w) ==
    /\ Up /\ worker[w] = "mark"
    /\ stoppedEarly' = mark[w]
    /\ samplesFailed' = samplesFailed + SamplesLost(batch[w])
    /\ Counted(w, "failed")
    /\ UNCHANGED <<file, late, readerVars, jobs, batch, edgeVars, samplesAccepted,
                   samplesRejected, main>>

-----------------------------------------------------------------------------
(* The edge (external) and main *)

Process(r) ==
    /\ r \in network
    /\ network' = network \ {r}
    /\ seen' = seen \cup {<<r.target, r.id>>}
    /\ copies' = [copies EXCEPT ![r.id] = IF <<r.target, r.id>> \in seen THEN @ ELSE @ + 1]
    /\ UNCHANGED <<file, late, readerVars, jobs, workerVars, countVars, main>>

BugFirstExit == \E w \in Workers : worker[w] = "exited"
Finished == \A w \in Workers : worker[w] = "exited"
BugRejectedOnly == samplesRejected > 0
Lossy == samplesRejected > 0 \/ samplesFailed > 0

\* The final snapshot, both files and the exit code.
Report ==
    /\ Up /\ Finished
    /\ main' = IF Lossy THEN "exit1" ELSE "exit0"
    /\ UNCHANGED <<file, late, readerVars, jobs, workerVars, edgeVars, countVars>>

\* The data file cannot be read, or a progress file or the summary not written.
DiskFails ==
    /\ Up
    /\ main' = "fatal"
    /\ UNCHANGED <<file, late, readerVars, jobs, workerVars, edgeVars, countVars>>

Ended == ~Up /\ UNCHANGED vars

ReaderStep == CutBatch \/ ReaderReturns \/ SendBatch
WorkerStep(w) ==
    \/ TakeBatch(w) \/ EncodeFails(w) \/ ExitWorker(w) \/ Post(w) \/ StoreMark(w)
    \/ ReplyOk(w) \/ ReplyPermanent(w) \/ ReplyBusy(w) \/ ReplyBroken(w)

Next ==
    \/ DeadlinePasses \/ ReaderStep \/ Report \/ DiskFails \/ Ended
    \/ \E w \in Workers : WorkerStep(w)
    \/ \E r \in network : Process(r)

\* Goroutines that can run do, every post ends by its timeout, time passes.
Fairness ==
    /\ WF_vars(DeadlinePasses) /\ WF_vars(ReaderStep) /\ WF_vars(Report)
    /\ \A w \in Workers : WF_vars(WorkerStep(w))

Spec == Init /\ [][Next]_vars
FairSpec == Spec /\ Fairness

-----------------------------------------------------------------------------
(* Properties *)

CutIndices == 0 .. Len(cut) - 1
Total(S, f(_)) == MapThenSumSet(f, S)
Reported == main \in {"exit0", "exit1"}

\* Types, the channel's capacity, and batches that follow one another in the
\* file with no line between them.
TypeOK ==
    /\ file \in Files /\ late \in BOOLEAN /\ eof \in BOOLEAN /\ stoppedEarly \in BOOLEAN
    /\ reader \in {"cut", "send", "closed"}
    /\ \A i \in 1..Len(cut) : 1 <= cut[i][1] /\ cut[i][1] <= cut[i][2] /\ cut[i][2] <= Len(file)
    /\ \A i \in 2..Len(cut) : cut[i][1] = cut[i-1][2] + 1
    /\ Len(jobs) <= JobsCap /\ \A i \in 1..Len(jobs) : jobs[i] \in CutIndices
    /\ worker \in [Workers -> {"recv", "post", "reply", "mark", "exited"}]
    /\ attempt \in [Workers -> 0..MaxAttempts] /\ broken \in [Workers -> 0..MaxAttempts]
    /\ copies \in [Indices -> Nat]
    /\ {samplesRead, samplesAccepted, samplesRejected, samplesFailed} \subseteq Nat
    /\ main \in {"run", "exit0", "exit1", "fatal"}

\* The counters of a summary add up to the samples encoded.
SummaryAccounts ==
    Reported => samplesAccepted + samplesRejected + samplesFailed = Total(CutIndices, Encoded)

\* After exit code 0 every batch with a sample is stored once, whatever answers were lost
\* and repeated, and without stopped_early that is the whole file, or -max-samples of it.
\* Workers overwrite stopped_early with one another's stale FALSE, and the exit code still
\* tells, unless a batch without a sample was given up: it adds nothing to samples_failed.
HasSamples(b) == Encoded(b) > 0
CleanExitIsWhole ==
    main = "exit0" =>
        /\ \A b \in CutIndices : HasSamples(b) => copies[b] = 1
        /\ ~stoppedEarly /\ (\A b \in CutIndices : HasSamples(b)) =>
              AtLimit \/ Position = Len(file)

\* The summary and the exit code of a load tell the truth.
ReportIsTrue == SummaryAccounts /\ CleanExitIsWhole

\* With a deadline the load ends, however long the edge stays busy.
Termination == <>~Up

\* The load implements the abstract loader.
Promise ==
    INSTANCE BatchLoad WITH
        Batches <- Indices,
        offered <- Len(cut),
        stored <- {b \in Indices : copies[b] > 0},
        status <- CASE Reported       -> "reported"
                    [] main = "fatal" -> "died"
                    [] OTHER          -> "loading"
ImplementsBatchLoad == Promise!Spec

\* The header of main.go: "Any other 5xx or a dropped connection is retried with
\* backoff up to 30 times" -- so before the deadline a batch is given up after
\* that many of them.
BrokenIsRetriedInFull ==
    \A w \in Workers : worker[w] = "mark" /\ ~late => broken[w] = MaxAttempts
=============================================================================
