----------------------------- MODULE Upload1brc -----------------------------
(***************************************************************************)
(* tools/upload1brc/main.go: a reader cuts a file into batches, -workers   *)
(* goroutines convert and post them with an insertId, retrying, and main   *)
(* writes a progress file while they run and a summary when they are done. *)
(* The cluster is external: it commits an insertId once per pod.           *)
(*                                                                         *)
(* Lines are abstracted to what becomes of them: "good" (converted and     *)
(* stored), "refused" (converted, not inserted by the server) and          *)
(* "skipped" (empty or without ';', dropped by convert).  Time is the flag *)
(* `late`, TRUE once -deadline has passed; sleeps and backoff only give    *)
(* other goroutines and the deadline time to move.                         *)
(*                                                                         *)
(* Definitions named Bug... are mutated forms of the definition that       *)
(* follows them; no specification uses them.                               *)
(***************************************************************************)
EXTENDS Integers, Sequences, FiniteSets, FiniteSetsExt

CONSTANTS Workers,          \* posting goroutines
          Loads,            \* what may be run: records of workers (-workers),
                            \* lines (the file, a sequence of line kinds),
                            \* batchRows (lines per batch: -rows * bytesPerRow
                            \* bytes), maxRows (-max-rows, 0 for the whole file)
                            \* and ticks (bound: progress snapshots taken)
          Targets,          \* how many -urls
          MaxAttempts,      \* maxAttempts, 30 in the code
          HasDeadline,      \* whether -deadline is positive
          DiskFails         \* whether a file operation may fail

ASSUME UploadAssumption ==
    /\ \A l \in Loads :
        /\ IsFiniteSet(l.workers) /\ l.workers # {} /\ l.workers \subseteq Workers
        /\ l.lines \in Seq({"good", "refused", "skipped"})
        /\ l.batchRows \in Nat \ {0} /\ {l.maxRows, l.ticks} \subseteq Nat
    /\ \E l \in Loads : \A k \in Loads : Len(k.lines) <= Len(l.lines)
    /\ Targets \in Nat \ {0} /\ MaxAttempts \in Nat \ {0}
    /\ HasDeadline \in BOOLEAN /\ DiskFails \in BOOLEAN

VARIABLES
    load,                   \* the load of this behaviour
    late,                   \* the deadline has passed
    reader,                 \* "cut", "send" or "closed" (jobs closed)
    cut,                    \* cut[i]: the lines <<first, last>> of batch i - 1
    jobs,                   \* channel of batch indices, capacity 2 * workers
    worker,                 \* "recv", "post", "reply" or "exited"
    batch, attempt,         \* the batch a worker holds and its loop variable
    network,                \* requests the cluster has not processed
    seen, copies,           \* external: insertIds each pod knows, copies stored
    rowsRead, rowsAccepted, rowsRejected, rowsFailed, stoppedEarly,
    main,                   \* "run", "snap", "final", "exited" or "fatal"
    ticks, snapAccepted,    \* snapshots taken; the first counter it loads
    progress, summary,      \* the -progress and -out files
    outcome, giveUps, lateAttempts   \* history: see the properties

clientStats == <<rowsAccepted, rowsRejected, rowsFailed>>
readerVars == <<reader, cut, rowsRead>>
workerVars == <<worker, batch, attempt>>
clusterVars == <<network, seen, copies>>
mainVars == <<main, ticks, snapAccepted, progress, summary>>
history == <<outcome, giveUps, lateAttempts>>
vars == <<load, late, readerVars, jobs, workerVars, clusterVars, clientStats,
          stoppedEarly, mainVars, history>>

Lines == load.lines
BatchRows == load.batchRows
MaxRows == load.maxRows
\* At most one batch per line.
Indices == 0 .. Max({Len(l.lines) : l \in Loads}) - 1
JobsCap == 2 * Cardinality(load.workers)
Smaller(a, b) == IF a < b THEN a ELSE b
Up == main \in {"run", "snap", "final"}
NoFile == [rows |-> -1, read |-> -1]

LinesOf(b) == cut[b + 1][1] .. cut[b + 1][2]
OfKind(b, kinds) == Cardinality({i \in LinesOf(b) : Lines[i] \in kinds})
Converted(b) == OfKind(b, {"good", "refused"})
Inserted(b) == OfKind(b, {"good"})

Init ==
    /\ load \in Loads
    /\ late = FALSE
    /\ reader = "cut" /\ cut = <<>> /\ rowsRead = 0
    /\ jobs = <<>>
    /\ worker = [w \in Workers |-> IF w \in load.workers THEN "recv" ELSE "exited"]
    /\ batch = [w \in Workers |-> 0]
    /\ attempt = [w \in Workers |-> 0]
    /\ network = {}
    /\ seen = {}
    /\ copies = [b \in Indices |-> 0]
    /\ rowsAccepted = 0 /\ rowsRejected = 0 /\ rowsFailed = 0
    /\ stoppedEarly = FALSE
    /\ main = "run" /\ ticks = 0 /\ snapAccepted = 0
    /\ progress = NoFile /\ summary = NoFile
    /\ outcome = [b \in Indices |-> "none"]
    /\ giveUps = {}
    /\ lateAttempts = [b \in Indices |-> 0]

DeadlinePasses ==
    /\ Up /\ HasDeadline /\ ~late
    /\ late' = TRUE
    /\ UNCHANGED <<load, readerVars, jobs, workerVars, clusterVars, clientStats,
                   stoppedEarly, mainVars, history>>

-----------------------------------------------------------------------------
(* readBatches *)

AtLimit == MaxRows > 0 /\ rowsRead >= MaxRows
RowsLeft == Len(Lines) - rowsRead

RowsToCut ==
    Smaller(Smaller(BatchRows, RowsLeft), IF MaxRows = 0 THEN BatchRows ELSE MaxRows - rowsRead)

CutBatch ==
    /\ Up /\ reader = "cut"
    /\ ~AtLimit /\ ~late /\ RowsLeft > 0
    /\ cut' = Append(cut, <<rowsRead + 1, rowsRead + RowsToCut>>)
    /\ rowsRead' = rowsRead + RowsToCut
    /\ reader' = "send"
    /\ UNCHANGED <<load, late, jobs, workerVars, clusterVars, clientStats, stoppedEarly,
                   mainVars, history>>

\* The three returns before a batch is cut, each followed by close(jobs); only
\* the deadline's marks the summary.
StoppedAtTop == stoppedEarly \/ (~AtLimit /\ late)

ReaderReturns ==
    /\ Up /\ reader = "cut"
    /\ AtLimit \/ late \/ RowsLeft = 0
    /\ stoppedEarly' = StoppedAtTop
    /\ reader' = "closed"
    /\ UNCHANGED <<load, late, cut, rowsRead, jobs, workerVars, clusterVars, clientStats,
                   mainVars, history>>

SendBatch ==
    /\ Up /\ reader = "send"
    /\ Len(jobs) < JobsCap
    /\ jobs' = Append(jobs, Len(cut) - 1)
    /\ reader' = "cut"
    /\ UNCHANGED <<load, late, cut, rowsRead, workerVars, clusterVars, clientStats,
                   stoppedEarly, mainVars, history>>

-----------------------------------------------------------------------------
(* work *)

TakeBatch(w) ==
    /\ Up /\ worker[w] = "recv" /\ jobs # <<>>
    /\ batch' = [batch EXCEPT ![w] = Head(jobs)]
    /\ attempt' = [attempt EXCEPT ![w] = 1]
    /\ worker' = [worker EXCEPT ![w] = "post"]
    /\ jobs' = Tail(jobs)
    /\ UNCHANGED <<load, late, readerVars, clusterVars, clientStats, stoppedEarly,
                   mainVars, history>>

ExitWorker(w) ==
    /\ Up /\ worker[w] = "recv" /\ jobs = <<>> /\ reader = "closed"
    /\ worker' = [worker EXCEPT ![w] = "exited"]
    /\ UNCHANGED <<load, late, readerVars, jobs, batch, attempt, clusterVars, clientStats,
                   stoppedEarly, mainVars, history>>

\* urls[b.index%len(urls)]: every attempt of a batch goes to the same pod.
BugNextTarget(b, a) == (b + a) % Targets
TargetOf(b, a) == b % Targets

Request(w) == [id |-> batch[w], target |-> TargetOf(batch[w], attempt[w]), try |-> attempt[w]]

Post(w) ==
    /\ Up /\ worker[w] = "post"
    /\ network' = network \cup {Request(w)}
    /\ worker' = [worker EXCEPT ![w] = "reply"]
    /\ lateAttempts' = [lateAttempts EXCEPT ![batch[w]] = @ + (IF late THEN 1 ELSE 0)]
    /\ UNCHANGED <<load, late, readerVars, jobs, batch, attempt, seen, copies, clientStats,
                   stoppedEarly, mainVars, outcome, giveUps>>

DoneWithBatch(w) == worker' = [worker EXCEPT ![w] = "recv"] /\ UNCHANGED <<batch, attempt>>

\* 200 with a readable body: the server's insertedRows is what counts.
BugClientCount(b) == Converted(b)
AcceptedRows(b) == Inserted(b)

ReplyOk(w) ==
    LET b == batch[w] IN
    /\ Up /\ worker[w] = "reply" /\ Request(w) \notin network
    /\ <<TargetOf(b, attempt[w]), b>> \in seen
    /\ rowsAccepted' = rowsAccepted + AcceptedRows(b)
    /\ rowsRejected' = rowsRejected + (Converted(b) - Inserted(b))
    /\ outcome' = [outcome EXCEPT ![b] = "accepted"]
    /\ DoneWithBatch(w)
    /\ UNCHANGED <<load, late, readerVars, jobs, clusterVars, rowsFailed, stoppedEarly,
                   mainVars, giveUps, lateAttempts>>

\* What work() does with an answer that is not a readable 200: past the deadline
\* it gives the batch up, otherwise it sleeps and tries again until the loop
\* has run maxAttempts times.
RowsLost(b, pastDeadline) == Converted(b)

MarkedByWorker == TRUE

GiveUp(w) ==
    /\ rowsFailed' = rowsFailed + RowsLost(batch[w], late)
    /\ stoppedEarly' = IF late THEN MarkedByWorker ELSE stoppedEarly
    /\ outcome' = [outcome EXCEPT ![batch[w]] = "failed"]
    /\ giveUps' = giveUps \cup {[batch |-> batch[w], posts |-> attempt[w]]}
    /\ DoneWithBatch(w)

TryAgain(w) ==
    /\ attempt' = [attempt EXCEPT ![w] = @ + 1]
    /\ worker' = [worker EXCEPT ![w] = "post"]
    /\ UNCHANGED <<batch, rowsFailed, stoppedEarly, outcome, giveUps>>

BugOneMore(w) == IF late \/ attempt[w] > MaxAttempts THEN GiveUp(w) ELSE TryAgain(w)
BugUncounted(w) ==
    IF late THEN GiveUp(w)
    ELSE /\ worker' = [worker EXCEPT ![w] = "post"]
         /\ UNCHANGED <<batch, attempt, rowsFailed, stoppedEarly, outcome, giveUps>>
BugIgnoreDeadline(w) == IF attempt[w] = MaxAttempts THEN GiveUp(w) ELSE TryAgain(w)
AfterFailure(w) == IF late \/ attempt[w] = MaxAttempts THEN GiveUp(w) ELSE TryAgain(w)

\* A 429: the cluster did not take the batch.
ReplyBusy(w) ==
    /\ Up /\ worker[w] = "reply" /\ Request(w) \in network
    /\ network' = network \ {Request(w)}
    /\ AfterFailure(w)
    /\ UNCHANGED <<load, late, readerVars, jobs, seen, copies, rowsAccepted, rowsRejected,
                   mainVars, lateAttempts>>

\* Any other status, a timeout, a dropped connection or an unreadable body: the
\* request may have been processed, may be lost, or may still be on its way.
ReplyBroken(w) ==
    /\ Up /\ worker[w] = "reply"
    /\ network' \in {network, network \ {Request(w)}}
    /\ AfterFailure(w)
    /\ UNCHANGED <<load, late, readerVars, jobs, seen, copies, rowsAccepted, rowsRejected,
                   mainVars, lateAttempts>>

-----------------------------------------------------------------------------
(* The cluster (external): one copy per insertId and pod *)

Process(r) ==
    /\ r \in network
    /\ network' = network \ {r}
    /\ seen' = seen \cup {<<r.target, r.id>>}
    /\ copies' = [copies EXCEPT ![r.id] = IF <<r.target, r.id>> \in seen THEN @ ELSE @ + 1]
    /\ UNCHANGED <<load, late, readerVars, jobs, workerVars, clientStats, stoppedEarly,
                   mainVars, history>>

-----------------------------------------------------------------------------
(* main *)

BugFirstExit == \E w \in Workers : worker[w] = "exited"
Finished == \A w \in Workers : worker[w] = "exited"

mainElse == <<load, late, readerVars, jobs, workerVars, clusterVars, clientStats,
              stoppedEarly, history>>

\* snapshot() loads rows_accepted first and the other counters after it.
SnapFile(accepted, read) == [rows |-> accepted, read |-> read]
FinalFile == [rows |-> rowsAccepted, read |-> rowsRead]

TakeSnapshot ==
    /\ main = "run" /\ ticks < load.ticks
    /\ main' = "snap" /\ ticks' = ticks + 1
    /\ snapAccepted' = rowsAccepted
    /\ UNCHANGED <<progress, summary, mainElse>>

WriteProgress ==
    /\ main = "snap"
    /\ progress' = SnapFile(snapAccepted, rowsRead)
    /\ main' = "run"
    /\ UNCHANGED <<ticks, snapAccepted, summary, mainElse>>

WriteFinalProgress ==
    /\ main = "run" /\ Finished
    /\ progress' = FinalFile
    /\ main' = "final"
    /\ UNCHANGED <<ticks, snapAccepted, summary, mainElse>>

WriteSummary ==
    /\ main = "final"
    /\ summary' = FinalFile
    /\ main' = "exited"
    /\ UNCHANGED <<ticks, snapAccepted, progress, mainElse>>

\* A file that cannot be opened, read or written: log.Fatal.
Fatal ==
    /\ Up /\ DiskFails
    /\ reader = "cut" \/ main \in {"snap", "final"} \/ Finished
    /\ main' = "fatal"
    /\ UNCHANGED <<ticks, snapAccepted, progress, summary, mainElse>>

Ended == ~Up /\ UNCHANGED vars

ReaderStep == CutBatch \/ ReaderReturns \/ SendBatch
WorkerStep(w) ==
    TakeBatch(w) \/ ExitWorker(w) \/ Post(w) \/ ReplyOk(w) \/ ReplyBusy(w) \/ ReplyBroken(w)
MainStep == TakeSnapshot \/ WriteProgress \/ WriteFinalProgress \/ WriteSummary

Next ==
    \/ DeadlinePasses \/ ReaderStep \/ MainStep \/ Fatal \/ Ended
    \/ \E w \in Workers : WorkerStep(w)
    \/ \E r \in network : Process(r)

\* Every goroutine that can run eventually does, and client.Timeout ends every
\* post; nothing is assumed of the cluster or of the deadline.
Fairness ==
    /\ WF_vars(ReaderStep)
    /\ \A w \in Workers : WF_vars(WorkerStep(w))
    /\ WF_vars(WriteProgress) /\ WF_vars(WriteFinalProgress) /\ WF_vars(WriteSummary)

Spec == Init /\ [][Next]_vars
FairSpec == Spec /\ Fairness

-----------------------------------------------------------------------------
(* Properties *)

CutIndices == 0 .. Len(cut) - 1
Total(S, f(_)) == MapThenSumSet(f, S)

\* Every variable has its type; a batch is cut from consecutive lines.
TypeOK ==
    /\ load \in Loads /\ late \in BOOLEAN /\ stoppedEarly \in BOOLEAN
    /\ reader \in {"cut", "send", "closed"}
    /\ \A i \in 1..Len(cut) : cut[i][1] <= cut[i][2] /\ cut[i][2] <= rowsRead
    /\ rowsRead \in 0..Len(Lines)
    /\ Len(jobs) <= JobsCap
    /\ \A i \in 1..Len(jobs) : jobs[i] \in CutIndices
    /\ worker \in [Workers -> {"recv", "post", "reply", "exited"}]
    /\ batch \in [Workers -> Nat] /\ attempt \in [Workers -> 0..MaxAttempts]
    /\ copies \in [Indices -> Nat]
    /\ {rowsAccepted, rowsRejected, rowsFailed} \subseteq 0..Len(Lines)
    /\ main \in {"run", "snap", "final", "exited", "fatal"}

\* However often a batch is retried, and whenever the cluster gets to a request
\* the client has timed out, the table holds it at most once: the retries carry
\* one insertId to one pod.
StoredAtMostOnce == \A b \in Indices : copies[b] <= 1

\* The summary accounts for every line the reader consumed: accepted, rejected,
\* failed, or dropped by convert.
SummaryAccounts ==
    summary # NoFile =>
        /\ rowsRead = rowsAccepted + rowsRejected + rowsFailed
                        + Total(CutIndices, LAMBDA b : OfKind(b, {"skipped"}))
        /\ rowsRead = Total(CutIndices, LAMBDA b : Cardinality(LinesOf(b)))

\* rows_accepted never exceeds what the table holds.  When no batch failed it is
\* what count(*) gives once the cluster has dealt with the requests the client
\* timed out: no timeout followed by a successful retry leaves a second copy or
\* an uncounted row.
CountExactUnlessFailed ==
    LET stored == Total(CutIndices, LAMBDA b : copies[b] * Inserted(b)) IN
    /\ rowsAccepted <= stored
    /\ main = "exited" /\ network = {} /\ rowsFailed = 0 => rowsAccepted = stored

\* -deadline bounds the cost of a collapsed cluster: after it, a batch gets at
\* most one more attempt, wherever in the pipeline it was.
DeadlineBoundsAttempts == \A b \in Indices : lateAttempts[b] <= 1

\* A summary without stopped_early means the whole file (or -max-rows of it) was
\* offered, and whatever failed failed maxAttempts times.
UnmarkedIsWhole ==
    summary # NoFile /\ ~stoppedEarly =>
        /\ rowsRead = Smaller(Len(Lines), IF MaxRows = 0 THEN Len(Lines) ELSE MaxRows)
        /\ \A g \in giveUps : g.posts = MaxAttempts

\* A progress file never claims more accepted rows than the rows it says were
\* read, although the counters move while it is taken.
ProgressConsistent == progress.rows <= progress.read

\* What the files on the box say is true, at the end and on the way.
FilesAreTrue ==
    SummaryAccounts /\ CountExactUnlessFailed /\ UnmarkedIsWhole /\ ProgressConsistent

\* The upload ends: summary or log.Fatal.
Termination == <>~Up

\* The upload implements the abstract loader.
Promise ==
    INSTANCE BatchLoad WITH
        Batches <- Indices,
        offered <- Len(cut),
        stored <- {b \in Indices : copies[b] > 0},
        status <- CASE main = "exited" -> "reported"
                    [] main = "fatal"  -> "died"
                    [] OTHER           -> "loading"
ImplementsBatchLoad == Promise!Spec
=============================================================================
