------------------------------- MODULE Gen1brc -------------------------------
(***************************************************************************)
(* The goroutine pipeline of tools/gen1brc/main.go.                        *)
(*                                                                         *)
(*   feeder --jobs--> writers --results--> main --> bufio.Writer --> file  *)
(*                                                                         *)
(* A feeder sends the block indices 0 .. Blocks-1 and closes jobs; writer  *)
(* goroutines generate one block each at a time; main holds the blocks     *)
(* that arrive early in the map `pending` and writes block `next` as soon  *)
(* as it is there.  A channel is the sequence of its elements with the     *)
(* capacity make() gives it, and a flag for close().  The bytes of a block *)
(* are abstracted to its index and its number of rows.                     *)
(*                                                                         *)
(* Definitions named Bug... are mutated forms of the definition that       *)
(* follows them; no specification uses them.  They show which slip of the  *)
(* code each property would catch.                                         *)
(***************************************************************************)
EXTENDS Integers, Sequences, FiniteSets

CONSTANTS Writers,          \* the generator goroutines (-writers)
          Rows,             \* rows to write (-rows)
          BlockRows         \* rows of a full block (1 000 000 in the code)

ASSUME WritersAssumption == IsFiniteSet(Writers) /\ Writers # {}
ASSUME RowsAssumption == Rows \in Nat /\ BlockRows \in Nat \ {0}

VARIABLES fed,              \* the feeder's loop variable
          jobs,             \* channel of block indices
          jobsClosed,
          writer,           \* where each writer goroutine is
          held,             \* the block a writer is generating or sending
          results,          \* channel of generated blocks
          resultsClosed,
          main,             \* where main is
          pending,          \* blocks that arrived before their turn
          next,             \* the block main writes next
          writtenRows,      \* the count main reports
          stream,           \* history: the blocks handed to the bufio.Writer
          streamRows        \* history: the rows those blocks really hold

feederVars == <<fed, jobsClosed, resultsClosed>>
writerVars == <<writer, held>>
mainVars == <<main, pending, next, writtenRows, stream, streamRows>>
vars == <<feederVars, jobs, writerVars, results, mainVars>>

Blocks == (Rows + BlockRows - 1) \div BlockRows

\* The rows generateBlock is asked for: a full block, or what remains.
RowsOfBlock(index) ==
    LET remaining == Rows - index * BlockRows
    IN  IF remaining < BlockRows THEN remaining ELSE BlockRows

Smaller(a, b) == IF a < b THEN a ELSE b

\* Any log.Fatal ends the process, and every goroutine with it.
Running == main \in {"recv", "drain"}

JobsCap == Cardinality(Writers)
ResultsCap == 2 * Cardinality(Writers)

Elements(ch) == {ch[i] : i \in 1..Len(ch)}

Init ==
    /\ fed = 0
    /\ jobs = <<>>
    /\ jobsClosed = FALSE
    /\ writer = [w \in Writers |-> "recv"]
    /\ held = [w \in Writers |-> 0]
    /\ results = <<>>
    /\ resultsClosed = FALSE
    /\ main = "recv"
    /\ pending = {}
    /\ next = 0
    /\ writtenRows = 0
    /\ stream = <<>>
    /\ streamRows = 0

-----------------------------------------------------------------------------
(* The feeder goroutine *)

BugOneTooMany == fed <= Blocks
MoreToFeed == fed < Blocks

FeedJob ==
    /\ Running
    /\ MoreToFeed
    /\ Len(jobs) < JobsCap
    /\ jobs' = Append(jobs, fed)
    /\ fed' = fed + 1
    /\ UNCHANGED <<jobsClosed, resultsClosed, writerVars, results, mainVars>>

CloseJobs ==
    /\ Running
    /\ ~MoreToFeed
    /\ ~jobsClosed
    /\ jobsClosed' = TRUE
    /\ UNCHANGED <<fed, resultsClosed, jobs, writerVars, results, mainVars>>

\* wg.Wait(): every writer has run its deferred Done.
BugWaitForOne == jobsClosed /\ \E w \in Writers : writer[w] = "exited"
WritersFinished == jobsClosed /\ \A w \in Writers : writer[w] = "exited"

CloseResults ==
    /\ Running
    /\ WritersFinished
    /\ ~resultsClosed
    /\ resultsClosed' = TRUE
    /\ UNCHANGED <<fed, jobsClosed, jobs, writerVars, results, mainVars>>

-----------------------------------------------------------------------------
(* A writer goroutine *)

TakeJob(w) ==
    /\ Running
    /\ writer[w] = "recv"
    /\ jobs # <<>>
    /\ held' = [held EXCEPT ![w] = Head(jobs)]
    /\ jobs' = Tail(jobs)
    /\ writer' = [writer EXCEPT ![w] = "send"]
    /\ UNCHANGED <<feederVars, results, mainVars>>

\* `results <- block{...}`, which blocks while the channel is full.
SendBlock(w) ==
    /\ Running
    /\ writer[w] = "send"
    /\ Len(results) < ResultsCap
    /\ results' = Append(results, held[w])
    /\ writer' = [writer EXCEPT ![w] = "recv"]
    /\ UNCHANGED <<feederVars, jobs, held, mainVars>>

\* range over a channel ends when it is closed AND empty.
ExitWriter(w) ==
    /\ Running
    /\ writer[w] = "recv"
    /\ jobsClosed /\ jobs = <<>>
    /\ writer' = [writer EXCEPT ![w] = "exited"]
    /\ UNCHANGED <<feederVars, jobs, held, results, mainVars>>

-----------------------------------------------------------------------------
(* main *)

ReceiveBlock ==
    /\ main = "recv"
    /\ results # <<>>
    /\ pending' = pending \cup {Head(results)}
    /\ results' = Tail(results)
    /\ main' = "drain"
    /\ UNCHANGED <<feederVars, jobs, writerVars, next, writtenRows, stream, streamRows>>

\* One turn of the inner loop: `data, ok := pending[next]; ok`.
BlockToWrite == next

BugNoDelete == pending
PendingAfterWrite == pending \ {BlockToWrite}

WriteBlock ==
    /\ main = "drain"
    /\ BlockToWrite \in pending
    /\ stream' = Append(stream, BlockToWrite)
    /\ streamRows' = streamRows + RowsOfBlock(BlockToWrite)
    /\ writtenRows' = Smaller((next + 1) * BlockRows, Rows)
    /\ pending' = PendingAfterWrite
    /\ next' = next + 1
    /\ UNCHANGED <<feederVars, jobs, writerVars, results, main>>

BugSpin ==
    /\ main = "drain"
    /\ BlockToWrite \notin pending
    /\ UNCHANGED vars
EndDrain ==
    /\ main = "drain"
    /\ BlockToWrite \notin pending
    /\ main' = "recv"
    /\ UNCHANGED <<feederVars, jobs, writerVars, results, pending, next,
                   writtenRows, stream, streamRows>>

\* The disk refuses a block: log.Fatal.
WriteFails ==
    /\ main = "drain"
    /\ BlockToWrite \in pending
    /\ main' = "fatal"
    /\ UNCHANGED <<feederVars, jobs, writerVars, results, pending, next,
                   writtenRows, stream, streamRows>>

\* results is closed and empty: the loop ends and w.Flush() decides.
BugStopAtClose == resultsClosed
ResultsDrained == resultsClosed /\ results = <<>>

FlushAndReport ==
    /\ main = "recv"
    /\ ResultsDrained
    /\ main' \in {"reported", "fatal"}
    /\ UNCHANGED <<feederVars, jobs, writerVars, results, pending, next,
                   writtenRows, stream, streamRows>>

Exited == ~Running /\ UNCHANGED vars

WriterStep(w) == TakeJob(w) \/ SendBlock(w) \/ ExitWriter(w)
FeederStep == FeedJob \/ CloseJobs \/ CloseResults
MainStep == ReceiveBlock \/ WriteBlock \/ EndDrain \/ WriteFails \/ FlushAndReport

Next == FeederStep \/ (\E w \in Writers : WriterStep(w)) \/ MainStep \/ Exited

\* The Go scheduler runs every goroutine that can run.
Fairness ==
    /\ WF_vars(FeederStep)
    /\ \A w \in Writers : WF_vars(WriterStep(w))
    /\ WF_vars(MainStep)

Spec == Init /\ [][Next]_vars
FairSpec == Spec /\ Fairness

-----------------------------------------------------------------------------
(* Properties *)

Indices == 0 .. Blocks - 1

\* Every variable has its type, and no channel exceeds its capacity: the
\* feeder in particular never counts past the last block.
TypeOK ==
    /\ fed \in 0..Blocks
    /\ jobs \in Seq(Indices) /\ Len(jobs) <= JobsCap
    /\ jobsClosed \in BOOLEAN
    /\ writer \in [Writers -> {"recv", "send", "exited"}]
    /\ held \in [Writers -> Nat]
    /\ \A w \in Writers : writer[w] = "send" => held[w] \in Indices
    /\ results \in Seq(Indices) /\ Len(results) <= ResultsCap
    /\ resultsClosed \in BOOLEAN
    /\ main \in {"recv", "drain", "reported", "fatal"}
    /\ pending \in SUBSET Indices
    /\ next \in 0..Blocks
    /\ writtenRows \in Nat
    /\ stream \in Seq(Indices)
    /\ streamRows \in Nat

\* Where a block that was fed can be.
InJobs == Elements(jobs)
InHands == {held[w] : w \in {v \in Writers : writer[v] = "send"}}
InResults == Elements(results)
Written == 0 .. next - 1

Distinct(ch) == \A a, b \in 1..Len(ch) : ch[a] = ch[b] => a = b
DistinctHands ==
    \A v, w \in Writers :
        writer[v] = "send" /\ writer[w] = "send" /\ held[v] = held[w] => v = w

\* No block is lost and none is duplicated on its way through two channels,
\* the goroutines and the map: what was fed is the disjoint union of what is in
\* jobs, in a writer's hands, in results, in the map and in the file.
EachBlockInOnePlace ==
    /\ Distinct(jobs) /\ Distinct(results) /\ DistinctHands
    /\ InJobs \cap (InHands \cup InResults \cup pending \cup Written) = {}
    /\ InHands \cap (InResults \cup pending \cup Written) = {}
    /\ InResults \cap (pending \cup Written) = {}
    /\ pending \cap Written = {}
    /\ InJobs \cup InHands \cup InResults \cup pending \cup Written = 0 .. fed - 1

\* The file is always an in-order prefix of the dataset, however the writers
\* overtake one another.
InOrder == stream = [k \in 1..next |-> k - 1]

\* main never goes back to waiting for results with the block it should write
\* next already in its map; when it finally stops, nothing is left behind.
NothingReadyWaits == main = "recv" => \A i \in pending : i > next

\* A send on a closed channel panics in Go: jobs is closed after the last
\* index and results when no writer can send any more.
NoSendOnClosed ==
    /\ jobsClosed => fed = Blocks
    /\ resultsClosed => \A w \in Writers : writer[w] # "send"

\* The row count of the progress lines and of the summary, computed from
\* `next` alone, is the number of rows generated, the short last block included.
RowsExact == writtenRows = streamRows

\* The summary is printed only for the whole dataset.
ReportedIsComplete ==
    main = "reported" => Len(stream) = Blocks /\ streamRows = Rows /\ pending = {}

\* The pipeline always drains: the program ends, by its summary or a log.Fatal.
Termination == <>~Running

\* The pipeline implements the sequential writer.
Promise ==
    INSTANCE OrderedWriter WITH
        status <- CASE main = "reported" -> "complete"
                    [] main = "fatal"    -> "failed"
                    [] OTHER             -> "writing"
ImplementsOrderedWriter == Promise!Spec
=============================================================================
