----------------------------- MODULE OnebrcSweep -----------------------------
(***************************************************************************)
(* The onebrc bench of scripts/loadgen.exs: generate the CSV on the box,   *)
(* then for each worker count start a detached uploader, poll it until it  *)
(* is gone, read its summary, wait for the hot tier and compare the row    *)
(* count with rows_accepted.                                               *)
(*                                                                         *)
(* The sweep runs on the operator's machine and can die at any step: by    *)
(* hand, or because aws! is fatal on any failed call.  What it started on  *)
(* the box goes on.  An upload is named by its sweep and point; the CSV by *)
(* the generator that created the file now at the path.  Sweeps run one    *)
(* after the other, with the same table, label and ONEBRC_* settings.      *)
(***************************************************************************)
EXTENDS Naturals

CONSTANTS Points,           \* length of ONEBRC_WORKERS
          MaxSweeps,        \* bound: sweeps run in a behaviour
          MaxKills          \* bound: sweeps that die half way

ASSUME OnebrcAssumption ==
    Points \in Nat \ {0} /\ MaxSweeps \in Nat \ {0} /\ MaxKills \in Nat

Sweeps == 1..MaxSweeps
PointIds == 1..Points
Uploads == Sweeps \X PointIds
NoCsv == 0

\* The fields of a summary that the sweep acts on or reports.
Summaries == [of : Uploads, accepted : BOOLEAN, lossy : BOOLEAN]
None == [of |-> <<0, 0>>, accepted |-> FALSE, lossy |-> FALSE]

VARIABLES
    pc,                     \* where the running sweep is, "idle" between sweeps
    sweep, point,           \* its number and current point
    upload,                 \* the summary it read last
    kills,
    gen,                    \* the generator command of each sweep
    csv, whole, marker,     \* the file at the path, whether it is completed, .done
    uploader,               \* "unborn", "running", "done" or "died"
    summary,                \* each point's results/<label>.upload.json
    table,                  \* external: uploads with rows in each point's table
    prefixes                \* external: insertId prefixes each table knows

harness == <<pc, sweep, point, upload, kills>>
csvVars == <<gen, csv, whole, marker>>
uploadVars == <<uploader, summary>>
tableVars == <<table, prefixes>>
vars == <<harness, csvVars, uploadVars, tableVars>>

This == <<sweep, point>>

Init ==
    /\ pc = "idle" /\ sweep = 0 /\ point = 0 /\ upload = None /\ kills = 0
    /\ gen = [s \in Sweeps |-> "none"]
    /\ csv = NoCsv /\ whole = FALSE /\ marker = FALSE
    /\ uploader = [u \in Uploads |-> "unborn"]
    /\ summary = [p \in PointIds |-> None]
    /\ table = [p \in PointIds |-> {}]
    /\ prefixes = [p \in PointIds |-> {}]

-----------------------------------------------------------------------------
(* run_onebrc on the operator's machine *)

Goto(from, to) == pc = from /\ pc' = to

StartSweep ==
    /\ Goto("idle", "generating")
    /\ sweep < MaxSweeps
    /\ sweep' = sweep + 1 /\ point' = 1 /\ upload' = None
    /\ gen' = [gen EXCEPT ![sweep + 1] = "check"]
    /\ UNCHANGED <<kills, csv, whole, marker, uploadVars, tableVars>>

\* run! returns when the command is over, and is fatal unless it succeeded.
AwaitGenerator ==
    /\ pc = "generating" /\ gen[sweep] \in {"ready", "failed"}
    /\ pc' = IF gen[sweep] = "ready" THEN "launch" ELSE "idle"
    /\ UNCHANGED <<sweep, point, upload, kills, csvVars, uploadVars, tableVars>>

SummaryRemoved(p) == None

\* Remote.setup has left the table as it is; rm -f, then setsid nohup.
Launch ==
    /\ Goto("launch", "poll")
    /\ summary' = [summary EXCEPT ![point] = SummaryRemoved(point)]
    /\ uploader' = [uploader EXCEPT ![This] = "running"]
    /\ UNCHANGED <<sweep, point, upload, kills, csvVars, tableVars>>

BugWaitForSummary == summary[point] # None
UploaderGone == uploader[This] \in {"done", "died"}

\* kill -0 fails: the uploader is over, well or not.
PollDone ==
    /\ pc = "poll" /\ UploaderGone
    /\ Goto("poll", "read")
    /\ UNCHANGED <<sweep, point, upload, kills, csvVars, uploadVars, tableVars>>

\* A later command reads the summary; none is fatal.
ReadSummary ==
    /\ pc = "read"
    /\ upload' = summary[point]
    /\ pc' = IF summary[point] = None THEN "idle" ELSE "drain"
    /\ UNCHANGED <<sweep, point, kills, csvVars, uploadVars, tableVars>>

BugOneMore == point <= Points /\ ~upload.lossy
GoOn == point < Points /\ ~upload.lossy

\* The drain, the queries, the row count and the point's file change nothing here.
NextPoint ==
    /\ pc = "drain"
    /\ \/ GoOn /\ pc' = "launch" /\ point' = point + 1
       \/ ~GoOn /\ pc' = "idle" /\ point' = point
    /\ UNCHANGED <<sweep, upload, kills, csvVars, uploadVars, tableVars>>

Die ==
    /\ pc # "idle" /\ kills < MaxKills
    /\ pc' = "idle" /\ kills' = kills + 1
    /\ UNCHANGED <<sweep, point, upload, csvVars, uploadVars, tableVars>>

-----------------------------------------------------------------------------
(* onebrc_ensure_csv: one shell command on the box, under set -e *)

GenStep(s, from, to) ==
    /\ gen[s] = from /\ gen' = [gen EXCEPT ![s] = to]
    /\ UNCHANGED <<harness, uploadVars, tableVars>>

CheckCsv(s) ==
    /\ GenStep(s, "check", IF marker THEN "ready" ELSE "remove")
    /\ UNCHANGED <<csv, whole, marker>>

RemoveCsv(s) ==
    /\ GenStep(s, "remove", "create")
    /\ csv' = NoCsv /\ whole' = FALSE /\ marker' = FALSE

\* gen1brc opens the path: a new file, or another generator's truncated.
CreateCsv(s) ==
    /\ GenStep(s, "create", "write")
    /\ csv' = s /\ whole' = FALSE
    /\ UNCHANGED marker

WriteCsv(s) ==
    /\ GenStep(s, "write", "mark")
    /\ whole' = (whole \/ csv = s)
    /\ UNCHANGED <<csv, marker>>

\* gen1brc fails, or SSM ends the command after its hour.
BugNoSetE == "mark"
AfterFailedGen == "failed"

GenFails(s) ==
    /\ GenStep(s, "write", AfterFailedGen)
    /\ UNCHANGED <<csv, whole, marker>>

MarkCsv(s) ==
    /\ GenStep(s, "mark", "ready")
    /\ marker' = TRUE
    /\ UNCHANGED <<csv, whole>>

-----------------------------------------------------------------------------
(* The detached uploaders, and the tables (external) *)

\* -insert-prefix <label>-<stamp>
BugNoStamp(u) == u[2]
Prefix(u) == u

\* The table answers a batch whose insertId it knows without storing it again, so
\* only the first upload with a prefix puts rows in.
StoreRows(u) ==
    LET p == u[2] IN
    /\ uploader[u] = "running" /\ Prefix(u) \notin prefixes[p]
    /\ table' = [table EXCEPT ![p] = @ \cup {u}]
    /\ prefixes' = [prefixes EXCEPT ![p] = @ \cup {Prefix(u)}]
    /\ UNCHANGED <<harness, csvVars, uploadVars>>

\* A summary is written however many batches failed; a row is accepted if the table has
\* it or knows its prefix.
FinishUpload(u) ==
    /\ uploader[u] = "running"
    /\ uploader' = [uploader EXCEPT ![u] = "done"]
    /\ \E s \in Summaries :
        /\ s.of = u /\ (s.accepted => Prefix(u) \in prefixes[u[2]])
        /\ summary' = [summary EXCEPT ![u[2]] = s]
    /\ UNCHANGED <<harness, csvVars, tableVars>>

UploadDies(u) ==
    /\ uploader[u] = "running"
    /\ uploader' = [uploader EXCEPT ![u] = "died"]
    /\ UNCHANGED <<harness, csvVars, summary, tableVars>>

-----------------------------------------------------------------------------

SweepStep == AwaitGenerator \/ Launch \/ PollDone \/ ReadSummary \/ NextPoint
Generator(s) ==
    CheckCsv(s) \/ RemoveCsv(s) \/ CreateCsv(s) \/ WriteCsv(s) \/ GenFails(s) \/ MarkCsv(s)
Uploader(u) == StoreRows(u) \/ FinishUpload(u) \/ UploadDies(u)

Rest == pc = "idle" /\ sweep = MaxSweeps /\ UNCHANGED vars

Next ==
    \/ StartSweep \/ SweepStep \/ Die \/ Rest
    \/ \E s \in Sweeps : Generator(s)
    \/ \E u \in Uploads : Uploader(u)

Spec == Init /\ [][Next]_vars

\* Commands and uploads on the box come to an end (see Upload1brc), and the sweep
\* keeps polling.
FairSpec ==
    /\ Spec
    /\ WF_vars(SweepStep)
    /\ \A s \in Sweeps : WF_vars(Generator(s))
    /\ \A u \in Uploads : WF_vars(Uploader(u))

-----------------------------------------------------------------------------
(* Properties *)

\* Every variable has its type; a sweep without a point uploads nothing.
TypeOK ==
    /\ pc \in {"idle", "generating", "launch", "poll", "read", "drain"}
    /\ sweep \in 0..MaxSweeps /\ point \in 0..Points
    /\ upload \in Summaries \cup {None} /\ kills \in 0..MaxKills
    /\ gen \in [Sweeps ->
            {"none", "check", "remove", "create", "write", "mark", "ready", "failed"}]
    /\ csv \in Sweeps \cup {NoCsv} /\ whole \in BOOLEAN /\ marker \in BOOLEAN
    /\ uploader \in [Uploads -> {"unborn", "running", "done", "died"}]
    /\ summary \in [PointIds -> Summaries \cup {None}]
    /\ \A p \in PointIds : table[p] \subseteq Uploads

\* The result a point reports is that of the upload it started, although the
\* summary's path is the same in every sweep; only an uploader that a dead sweep
\* left behind can write in between.
SummaryIsOwn == pc = "drain" /\ kills = 0 => upload.of = This

\* Rows reported as accepted were stored by that very upload, not dropped as
\* repeats of an earlier sweep's.
AcceptedAreThere == pc = "drain" /\ upload.accepted => upload.of \in table[point]

\* A point reports its own upload, and rows that this upload stored.
ReportsOwnUpload == SummaryIsOwn /\ AcceptedAreThere

\* Unless a sweep died, no uploader runs while the CSV is being written, replaced or
\* what a failed generator left behind.
UploadsReadWholeCsv ==
    kills = 0 => \A u \in Uploads : uploader[u] = "running" => whole

\* A sweep comes to an end.
SweepEnds == pc # "idle" ~> pc = "idle"

\* README.md of the CSV: "a rerun reads the same bytes", whatever became of the
\* runs before.
RerunReadsSameBytes == pc = "launch" => whole

\* README.md: "runs one full upload per value, each into a fresh <TABLE>_w<N> table".
FreshTablePerPoint == pc = "launch" => table[point] = {}
=============================================================================
