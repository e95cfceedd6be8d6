-------------------------- MODULE OnebrcSweepProofs --------------------------
(***************************************************************************)
(* The safety properties of OnebrcSweep for any number of points, of       *)
(* sweeps and of sweeps that die.                                          *)
(***************************************************************************)
EXTENDS OnebrcSweep, TLAPS

\* What TypeOK leaves open: the functions over uploads and tables.
Shapes ==
    /\ table \in [PointIds -> SUBSET Uploads] /\ prefixes \in [PointIds -> SUBSET Uploads]

\* A sweep under way has a number and a point, and read a summary before it drains.
ControlInv ==
    /\ pc # "idle" => This \in Uploads
    /\ pc = "drain" => upload \in Summaries

\* A prefix that a table knows is of an upload with rows in it, so a summary that counts
\* rows accepted is of an upload with rows in its point's table.
StoredInv ==
    /\ \A p \in PointIds : prefixes[p] \subseteq table[p]
    /\ \A p \in PointIds : summary[p].accepted => summary[p].of \in table[p]
    /\ pc = "drain" /\ upload.accepted => upload.of \in table[point]

\* While no sweep died only the current point's uploader runs, and only it writes.
OwnInv ==
    /\ \A u \in Uploads : uploader[u] = "running" => u = This /\ pc = "poll"
    /\ pc \in {"poll", "read"} => summary[point] = None \/ summary[point].of = This
    /\ pc = "drain" => upload.of = This

\* While no sweep died one generator at most is at work, that of the current sweep, which
\* waits for it; the marker goes with a whole file, and is there when uploads begin.
Generating == {"check", "remove", "create", "write", "mark"}
CsvInv ==
    /\ \A s \in Sweeps : gen[s] \in Generating => s = sweep /\ pc = "generating"
    /\ \A s \in Sweeps : gen[s] \in {"create", "write", "mark"} => ~marker
    /\ \A s \in Sweeps : gen[s] \in {"write", "mark"} => csv = s
    /\ \A s \in Sweeps : gen[s] = "mark" => whole
    /\ marker => whole
    /\ pc = "generating" /\ gen[sweep] = "ready" => marker
    /\ pc \in {"launch", "poll", "read", "drain"} => marker

IInv ==
    /\ TypeOK /\ Shapes /\ ControlInv /\ StoredInv
    /\ kills = 0 => OwnInv /\ CsvInv

-----------------------------------------------------------------------------

\* The initial state satisfies the invariant.
LEMMA InitIInv == Init => IInv
<1> SUFFICES ASSUME Init PROVE IInv
  OBVIOUS
<1> USE DEF Init
<1>1. TypeOK
  <2>1. sweep \in 0..MaxSweeps /\ point \in 0..Points /\ kills \in 0..MaxKills
    BY OnebrcAssumption
  <2>2. summary \in [PointIds -> Summaries \cup {None}] /\ upload \in Summaries \cup {None}
    OBVIOUS
  <2> QED
    BY <2>1, <2>2 DEF TypeOK
<1>2. Shapes
  BY DEF Shapes
<1>3. ControlInv /\ StoredInv
  BY DEF ControlInv, StoredInv, None
<1>4. OwnInv
  BY DEF OwnInv
<1>5. CsvInv
  BY DEF CsvInv, Generating, NoCsv
<1> QED
  BY <1>1, <1>2, <1>3, <1>4, <1>5 DEF IInv

\* The steps of Next, one by one.
LEMMA NextCases ==
    ASSUME [Next]_vars
    PROVE  \/ StartSweep \/ AwaitGenerator \/ Launch \/ PollDone \/ ReadSummary \/ NextPoint
           \/ Die \/ UNCHANGED vars
           \/ \E s \in Sweeps : \/ CheckCsv(s) \/ RemoveCsv(s) \/ CreateCsv(s)
                                \/ WriteCsv(s) \/ GenFails(s) \/ MarkCsv(s)
           \/ \E u \in Uploads : StoreRows(u) \/ FinishUpload(u) \/ UploadDies(u)
  BY DEF Next, SweepStep, Generator, Uploader, Rest

\* An upload is a pair of a sweep and a point.
LEMMA UploadPairs ==
    ASSUME NEW u \in Uploads
    PROVE  u[1] \in Sweeps /\ u[2] \in PointIds /\ u = <<u[1], u[2]>>
  BY DEF Uploads

\* The current upload, while a sweep is under way.
LEMMA Here ==
    ASSUME ControlInv, pc # "idle"
    PROVE  This \in Uploads /\ This = <<sweep, point>> /\ sweep \in Sweeps /\ point \in PointIds
  BY UploadPairs DEF ControlInv, This, Uploads

\* A death is not undone.
LEMMA NoDeathBefore ==
    ASSUME kills \in Nat, [Next]_vars, kills' = 0
    PROVE  kills = 0
<1> USE DEF harness, csvVars, uploadVars, tableVars
<1>1. CASE StartSweep
  BY <1>1 DEF StartSweep, Goto
<1>2. CASE AwaitGenerator
  BY <1>2 DEF AwaitGenerator
<1>3. CASE Launch
  BY <1>3 DEF Launch, Goto, SummaryRemoved
<1>4. CASE PollDone
  BY <1>4 DEF PollDone, UploaderGone, Goto
<1>5. CASE ReadSummary
  BY <1>5 DEF ReadSummary
<1>6. CASE NextPoint
  BY <1>6 DEF NextPoint, GoOn
<1>7. CASE Die
  BY <1>7 DEF Die
<1>8. CASE UNCHANGED vars
  BY <1>8 DEF vars
<1>9. CASE \E s \in Sweeps : \/ CheckCsv(s) \/ RemoveCsv(s) \/ CreateCsv(s)
                            \/ WriteCsv(s) \/ GenFails(s) \/ MarkCsv(s)
  BY <1>9 DEF CheckCsv, GenStep, RemoveCsv, CreateCsv, WriteCsv, GenFails, MarkCsv
<1>10. CASE \E u \in Uploads : StoreRows(u) \/ FinishUpload(u) \/ UploadDies(u)
  BY <1>10 DEF StoreRows, FinishUpload, UploadDies
<1> QED
  BY NextCases, <1>1, <1>2, <1>3, <1>4, <1>5, <1>6, <1>7, <1>8, <1>9, <1>10

\* Every step preserves the types.
LEMMA TypeStep == TypeOK /\ Shapes /\ ControlInv /\ [Next]_vars => TypeOK' /\ Shapes'
<1> SUFFICES ASSUME TypeOK, Shapes, ControlInv, [Next]_vars PROVE TypeOK' /\ Shapes'
  OBVIOUS
<1> USE OnebrcAssumption DEF TypeOK, Shapes, Sweeps, PointIds, NoCsv, harness, csvVars,
    uploadVars, tableVars
<1>1. CASE StartSweep
  BY <1>1 DEF StartSweep, Goto
<1>2. CASE AwaitGenerator
  BY <1>2 DEF AwaitGenerator
<1>3. CASE Launch
  <2>1. This \in Uploads /\ point \in PointIds
    BY <1>3, Here DEF Launch, Goto
  <2>2. summary' \in [PointIds -> Summaries \cup {None}]
    BY <1>3, <2>1 DEF Launch, SummaryRemoved
  <2>3. uploader' \in [Uploads -> {"unborn", "running", "done", "died"}]
    BY <1>3, <2>1 DEF Launch
  <2> QED
    BY <1>3, <2>2, <2>3 DEF Launch, Goto
<1>4. CASE PollDone
  BY <1>4 DEF PollDone, UploaderGone, Goto
<1>5. CASE ReadSummary
  BY <1>5, Here DEF ReadSummary
<1>6. CASE NextPoint
  BY <1>6 DEF NextPoint, GoOn
<1>7. CASE Die
  BY <1>7 DEF Die
<1>8. CASE UNCHANGED vars
  BY <1>8 DEF vars
<1>9. ASSUME NEW s \in Sweeps,
             \/ CheckCsv(s) \/ RemoveCsv(s) \/ CreateCsv(s)
             \/ WriteCsv(s) \/ GenFails(s) \/ MarkCsv(s)
      PROVE  TypeOK' /\ Shapes'
  <2>1. CASE CheckCsv(s)
    BY <2>1 DEF CheckCsv, GenStep
  <2>2. CASE RemoveCsv(s)
    BY <2>2 DEF RemoveCsv, GenStep
  <2>3. CASE CreateCsv(s)
    BY <2>3 DEF CreateCsv, GenStep
  <2>4. CASE WriteCsv(s)
    BY <2>4 DEF WriteCsv, GenStep
  <2>5. CASE GenFails(s)
    BY <2>5 DEF GenFails, GenStep, AfterFailedGen
  <2>6. CASE MarkCsv(s)
    BY <2>6 DEF MarkCsv, GenStep
  <2> QED
    BY <1>9, <2>1, <2>2, <2>3, <2>4, <2>5, <2>6
<1>10. ASSUME NEW u \in Uploads,
             StoreRows(u) \/ FinishUpload(u) \/ UploadDies(u)
      PROVE  TypeOK' /\ Shapes'
  <2>1. CASE StoreRows(u)
    BY <2>1, UploadPairs DEF StoreRows, Prefix
  <2>2. CASE FinishUpload(u)
    <3>1. /\ u[2] \in PointIds /\ uploader' = [uploader EXCEPT ![u] = "done"]
          /\ UNCHANGED <<harness, csvVars, tableVars>>
      BY <2>2, UploadPairs DEF FinishUpload
    <3>2. PICK s \in Summaries : summary' = [summary EXCEPT ![u[2]] = s]
      BY <2>2 DEF FinishUpload
    <3> QED
      BY <3>1, <3>2
  <2>3. CASE UploadDies(u)
    BY <2>3 DEF UploadDies
  <2> QED
    BY <1>10, <2>1, <2>2, <2>3
<1> QED
  BY <1>1, <1>2, <1>3, <1>4, <1>5, <1>6, <1>7, <1>8, <1>9, <1>10, NextCases

\* A sweep goes on at points it has.
LEMMA ControlStep == TypeOK /\ ControlInv /\ [Next]_vars => ControlInv'
<1> SUFFICES ASSUME TypeOK, ControlInv, [Next]_vars PROVE ControlInv'
  OBVIOUS
<1> USE OnebrcAssumption DEF TypeOK, ControlInv, This, Sweeps, PointIds, Uploads, None,
    harness, csvVars, uploadVars, tableVars
<1>1. CASE StartSweep
  BY <1>1 DEF StartSweep, Goto
<1>2. CASE AwaitGenerator
  BY <1>2 DEF AwaitGenerator
<1>3. CASE Launch
  BY <1>3 DEF Launch, Goto, SummaryRemoved
<1>4. CASE PollDone
  BY <1>4 DEF PollDone, UploaderGone, Goto
<1>5. CASE ReadSummary
  BY <1>5 DEF ReadSummary
<1>6. CASE NextPoint
  BY <1>6 DEF NextPoint, GoOn
<1>7. CASE Die
  BY <1>7 DEF Die
<1>8. CASE UNCHANGED vars
  BY <1>8 DEF vars
<1>9. ASSUME NEW s \in Sweeps,
             \/ CheckCsv(s) \/ RemoveCsv(s) \/ CreateCsv(s)
             \/ WriteCsv(s) \/ GenFails(s) \/ MarkCsv(s)
      PROVE  ControlInv'
  <2>1. CASE CheckCsv(s)
    BY <2>1 DEF CheckCsv, GenStep
  <2>2. CASE RemoveCsv(s)
    BY <2>2 DEF RemoveCsv, GenStep
  <2>3. CASE CreateCsv(s)
    BY <2>3 DEF CreateCsv, GenStep
  <2>4. CASE WriteCsv(s)
    BY <2>4 DEF WriteCsv, GenStep
  <2>5. CASE GenFails(s)
    BY <2>5 DEF GenFails, GenStep, AfterFailedGen
  <2>6. CASE MarkCsv(s)
    BY <2>6 DEF MarkCsv, GenStep
  <2> QED
    BY <1>9, <2>1, <2>2, <2>3, <2>4, <2>5, <2>6
<1>10. ASSUME NEW u \in Uploads,
             StoreRows(u) \/ FinishUpload(u) \/ UploadDies(u)
      PROVE  ControlInv'
  <2>1. CASE StoreRows(u)
    BY <2>1 DEF StoreRows, Prefix
  <2>2. CASE FinishUpload(u)
    BY <2>2 DEF FinishUpload, Prefix
  <2>3. CASE UploadDies(u)
    BY <2>3 DEF UploadDies
  <2> QED
    BY <1>10, <2>1, <2>2, <2>3
<1> QED
  BY <1>1, <1>2, <1>3, <1>4, <1>5, <1>6, <1>7, <1>8, <1>9, <1>10, NextCases

\* Rows stay in their table, and a summary counts rows accepted that are there.
LEMMA StoredStep == TypeOK /\ Shapes /\ ControlInv /\ StoredInv /\ [Next]_vars => StoredInv'
<1> SUFFICES ASSUME TypeOK, Shapes, ControlInv, StoredInv, [Next]_vars PROVE StoredInv'
  OBVIOUS
<1> USE DEF TypeOK, Shapes, ControlInv, StoredInv, This, None, harness, csvVars, uploadVars,
    tableVars
<1>1. CASE StartSweep
  BY <1>1 DEF StartSweep, Goto
<1>2. CASE AwaitGenerator
  BY <1>2 DEF AwaitGenerator
<1>3. CASE Launch
  BY <1>3, Here DEF Launch, Goto, SummaryRemoved
<1>4. CASE PollDone
  BY <1>4 DEF PollDone, UploaderGone, Goto
<1>5. CASE ReadSummary
  BY <1>5, Here DEF ReadSummary
<1>6. CASE NextPoint
  BY <1>6 DEF NextPoint, GoOn
<1>7. CASE Die
  BY <1>7 DEF Die
<1>8. CASE UNCHANGED vars
  BY <1>8 DEF vars
<1>9. ASSUME NEW s \in Sweeps,
             \/ CheckCsv(s) \/ RemoveCsv(s) \/ CreateCsv(s)
             \/ WriteCsv(s) \/ GenFails(s) \/ MarkCsv(s)
      PROVE  StoredInv'
  <2>1. CASE CheckCsv(s)
    BY <2>1 DEF CheckCsv, GenStep
  <2>2. CASE RemoveCsv(s)
    BY <2>2 DEF RemoveCsv, GenStep
  <2>3. CASE CreateCsv(s)
    BY <2>3 DEF CreateCsv, GenStep
  <2>4. CASE WriteCsv(s)
    BY <2>4 DEF WriteCsv, GenStep
  <2>5. CASE GenFails(s)
    BY <2>5 DEF GenFails, GenStep, AfterFailedGen
  <2>6. CASE MarkCsv(s)
    BY <2>6 DEF MarkCsv, GenStep
  <2> QED
    BY <1>9, <2>1, <2>2, <2>3, <2>4, <2>5, <2>6
<1>10. ASSUME NEW u \in Uploads,
             StoreRows(u) \/ FinishUpload(u) \/ UploadDies(u)
      PROVE  StoredInv'
  <2>1. CASE StoreRows(u)
    BY <2>1, UploadPairs DEF StoreRows, Prefix
  <2>2. CASE FinishUpload(u)
    BY <2>2, UploadPairs DEF FinishUpload, Prefix
  <2>3. CASE UploadDies(u)
    BY <2>3 DEF UploadDies
  <2> QED
    BY <1>10, <2>1, <2>2, <2>3
<1> QED
  BY <1>1, <1>2, <1>3, <1>4, <1>5, <1>6, <1>7, <1>8, <1>9, <1>10, NextCases

\* While no sweep dies, an uploader is over before its sweep goes on.
LEMMA OwnStep == IInv /\ kills = 0 /\ kills' = 0 /\ [Next]_vars => OwnInv'
<1> SUFFICES ASSUME IInv, kills = 0, kills' = 0, [Next]_vars PROVE OwnInv'
  OBVIOUS
<1> USE DEF IInv, TypeOK, ControlInv, OwnInv, This, None, harness, csvVars, uploadVars,
    tableVars
<1>1. CASE StartSweep
  BY <1>1 DEF StartSweep, Goto
<1>2. CASE AwaitGenerator
  BY <1>2 DEF AwaitGenerator
<1>3. CASE Launch
  BY <1>3, Here DEF Launch, Goto, SummaryRemoved
<1>4. CASE PollDone
  BY <1>4 DEF PollDone, UploaderGone, Goto
<1>5. CASE ReadSummary
  BY <1>5 DEF ReadSummary
<1>6. CASE NextPoint
  BY <1>6 DEF NextPoint, GoOn
<1>7. CASE Die
  BY <1>7 DEF Die
<1>8. CASE UNCHANGED vars
  BY <1>8 DEF vars
<1>9. ASSUME NEW s \in Sweeps,
             \/ CheckCsv(s) \/ RemoveCsv(s) \/ CreateCsv(s)
             \/ WriteCsv(s) \/ GenFails(s) \/ MarkCsv(s)
      PROVE  OwnInv'
  <2>1. CASE CheckCsv(s)
    BY <2>1 DEF CheckCsv, GenStep
  <2>2. CASE RemoveCsv(s)
    BY <2>2 DEF RemoveCsv, GenStep
  <2>3. CASE CreateCsv(s)
    BY <2>3 DEF CreateCsv, GenStep
  <2>4. CASE WriteCsv(s)
    BY <2>4 DEF WriteCsv, GenStep
  <2>5. CASE GenFails(s)
    BY <2>5 DEF GenFails, GenStep, AfterFailedGen
  <2>6. CASE MarkCsv(s)
    BY <2>6 DEF MarkCsv, GenStep
  <2> QED
    BY <1>9, <2>1, <2>2, <2>3, <2>4, <2>5, <2>6
<1>10. ASSUME NEW u \in Uploads,
             StoreRows(u) \/ FinishUpload(u) \/ UploadDies(u)
      PROVE  OwnInv'
  <2>1. CASE StoreRows(u)
    BY <2>1 DEF StoreRows, Prefix
  <2>2. CASE FinishUpload(u)
    BY <2>2, UploadPairs DEF FinishUpload, Prefix
  <2>3. CASE UploadDies(u)
    BY <2>3 DEF UploadDies
  <2> QED
    BY <1>10, <2>1, <2>2, <2>3
<1> QED
  BY <1>1, <1>2, <1>3, <1>4, <1>5, <1>6, <1>7, <1>8, <1>9, <1>10, NextCases

\* While no sweep dies, a marker is set on a whole file and removed before the next one.
LEMMA CsvStep == IInv /\ kills = 0 /\ kills' = 0 /\ [Next]_vars => CsvInv'
<1> SUFFICES ASSUME IInv, kills = 0, kills' = 0, [Next]_vars PROVE CsvInv'
  OBVIOUS
<1> USE DEF IInv, TypeOK, Shapes, ControlInv, OwnInv, CsvInv, Generating, This,
    NoCsv, harness, csvVars, uploadVars, tableVars
<1>1. CASE StartSweep
  BY <1>1, OnebrcAssumption DEF StartSweep, Goto, Sweeps
<1>2. CASE AwaitGenerator
  BY <1>2 DEF AwaitGenerator
<1>3. CASE Launch
  BY <1>3, Here DEF Launch, Goto, SummaryRemoved
<1>4. CASE PollDone
  BY <1>4 DEF PollDone, UploaderGone, Goto
<1>5. CASE ReadSummary
  BY <1>5 DEF ReadSummary
<1>6. CASE NextPoint
  BY <1>6 DEF NextPoint, GoOn
<1>7. CASE Die
  BY <1>7 DEF Die
<1>8. CASE UNCHANGED vars
  BY <1>8 DEF vars
<1>9. ASSUME NEW s \in Sweeps,
             \/ CheckCsv(s) \/ RemoveCsv(s) \/ CreateCsv(s)
             \/ WriteCsv(s) \/ GenFails(s) \/ MarkCsv(s)
      PROVE  CsvInv'
  <2>1. CASE CheckCsv(s)
    BY <2>1 DEF CheckCsv, GenStep
  <2>2. CASE RemoveCsv(s)
    BY <2>2 DEF RemoveCsv, GenStep
  <2>3. CASE CreateCsv(s)
    BY <2>3 DEF CreateCsv, GenStep
  <2>4. CASE WriteCsv(s)
    BY <2>4 DEF WriteCsv, GenStep
  <2>5. CASE GenFails(s)
    BY <2>5 DEF GenFails, GenStep, AfterFailedGen
  <2>6. CASE MarkCsv(s)
    BY <2>6 DEF MarkCsv, GenStep
  <2> QED
    BY <1>9, <2>1, <2>2, <2>3, <2>4, <2>5, <2>6
<1>10. ASSUME NEW u \in Uploads,
             StoreRows(u) \/ FinishUpload(u) \/ UploadDies(u)
      PROVE  CsvInv'
  <2>1. CASE StoreRows(u)
    BY <2>1 DEF StoreRows, Prefix
  <2>2. CASE FinishUpload(u)
    BY <2>2 DEF FinishUpload, Prefix
  <2>3. CASE UploadDies(u)
    BY <2>3 DEF UploadDies
  <2> QED
    BY <1>10, <2>1, <2>2, <2>3
<1> QED
  BY <1>1, <1>2, <1>3, <1>4, <1>5, <1>6, <1>7, <1>8, <1>9, <1>10, NextCases

-----------------------------------------------------------------------------

\* The strengthened invariant holds of every reachable state.
THEOREM Invariance == Spec => []IInv
<1>1. IInv /\ [Next]_vars => IInv'
  <2> SUFFICES ASSUME IInv, [Next]_vars PROVE IInv'
    OBVIOUS
  <2>1. TypeOK' /\ Shapes' /\ ControlInv' /\ StoredInv'
    BY TypeStep, ControlStep, StoredStep DEF IInv
  <2>2. kills' = 0 => kills = 0
    BY NoDeathBefore, OnebrcAssumption DEF IInv, TypeOK
  <2>3. kills' = 0 => OwnInv' /\ CsvInv'
    BY <2>2, OwnStep, CsvStep
  <2> QED
    BY <2>1, <2>3 DEF IInv
<1> QED
  BY <1>1, InitIInv, PTL DEF Spec

\* Every variable has its type, for any number of points, sweeps and deaths.
THEOREM TypeCorrect == Spec => []TypeOK
<1>1. IInv => TypeOK
  BY DEF IInv
<1> QED
  BY <1>1, Invariance, PTL

\* run_onebrc reports for a point the summary of the upload it started, unless a sweep
\* died, and always one whose accepted rows are in the point's table.
THEOREM OwnUploadReported == Spec => []ReportsOwnUpload
<1>1. IInv => ReportsOwnUpload
  BY DEF IInv, StoredInv, OwnInv, ReportsOwnUpload, SummaryIsOwn, AcceptedAreThere
<1> QED
  BY <1>1, Invariance, PTL

\* Unless a sweep died no upload reads a CSV that is not whole: the marker outlives
\* neither a failed generator nor the file it was set on.
THEOREM WholeCsvRead == Spec => []UploadsReadWholeCsv
<1>1. IInv => UploadsReadWholeCsv
  BY DEF IInv, OwnInv, CsvInv, UploadsReadWholeCsv
<1> QED
  BY <1>1, Invariance, PTL
=============================================================================
