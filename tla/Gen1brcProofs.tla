---------------------------- MODULE Gen1brcProofs ----------------------------
(***************************************************************************)
(* The pipeline of gen1brc for every number of writers, of rows and every  *)
(* block length.                                                           *)
(***************************************************************************)
EXTENDS Gen1brc, FiniteSetTheorems, TLAPS

-----------------------------------------------------------------------------
(* Channels *)

\* A send adds its element and keeps the elements distinct when it is new.
LEMMA SendElements ==
    ASSUME NEW S, NEW ch \in Seq(S), NEW x \in S
    PROVE  /\ Elements(Append(ch, x)) = Elements(ch) \cup {x}
           /\ Distinct(ch) /\ x \notin Elements(ch) => Distinct(Append(ch, x))
<1>1. /\ Len(Append(ch, x)) = Len(ch) + 1
      /\ Len(ch) \in Nat
      /\ \A i \in 1..Len(ch) : Append(ch, x)[i] = ch[i]
      /\ Append(ch, x)[Len(ch) + 1] = x
  OBVIOUS
<1>2. 1 .. Len(ch) + 1 = 1..Len(ch) \cup {Len(ch) + 1}
  BY <1>1
<1>3. Elements(Append(ch, x)) = Elements(ch) \cup {x}
  <2>1. ASSUME NEW y \in Elements(Append(ch, x))
        PROVE  y \in Elements(ch) \cup {x}
    BY <2>1, <1>1, <1>2 DEF Elements
  <2>2. ASSUME NEW y \in Elements(ch) \cup {x}
        PROVE  y \in Elements(Append(ch, x))
    <3>1. CASE y = x
      BY <3>1, <1>1 DEF Elements
    <3>2. CASE y \in Elements(ch)
      <4>1. PICK i \in 1..Len(ch) : y = ch[i]
        BY <3>2 DEF Elements
      <4>2. i \in 1..Len(Append(ch, x)) /\ Append(ch, x)[i] = y
        BY <4>1, <1>1
      <4>3. QED
        BY <4>2 DEF Elements
    <3>3. QED
      BY <2>2, <3>1, <3>2
  <2>3. QED
    BY <2>1, <2>2
<1>4. ASSUME Distinct(ch), x \notin Elements(ch)
      PROVE  Distinct(Append(ch, x))
  <2>1. \A i \in 1..Len(ch) : ch[i] # x
    BY <1>4 DEF Elements
  <2>2. QED
    BY <1>1, <1>2, <1>4, <2>1 DEF Distinct
<1>5. QED
  BY <1>3, <1>4

\* A receive takes the first element away, which was there once if the elements
\* are distinct.
LEMMA ReceiveElements ==
    ASSUME NEW S, NEW ch \in Seq(S), ch # <<>>
    PROVE  /\ Head(ch) \in S
           /\ Tail(ch) \in Seq(S)
           /\ Len(Tail(ch)) = Len(ch) - 1
           /\ Elements(ch) = {Head(ch)} \cup Elements(Tail(ch))
           /\ Distinct(ch) => Distinct(Tail(ch)) /\ Head(ch) \notin Elements(Tail(ch))
<1>1. /\ Len(ch) \in Nat \ {0}
      /\ Head(ch) = ch[1]
      /\ Tail(ch) \in Seq(S)
      /\ Len(Tail(ch)) = Len(ch) - 1
      /\ \A i \in 1 .. Len(ch) - 1 : Tail(ch)[i] = ch[i + 1]
  OBVIOUS
<1>2. Head(ch) \in S
  OBVIOUS
<1>3. Elements(ch) = {Head(ch)} \cup Elements(Tail(ch))
  <2>1. ASSUME NEW y \in Elements(ch)
        PROVE  y \in {Head(ch)} \cup Elements(Tail(ch))
    <3>1. PICK i \in 1..Len(ch) : y = ch[i]
      BY <2>1 DEF Elements
    <3>2. CASE i = 1
      BY <3>1, <3>2, <1>1
    <3>3. CASE i # 1
      <4>1. i - 1 \in 1..Len(Tail(ch)) /\ Tail(ch)[i - 1] = y
        BY <3>1, <3>3, <1>1
      <4>2. QED
        BY <4>1 DEF Elements
    <3>4. QED
      BY <3>2, <3>3
  <2>2. ASSUME NEW y \in {Head(ch)} \cup Elements(Tail(ch))
        PROVE  y \in Elements(ch)
    <3>1. CASE y = Head(ch)
      BY <3>1, <1>1 DEF Elements
    <3>2. CASE y \in Elements(Tail(ch))
      <4>1. PICK i \in 1..Len(Tail(ch)) : y = Tail(ch)[i]
        BY <3>2 DEF Elements
      <4>2. i + 1 \in 1..Len(ch) /\ ch[i + 1] = y
        BY <4>1, <1>1
      <4>3. QED
        BY <4>2 DEF Elements
    <3>3. QED
      BY <2>2, <3>1, <3>2
  <2>3. QED
    BY <2>1, <2>2
<1>4. ASSUME Distinct(ch)
      PROVE  Distinct(Tail(ch)) /\ Head(ch) \notin Elements(Tail(ch))
  <2>1. ASSUME NEW a \in 1..Len(Tail(ch)), NEW b \in 1..Len(Tail(ch)),
               Tail(ch)[a] = Tail(ch)[b]
        PROVE  a = b
    <3>1. a + 1 \in 1..Len(ch) /\ b + 1 \in 1..Len(ch) /\ ch[a + 1] = ch[b + 1]
      BY <2>1, <1>1
    <3>2. QED
      BY <3>1, <1>4 DEF Distinct
  <2>2. ASSUME NEW a \in 1..Len(Tail(ch)), Tail(ch)[a] = Head(ch)
        PROVE  FALSE
    <3>1. a + 1 \in 1..Len(ch) /\ 1 \in 1..Len(ch) /\ ch[a + 1] = ch[1] /\ a + 1 # 1
      BY <2>2, <1>1
    <3>2. QED
      BY <3>1, <1>4 DEF Distinct
  <2>3. QED
    BY <2>1, <2>2 DEF Distinct, Elements
<1>5. QED
  BY <1>1, <1>2, <1>3, <1>4

-----------------------------------------------------------------------------
(* Blocks *)

\* The blocks cover the rows, and none of them is empty.
LEMMA BlockCount ==
    /\ Blocks \in Nat
    /\ Blocks * BlockRows >= Rows
    /\ \A i \in 0 .. Blocks - 1 : i * BlockRows < Rows
<1>1. Rows \in Nat /\ BlockRows \in Nat /\ BlockRows > 0
  BY RowsAssumption
<1>2. Blocks \in Int
  BY <1>1 DEF Blocks
<1>3. /\ Blocks * BlockRows <= Rows + BlockRows - 1
      /\ Rows + BlockRows - 1 < Blocks * BlockRows + BlockRows
  BY <1>1 DEF Blocks
<1>4. Blocks >= 0
  BY <1>1, <1>2, <1>3
<1>5. ASSUME NEW i \in 0 .. Blocks - 1
      PROVE  i * BlockRows < Rows
  <2>1. (i + 1) * BlockRows <= Blocks * BlockRows
    BY <1>1, <1>2, <1>4
  <2>2. (i + 1) * BlockRows = i * BlockRows + BlockRows
    BY <1>1
  <2>3. i * BlockRows \in Int /\ Blocks * BlockRows \in Int /\ (i + 1) * BlockRows \in Int
    BY <1>1, <1>2
  <2>4. QED
    BY <2>1, <2>2, <2>3, <1>1, <1>3
<1>6. Blocks * BlockRows \in Int
  BY <1>1, <1>2
<1>7. QED
  BY <1>1, <1>2, <1>3, <1>4, <1>5, <1>6

\* Writing block i after the i blocks before it makes the row count what main
\* computes for i + 1 blocks.
LEMMA RowsAfterBlock ==
    ASSUME NEW i \in 0 .. Blocks - 1
    PROVE  /\ RowsOfBlock(i) \in Nat
           /\ Smaller(i * BlockRows, Rows) + RowsOfBlock(i)
                = Smaller((i + 1) * BlockRows, Rows)
           /\ Smaller((i + 1) * BlockRows, Rows) \in Nat
<1>1. Rows \in Nat /\ BlockRows \in Nat /\ BlockRows > 0
  BY RowsAssumption
<1>2. i * BlockRows < Rows /\ i \in Nat
  BY BlockCount
<1>3. (i + 1) * BlockRows = i * BlockRows + BlockRows
  BY <1>1, <1>2
<1>4. i * BlockRows \in Nat
  BY <1>1, <1>2
<1>5. QED
  BY <1>1, <1>2, <1>3, <1>4 DEF RowsOfBlock, Smaller

\* The capacities of the channels are positive numbers.
LEMMA Capacities == JobsCap \in Nat \ {0} /\ ResultsCap \in Nat \ {0}
<1>1. Cardinality(Writers) \in Nat /\ Cardinality(Writers) # 0
  BY WritersAssumption, FS_CardinalityType, FS_EmptySet
<1>2. QED
  BY <1>1 DEF JobsCap, ResultsCap

-----------------------------------------------------------------------------
(* Type correctness *)

\* The initial state has the types.
LEMMA InitTypeOK == Init => TypeOK
<1>1. <<>> \in Seq(Indices) /\ Len(<<>>) = 0
  OBVIOUS
<1>2. Blocks \in Nat /\ 0 \in 0..Blocks
  BY BlockCount
<1>3. SUFFICES ASSUME Init
               PROVE  TypeOK
  OBVIOUS
<1>4. /\ fed \in 0..Blocks /\ next \in 0..Blocks
      /\ jobs \in Seq(Indices) /\ results \in Seq(Indices) /\ stream \in Seq(Indices)
  BY <1>1, <1>2, <1>3 DEF Init
<1>5. Len(jobs) <= JobsCap /\ Len(results) <= ResultsCap
  BY <1>1, <1>3, Capacities DEF Init
<1>6. QED
  BY <1>3, <1>4, <1>5 DEF Init, TypeOK

\* Every step preserves the types.
LEMMA StepTypeOK == TypeOK /\ [Next]_vars => TypeOK'
<1> SUFFICES ASSUME TypeOK, [Next]_vars
             PROVE  TypeOK'
  OBVIOUS
<1> USE BlockCount, Capacities
<1>1. CASE FeedJob
  <2>1. fed \in Indices /\ fed' \in 0..Blocks
    BY <1>1 DEF FeedJob, MoreToFeed, TypeOK, Indices
  <2>2. jobs' \in Seq(Indices) /\ Len(jobs') <= JobsCap
    BY <1>1, <2>1 DEF FeedJob, TypeOK
  <2>3. QED
    BY <1>1, <2>1, <2>2 DEF FeedJob, TypeOK, feederVars, writerVars, mainVars
<1>2. CASE CloseJobs
  BY <1>2 DEF CloseJobs, TypeOK, writerVars, mainVars
<1>3. CASE CloseResults
  BY <1>3 DEF CloseResults, TypeOK, writerVars, mainVars
<1>4. ASSUME NEW w \in Writers, TakeJob(w)
      PROVE  TypeOK'
  <2>1. /\ Head(jobs) \in Indices
        /\ Tail(jobs) \in Seq(Indices)
        /\ Len(Tail(jobs)) = Len(jobs) - 1
    BY <1>4, ReceiveElements DEF TakeJob, TypeOK
  <2>2. jobs' \in Seq(Indices) /\ Len(jobs') <= JobsCap
    BY <1>4, <2>1 DEF TakeJob, TypeOK
  <2>3. /\ writer' \in [Writers -> {"recv", "send", "exited"}]
        /\ held' \in [Writers -> Nat]
        /\ \A v \in Writers : writer'[v] = "send" => held'[v] \in Indices
    BY <1>4, <2>1 DEF TakeJob, TypeOK, Indices
  <2>4. QED
    BY <1>4, <2>2, <2>3 DEF TakeJob, TypeOK, feederVars, mainVars
<1>5. ASSUME NEW w \in Writers, SendBlock(w)
      PROVE  TypeOK'
  <2>1. results' \in Seq(Indices) /\ Len(results') <= ResultsCap
    BY <1>5 DEF SendBlock, TypeOK
  <2>2. /\ writer' \in [Writers -> {"recv", "send", "exited"}]
        /\ \A v \in Writers : writer'[v] = "send" => held'[v] \in Indices
    BY <1>5 DEF SendBlock, TypeOK
  <2>3. QED
    BY <1>5, <2>1, <2>2 DEF SendBlock, TypeOK, feederVars, mainVars
<1>6. ASSUME NEW w \in Writers, ExitWriter(w)
      PROVE  TypeOK'
  BY <1>6 DEF ExitWriter, TypeOK, feederVars, mainVars
<1>7. CASE ReceiveBlock
  <2>1. /\ Head(results) \in Indices
        /\ Tail(results) \in Seq(Indices)
        /\ Len(Tail(results)) = Len(results) - 1
    BY <1>7, ReceiveElements DEF ReceiveBlock, TypeOK
  <2>2. results' \in Seq(Indices) /\ Len(results') <= ResultsCap
    BY <1>7, <2>1 DEF ReceiveBlock, TypeOK
  <2>3. pending' \in SUBSET Indices
    BY <1>7, <2>1 DEF ReceiveBlock, TypeOK
  <2>4. QED
    BY <1>7, <2>2, <2>3 DEF ReceiveBlock, TypeOK, feederVars, writerVars
<1>8. CASE WriteBlock
  <2>1. next \in Indices /\ next \in 0 .. Blocks - 1
    BY <1>8 DEF WriteBlock, BlockToWrite, TypeOK, Indices
  <2>2. next' \in 0..Blocks
    BY <1>8, <2>1 DEF WriteBlock
  <2>3. stream' \in Seq(Indices) /\ pending' \in SUBSET Indices
    BY <1>8, <2>1 DEF WriteBlock, BlockToWrite, PendingAfterWrite, TypeOK
  <2>4. streamRows' \in Nat /\ writtenRows' \in Nat
    BY <1>8, <2>1, RowsAfterBlock DEF WriteBlock, BlockToWrite, TypeOK
  <2>5. QED
    BY <1>8, <2>2, <2>3, <2>4 DEF WriteBlock, TypeOK, feederVars, writerVars
<1>9. CASE EndDrain
  BY <1>9 DEF EndDrain, TypeOK, feederVars, writerVars
<1>10. CASE WriteFails
  BY <1>10 DEF WriteFails, TypeOK, feederVars, writerVars
<1>11. CASE FlushAndReport
  BY <1>11 DEF FlushAndReport, TypeOK, feederVars, writerVars
<1>12. CASE UNCHANGED vars
  BY <1>12 DEF TypeOK, vars, feederVars, writerVars, mainVars
<1>13. QED
  BY <1>1, <1>2, <1>3, <1>4, <1>5, <1>6, <1>7, <1>8, <1>9, <1>10, <1>11, <1>12
  DEF Next, FeederStep, WriterStep, MainStep, Exited

\* Every variable keeps its type and no channel exceeds the capacity make()
\* gave it.
THEOREM TypeCorrect == Spec => []TypeOK
BY InitTypeOK, StepTypeOK, PTL DEF Spec

-----------------------------------------------------------------------------
(* Every block in one place *)

\* The blocks in the writers' hands after a writer took a job, sent its block,
\* or left.
LEMMA HandsAfterTake ==
    ASSUME TypeOK, NEW w \in Writers, TakeJob(w)
    PROVE  /\ InHands' = InHands \cup {Head(jobs)}
           /\ DistinctHands /\ Head(jobs) \notin InHands => DistinctHands'
<1>1. /\ writer[w] = "recv" /\ writer'[w] = "send" /\ held'[w] = Head(jobs)
      /\ \A v \in Writers \ {w} : writer'[v] = writer[v] /\ held'[v] = held[v]
  BY DEF TakeJob, TypeOK
<1>2. InHands' = InHands \cup {Head(jobs)}
  BY <1>1 DEF InHands
<1>3. ASSUME DistinctHands, Head(jobs) \notin InHands
      PROVE  DistinctHands'
  BY <1>1, <1>3 DEF DistinctHands, InHands
<1>4. QED
  BY <1>2, <1>3

\* A writer that sends its block has it in its hand no more.
LEMMA HandsAfterSend ==
    ASSUME TypeOK, DistinctHands, NEW w \in Writers, SendBlock(w)
    PROVE  /\ held[w] \in Indices
           /\ InHands = InHands' \cup {held[w]}
           /\ held[w] \notin InHands'
           /\ DistinctHands'
<1>1. /\ writer[w] = "send" /\ writer'[w] = "recv" /\ held' = held
      /\ \A v \in Writers \ {w} : writer'[v] = writer[v]
  BY DEF SendBlock, TypeOK
<1>2. held[w] \in Indices
  BY <1>1 DEF TypeOK
<1>3. InHands = InHands' \cup {held[w]}
  BY <1>1 DEF InHands
<1>4. held[w] \notin InHands'
  BY <1>1 DEF InHands, DistinctHands
<1>5. DistinctHands'
  BY <1>1 DEF DistinctHands
<1>6. QED
  BY <1>2, <1>3, <1>4, <1>5

\* A writer that exits has nothing in its hand.
LEMMA HandsAfterExit ==
    ASSUME TypeOK, NEW w \in Writers, ExitWriter(w)
    PROVE  InHands' = InHands /\ (DistinctHands => DistinctHands')
<1>1. /\ writer[w] = "recv" /\ writer'[w] = "exited" /\ held' = held
      /\ \A v \in Writers \ {w} : writer'[v] = writer[v]
  BY DEF ExitWriter, TypeOK
<1>2. QED
  BY <1>1 DEF InHands, DistinctHands

\* No block is anywhere before the feeder starts.
LEMMA InitOnePlace == Init => EachBlockInOnePlace
<1> SUFFICES ASSUME Init
             PROVE  EachBlockInOnePlace
  OBVIOUS
<1>1. Len(<<>>) = 0
  OBVIOUS
<1>2. jobs = <<>> /\ results = <<>> /\ pending = {} /\ next = 0 /\ fed = 0
  BY DEF Init
<1>3. InJobs = {} /\ InResults = {} /\ Written = {} /\ 0 .. fed - 1 = {}
  BY <1>1, <1>2 DEF InJobs, InResults, Written, Elements
<1>4. \A w \in Writers : writer[w] # "send"
  BY DEF Init
<1>5. Distinct(jobs) /\ Distinct(results) /\ DistinctHands /\ InHands = {}
  BY <1>1, <1>2, <1>4 DEF Distinct, DistinctHands, InHands
<1>6. QED
  BY <1>2, <1>3, <1>5 DEF EachBlockInOnePlace

\* Every step leaves a block in one place: it is handed on, not copied.
LEMMA StepOnePlace == TypeOK /\ EachBlockInOnePlace /\ [Next]_vars => EachBlockInOnePlace'
<1> SUFFICES ASSUME TypeOK, EachBlockInOnePlace, [Next]_vars
             PROVE  EachBlockInOnePlace'
  OBVIOUS
<1>t. /\ fed \in Nat /\ next \in Nat
      /\ jobs \in Seq(Indices) /\ results \in Seq(Indices)
  BY BlockCount DEF TypeOK
<1>e. ASSUME UNCHANGED <<jobs, writerVars, results, pending, next, fed>>
      PROVE  EachBlockInOnePlace'
  <2>1. /\ InJobs' = InJobs /\ InResults' = InResults /\ Written' = Written
        /\ InHands' = InHands /\ (DistinctHands <=> DistinctHands')
        /\ jobs' = jobs /\ results' = results /\ pending' = pending /\ fed' = fed
    BY <1>e DEF InJobs, InHands, InResults, Written, DistinctHands, writerVars
  <2>2. QED
    BY <2>1 DEF EachBlockInOnePlace
<1>1. CASE FeedJob
  <2>1. fed \in Indices /\ fed' = fed + 1
    BY <1>1, <1>t, BlockCount DEF FeedJob, MoreToFeed, TypeOK, Indices
  <2>2. fed \notin InJobs /\ fed \notin InHands \cup InResults \cup pending \cup Written
    <3>1. fed \notin 0 .. fed - 1
      BY <1>t
    <3>2. QED
      BY <3>1 DEF EachBlockInOnePlace
  <2>3. InJobs' = InJobs \cup {fed} /\ Distinct(jobs')
    BY <1>1, <1>t, <2>1, <2>2, SendElements
    DEF FeedJob, InJobs, EachBlockInOnePlace
  <2>4. /\ InHands' = InHands /\ InResults' = InResults /\ Written' = Written
        /\ pending' = pending
        /\ (DistinctHands <=> DistinctHands') /\ results' = results
    BY <1>1 DEF FeedJob, InHands, InResults, Written, DistinctHands, writerVars, mainVars
  <2>5. 0 .. fed' - 1 = 0 .. fed - 1 \cup {fed}
    BY <1>t, <2>1
  <2>6. QED
    BY <2>2, <2>3, <2>4, <2>5 DEF EachBlockInOnePlace
<1>2. CASE CloseJobs
  BY <1>2, <1>e DEF CloseJobs, mainVars
<1>3. CASE CloseResults
  BY <1>3, <1>e DEF CloseResults, mainVars
<1>4. ASSUME NEW w \in Writers, TakeJob(w)
      PROVE  EachBlockInOnePlace'
  <2>1. jobs # <<>> /\ jobs' = Tail(jobs)
    BY <1>4 DEF TakeJob
  <2>2. /\ InJobs = {Head(jobs)} \cup InJobs' /\ Head(jobs) \notin InJobs'
        /\ Distinct(jobs')
    BY <1>t, <2>1, ReceiveElements DEF InJobs, EachBlockInOnePlace
  <2>3. InHands' = InHands \cup {Head(jobs)} /\ DistinctHands'
    <3>1. Head(jobs) \notin InHands
      BY <2>2 DEF EachBlockInOnePlace
    <3>2. QED
      BY <1>4, <3>1, HandsAfterTake DEF EachBlockInOnePlace
  <2>4. /\ InResults' = InResults /\ Written' = Written /\ pending' = pending
        /\ results' = results /\ fed' = fed
    BY <1>4 DEF TakeJob, InResults, Written, mainVars, feederVars
  <2>5. QED
    BY <2>2, <2>3, <2>4 DEF EachBlockInOnePlace
<1>5. ASSUME NEW w \in Writers, SendBlock(w)
      PROVE  EachBlockInOnePlace'
  <2>1. /\ held[w] \in Indices
        /\ InHands = InHands' \cup {held[w]} /\ held[w] \notin InHands'
        /\ DistinctHands'
    BY <1>5, HandsAfterSend DEF EachBlockInOnePlace
  <2>2. held[w] \notin InResults
    BY <2>1 DEF EachBlockInOnePlace
  <2>3. InResults' = InResults \cup {held[w]} /\ Distinct(results')
    BY <1>5, <1>t, <2>1, <2>2, SendElements DEF SendBlock, InResults, EachBlockInOnePlace
  <2>4. /\ InJobs' = InJobs /\ Written' = Written /\ pending' = pending
        /\ jobs' = jobs /\ fed' = fed
    BY <1>5 DEF SendBlock, InJobs, Written, mainVars, feederVars
  <2>5. QED
    BY <2>1, <2>3, <2>4 DEF EachBlockInOnePlace
<1>6. ASSUME NEW w \in Writers, ExitWriter(w)
      PROVE  EachBlockInOnePlace'
  <2>1. InHands' = InHands /\ DistinctHands'
    BY <1>6, HandsAfterExit DEF EachBlockInOnePlace
  <2>2. /\ InJobs' = InJobs /\ InResults' = InResults /\ Written' = Written
        /\ pending' = pending /\ jobs' = jobs /\ results' = results /\ fed' = fed
    BY <1>6 DEF ExitWriter, InJobs, InResults, Written, mainVars, feederVars
  <2>3. QED
    BY <2>1, <2>2 DEF EachBlockInOnePlace
<1>7. CASE ReceiveBlock
  <2>1. results # <<>> /\ results' = Tail(results) /\ pending' = pending \cup {Head(results)}
    BY <1>7 DEF ReceiveBlock
  <2>2. /\ InResults = {Head(results)} \cup InResults' /\ Head(results) \notin InResults'
        /\ Distinct(results')
    BY <1>t, <2>1, ReceiveElements DEF InResults, EachBlockInOnePlace
  <2>3. /\ InJobs' = InJobs /\ InHands' = InHands /\ Written' = Written
        /\ (DistinctHands <=> DistinctHands') /\ jobs' = jobs /\ fed' = fed
    BY <1>7 DEF ReceiveBlock, InJobs, InHands, Written, DistinctHands, writerVars, feederVars
  <2>4. QED
    BY <2>1, <2>2, <2>3 DEF EachBlockInOnePlace
<1>8. CASE WriteBlock
  <2>1. next \in pending /\ pending' = pending \ {next} /\ next' = next + 1
    BY <1>8 DEF WriteBlock, BlockToWrite, PendingAfterWrite
  <2>2. Written' = Written \cup {next}
    BY <2>1, <1>t DEF Written
  <2>3. /\ InJobs' = InJobs /\ InHands' = InHands /\ InResults' = InResults
        /\ (DistinctHands <=> DistinctHands') /\ jobs' = jobs /\ results' = results
        /\ fed' = fed
    BY <1>8 DEF WriteBlock, InJobs, InHands, InResults, DistinctHands, writerVars, feederVars
  <2>4. QED
    BY <2>1, <2>2, <2>3 DEF EachBlockInOnePlace
<1>9. CASE EndDrain
  BY <1>9, <1>e DEF EndDrain, feederVars
<1>10. CASE WriteFails
  BY <1>10, <1>e DEF WriteFails, feederVars
<1>11. CASE FlushAndReport
  BY <1>11, <1>e DEF FlushAndReport, feederVars
<1>12. CASE UNCHANGED vars
  BY <1>12, <1>e DEF vars, feederVars, mainVars
<1>13. QED
  BY <1>1, <1>2, <1>3, <1>4, <1>5, <1>6, <1>7, <1>8, <1>9, <1>10, <1>11, <1>12
  DEF Next, FeederStep, WriterStep, MainStep, Exited

\* No block is lost and none is written twice, whatever the number of writers
\* and the order in which they finish.
THEOREM OnePlace == Spec => []EachBlockInOnePlace
BY InitTypeOK, StepTypeOK, InitOnePlace, StepOnePlace, PTL DEF Spec

-----------------------------------------------------------------------------
(* Completeness of the output *)

\* How far the pipeline has shut down: a goroutine leaves its loop only when
\* its channel is closed and empty, and main stops with block `next` not in
\* the map.
ShutdownInv ==
    /\ jobsClosed => fed = Blocks
    /\ \A w \in Writers : writer[w] = "exited" => jobsClosed /\ jobs = <<>>
    /\ resultsClosed => \A w \in Writers : writer[w] = "exited"
    /\ main \in {"recv", "reported"} => next \notin pending
    /\ main = "reported" => resultsClosed /\ results = <<>>

\* What has been written is a function of `next`.
OutputInv ==
    /\ stream = [k \in 1..next |-> k - 1]
    /\ streamRows = Smaller(next * BlockRows, Rows)
    /\ writtenRows = streamRows

IInv == TypeOK /\ EachBlockInOnePlace /\ ShutdownInv /\ OutputInv

\* Nothing is closed in the initial state.
LEMMA InitShutdown == Init => ShutdownInv
BY DEF Init, ShutdownInv

\* Every step keeps the order of the shutdown.
LEMMA StepShutdown == TypeOK /\ ShutdownInv /\ [Next]_vars => ShutdownInv'
<1> SUFFICES ASSUME TypeOK, ShutdownInv, [Next]_vars
             PROVE  ShutdownInv'
  OBVIOUS
<1>b. Blocks \in Nat /\ fed \in 0..Blocks
  BY BlockCount DEF TypeOK
<1>1. CASE FeedJob
  <2>1. ~jobsClosed
    BY <1>1, <1>b DEF FeedJob, MoreToFeed, ShutdownInv
  <2>2. QED
    BY <1>1, <2>1 DEF FeedJob, ShutdownInv, writerVars, mainVars
<1>2. CASE CloseJobs
  BY <1>2, <1>b DEF CloseJobs, MoreToFeed, ShutdownInv, writerVars, mainVars
<1>3. CASE CloseResults
  BY <1>3 DEF CloseResults, WritersFinished, Running, ShutdownInv, writerVars, mainVars
<1>4. ASSUME NEW w \in Writers, TakeJob(w)
      PROVE  ShutdownInv'
  <2>1. writer' = [writer EXCEPT ![w] = "send"] /\ writer[w] = "recv" /\ jobs # <<>>
    BY <1>4 DEF TakeJob
  <2>2. \A v \in Writers : writer[v] # "exited" /\ writer'[v] # "exited"
    BY <2>1 DEF ShutdownInv, TypeOK
  <2>3. QED
    BY <1>4, <2>2 DEF TakeJob, ShutdownInv, mainVars, feederVars
<1>5. ASSUME NEW w \in Writers, SendBlock(w)
      PROVE  ShutdownInv'
  <2>1. writer' = [writer EXCEPT ![w] = "recv"] /\ writer[w] = "send" /\ main # "reported"
    BY <1>5 DEF SendBlock, Running
  <2>2. ~resultsClosed
    BY <2>1 DEF ShutdownInv
  <2>3. \A v \in Writers : writer'[v] = "exited" => writer[v] = "exited"
    BY <2>1 DEF TypeOK
  <2>4. QED
    BY <1>5, <2>1, <2>2, <2>3 DEF SendBlock, ShutdownInv, mainVars, feederVars
<1>6. ASSUME NEW w \in Writers, ExitWriter(w)
      PROVE  ShutdownInv'
  BY <1>6 DEF ExitWriter, ShutdownInv, TypeOK, mainVars, feederVars
<1>7. CASE ReceiveBlock
  BY <1>7 DEF ReceiveBlock, ShutdownInv, feederVars, writerVars
<1>8. CASE WriteBlock
  BY <1>8 DEF WriteBlock, ShutdownInv, feederVars, writerVars
<1>9. CASE EndDrain
  BY <1>9 DEF EndDrain, BlockToWrite, ShutdownInv, feederVars, writerVars
<1>10. CASE WriteFails
  BY <1>10 DEF WriteFails, ShutdownInv, feederVars, writerVars
<1>11. CASE FlushAndReport
  BY <1>11 DEF FlushAndReport, ResultsDrained, ShutdownInv, feederVars, writerVars
<1>12. CASE UNCHANGED vars
  BY <1>12 DEF ShutdownInv, vars, feederVars, writerVars, mainVars
<1>13. QED
  BY <1>1, <1>2, <1>3, <1>4, <1>5, <1>6, <1>7, <1>8, <1>9, <1>10, <1>11, <1>12
  DEF Next, FeederStep, WriterStep, MainStep, Exited

\* The file is empty in the initial state.
LEMMA InitOutput == Init => OutputInv
<1> SUFFICES ASSUME Init
             PROVE  OutputInv
  OBVIOUS
<1>1. Smaller(0 * BlockRows, Rows) = 0
  BY RowsAssumption DEF Smaller
<1>2. <<>> = [k \in 1..0 |-> k - 1]
  OBVIOUS
<1>3. QED
  BY <1>1, <1>2 DEF Init, OutputInv

\* Every step keeps the file the blocks below `next`, in order.
LEMMA StepOutput == TypeOK /\ OutputInv /\ [Next]_vars => OutputInv'
<1> SUFFICES ASSUME TypeOK, OutputInv, [Next]_vars
             PROVE  OutputInv'
  OBVIOUS
<1>1. CASE WriteBlock
  <2>1. /\ next \in 0 .. Blocks - 1
        /\ next \in Nat
        /\ next' = next + 1
        /\ stream' = Append(stream, next)
        /\ streamRows' = streamRows + RowsOfBlock(next)
        /\ writtenRows' = Smaller((next + 1) * BlockRows, Rows)
    BY <1>1 DEF WriteBlock, BlockToWrite, TypeOK, Indices
  <2>2. stream' = [k \in 1..next' |-> k - 1]
    <3>1. Len(stream) = next /\ stream \in Seq(Nat)
      BY <2>1 DEF OutputInv
    <3>2. /\ stream' \in Seq(Nat) /\ Len(stream') = next + 1
          /\ \A k \in 1..next : stream'[k] = stream[k]
          /\ stream'[next + 1] = next
      BY <2>1, <3>1
    <3>3. \A k \in 1 .. next + 1 : stream'[k] = k - 1
      BY <2>1, <3>2 DEF OutputInv
    <3>4. stream' = [k \in 1 .. Len(stream') |-> stream'[k]]
      BY <3>2
    <3>5. QED
      BY <2>1, <3>2, <3>3, <3>4
  <2>3. QED
    BY <2>1, <2>2, RowsAfterBlock DEF OutputInv
<1>2. CASE UNCHANGED <<next, stream, streamRows, writtenRows>>
  BY <1>2 DEF OutputInv
<1>3. QED
  BY <1>1, <1>2
  DEF Next, FeederStep, FeedJob, CloseJobs, CloseResults, WriterStep, TakeJob, SendBlock,
      ExitWriter, MainStep, ReceiveBlock, EndDrain, WriteFails, FlushAndReport, Exited,
      vars, mainVars

\* The inductive invariant holds in every state.
LEMMA Invariance == Spec => []IInv
<1>1. Init => IInv
  BY InitTypeOK, InitOnePlace, InitShutdown, InitOutput DEF IInv
<1>2. IInv /\ [Next]_vars => IInv'
  BY StepTypeOK, StepOnePlace, StepShutdown, StepOutput DEF IInv
<1>3. QED
  BY <1>1, <1>2, PTL DEF Spec

\* The file is an in-order prefix of the dataset at every moment.
THEOREM OutputInOrder == Spec => []InOrder
<1>1. IInv => InOrder
  BY DEF IInv, OutputInv, InOrder
<1>2. QED
  BY <1>1, Invariance, PTL

\* The reported row count is the number of rows generated.
THEOREM RowCountExact == Spec => []RowsExact
<1>1. IInv => RowsExact
  BY DEF IInv, OutputInv, RowsExact
<1>2. QED
  BY <1>1, Invariance, PTL

\* When main has reported, every block has been written: all of them were fed,
\* and the only place left for an unwritten block would be the map, which then
\* would hold block `next`.
LEMMA DrainedIsComplete ==
    ASSUME IInv, main \in {"recv", "reported"}, ResultsDrained
    PROVE  next = Blocks /\ pending = {}
<1>1. Blocks \in Nat /\ next \in 0..Blocks /\ pending \in SUBSET Indices
  BY BlockCount DEF IInv, TypeOK
<1>2. /\ \A w \in Writers : writer[w] = "exited"
      /\ fed = Blocks /\ jobs = <<>> /\ results = <<>> /\ next \notin pending
  BY WritersAssumption DEF ResultsDrained, IInv, ShutdownInv
<1>3. InJobs = {} /\ InResults = {} /\ InHands = {}
  <2>1. Len(<<>>) = 0
    OBVIOUS
  <2>2. QED
    BY <1>2, <2>1 DEF InJobs, InResults, InHands, Elements
<1>4. pending \cup Written = 0 .. Blocks - 1 /\ pending \cap Written = {}
  BY <1>2, <1>3 DEF IInv, EachBlockInOnePlace
<1>5. next = Blocks
  <2>1. SUFFICES ASSUME next # Blocks
                 PROVE  FALSE
    OBVIOUS
  <2>2. next \in 0 .. Blocks - 1 /\ next \notin Written
    BY <1>1, <2>1 DEF Written
  <2>3. QED
    BY <1>2, <1>4, <2>2
<1>6. pending = {}
  BY <1>4, <1>5 DEF Written
<1>7. QED
  BY <1>5, <1>6

\* The summary line is printed only for the whole dataset.
THEOREM ReportIsComplete == Spec => []ReportedIsComplete
<1>1. ASSUME IInv, main = "reported"
      PROVE  Len(stream) = Blocks /\ streamRows = Rows /\ pending = {}
  <2>1. ResultsDrained
    BY <1>1 DEF IInv, ShutdownInv, ResultsDrained
  <2>2. next = Blocks /\ pending = {}
    BY <1>1, <2>1, DrainedIsComplete
  <2>3. Len(stream) = Blocks
    BY <1>1, <2>2, BlockCount DEF IInv, OutputInv
  <2>4. Blocks * BlockRows \in Nat /\ Rows \in Nat
    BY BlockCount, RowsAssumption
  <2>5. streamRows = Rows
    BY <1>1, <2>2, <2>4, BlockCount DEF IInv, OutputInv, Smaller
  <2>6. QED
    BY <2>2, <2>3, <2>5
<1>2. IInv => ReportedIsComplete
  BY <1>1 DEF ReportedIsComplete
<1>3. QED
  BY <1>2, Invariance, PTL

\* main never waits for a result while the block to write next is in its map.
THEOREM NoReadyBlockWaits == Spec => []NothingReadyWaits
<1>1. ASSUME IInv, main = "recv", NEW i \in pending
      PROVE  i > next
  <2>1. /\ Blocks \in Nat /\ next \in 0..Blocks /\ i \in Indices
    BY <1>1, BlockCount DEF IInv, TypeOK
  <2>2. i # next /\ i \notin Written
    BY <1>1 DEF IInv, ShutdownInv, EachBlockInOnePlace
  <2>3. QED
    BY <2>1, <2>2 DEF Written, Indices
<1>2. IInv => NothingReadyWaits
  BY <1>1 DEF NothingReadyWaits
<1>3. QED
  BY <1>2, Invariance, PTL

\* No goroutine sends on a channel that has been closed.
THEOREM SendsBeforeClose == Spec => []NoSendOnClosed
<1>1. IInv => NoSendOnClosed
  BY DEF IInv, ShutdownInv, NoSendOnClosed
<1>2. QED
  BY <1>1, Invariance, PTL

-----------------------------------------------------------------------------
(* Refinement *)

\* Seen through the file and the exit alone, the pipeline is the sequential
\* writer: goroutine steps stutter, a write is the next write, and main reports
\* only when nothing is missing.
THEOREM Refinement == Spec => ImplementsOrderedWriter
<1>1. Init => Promise!Init
  BY DEF Init, Promise!Init
<1>2. IInv /\ [Next]_vars => [Promise!Next]_Promise!vars
  <2> SUFFICES ASSUME IInv, [Next]_vars
               PROVE  [Promise!Next]_Promise!vars
    OBVIOUS
  <2>1. CASE WriteBlock
    <3>1. /\ main = "drain" /\ main' = "drain"
          /\ stream' = Append(stream, next)
      BY <2>1 DEF WriteBlock, BlockToWrite
    <3>2. next \in 0 .. Blocks - 1 /\ next \in Nat
      BY <2>1 DEF WriteBlock, BlockToWrite, IInv, TypeOK, Indices
    <3>3. Len(stream) = next
      BY <3>2 DEF IInv, OutputInv
    <3>4. Len(stream) < Blocks
      BY <3>2, <3>3, BlockCount
    <3>5. QED
      BY <3>1, <3>3, <3>4 DEF Promise!Next, Promise!WriteBlock
  <2>2. CASE FlushAndReport
    <3>1. main = "recv" /\ ResultsDrained /\ main' \in {"reported", "fatal"} /\ stream' = stream
      BY <2>2 DEF FlushAndReport
    <3>2. Len(stream) = Blocks
      <4>1. next = Blocks
        BY <3>1, DrainedIsComplete
      <4>2. QED
        BY <4>1, BlockCount DEF IInv, OutputInv
    <3>3. QED
      BY <3>1, <3>2 DEF Promise!Next, Promise!Complete, Promise!Fail
  <2>3. CASE WriteFails
    BY <2>3 DEF WriteFails, Promise!Next, Promise!Fail
  <2>4. CASE ReceiveBlock
    BY <2>4 DEF ReceiveBlock, Promise!vars
  <2>5. CASE EndDrain
    BY <2>5 DEF EndDrain, Promise!vars
  <2>6. CASE UNCHANGED <<main, stream>>
    BY <2>6 DEF Promise!vars
  <2>7. QED
    BY <2>1, <2>2, <2>3, <2>4, <2>5, <2>6
    DEF Next, FeederStep, FeedJob, CloseJobs, CloseResults, WriterStep, TakeJob,
        SendBlock, ExitWriter, MainStep, Exited, vars, mainVars
<1>3. QED
  BY <1>1, <1>2, Invariance, PTL DEF Spec, Promise!Spec, ImplementsOrderedWriter
=============================================================================
