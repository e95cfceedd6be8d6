--------------------------- MODULE TsbsToolsProofs --------------------------
(***************************************************************************)
(* What tools/tsbsrw/main.go promises, for any file, any number of         *)
(* workers, pods and attempts: every sample is accounted for, a clean exit *)
(* means a whole load, the load implements BatchLoad, and no interleaving  *)
(* of recordTs's calls loses a timestamp.  And what the comparison of      *)
(* answers promises, with tools/tsbsdigest, of any answers of any builds.  *)
(***************************************************************************)
EXTENDS TsbsRw, RecordTs, TsbsDigest, SequenceTheorems, FiniteSetTheorems, WellFoundedInduction, TLAPS

-----------------------------------------------------------------------------
(* Sums over finite sets *)

\* A set of naturals has a least member.
LEMMA Least ==
    ASSUME NEW S \in SUBSET Nat, S # {}
    PROVE  \E n \in S : \A m \in S : n <= m
<1> DEFINE R == OpToRel(<, Nat)
<1>1. \E n \in S : \A m \in S : <<m, n>> \notin R
  <2> HIDE DEF R
  <2>1. IsWellFoundedOn(R, Nat)
    BY NatLessThanWellFounded DEF R
  <2> QED
    BY <2>1, WFMin
<1>2. PICK n \in S : \A m \in S : ~(m < n)
  BY <1>1 DEF OpToRel
<1> QED
  BY <1>2

\* Induction over the naturals, stated of a set: a counterexample would have a least one.
LEMMA NatInduct ==
    ASSUME NEW T, 0 \in T, \A n \in Nat : n \in T => n + 1 \in T
    PROVE  Nat \subseteq T
<1> SUFFICES ASSUME Nat \ T # {} PROVE FALSE
  OBVIOUS
<1>1. PICK n \in Nat \ T : \A m \in Nat \ T : n <= m
  BY Least
<1>2. n # 0 /\ n - 1 \in Nat
  BY <1>1
<1>3. n - 1 \in T
  BY <1>1, <1>2
<1> QED
  BY <1>2, <1>3

\* Induction over the subsets of a finite set, one element at a time.
LEMMA SubsetsInduct ==
    ASSUME NEW S, IsFiniteSet(S), NEW T, {} \in T,
           \A s \in SUBSET S : s # {} /\ (\A x \in s : s \ {x} \in T) => s \in T
    PROVE  SUBSET S \subseteq T
<1> DEFINE N == {n \in Nat : \A s \in SUBSET S : Cardinality(s) = n => s \in T}
<1>1. \A s \in SUBSET S : IsFiniteSet(s) /\ Cardinality(s) \in Nat
  BY FS_Subset, FS_CardinalityType
<1>2. 0 \in N
  BY <1>1, FS_EmptySet
<1>3. ASSUME NEW n \in Nat, n \in N PROVE n + 1 \in N
  <2> SUFFICES ASSUME NEW s \in SUBSET S, Cardinality(s) = n + 1 PROVE s \in T
    OBVIOUS
  <2>1. s # {}
    <3>1. Cardinality({}) = 0
      BY FS_EmptySet
    <3> QED
      BY <3>1
  <2>2. \A x \in s : s \ {x} \in T
    BY <1>1, <1>3, FS_RemoveElement
  <2> QED
    BY <2>1, <2>2
<1> HIDE DEF N
<1>4. Nat \subseteq N
  BY <1>2, <1>3, NatInduct
<1> QED
  BY <1>1, <1>4 DEF N

\* MapThenSumSet adds the elements of a set in the order of CHOOSE: g is its table of
\* the sums of F over the subsets of S.
Pick(s) == CHOOSE x \in s : TRUE
Adds(F, S, g) ==
    g = [s \in SUBSET S |-> IF s = {} THEN 0 ELSE F[Pick(s)] + g[s \ {Pick(s)}]]
Sum(F, S) == (CHOOSE g : Adds(F, S, g))[S]

\* There is such a table: by induction on the size of the subsets it covers.
LEMMA AddsExists ==
    ASSUME NEW S, IsFiniteSet(S), NEW F \in [S -> Nat]
    PROVE  \E g : Adds(F, S, g)
<1> DEFINE Sub(n) == {s \in SUBSET S : Cardinality(s) <= n}
           Fits(n, g) ==
              \A s \in Sub(n) : g[s] = IF s = {} THEN 0 ELSE F[Pick(s)] + g[s \ {Pick(s)}]
           N == {n \in Nat : \E g : Fits(n, g)}
<1>1. \A s \in SUBSET S : IsFiniteSet(s) /\ Cardinality(s) \in Nat /\ Cardinality(s) <= Cardinality(S)
  BY FS_Subset, FS_CardinalityType
<1>2. 0 \in N
  <2>1. \A s \in Sub(0) : s = {}
    BY <1>1, FS_EmptySet
  <2>2. Fits(0, [s \in Sub(0) |-> 0])
    BY <2>1
  <2> QED
    BY <2>2
<1>3. ASSUME NEW n \in Nat, n \in N PROVE n + 1 \in N
  <2>1. PICK g : Fits(n, g)
    BY <1>3
  <2> DEFINE Add(s) == IF s = {} THEN 0 ELSE F[Pick(s)] + g[s \ {Pick(s)}]
             h == [s \in Sub(n + 1) |-> Add(s)]
  <2>2. \A s \in Sub(n) : g[s] = Add(s) /\ s \in Sub(n + 1)
    BY <2>1, <1>1
  <2>3. ASSUME NEW s \in Sub(n + 1), s # {} PROVE s \ {Pick(s)} \in Sub(n)
    <3>1. Pick(s) \in s
      BY <2>3 DEF Pick
    <3> QED
      BY <3>1, <1>1, FS_RemoveElement
  <2>4. Fits(n + 1, h)
    <3> SUFFICES ASSUME NEW s \in Sub(n + 1)
                 PROVE  h[s] = IF s = {} THEN 0 ELSE F[Pick(s)] + h[s \ {Pick(s)}]
      OBVIOUS
    <3>1. h[s] = Add(s)
      OBVIOUS
    <3>2. CASE s = {}
      BY <3>1, <3>2
    <3>3. CASE s # {}
      <4> DEFINE u == s \ {Pick(s)}
      <4>1. g[u] = Add(u) /\ u \in Sub(n + 1)
        BY <2>2, <2>3, <3>3
      <4>2. h[u] = g[u]
        BY <4>1
      <4> HIDE DEF u, h, Add
      <4> QED
        BY <3>1, <3>3, <4>2 DEF u, Add
    <3> QED
      BY <3>2, <3>3
  <2>5. \E f : Fits(n + 1, f)
    BY <2>4
  <2> HIDE DEF Fits
  <2> QED
    BY <2>5
<1> HIDE DEF N
<1>4. Cardinality(S) \in N
  BY <1>2, <1>3, NatInduct, FS_CardinalityType
<1>5. PICK g : Fits(Cardinality(S), g)
  BY <1>4 DEF N
<1> DEFINE h == [s \in SUBSET S |-> g[s]]
<1>6. ASSUME NEW s \in SUBSET S
      PROVE  h[s] = IF s = {} THEN 0 ELSE F[Pick(s)] + h[s \ {Pick(s)}]
  <2>1. s \in Sub(Cardinality(S))
    BY <1>1
  <2>2. g[s] = IF s = {} THEN 0 ELSE F[Pick(s)] + g[s \ {Pick(s)}]
    BY <1>5, <2>1
  <2> QED
    BY <2>2
<1>7. Adds(F, S, h)
  BY <1>6 DEF Adds
<1> QED
  BY <1>7

\* Its sums are naturals.
LEMMA AddsType ==
    ASSUME NEW S, IsFiniteSet(S), NEW F \in [S -> Nat], NEW g, Adds(F, S, g)
    PROVE  g[{}] = 0 /\ \A s \in SUBSET S : g[s] \in Nat
<1> DEFINE T == {s \in SUBSET S : g[s] \in Nat}
<1>1. \A s \in SUBSET S : g[s] = IF s = {} THEN 0 ELSE F[Pick(s)] + g[s \ {Pick(s)}]
  BY DEF Adds
<1>2. g[{}] = 0
  BY <1>1
<1>3. {} \in T
  BY <1>2
<1>4. ASSUME NEW s \in SUBSET S, s # {}, \A x \in s : s \ {x} \in T PROVE s \in T
  <2>1. Pick(s) \in s
    BY <1>4 DEF Pick
  <2>2. g[s] = F[Pick(s)] + g[s \ {Pick(s)}] /\ g[s \ {Pick(s)}] \in Nat /\ F[Pick(s)] \in Nat
    BY <2>1, <1>4, <1>1
  <2>3. g[s] \in Nat
    BY <2>2
  <2> QED
    BY <2>3
<1> HIDE DEF T
<1>5. SUBSET S \subseteq T
  BY <1>3, <1>4, SubsetsInduct
<1> QED
  BY <1>2, <1>5 DEF T

\* In which order the elements are added does not matter.
Steps(F, S, g) ==
    /\ g[{}] = 0
    /\ \A s \in SUBSET S : g[s] \in Nat
    /\ \A s \in SUBSET S : \A x \in s : F[x] \in Nat /\ g[s] = F[x] + g[s \ {x}]

\* The table of Adds takes the members in the order of Pick; any order gives the same.
LEMMA AddsSteps ==
    ASSUME NEW S, IsFiniteSet(S), NEW F \in [S -> Nat], NEW g, Adds(F, S, g)
    PROVE  Steps(F, S, g)
<1> DEFINE P(s) == \A x \in s : g[s] = F[x] + g[s \ {x}]
           T == {s \in SUBSET S : P(s)}
<1>0. \A s \in SUBSET S : g[s] = IF s = {} THEN 0 ELSE F[Pick(s)] + g[s \ {Pick(s)}]
  BY DEF Adds
<1>1. {} \in T
  OBVIOUS
<1>2. ASSUME NEW s \in SUBSET S, s # {}, \A x \in s : s \ {x} \in T PROVE s \in T
  <2> DEFINE p == Pick(s)
  <2>1. p \in s
    BY <1>2 DEF Pick
  <2>2. g[s] = F[p] + g[s \ {p}]
    BY <1>2, <1>0
  <2> HIDE DEF p
  <2>3. ASSUME NEW x \in s, x # p PROVE g[s] = F[x] + g[s \ {x}]
    <3> DEFINE u == (s \ {p}) \ {x}
    <3>1. (s \ {x}) \ {p} = u
      OBVIOUS
    <3>2. g[s \ {p}] = F[x] + g[u]
      BY <2>1, <2>3, <1>2
    <3>3. g[s \ {x}] = F[p] + g[u]
      BY <2>1, <2>3, <1>2, <3>1
    <3>4. g[u] \in Nat /\ F[x] \in Nat /\ F[p] \in Nat
      BY <2>1, AddsType
    <3> HIDE DEF u
    <3> QED
      BY <2>2, <3>2, <3>3, <3>4
  <2>4. P(s)
    BY <2>2, <2>3
  <2> HIDE DEF P
  <2> QED
    BY <2>4
<1> HIDE DEF T
<1>3. SUBSET S \subseteq T
  BY <1>1, <1>2, SubsetsInduct
<1>4. \A s \in SUBSET S : \A x \in s : F[x] \in Nat /\ g[s] = F[x] + g[s \ {x}]
  BY <1>3 DEF T
<1> QED
  BY <1>4, AddsType DEF Steps

\* Two tables agree where their functions do.
LEMMA AddsAgree ==
    ASSUME NEW S, IsFiniteSet(S), NEW R, S \subseteq R, NEW F, NEW g, Steps(F, S, g),
           NEW G, NEW h, Steps(G, R, h), \A x \in S : F[x] = G[x]
    PROVE  g[S] = h[S]
<1> DEFINE T == {s \in SUBSET S : g[s] = h[s]}
<1>1. {} \in T
  BY DEF Steps
<1>2. ASSUME NEW s \in SUBSET S, s # {}, \A x \in s : s \ {x} \in T PROVE s \in T
  <2>1. PICK x \in s : TRUE
    BY <1>2
  <2>2. g[s] = F[x] + g[s \ {x}]
    BY DEF Steps
  <2>3. h[s] = G[x] + h[s \ {x}]
    BY DEF Steps
  <2>4. g[s \ {x}] = h[s \ {x}] /\ F[x] = G[x]
    BY <1>2
  <2>5. g[s] = h[s]
    BY <2>2, <2>3, <2>4
  <2> QED
    BY <2>5
<1> HIDE DEF T
<1>3. SUBSET S \subseteq T
  BY <1>1, <1>2, SubsetsInduct
<1> QED
  BY <1>3 DEF T

\* What Sum stands for.
LEMMA SumTable ==
    ASSUME NEW S, IsFiniteSet(S), NEW F \in [S -> Nat]
    PROVE  \E g : Adds(F, S, g) /\ Steps(F, S, g) /\ Sum(F, S) = g[S]
<1>1. Adds(F, S, CHOOSE g : Adds(F, S, g))
  BY AddsExists
<1> QED
  BY <1>1, AddsSteps DEF Sum

\* Any table has the sum as its last entry, and one has.
LEMMA SumIs ==
    ASSUME NEW S, IsFiniteSet(S), NEW F \in [S -> Nat]
    PROVE  (\E g : Adds(F, S, g)) /\ (\A g : Adds(F, S, g) => g[S] = Sum(F, S))
<1>1. PICK h : Adds(F, S, h) /\ Steps(F, S, h) /\ Sum(F, S) = h[S]
  BY SumTable
<1>2. ASSUME NEW g, Adds(F, S, g) PROVE g[S] = Sum(F, S)
  <2>1. Steps(F, S, g)
    BY <1>2, AddsSteps
  <2> QED
    BY <1>1, <2>1, AddsAgree
<1> QED
  BY <1>1, <1>2

\* Nothing to add.
LEMMA SumEmpty == \A F : Sum(F, {}) = 0
<1> SUFFICES ASSUME NEW F PROVE Sum(F, {}) = 0
  OBVIOUS
<1>1. \A g : Adds(F, {}, g) => g[{}] = 0
  BY DEF Adds
<1>2. Adds(F, {}, [s \in {{}} |-> 0])
  BY DEF Adds
<1> QED
  BY <1>1, <1>2 DEF Sum

\* A sum is a natural, and any of its terms can be taken out of it.
LEMMA SumSplit ==
    ASSUME NEW S, IsFiniteSet(S), NEW F \in [S -> Nat]
    PROVE  /\ Sum(F, S) \in Nat
           /\ \A x \in S : Sum(F, S) = F[x] + Sum([y \in S \ {x} |-> F[y]], S \ {x})
<1>1. PICK g : Steps(F, S, g) /\ Sum(F, S) = g[S]
  BY SumTable
<1>2. Sum(F, S) \in Nat
  BY <1>1 DEF Steps
<1>3. ASSUME NEW x \in S PROVE Sum(F, S) = F[x] + Sum([y \in S \ {x} |-> F[y]], S \ {x})
  <2> DEFINE R == S \ {x}
             G == [y \in R |-> F[y]]
  <2>1. IsFiniteSet(R) /\ R \subseteq R /\ G \in [R -> Nat] /\ R \subseteq S /\ \A y \in R : G[y] = F[y]
    BY FS_Subset
  <2>2. g[S] = F[x] + g[R]
    BY <1>1 DEF Steps
  <2> HIDE DEF G, R
  <2>3. PICK h : Steps(G, R, h) /\ Sum(G, R) = h[R]
    BY <2>1, SumTable
  <2>4. h[R] = g[R]
    <3>1. Steps(F, R, g)
      BY <1>1, <2>1 DEF Steps
    <3> QED
      BY <2>1, <2>3, <3>1, AddsAgree
  <2>5. Sum(F, S) = F[x] + Sum(G, R)
    BY <1>1, <2>2, <2>3, <2>4
  <2> QED
    BY <2>5 DEF G, R
<1> QED
  BY <1>2, <1>3

\* A term more.
Grows(G, F, S, x) ==
    /\ IsFiniteSet(S) /\ x \notin S /\ F \in [S \cup {x} -> Nat] /\ G \in [S -> Nat]
    /\ \A y \in S : F[y] = G[y]
LEMMA SumGrow ==
    ASSUME NEW S, NEW x, NEW F, NEW G, Grows(G, F, S, x)
    PROVE  Sum(F, S \cup {x}) = F[x] + Sum(G, S)
<1> USE DEF Grows
<1>1. IsFiniteSet(S \cup {x})
  BY FS_AddElement
<1>2. (S \cup {x}) \ {x} = S
  OBVIOUS
<1>3. [y \in S |-> F[y]] = G
  OBVIOUS
<1> QED
  BY <1>1, <1>2, <1>3, SumSplit

-----------------------------------------------------------------------------
(* The invariant *)

\* Batches sent to the channel and taken from it: both in the order of the file.
Sent == IF reader = "send" THEN Len(cut) - 1 ELSE Len(cut)
Taken == Sent - Len(jobs)
Busy(w) == worker[w] \in {"post", "reply", "mark"}
Pod(b) == TargetOf(b, 0)

\* What TypeOK says of types, and what it leaves open.
Shapes ==
    /\ file \in Files /\ late \in BOOLEAN /\ eof \in BOOLEAN /\ stoppedEarly \in BOOLEAN
    /\ reader \in {"cut", "send", "closed"}
    /\ cut \in Seq(Nat \X Nat) /\ jobs \in Seq(Nat)
    /\ worker \in [Workers -> {"recv", "post", "reply", "mark", "exited"}]
    /\ batch \in [Workers -> Nat] /\ mark \in [Workers -> BOOLEAN]
    /\ attempt \in [Workers -> 0..MaxAttempts] /\ broken \in [Workers -> 0..MaxAttempts]
    /\ copies \in [Indices -> Nat]
    /\ outcome \in [Indices -> {"none", "accepted", "rejected", "failed"}]
    /\ samplesRead \in Nat /\ samplesAccepted \in Nat /\ samplesRejected \in Nat
    /\ samplesFailed \in Nat
    /\ main \in {"run", "exit0", "exit1", "fatal"}

\* Batches follow one another in the file and have lines, and the channel its capacity.
CutInv ==
    /\ Position \in Nat /\ Position <= Len(file) /\ Len(cut) <= Position
    /\ \A i \in 1..Len(cut) : 1 <= cut[i][1] /\ cut[i][1] <= cut[i][2] /\ cut[i][2] <= Len(file)
    /\ \A i \in 2..Len(cut) : cut[i][1] = cut[i-1][2] + 1
    /\ eof => Position = Len(file)
    /\ reader = "send" => Len(cut) > 0
    /\ Len(jobs) <= JobsCap

\* A batch is in one place: still to be sent, in the channel, with one worker, or done.
PlaceInv ==
    /\ Taken >= 0
    /\ \A i \in 1..Len(jobs) : jobs[i] = Taken + i - 1
    /\ \A w \in Workers : Busy(w) => batch[w] < Taken /\ outcome[batch[w]] = "none"
    /\ \A v, w \in Workers : Busy(v) /\ Busy(w) /\ batch[v] = batch[w] => v = w
    /\ \A b \in Indices : outcome[b] # "none" => b < Taken
    /\ \A b \in Indices :
          b < Taken => outcome[b] # "none" \/ \E w \in Workers : Busy(w) /\ batch[w] = b

\* A pod stores a block when it first sees its bytes, a batch has one pod, and what is
\* accepted was stored.
EdgeInv ==
    /\ \A r \in network : r.id \in Nat /\ r.id < Len(cut) /\ r.target = Pod(r.id)
    /\ \A b \in Indices : copies[b] = IF <<Pod(b), b>> \in seen THEN 1 ELSE 0
    /\ \A b \in Indices : copies[b] > 0 => b < Len(cut)
    /\ \A b \in Indices : outcome[b] = "accepted" => <<Pod(b), b>> \in seen

\* Workers exit when the channel is closed and empty, main ends when they all have.
EndInv ==
    /\ \A w \in Workers : worker[w] = "exited" => reader = "closed" /\ jobs = <<>>
    /\ Reported => Finished
    /\ main = "exit0" => ~Lossy

\* The batches that are done, and the samples they encode to.
Done == {b \in CutIndices : outcome[b] # "none"}
EncodedOf == [b \in Done |-> Encoded(b)]

\* The counters add up the batches that are done, all of which could be encoded.
SumInv ==
    /\ \A b \in CutIndices : b < Taken => Encodable(b)
    /\ samplesAccepted + samplesRejected + samplesFailed = Sum(EncodedOf, Done)

\* A sample that was refused or lost shows in the counters, and so does a load cut short
\* whose stopped_early was overwritten: the worker that did had a batch to give up.
LossInv ==
    /\ \A b \in CutIndices : outcome[b] \in {"rejected", "failed"} /\ HasSamples(b) => Lossy
    /\ reader = "closed" /\ ~stoppedEarly /\ (\A b \in CutIndices : HasSamples(b)) =>
          AtLimit \/ Position = Len(file) \/ Lossy

IInv == Shapes /\ CutInv /\ PlaceInv /\ EdgeInv /\ EndInv /\ SumInv /\ LossInv

-----------------------------------------------------------------------------
\* The constants are positive numbers, and lines have numbers of fields and samples.
LEMMA Constants ==
    /\ Targets \in Nat /\ Targets > 0 /\ MaxAttempts \in Nat /\ MaxAttempts > 0
    /\ MaxSamples \in Nat /\ IsFiniteSet(Workers)
    /\ \A f \in Files :
          /\ Len(f) \in Nat
          /\ \A i \in 1..Len(f) : f[i].fields \in Nat /\ f[i].samples \in Nat \cup {-1}
<1>1. ASSUME NEW f \in Files PROVE f \in Seq([fields : Nat, samples : Nat \cup {-1}])
  BY TsbsRwAssumption
<1>2. ASSUME NEW f \in Files, NEW i \in 1..Len(f)
      PROVE  f[i].fields \in Nat /\ f[i].samples \in Nat \cup {-1}
  <2>1. f[i] \in [fields : Nat, samples : Nat \cup {-1}]
    BY <1>1, ElementOfSeq
  <2> QED
    BY <2>1
<1>3. \A f \in Files : Len(f) \in Nat
  BY <1>1, LenProperties
<1> QED
  BY <1>2, <1>3, TsbsRwAssumption

\* Indices has an index for every line of the longest file.
LEMMA LongestFile ==
    /\ Indices \subseteq Nat
    /\ \A f \in Files : \A n \in Nat : n < Len(f) => n \in Indices
<1> DEFINE S == {Len(f) : f \in Files}
<1>1. Files = {} \/ \E m \in S : \A n \in S : m >= n
  BY TsbsRwAssumption, Constants
<1>2. Files # {}
  BY TsbsRwAssumption
<1>3. Max(S) \in S /\ \A n \in S : Max(S) >= n
  BY <1>1, <1>2 DEF Max
<1>4. Max(S) \in Nat
  BY <1>3, Constants
<1>5. Indices = 0..Max(S) - 1
  BY DEF Indices
<1> HIDE DEF S
<1>6. Indices \subseteq Nat
  BY <1>4, <1>5
<1>7. ASSUME NEW f \in Files, NEW n \in Nat, n < Len(f) PROVE n \in Indices
  <2>1. Len(f) <= Max(S) /\ Len(f) \in Nat
    BY <1>3, Constants DEF S
  <2> QED
    BY <1>4, <1>5, <1>7, <2>1
<1> QED
  BY <1>6, <1>7

\* How many batches were sent and taken, in any state.
LEMMA Counts ==
    ASSUME Shapes, CutInv
    PROVE  /\ Len(cut) \in Nat /\ Len(jobs) \in Nat /\ Sent \in Nat /\ Sent <= Len(cut)
           /\ Taken \in Int /\ Taken = Sent - Len(jobs) /\ Taken <= Len(cut)
           /\ Len(file) \in Nat
<1>1. Len(cut) \in Nat /\ Len(jobs) \in Nat /\ Len(file) \in Nat
  BY LenProperties, Constants DEF Shapes
<1>2. Sent \in Nat /\ Sent <= Len(cut)
  BY <1>1 DEF Sent, CutInv
<1> QED
  BY <1>1, <1>2 DEF Taken

\* A batch that was cut has an index.
LEMMA CutInIndices ==
    ASSUME Shapes, CutInv, NEW n \in Nat, n < Len(cut)
    PROVE  n \in Indices
<1>1. n < Len(file)
  BY Counts DEF CutInv
<1> QED
  BY <1>1, LongestFile DEF Shapes

\* A batch that was taken has an index.
LEMMA TakenInIndices ==
    ASSUME Shapes, CutInv, NEW n \in Nat, n < Taken
    PROVE  n \in Indices
BY Counts, CutInIndices

\* The channel's capacity is a number.
LEMMA CapType == JobsCap \in Nat
<1>1. Cardinality(Workers) \in Nat
  BY Constants, FS_CardinalityType
<1> QED
  BY <1>1 DEF JobsCap

\* A table of numbers over a range of lines has a sum.
LEMMA FieldsType ==
    ASSUME Shapes, NEW a \in Nat, a > 0, NEW c \in Nat, c <= Len(file)
    PROVE  Fields(a, c) \in Nat
<1> DEFINE S == a..c
           Term(i) == file[i].fields
           F == [i \in S |-> Term(i)]
           Table(g) ==
              [s \in SUBSET S |-> IF s = {} THEN 0 ELSE Term(Pick(s)) + g[s \ {Pick(s)}]]
           t == CHOOSE g : g = Table(g)
<1>0. Len(file) \in Nat /\ \A i \in 1..Len(file) : file[i].fields \in Nat
  BY Constants DEF Shapes
<1>1. IsFiniteSet(S) /\ F \in [S -> Nat] /\ \A i \in S : F[i] = Term(i)
  <2>1. IsFiniteSet(S)
    BY FS_Interval
  <2>2. \A i \in S : i \in 1..Len(file)
    BY <1>0
  <2>3. \A i \in S : Term(i) \in Nat
    BY <1>0, <2>2
  <2> QED
    BY <2>1, <2>3
<1>2. Fields(a, c) = t[S]
  BY DEF Fields, MapThenSumSet, MapThenFoldSet, Pick
<1> HIDE DEF Term, S, F
<1>3. \A g : Table(g) = [s \in SUBSET S |->
                            IF s = {} THEN 0 ELSE F[Pick(s)] + g[s \ {Pick(s)}]]
  <2>1. \A s \in SUBSET S : s # {} => F[Pick(s)] = Term(Pick(s))
    BY <1>1 DEF Pick
  <2> QED
    BY <2>1
<1>4. \A g : g = Table(g) <=> Adds(F, S, g)
  BY <1>3 DEF Adds
<1>5. Adds(F, S, t)
  BY <1>1, <1>4, SumIs
<1>6. t[S] = Sum(F, S)
  BY <1>1, <1>5, SumIs
<1> HIDE DEF t
<1>7. Sum(F, S) \in Nat
  BY <1>1, SumSplit
<1> QED
  BY <1>2, <1>6, <1>7

\* The lines of a batch are lines of the file.
LEMMA BatchLines ==
    ASSUME Shapes, CutInv, NEW b \in CutIndices
    PROVE  LinesOf(b) \subseteq 1..Len(file) /\ IsFiniteSet(LinesOf(b))
<1>1. b + 1 \in 1..Len(cut) /\ cut[b + 1] \in Nat \X Nat
  BY Counts, ElementOfSeq DEF CutIndices, Shapes
<1>2. cut[b + 1][1] \in Nat /\ cut[b + 1][2] \in Nat /\ 1 <= cut[b + 1][1] /\ cut[b + 1][2] <= Len(file)
  BY <1>1 DEF CutInv
<1>3. PICK lo \in Nat, hi \in Nat : LinesOf(b) = lo..hi /\ 1 <= lo /\ hi <= Len(file)
  BY <1>2 DEF LinesOf
<1>4. lo..hi \subseteq 1..Len(file)
  BY <1>3, Counts
<1> QED
  BY <1>3, <1>4, FS_Interval

\* A batch that can be encoded yields a number of samples.
LEMMA EncodedType ==
    ASSUME Shapes, CutInv, NEW b \in CutIndices, Encodable(b)
    PROVE  Encoded(b) \in Nat
<1> DEFINE S == LinesOf(b)
           Term(i) == file[i].samples
           F == [i \in S |-> Term(i)]
           Table(g) ==
              [s \in SUBSET S |-> IF s = {} THEN 0 ELSE Term(Pick(s)) + g[s \ {Pick(s)}]]
           t == CHOOSE g : g = Table(g)
<1>0. Len(file) \in Nat /\ \A i \in 1..Len(file) : file[i].samples \in Nat \cup {-1}
  BY Constants DEF Shapes
<1>1. IsFiniteSet(S) /\ F \in [S -> Nat] /\ \A i \in S : F[i] = Term(i)
  <2>1. IsFiniteSet(S) /\ \A i \in S : i \in 1..Len(file)
    BY BatchLines
  <2>2. \A i \in S : Term(i) \in Nat
    BY <1>0, <2>1 DEF Encodable
  <2> QED
    BY <2>1, <2>2
<1>2. Encoded(b) = t[S]
  BY DEF Encoded, MapThenSumSet, MapThenFoldSet, Pick
<1> HIDE DEF Term, S, F
<1>3. \A g : Table(g) = [s \in SUBSET S |->
                            IF s = {} THEN 0 ELSE F[Pick(s)] + g[s \ {Pick(s)}]]
  <2>1. \A s \in SUBSET S : s # {} => F[Pick(s)] = Term(Pick(s))
    BY <1>1 DEF Pick
  <2> QED
    BY <2>1
<1>4. \A g : g = Table(g) <=> Adds(F, S, g)
  BY <1>3 DEF Adds
<1>5. Adds(F, S, t)
  BY <1>1, <1>4, SumIs
<1>6. t[S] = Sum(F, S)
  BY <1>1, <1>5, SumIs
<1> HIDE DEF t
<1>7. Sum(F, S) \in Nat
  BY <1>1, SumSplit
<1> QED
  BY <1>2, <1>6, <1>7

\* The batch that is cut ends in the file, behind the lines cut before.
LEMMA EndOfCut ==
    ASSUME Shapes, CutInv, Position < Len(file)
    PROVE  /\ CutEnd \in Nat /\ Position < CutEnd /\ CutEnd <= Len(file)
           /\ LastLines = {} => CutEnd = Len(file)
<1>1. Position \in Nat /\ Len(file) \in Nat
  BY Counts DEF CutInv
<1>2. CASE LastLines = {}
  BY <1>1, <1>2 DEF CutEnd
<1>3. CASE LastLines # {}
  <2>1. LastLines \subseteq Position + 1 .. Len(file)
    BY DEF LastLines
  <2>2. LastLines \in SUBSET Nat
    BY <1>1, <2>1
  <2>3. PICK n \in LastLines : \A m \in LastLines : n <= m
    BY <1>3, <2>2, Least
  <2>4. Min(LastLines) \in LastLines
    BY <2>3 DEF Min
  <2>5. CutEnd = Min(LastLines)
    BY <1>3 DEF CutEnd
  <2>6. CutEnd \in Position + 1 .. Len(file)
    BY <2>1, <2>4, <2>5
  <2> QED
    BY <1>1, <1>3, <2>6
<1> QED
  BY <1>2, <1>3

\* An attempt more, and no further than maxAttempts.
Raised(f, g, w) == g \in {f, [f EXCEPT ![w] = IF @ < MaxAttempts THEN @ + 1 ELSE @]}
LEMMA OneMore ==
    ASSUME NEW f \in [Workers -> 0..MaxAttempts], NEW w \in Workers, NEW g, Raised(f, g, w)
    PROVE  g \in [Workers -> 0..MaxAttempts]
<1>1. f[w] \in 0..MaxAttempts /\ MaxAttempts \in Nat
  BY Constants
<1>2. (IF f[w] < MaxAttempts THEN f[w] + 1 ELSE f[w]) \in 0..MaxAttempts
  BY <1>1
<1> QED
  BY <1>2 DEF Raised

-----------------------------------------------------------------------------
(* The steps *)

\* The process ends without a report.
Dies ==
    /\ Up /\ main' = "fatal"
    /\ UNCHANGED <<file, late, readerVars, jobs, workerVars, edgeVars, countVars>>

\* What a worker does with an answer that is not one of the edge's 2xx or 4xx.
Breaks(w) == Raised(broken, broken', w)
TriesAgain(w) == Replying(w) /\ network' \subseteq network /\ Breaks(w) /\ Again(w)
GivesUp(w) ==
    /\ Replying(w) /\ network' \subseteq network /\ Breaks(w)
    /\ worker' = [worker EXCEPT ![w] = "mark"]
    /\ mark' = [mark EXCEPT ![w] = late]
    /\ UNCHANGED <<attempt, countVars>>

\* A worker is done with a batch, which one counter gets.
Adds1(n, o, p, w) == IF o = p THEN n + Encoded(batch[w]) ELSE n
Resolves(w, o) ==
    /\ Up /\ worker[w] \in {"reply", "mark"}
    /\ o = "accepted" => <<Pod(batch[w]), batch[w]>> \in seen
    /\ network' \subseteq network /\ stoppedEarly' \in BOOLEAN
    /\ o = "accepted" => stoppedEarly' = stoppedEarly
    /\ samplesAccepted' = Adds1(samplesAccepted, o, "accepted", w)
    /\ samplesRejected' = Adds1(samplesRejected, o, "rejected", w)
    /\ samplesFailed' = Adds1(samplesFailed, o, "failed", w)
    /\ Counted(w, o)
    /\ UNCHANGED <<file, late, readerVars, jobs, batch, seen, copies, main>>
Outcomes == {"accepted", "rejected", "failed"}

\* A batch's pod is the same for every attempt.
LEMMA OnePod == \A b, a : TargetOf(b, a) = Pod(b)
BY DEF TargetOf, Pod

\* A worker that has its answer resolves its batch, or goes on with it.
LEMMA AnswerCases ==
    ASSUME Shapes, NEW w \in Workers,
           ReplyOk(w) \/ ReplyPermanent(w) \/ ReplyBusy(w) \/ ReplyBroken(w) \/ StoreMark(w)
    PROVE  TriesAgain(w) \/ GivesUp(w) \/ \E o \in Outcomes : Resolves(w, o)
<1>1. CASE ReplyOk(w)
  <2>1. <<Pod(batch[w]), batch[w]>> \in seen
    BY <1>1, OnePod DEF ReplyOk
  <2>2. Resolves(w, "accepted")
    BY <1>1, <2>1 DEF ReplyOk, Replying, Resolves, Adds1, Shapes
  <2> QED
    BY <2>2 DEF Outcomes
<1>2. CASE ReplyPermanent(w)
  <2>1. Resolves(w, "rejected")
    BY <1>2 DEF ReplyPermanent, Replying, Resolves, Adds1, SamplesRefused, Shapes
  <2> QED
    BY <2>1 DEF Outcomes
<1>3. CASE ReplyBusy(w)
  <2>1. network' \subseteq network /\ Replying(w)
    BY <1>3 DEF ReplyBusy
  <2>2. CASE Again(w) /\ UNCHANGED broken
    BY <2>1, <2>2 DEF TriesAgain, Breaks, Raised
  <2>3. CASE Counted(w, "failed") /\ stoppedEarly' = TRUE
             /\ samplesFailed' = samplesFailed + Encoded(batch[w])
             /\ UNCHANGED <<samplesAccepted, samplesRejected>>
    <3>1. Resolves(w, "failed")
      BY <2>1, <2>3 DEF Replying, Resolves, Adds1
    <3> QED
      BY <3>1 DEF Outcomes
  <2> QED
    BY <1>3, <2>2, <2>3 DEF ReplyBusy
<1>4. CASE ReplyBroken(w)
  <2>1. network' \subseteq network /\ Replying(w) /\ Breaks(w)
    BY <1>4 DEF ReplyBroken, Breaks, Raised
  <2>2. CASE Again(w)
    BY <2>1, <2>2 DEF TriesAgain
  <2>3. CASE worker' = [worker EXCEPT ![w] = "mark"] /\ mark' = [mark EXCEPT ![w] = late]
             /\ UNCHANGED <<attempt, countVars>>
    BY <2>1, <2>3 DEF GivesUp
  <2> QED
    BY <1>4, <2>2, <2>3 DEF ReplyBroken
<1>5. CASE StoreMark(w)
  <2>1. mark[w] \in BOOLEAN
    BY DEF Shapes
  <2>2. Resolves(w, "failed")
    BY <1>5, <2>1 DEF StoreMark, Resolves, Adds1, SamplesLost, edgeVars
  <2> QED
    BY <2>2 DEF Outcomes
<1> QED
  BY <1>1, <1>2, <1>3, <1>4, <1>5

\* The steps of Next, one by one.
LEMMA NextCases ==
    ASSUME Shapes, [Next]_vars
    PROVE  \/ DeadlinePasses \/ CutBatch \/ ReaderReturns \/ SendBatch \/ Report \/ Dies
           \/ UNCHANGED vars
           \/ \E w \in Workers : \/ TakeBatch(w) \/ ExitWorker(w) \/ Post(w)
                                 \/ GivesUp(w) \/ TriesAgain(w)
           \/ \E w \in Workers, o \in Outcomes : Resolves(w, o)
           \/ \E r \in network : Process(r)
<1>1. ASSUME NEW w \in Workers, EncodeFails(w) PROVE Dies
  BY <1>1 DEF EncodeFails, Dies
<1>2. DiskFails => Dies
  BY DEF DiskFails, Dies
<1>3. ASSUME NEW w \in Workers, WorkerStep(w)
      PROVE  \/ TakeBatch(w) \/ ExitWorker(w) \/ Post(w) \/ GivesUp(w) \/ TriesAgain(w) \/ Dies
             \/ \E o \in Outcomes : Resolves(w, o)
  BY <1>1, <1>3, AnswerCases DEF WorkerStep
<1> QED
  BY <1>2, <1>3 DEF Next, ReaderStep, Ended

\* The initial state satisfies the invariant.
LEMMA InitIInv == Init => IInv
<1> SUFFICES ASSUME Init PROVE IInv
  OBVIOUS
<1> USE DEF Init
<1>1. Len(cut) = 0 /\ Len(jobs) = 0 /\ cut = <<>> /\ jobs = <<>> /\ file \in Files
  OBVIOUS
<1>2. Shapes
  <2>1. batch \in [Workers -> Nat] /\ attempt \in [Workers -> 0..MaxAttempts]
        /\ broken \in [Workers -> 0..MaxAttempts] /\ mark \in [Workers -> BOOLEAN]
    BY Constants
  <2>2. cut \in Seq(Nat \X Nat) /\ jobs \in Seq(Nat)
    BY <1>1, EmptySeq
  <2>3. copies \in [Indices -> Nat] /\ outcome \in [Indices -> {"none", "accepted", "rejected", "failed"}]
    OBVIOUS
  <2> QED
    BY <1>1, <2>1, <2>2, <2>3 DEF Shapes
<1>3. CutInv
  <2>1. JobsCap \in Nat /\ Len(file) \in Nat
    BY <1>1, CapType, Constants
  <2>2. Position = 0
    BY <1>1 DEF Position
  <2> QED
    BY <1>1, <2>1, <2>2 DEF CutInv
<1>4. PlaceInv
  BY <1>1, LongestFile DEF PlaceInv, Taken, Sent, Busy
<1>5. EdgeInv
  BY DEF EdgeInv
<1>6. EndInv
  BY DEF EndInv, Reported
<1>7. CutIndices = {}
  BY <1>1 DEF CutIndices
<1>8. SumInv
  <2>1. Done = {}
    BY <1>7 DEF Done
  <2> QED
    BY <1>7, <2>1, SumEmpty DEF SumInv
<1>9. LossInv
  BY <1>7 DEF LossInv
<1> QED
  BY <1>2, <1>3, <1>4, <1>5, <1>6, <1>8, <1>9 DEF IInv

\* A batch that a worker holds was cut and can be encoded.
LEMMA HeldBatch ==
    ASSUME Shapes, CutInv, PlaceInv, NEW w \in Workers, Busy(w)
    PROVE  /\ batch[w] \in Nat /\ batch[w] < Len(cut) /\ batch[w] < Taken
           /\ batch[w] \in Indices /\ batch[w] \in CutIndices /\ outcome[batch[w]] = "none"
<1>1. batch[w] \in Nat /\ batch[w] < Taken
  BY DEF Shapes, PlaceInv
<1> QED
  BY <1>1, Counts, TakenInIndices DEF PlaceInv, CutIndices

\* Its samples are a number.
LEMMA HeldSamples ==
    ASSUME Shapes, CutInv, PlaceInv, SumInv, NEW w \in Workers, Busy(w)
    PROVE  Encoded(batch[w]) \in Nat
BY HeldBatch, EncodedType DEF SumInv

\* Every step preserves the types.
LEMMA ShapeStep == IInv /\ [Next]_vars => Shapes'
<1> SUFFICES ASSUME IInv, [Next]_vars PROVE Shapes'
  OBVIOUS
<1> USE DEF IInv, Shapes, readerVars, workerVars, edgeVars, countVars
<1>1. CASE DeadlinePasses
  BY <1>1 DEF DeadlinePasses
<1>2. CASE CutBatch
  <2>1. CutEnd \in Nat /\ CutEnd <= Len(file) /\ Position + 1 \in Nat /\ Position + 1 > 0
        /\ Position \in Nat
    BY <1>2, EndOfCut DEF CutBatch, CutInv
  <2>2. Fields(Position + 1, CutEnd) \in Nat
    BY <2>1, FieldsType
  <2>3. cut' \in Seq(Nat \X Nat)
    BY <1>2, <2>1, AppendProperties DEF CutBatch
  <2>4. samplesRead' \in Nat /\ eof' \in BOOLEAN
    BY <1>2, <2>2 DEF CutBatch
  <2> QED
    BY <1>2, <2>3, <2>4 DEF CutBatch
<1>3. CASE ReaderReturns
  <2>1. StoppedAtTop \in BOOLEAN
    BY DEF StoppedAtTop
  <2> QED
    BY <1>3, <2>1 DEF ReaderReturns
<1>4. CASE SendBatch
  <2>1. Len(cut) - 1 \in Nat
    BY <1>4, Counts DEF SendBatch, CutInv
  <2>2. jobs' \in Seq(Nat)
    BY <1>4, <2>1, AppendProperties DEF SendBatch
  <2> QED
    BY <1>4, <2>2 DEF SendBatch
<1>5. CASE Report
  BY <1>5 DEF Report
<1>6. CASE Dies
  BY <1>6 DEF Dies
<1>7. CASE UNCHANGED vars
  BY <1>7 DEF vars
<1>8. ASSUME NEW w \in Workers,
             \/ TakeBatch(w) \/ ExitWorker(w) \/ Post(w) \/ GivesUp(w) \/ TriesAgain(w)
      PROVE  Shapes'
  <2>1. CASE TakeBatch(w)
    <3>1. Head(jobs) \in Nat /\ Tail(jobs) \in Seq(Nat)
      BY <2>1, HeadTailProperties DEF TakeBatch
    <3>2. 1 \in 0..MaxAttempts /\ 0 \in 0..MaxAttempts
      BY Constants
    <3>3. attempt' \in [Workers -> 0..MaxAttempts] /\ broken' \in [Workers -> 0..MaxAttempts]
          /\ batch' \in [Workers -> Nat]
      BY <2>1, <3>1, <3>2 DEF TakeBatch
    <3> QED
      BY <2>1, <3>1, <3>3 DEF TakeBatch
  <2>2. CASE ExitWorker(w)
    BY <2>2 DEF ExitWorker
  <2>3. CASE Post(w)
    BY <2>3 DEF Post
  <2>4. CASE GivesUp(w)
    <3>1. Raised(broken, broken', w)
      BY <2>4 DEF GivesUp, Breaks
    <3>2. broken' \in [Workers -> 0..MaxAttempts]
      BY <3>1, OneMore
    <3> QED
      BY <2>4, <3>2 DEF GivesUp, Replying
  <2>5. CASE TriesAgain(w)
    <3>1. Raised(broken, broken', w) /\ Raised(attempt, attempt', w)
      BY <2>5 DEF TriesAgain, Breaks, Again, Raised
    <3>2. broken' \in [Workers -> 0..MaxAttempts]
      BY <3>1, OneMore
    <3>3. attempt' \in [Workers -> 0..MaxAttempts]
      BY <3>1, OneMore
    <3> QED
      BY <2>5, <3>2, <3>3 DEF TriesAgain, Replying, Again
  <2> QED
    BY <1>8, <2>1, <2>2, <2>3, <2>4, <2>5
<1>9. ASSUME NEW w \in Workers, NEW o \in Outcomes,
             Resolves(w, o)
      PROVE  Shapes'
  <2>1. CASE Resolves(w, o)
    <3>1. Encoded(batch[w]) \in Nat
      BY <2>1, HeldSamples DEF Resolves, Busy
    <3>2. samplesAccepted' \in Nat /\ samplesRejected' \in Nat /\ samplesFailed' \in Nat
      BY <2>1, <3>1 DEF Resolves, Adds1
    <3>3. worker' \in [Workers -> {"recv", "post", "reply", "mark", "exited"}]
          /\ outcome' \in [Indices -> {"none", "accepted", "rejected", "failed"}]
      BY <2>1 DEF Resolves, Counted, Outcomes
    <3> QED
      BY <2>1, <3>2, <3>3 DEF Resolves, Counted
  <2> QED
    BY <1>9, <2>1
<1>10. ASSUME NEW r \in network,
             Process(r)
      PROVE  Shapes'
  <2>1. CASE Process(r)
    <3>1. r.id \in Indices
      BY CutInIndices DEF EdgeInv
    <3>2. copies' \in [Indices -> Nat]
      BY <2>1, <3>1 DEF Process
    <3> QED
      BY <2>1, <3>2 DEF Process
  <2> QED
    BY <1>10, <2>1
<1> QED
  BY <1>1, <1>2, <1>3, <1>4, <1>5, <1>6, <1>7, <1>8, <1>9, <1>10, NextCases

\* Every batch has lines of its own, which follow those of the one before.
LEMMA CutStep == IInv /\ [Next]_vars => CutInv'
<1> SUFFICES ASSUME IInv, [Next]_vars PROVE CutInv'
  OBVIOUS
<1> USE DEF IInv, CutInv, readerVars, workerVars, edgeVars, countVars
<1>1. CASE DeadlinePasses
  BY <1>1 DEF DeadlinePasses, JobsCap, Position
<1>2. CASE CutBatch
  <2>1. Len(cut') = Len(cut) + 1 /\ Len(cut) \in Nat
        /\ cut'[Len(cut) + 1] = <<Position + 1, CutEnd>>
        /\ \A i \in 1..Len(cut) : cut'[i] = cut[i]
    <3>1. Len(cut) \in Nat /\ cut \in Seq(Nat \X Nat)
      BY Counts DEF Shapes
    <3>2. PICK e : e = <<Position + 1, CutEnd>>
      OBVIOUS
    <3>3. cut' = Append(cut, e)
      BY <1>2, <3>2 DEF CutBatch
    <3>4. Len(Append(cut, e)) = Len(cut) + 1 /\ Append(cut, e)[Len(cut) + 1] = e
          /\ \A i \in 1..Len(cut) : Append(cut, e)[i] = cut[i]
      BY ONLY <3>1, AppendProperties
    <3> QED
      BY <3>1, <3>2, <3>3, <3>4
  <2>2. /\ Position \in Nat /\ CutEnd \in Nat /\ Position < CutEnd /\ CutEnd <= Len(file)
        /\ LastLines = {} => CutEnd = Len(file)
    BY <1>2, EndOfCut DEF CutBatch
  <2>3. cut' # <<>>
    BY <2>1, EmptySeq
  <2>4. Position' = CutEnd
    BY <2>1, <2>3 DEF Position
  <2>5. file' = file /\ reader' = "send" /\ jobs' = jobs /\ JobsCap' = JobsCap
        /\ eof' = (LastLines = {})
    BY <1>2 DEF CutBatch, JobsCap
  <2>6. ASSUME NEW i \in 1..Len(cut')
        PROVE  1 <= cut'[i][1] /\ cut'[i][1] <= cut'[i][2] /\ cut'[i][2] <= Len(file')
    <3>1. CASE i = Len(cut) + 1
      BY <3>1, <2>1, <2>2, <2>5, Counts
    <3>2. CASE i \in 1..Len(cut)
      <4>1. cut'[i] = cut[i]
        BY <3>2, <2>1
      <4> QED
        BY <3>2, <4>1, <2>5
    <3> QED
      BY <3>1, <3>2, <2>1
  <2>7. ASSUME NEW i \in 2..Len(cut') PROVE cut'[i][1] = cut'[i-1][2] + 1
    <3>1. CASE i = Len(cut) + 1
      <4>1. Len(cut) >= 1 /\ i - 1 = Len(cut) /\ cut'[i - 1] = cut[Len(cut)]
        BY <3>1, <2>1
      <4>2. cut # <<>>
        BY <4>1, EmptySeq
      <4>3. Position = cut[Len(cut)][2]
        BY <4>2 DEF Position
      <4> QED
        BY <3>1, <4>1, <4>3, <2>1
    <3>2. CASE i \in 2..Len(cut)
      <4>1. i \in 1..Len(cut) /\ i - 1 \in 1..Len(cut)
        BY <3>2, <2>1
      <4>2. cut'[i] = cut[i] /\ cut'[i - 1] = cut[i - 1]
        BY <4>1, <2>1
      <4> QED
        BY <3>2, <4>2
    <3> QED
      BY <3>1, <3>2, <2>1
  <2>8. Len(cut) <= Position
    OBVIOUS
  <2>9. Position' \in Nat /\ Position' <= Len(file') /\ Len(cut') <= Position' /\ Len(cut') > 0
    BY <2>1, <2>2, <2>4, <2>5, <2>8
  <2>10. eof' => Position' = Len(file')
    BY <2>2, <2>4, <2>5
  <2>11. Len(jobs') <= JobsCap'
    BY <2>5
  <2> QED
    BY <2>6, <2>7, <2>9, <2>10, <2>11
<1>3. CASE ReaderReturns
  BY <1>3 DEF ReaderReturns, JobsCap, Position
<1>4. CASE SendBatch
  <2>1. Len(jobs') = Len(jobs) + 1 /\ Len(jobs) \in Nat /\ Len(jobs) < JobsCap
    BY <1>4, AppendProperties, Counts DEF SendBatch, Shapes
  <2>2. JobsCap \in Nat /\ JobsCap' = JobsCap
    BY CapType DEF JobsCap
  <2>3. Len(jobs') <= JobsCap'
    BY <2>1, <2>2
  <2> QED
    BY <1>4, <2>3 DEF SendBatch, Position
<1>5. CASE Report
  BY <1>5 DEF Report, JobsCap, Position
<1>6. CASE Dies
  BY <1>6 DEF Dies, JobsCap, Position
<1>7. CASE UNCHANGED vars
  BY <1>7 DEF vars, JobsCap, Position
<1>8. ASSUME NEW w \in Workers,
             \/ TakeBatch(w) \/ ExitWorker(w) \/ Post(w) \/ GivesUp(w) \/ TriesAgain(w)
      PROVE  CutInv'
  <2>1. CASE TakeBatch(w)
    <3>1. Len(jobs') = Len(jobs) - 1 /\ Len(jobs) \in Nat
      BY <2>1, HeadTailProperties, Counts, EmptySeq DEF TakeBatch, Shapes
    <3>2. JobsCap \in Nat /\ JobsCap' = JobsCap
      BY CapType DEF JobsCap
    <3>3. Len(jobs') <= JobsCap'
      BY <3>1, <3>2
    <3> QED
      BY <2>1, <3>3 DEF TakeBatch, Position
  <2>2. CASE ExitWorker(w)
    BY <2>2 DEF ExitWorker, JobsCap, Position
  <2>3. CASE Post(w)
    BY <2>3 DEF Post, JobsCap, Position
  <2>4. CASE GivesUp(w)
    BY <2>4 DEF GivesUp, Replying, JobsCap, Position
  <2>5. CASE TriesAgain(w)
    BY <2>5 DEF TriesAgain, Replying, Again, JobsCap, Position
  <2> QED
    BY <1>8, <2>1, <2>2, <2>3, <2>4, <2>5
<1>9. ASSUME NEW w \in Workers, NEW o \in Outcomes,
             Resolves(w, o)
      PROVE  CutInv'
  <2>1. CASE Resolves(w, o)
    BY <2>1 DEF Resolves, Counted, JobsCap, Position
  <2> QED
    BY <1>9, <2>1
<1>10. ASSUME NEW r \in network,
             Process(r)
      PROVE  CutInv'
  <2>1. CASE Process(r)
    BY <2>1 DEF Process, JobsCap, Position
  <2> QED
    BY <1>10, <2>1
<1> QED
  BY <1>1, <1>2, <1>3, <1>4, <1>5, <1>6, <1>7, <1>8, <1>9, <1>10, NextCases

\* A step that moves no batch leaves every batch where it is.
LEMMA NothingMoves ==
    ASSUME PlaceInv, Taken' = Taken, jobs' = jobs, batch' = batch, outcome' = outcome,
           \A w \in Workers : Busy(w)' <=> Busy(w)
    PROVE  PlaceInv'
BY DEF PlaceInv

\* A batch that a worker is done with.
LEMMA BatchDone ==
    ASSUME Shapes, CutInv, PlaceInv, NEW w \in Workers, Busy(w), ~Busy(w)', Taken' = Taken,
           jobs' = jobs, batch' = batch, \A v \in Workers \ {w} : Busy(v)' <=> Busy(v),
           NEW o \in Outcomes, outcome' = [outcome EXCEPT ![batch[w]] = o]
    PROVE  PlaceInv'
<1>0. o # "none"
  BY DEF Outcomes
<1>1. batch[w] \in Nat /\ batch[w] < Taken /\ batch[w] \in Indices
  BY HeldBatch
<1>2. \A b \in Indices : outcome'[b] = IF b = batch[w] THEN o ELSE outcome[b]
  BY <1>1 DEF Shapes
<1>3. \A v \in Workers : Busy(v)' => batch[v] < Taken /\ outcome'[batch[v]] = "none"
  <2> SUFFICES ASSUME NEW v \in Workers, Busy(v)'
               PROVE  batch[v] < Taken /\ outcome'[batch[v]] = "none"
    OBVIOUS
  <2>1. Busy(v) /\ v # w
    OBVIOUS
  <2>2. batch[v] # batch[w]
    BY <2>1 DEF PlaceInv
  <2> QED
    BY <2>1, <2>2, <1>2, HeldBatch
<1>4. \A b \in Indices :
         b < Taken => outcome'[b] # "none" \/ \E v \in Workers : Busy(v)' /\ batch[v] = b
  BY <1>0, <1>2 DEF PlaceInv
<1>5. \A b \in Indices : outcome'[b] # "none" => b < Taken
  BY <1>1, <1>2 DEF PlaceInv
<1>6. \A u, v \in Workers : Busy(u)' /\ Busy(v)' /\ batch[u] = batch[v] => u = v
  BY DEF PlaceInv
<1> QED
  BY <1>3, <1>4, <1>5, <1>6 DEF PlaceInv

\* Every step leaves a batch in one place.
LEMMA PlaceStep == IInv /\ [Next]_vars => PlaceInv'
<1> SUFFICES ASSUME IInv, [Next]_vars PROVE PlaceInv'
  OBVIOUS
<1> USE DEF IInv, readerVars, workerVars, edgeVars, countVars
<1>1. CASE DeadlinePasses
  BY <1>1, NothingMoves DEF DeadlinePasses, Taken, Sent, Busy
<1>2. CASE CutBatch
  <2>1. Len(cut') = Len(cut) + 1
    BY <1>2, AppendProperties, Counts DEF CutBatch, Shapes
  <2>2. Taken' = Taken
    BY <1>2, <2>1, Counts DEF CutBatch, Taken, Sent
  <2>3. jobs' = jobs /\ batch' = batch /\ outcome' = outcome /\ \A w \in Workers : Busy(w)' <=> Busy(w)
    BY <1>2 DEF CutBatch, Busy
  <2> QED
    BY <2>2, <2>3, NothingMoves
<1>3. CASE ReaderReturns
  BY <1>3, NothingMoves DEF ReaderReturns, Taken, Sent, Busy
<1>4. CASE SendBatch
  <2>1. Len(cut) \in Nat /\ Len(cut) > 0 /\ Len(jobs) \in Nat /\ Sent = Len(cut) - 1 /\ Sent' = Len(cut)
    BY <1>4, Counts DEF SendBatch, CutInv, Sent
  <2>2. Len(jobs') = Len(jobs) + 1 /\ jobs'[Len(jobs) + 1] = Sent
        /\ \A i \in 1..Len(jobs) : jobs'[i] = jobs[i]
    BY <1>4, <2>1, AppendProperties DEF SendBatch, Shapes
  <2>3. Taken' = Taken /\ Sent = Taken + Len(jobs) /\ Taken \in Int
    BY <2>1, <2>2 DEF Taken
  <2>4. \A i \in 1..Len(jobs') : jobs'[i] = Taken + i - 1
    <3>1. TAKE i \in 1..Len(jobs')
    <3>2. CASE i \in 1..Len(jobs)
      BY <2>2, <2>3, <3>2 DEF PlaceInv
    <3>3. CASE i = Len(jobs) + 1
      BY <2>1, <2>2, <2>3, <3>3
    <3> QED
      BY <2>1, <2>2, <3>1, <3>2, <3>3
  <2>5. batch' = batch /\ outcome' = outcome /\ \A w \in Workers : Busy(w)' <=> Busy(w)
    BY <1>4 DEF SendBatch, Busy
  <2> QED
    BY <2>3, <2>4, <2>5 DEF PlaceInv
<1>5. CASE Report
  BY <1>5, NothingMoves DEF Report, Taken, Sent, Busy
<1>6. CASE Dies
  BY <1>6, NothingMoves DEF Dies, Taken, Sent, Busy
<1>7. CASE UNCHANGED vars
  BY <1>7, NothingMoves DEF vars, Taken, Sent, Busy
<1>8. ASSUME NEW w \in Workers,
             \/ TakeBatch(w) \/ ExitWorker(w) \/ Post(w) \/ GivesUp(w) \/ TriesAgain(w)
      PROVE  PlaceInv'
  <2>1. CASE TakeBatch(w)
    <3>1. /\ Len(jobs) \in Nat /\ Len(jobs) > 0 /\ Head(jobs) = jobs[1] /\ Len(jobs') = Len(jobs) - 1
          /\ \A i \in 1..Len(jobs') : jobs'[i] = jobs[i + 1]
      BY <2>1, HeadTailProperties, EmptySeq, LenProperties DEF TakeBatch, Shapes
    <3>2. Taken \in Nat /\ Taken < Len(cut) /\ Taken' = Taken + 1
      BY <2>1, <3>1, Counts DEF TakeBatch, Taken, Sent, PlaceInv
    <3>3. jobs[1] = Taken
      BY <3>1, <3>2 DEF PlaceInv
    <3>4. \A i \in 1..Len(jobs') : jobs'[i] = Taken' + i - 1
      <4> SUFFICES ASSUME NEW i \in 1..Len(jobs') PROVE jobs'[i] = Taken' + i - 1
        OBVIOUS
      <4>1. i + 1 \in 1..Len(jobs) /\ jobs'[i] = jobs[i + 1]
        BY <3>1
      <4> QED
        BY <4>1, <3>1, <3>2 DEF PlaceInv
    <3>5. Taken \in Indices /\ outcome[Taken] = "none"
      BY <3>2, CutInIndices DEF PlaceInv
    <3>6. ~Busy(w) /\ Busy(w)' /\ batch'[w] = Taken /\ outcome' = outcome
      BY <2>1, <3>1, <3>3 DEF TakeBatch, Busy, Shapes
    <3>7. \A v \in Workers \ {w} : (Busy(v)' <=> Busy(v)) /\ batch'[v] = batch[v]
      BY <2>1 DEF TakeBatch, Busy, Shapes
    <3>8. \A v \in Workers : Busy(v)' => batch'[v] < Taken' /\ outcome'[batch'[v]] = "none"
      <4> SUFFICES ASSUME NEW v \in Workers, Busy(v)'
                   PROVE  batch'[v] < Taken' /\ outcome'[batch'[v]] = "none"
        OBVIOUS
      <4>1. CASE v = w
        BY <4>1, <3>2, <3>5, <3>6
      <4>2. CASE v # w
        <5>1. batch'[v] < Taken /\ outcome[batch'[v]] = "none" /\ batch'[v] \in Nat
          BY <4>2, <3>7 DEF PlaceInv, Shapes
        <5> QED
          BY <5>1, <3>2, <3>6
      <4> QED
        BY <4>1, <4>2
    <3>9. \A u, v \in Workers : Busy(u)' /\ Busy(v)' /\ batch'[u] = batch'[v] => u = v
      <4>1. \A v \in Workers \ {w} : Busy(v)' => batch'[v] # Taken
        <5> SUFFICES ASSUME NEW v \in Workers \ {w}, Busy(v)' PROVE batch'[v] # Taken
          OBVIOUS
        <5>1. batch[v] < Taken /\ batch[v] \in Nat /\ batch'[v] = batch[v]
          BY <3>7 DEF PlaceInv, Shapes
        <5> QED
          BY <5>1, <3>2
      <4> QED
        BY <4>1, <3>6, <3>7 DEF PlaceInv
    <3>10. \A b \in Indices : outcome'[b] # "none" => b < Taken'
      BY <3>2, <3>6, LongestFile DEF PlaceInv
    <3>11. ASSUME NEW b \in Indices, b < Taken'
           PROVE  outcome'[b] # "none" \/ \E v \in Workers : Busy(v)' /\ batch'[v] = b
      <4>1. b \in Nat
        BY LongestFile
      <4>2. CASE b = Taken
        BY <4>2, <3>6
      <4>3. CASE b < Taken
        <5>1. outcome[b] # "none" \/ \E v \in Workers : Busy(v) /\ batch[v] = b
          BY <4>3 DEF PlaceInv
        <5> QED
          BY <5>1, <3>6, <3>7
      <4> QED
        BY <4>1, <4>2, <4>3, <3>11, <3>2
    <3> QED
      BY <3>2, <3>4, <3>8, <3>9, <3>10, <3>11 DEF PlaceInv
  <2>2. CASE ExitWorker(w)
    <3>1. jobs' = jobs /\ batch' = batch /\ outcome' = outcome /\ Taken' = Taken
      BY <2>2 DEF ExitWorker, Taken, Sent
    <3>2. \A v \in Workers : Busy(v)' <=> Busy(v)
      BY <2>2 DEF ExitWorker, Busy, Shapes
    <3> QED
      BY <3>1, <3>2, NothingMoves
  <2>3. CASE Post(w)
    <3>1. jobs' = jobs /\ batch' = batch /\ outcome' = outcome /\ Taken' = Taken
      BY <2>3 DEF Post, Taken, Sent
    <3>2. \A v \in Workers : Busy(v)' <=> Busy(v)
      BY <2>3 DEF Post, Busy, Shapes
    <3> QED
      BY <3>1, <3>2, NothingMoves
  <2>4. CASE GivesUp(w)
    <3>1. jobs' = jobs /\ batch' = batch /\ outcome' = outcome /\ Taken' = Taken
      BY <2>4 DEF GivesUp, Replying, Taken, Sent
    <3>2. \A v \in Workers : Busy(v)' <=> Busy(v)
      BY <2>4 DEF GivesUp, Replying, Busy, Shapes
    <3> QED
      BY <3>1, <3>2, NothingMoves
  <2>5. CASE TriesAgain(w)
    <3>1. jobs' = jobs /\ batch' = batch /\ outcome' = outcome /\ Taken' = Taken
      BY <2>5 DEF TriesAgain, Replying, Again, Taken, Sent
    <3>2. \A v \in Workers : Busy(v)' <=> Busy(v)
      BY <2>5 DEF TriesAgain, Replying, Again, Busy, Shapes
    <3> QED
      BY <3>1, <3>2, NothingMoves
  <2> QED
    BY <1>8, <2>1, <2>2, <2>3, <2>4, <2>5
<1>9. ASSUME NEW w \in Workers, NEW o \in Outcomes,
             Resolves(w, o)
      PROVE  PlaceInv'
  <2>1. CASE Resolves(w, o)
    <3>1. Busy(w) /\ ~Busy(w)' /\ Taken' = Taken
      BY <2>1 DEF Resolves, Counted, Busy, Taken, Sent, Shapes
    <3>2. \A v \in Workers \ {w} : Busy(v)' <=> Busy(v)
      BY <2>1 DEF Resolves, Counted, Shapes, Busy
    <3>3. jobs' = jobs /\ batch' = batch /\ outcome' = [outcome EXCEPT ![batch[w]] = o]
      BY <2>1 DEF Resolves, Counted
    <3> QED
      BY <3>1, <3>2, <3>3, BatchDone
  <2> QED
    BY <1>9, <2>1
<1>10. ASSUME NEW r \in network,
             Process(r)
      PROVE  PlaceInv'
  <2>1. CASE Process(r)
    BY <2>1, NothingMoves DEF Process, Taken, Sent, Busy
  <2> QED
    BY <1>10, <2>1
<1> QED
  BY <1>1, <1>2, <1>3, <1>4, <1>5, <1>6, <1>7, <1>8, <1>9, <1>10, NextCases

\* What the edge holds stays right while requests only leave the network.
LEMMA EdgeKeeps ==
    ASSUME EdgeInv, network' \subseteq network, Len(cut') >= Len(cut), Len(cut) \in Nat,
           Len(cut') \in Nat, copies' = copies, seen' = seen,
           \A b \in Indices :
              outcome'[b] = "accepted" => outcome[b] = "accepted" \/ <<Pod(b), b>> \in seen
    PROVE  EdgeInv'
<1>1. \A b \in Indices : copies[b] > 0 => b < Len(cut')
  BY LongestFile DEF EdgeInv
<1>2. \A r \in network' : r.id \in Nat /\ r.id < Len(cut') /\ r.target = Pod(r.id)
  BY DEF EdgeInv
<1> QED
  BY <1>1, <1>2 DEF EdgeInv, Pod, TargetOf

\* Every step leaves at most one copy of a batch.
LEMMA EdgeStep == IInv /\ [Next]_vars => EdgeInv'
<1> SUFFICES ASSUME IInv, [Next]_vars PROVE EdgeInv'
  OBVIOUS
<1> USE DEF IInv, readerVars, workerVars, edgeVars, countVars
<1>1. CASE DeadlinePasses
  <2>1. network' \subseteq network /\ cut' = cut /\ copies' = copies /\ seen' = seen
        /\ outcome' = outcome
    BY <1>1 DEF DeadlinePasses
  <2> QED
    BY <2>1, Counts, EdgeKeeps
<1>2. CASE CutBatch
  <2>1. Len(cut') = Len(cut) + 1 /\ Len(cut) \in Nat
    BY <1>2, AppendProperties, Counts DEF CutBatch, Shapes
  <2>2. network' = network /\ copies' = copies /\ seen' = seen /\ outcome' = outcome
    BY <1>2 DEF CutBatch
  <2> QED
    BY <2>1, <2>2, EdgeKeeps
<1>3. CASE ReaderReturns
  <2>1. network' \subseteq network /\ cut' = cut /\ copies' = copies /\ seen' = seen
        /\ outcome' = outcome
    BY <1>3 DEF ReaderReturns
  <2> QED
    BY <2>1, Counts, EdgeKeeps
<1>4. CASE SendBatch
  <2>1. network' \subseteq network /\ cut' = cut /\ copies' = copies /\ seen' = seen
        /\ outcome' = outcome
    BY <1>4 DEF SendBatch
  <2> QED
    BY <2>1, Counts, EdgeKeeps
<1>5. CASE Report
  <2>1. network' \subseteq network /\ cut' = cut /\ copies' = copies /\ seen' = seen
        /\ outcome' = outcome
    BY <1>5 DEF Report
  <2> QED
    BY <2>1, Counts, EdgeKeeps
<1>6. CASE Dies
  <2>1. network' \subseteq network /\ cut' = cut /\ copies' = copies /\ seen' = seen
        /\ outcome' = outcome
    BY <1>6 DEF Dies
  <2> QED
    BY <2>1, Counts, EdgeKeeps
<1>7. CASE UNCHANGED vars
  <2>1. network' \subseteq network /\ cut' = cut /\ copies' = copies /\ seen' = seen
        /\ outcome' = outcome
    BY <1>7 DEF vars
  <2> QED
    BY <2>1, Counts, EdgeKeeps
<1>8. ASSUME NEW w \in Workers,
             \/ TakeBatch(w) \/ ExitWorker(w) \/ Post(w) \/ GivesUp(w) \/ TriesAgain(w)
      PROVE  EdgeInv'
  <2>1. CASE TakeBatch(w)
    <3>1. network' \subseteq network /\ cut' = cut /\ copies' = copies /\ seen' = seen
          /\ outcome' = outcome
      BY <2>1 DEF TakeBatch
    <3> QED
      BY <3>1, Counts, EdgeKeeps
  <2>2. CASE ExitWorker(w)
    <3>1. network' \subseteq network /\ cut' = cut /\ copies' = copies /\ seen' = seen
          /\ outcome' = outcome
      BY <2>2 DEF ExitWorker
    <3> QED
      BY <3>1, Counts, EdgeKeeps
  <2>3. CASE Post(w)
    <3>1. Busy(w)
      BY <2>3 DEF Post, Busy
    <3>2. Request(w).id \in Nat /\ Request(w).id < Len(cut) /\ Request(w).target = Pod(Request(w).id)
      BY <3>1, HeldBatch, OnePod DEF Request
    <3>3. network' = network \cup {Request(w)} /\ cut' = cut /\ copies' = copies /\ seen' = seen
          /\ outcome' = outcome
      BY <2>3 DEF Post
    <3>4. \A r \in network' : r.id \in Nat /\ r.id < Len(cut') /\ r.target = Pod(r.id)
      BY <3>2, <3>3 DEF EdgeInv
    <3> QED
      BY <3>3, <3>4 DEF EdgeInv, Pod, TargetOf
  <2>4. CASE GivesUp(w)
    <3>1. network' \subseteq network /\ cut' = cut /\ copies' = copies /\ seen' = seen
          /\ outcome' = outcome
      BY <2>4 DEF GivesUp, Replying
    <3> QED
      BY <3>1, Counts, EdgeKeeps
  <2>5. CASE TriesAgain(w)
    <3>1. network' \subseteq network /\ cut' = cut /\ copies' = copies /\ seen' = seen
          /\ outcome' = outcome
      BY <2>5 DEF TriesAgain, Replying, Again
    <3> QED
      BY <3>1, Counts, EdgeKeeps
  <2> QED
    BY <1>8, <2>1, <2>2, <2>3, <2>4, <2>5
<1>9. ASSUME NEW w \in Workers, NEW o \in Outcomes,
             Resolves(w, o)
      PROVE  EdgeInv'
  <2>1. CASE Resolves(w, o)
    <3>1. network' \subseteq network /\ cut' = cut /\ copies' = copies /\ seen' = seen
      BY <2>1 DEF Resolves
    <3>2. outcome' = [outcome EXCEPT ![batch[w]] = o] /\ (o = "accepted" => <<Pod(batch[w]), batch[w]>> \in seen)
      BY <2>1 DEF Resolves, Counted
    <3>3. \A b \in Indices :
             outcome'[b] = "accepted" => outcome[b] = "accepted" \/ <<Pod(b), b>> \in seen
      BY <3>2 DEF Shapes
    <3> QED
      BY <3>1, <3>3, Counts, EdgeKeeps
  <2> QED
    BY <1>9, <2>1
<1>10. ASSUME NEW r \in network,
             Process(r)
      PROVE  EdgeInv'
  <2>1. CASE Process(r)
    <3>1. r.id \in Nat /\ r.id < Len(cut) /\ r.target = Pod(r.id)
      BY DEF EdgeInv
    <3>2. r.id \in Indices
      BY <3>1, CutInIndices
    <3>3. network' \subseteq network /\ seen' = seen \cup {<<Pod(r.id), r.id>>} /\ cut' = cut
          /\ outcome' = outcome
      BY <2>1, <3>1 DEF Process
    <3>4. copies' = [copies EXCEPT ![r.id] = IF <<Pod(r.id), r.id>> \in seen THEN @ ELSE @ + 1]
      BY <2>1, <3>1 DEF Process
    <3>5. ASSUME NEW b \in Indices
          PROVE  /\ copies'[b] = IF <<Pod(b), b>> \in seen' THEN 1 ELSE 0
                 /\ copies'[b] > 0 => b < Len(cut')
                 /\ outcome'[b] = "accepted" => <<Pod(b), b>> \in seen'
      <4>1. CASE b = r.id
        BY <4>1, <3>1, <3>2, <3>3, <3>4 DEF EdgeInv, Shapes
      <4>2. CASE b # r.id
        BY <4>2, <3>2, <3>3, <3>4 DEF EdgeInv, Shapes
      <4> QED
        BY <4>1, <4>2
    <3>6. \A q \in network' : q.id \in Nat /\ q.id < Len(cut') /\ q.target = Pod(q.id)
      BY <3>3 DEF EdgeInv
    <3> QED
      BY <3>5, <3>6 DEF EdgeInv, Pod, TargetOf
  <2> QED
    BY <1>10, <2>1
<1> QED
  BY <1>1, <1>2, <1>3, <1>4, <1>5, <1>6, <1>7, <1>8, <1>9, <1>10, NextCases

\* Every step leaves workers to exit from a closed channel, and main to end after them.
LEMMA EndStep == IInv /\ [Next]_vars => EndInv'
<1> SUFFICES ASSUME IInv, [Next]_vars PROVE EndInv'
  OBVIOUS
<1> USE DEF IInv, EndInv, readerVars, workerVars, edgeVars, countVars
<1>1. CASE DeadlinePasses
  BY <1>1 DEF DeadlinePasses, Reported, Finished, Lossy
<1>2. CASE CutBatch
  BY <1>2 DEF CutBatch, Reported, Up
<1>3. CASE ReaderReturns
  BY <1>3 DEF ReaderReturns, Reported, Up
<1>4. CASE SendBatch
  BY <1>4 DEF SendBatch, Reported, Up
<1>5. CASE Report
  BY <1>5 DEF Report, Reported, Finished, Lossy
<1>6. CASE Dies
  BY <1>6 DEF Dies, Reported, Finished, Lossy
<1>7. CASE UNCHANGED vars
  BY <1>7 DEF vars, Reported, Finished, Lossy
<1>8. ASSUME NEW w \in Workers,
             \/ TakeBatch(w) \/ ExitWorker(w) \/ Post(w) \/ GivesUp(w) \/ TriesAgain(w)
      PROVE  EndInv'
  <2>1. CASE TakeBatch(w)
    <3>1. Up /\ main' = main /\ reader' = reader /\ (jobs = <<>> => jobs' = <<>>)
      BY <2>1 DEF TakeBatch
    <3>2. \A v \in Workers : worker'[v] = "exited" => worker[v] = "exited" \/ (reader = "closed" /\ jobs = <<>>)
      BY <2>1 DEF TakeBatch, Shapes
    <3> QED
      BY <3>1, <3>2 DEF Reported, Up
  <2>2. CASE ExitWorker(w)
    <3>1. Up /\ main' = main /\ reader' = reader /\ (jobs = <<>> => jobs' = <<>>)
      BY <2>2 DEF ExitWorker
    <3>2. \A v \in Workers : worker'[v] = "exited" => worker[v] = "exited" \/ (reader = "closed" /\ jobs = <<>>)
      BY <2>2 DEF ExitWorker, Shapes
    <3> QED
      BY <3>1, <3>2 DEF Reported, Up
  <2>3. CASE Post(w)
    <3>1. Up /\ main' = main /\ reader' = reader /\ (jobs = <<>> => jobs' = <<>>)
      BY <2>3 DEF Post
    <3>2. \A v \in Workers : worker'[v] = "exited" => worker[v] = "exited" \/ (reader = "closed" /\ jobs = <<>>)
      BY <2>3 DEF Post, Shapes
    <3> QED
      BY <3>1, <3>2 DEF Reported, Up
  <2>4. CASE GivesUp(w)
    <3>1. Up /\ main' = main /\ reader' = reader /\ (jobs = <<>> => jobs' = <<>>)
      BY <2>4 DEF GivesUp, Replying
    <3>2. \A v \in Workers : worker'[v] = "exited" => worker[v] = "exited" \/ (reader = "closed" /\ jobs = <<>>)
      BY <2>4 DEF GivesUp, Replying, Shapes
    <3> QED
      BY <3>1, <3>2 DEF Reported, Up
  <2>5. CASE TriesAgain(w)
    <3>1. Up /\ main' = main /\ reader' = reader /\ (jobs = <<>> => jobs' = <<>>)
      BY <2>5 DEF TriesAgain, Replying, Again
    <3>2. \A v \in Workers : worker'[v] = "exited" => worker[v] = "exited" \/ (reader = "closed" /\ jobs = <<>>)
      BY <2>5 DEF TriesAgain, Replying, Again, Shapes
    <3> QED
      BY <3>1, <3>2 DEF Reported, Up
  <2> QED
    BY <1>8, <2>1, <2>2, <2>3, <2>4, <2>5
<1>9. ASSUME NEW w \in Workers, NEW o \in Outcomes,
             Resolves(w, o)
      PROVE  EndInv'
  <2>1. CASE Resolves(w, o)
    <3>1. Up /\ main' = main /\ reader' = reader /\ (jobs = <<>> => jobs' = <<>>)
      BY <2>1 DEF Resolves, Counted
    <3>2. \A v \in Workers : worker'[v] = "exited" => worker[v] = "exited" \/ (reader = "closed" /\ jobs = <<>>)
      BY <2>1 DEF Resolves, Counted, Shapes
    <3> QED
      BY <3>1, <3>2 DEF Reported, Up
  <2> QED
    BY <1>9, <2>1
<1>10. ASSUME NEW r \in network,
             Process(r)
      PROVE  EndInv'
  <2>1. CASE Process(r)
    BY <2>1 DEF Process, Reported, Finished, Lossy
  <2> QED
    BY <1>10, <2>1
<1> QED
  BY <1>1, <1>2, <1>3, <1>4, <1>5, <1>6, <1>7, <1>8, <1>9, <1>10, NextCases

\* Every batch that was cut has an index.
LEMMA CutBatches ==
    ASSUME Shapes, CutInv
    PROVE  \A c \in CutIndices : c \in Indices
<1> SUFFICES ASSUME NEW c \in CutIndices PROVE c \in Indices
  OBVIOUS
<1>1. c \in Nat /\ c < Len(cut)
  BY Counts DEF CutIndices
<1> QED
  BY <1>1, CutInIndices

\* What a batch encodes to depends on its lines alone.
EncodedBy(f, L) == MapThenSumSet(LAMBDA i : f[i].samples, L)
LEMMA SameLines ==
    ASSUME NEW b, file' = file, LinesOf(b)' = LinesOf(b)
    PROVE  Encoded(b)' = Encoded(b) /\ (Encodable(b)' <=> Encodable(b))
           /\ (HasSamples(b)' <=> HasSamples(b))
<1>1. Encoded(b) = EncodedBy(file, LinesOf(b))
  BY DEF Encoded, EncodedBy, MapThenSumSet, MapThenFoldSet
<1>2. Encoded(b)' = EncodedBy(file', LinesOf(b)')
  BY DEF Encoded, EncodedBy, MapThenSumSet, MapThenFoldSet
<1>3. EncodedBy(file', LinesOf(b)') = EncodedBy(file, LinesOf(b))
  OBVIOUS
<1>4. Encoded(b)' = Encoded(b)
  BY <1>1, <1>2, <1>3
<1> QED
  BY <1>4 DEF Encodable, HasSamples

\* What a batch that is done encodes to is a number, and there are finitely many.
LEMMA DoneTypes ==
    ASSUME Shapes, CutInv, PlaceInv, SumInv
    PROVE  IsFiniteSet(Done) /\ EncodedOf \in [Done -> Nat]
<1>1. IsFiniteSet(CutIndices)
  BY Counts, FS_Interval DEF CutIndices
<1>2. IsFiniteSet(Done)
  BY <1>1, FS_Subset DEF Done
<1>3. ASSUME NEW b \in Done PROVE Encoded(b) \in Nat
  <2>1. b \in CutIndices /\ outcome[b] # "none" /\ b \in Indices
    BY Counts, CutInIndices DEF Done, CutIndices
  <2>2. Encodable(b)
    BY <2>1 DEF PlaceInv, SumInv
  <2> QED
    BY <2>1, <2>2, EncodedType
<1> QED
  BY <1>2, <1>3 DEF EncodedOf

\* While no batch is resolved the sum stays as it is.
LEMMA SumKept ==
    ASSUME SumInv, file' = file, Done' = Done, \A b \in Done : LinesOf(b)' = LinesOf(b),
           UNCHANGED <<samplesAccepted, samplesRejected, samplesFailed>>,
           \A b \in CutIndices' : b < Taken' => Encodable(b)'
    PROVE  SumInv'
<1>1. \A b \in Done : Encoded(b)' = Encoded(b)
  BY SameLines
<1>2. EncodedOf' = EncodedOf
  BY <1>1 DEF EncodedOf
<1> QED
  BY <1>2 DEF SumInv

\* Nor is it changed by a step that leaves the batches alone.
LEMMA SumQuiet ==
    ASSUME SumInv, Taken' = Taken,
           UNCHANGED <<file, cut, outcome, samplesAccepted, samplesRejected, samplesFailed>>
    PROVE  SumInv'
<1>1. CutIndices' = CutIndices /\ Done' = Done
  BY DEF CutIndices, Done
<1>2. \A b : LinesOf(b)' = LinesOf(b)
  BY DEF LinesOf
<1>3. \A b \in CutIndices' : b < Taken' => Encodable(b)'
  BY <1>1, <1>2, SameLines DEF SumInv
<1> QED
  BY <1>1, <1>2, <1>3, SumKept

\* A batch that is cut is behind the others, which keep their lines.
LEMMA CutGrows ==
    ASSUME Shapes, CutInv, PlaceInv, CutBatch, NEW n, n = Len(cut)
    PROVE  /\ n \in Nat /\ n \notin CutIndices /\ CutIndices' = CutIndices \cup {n}
           /\ \A b \in CutIndices : LinesOf(b)' = LinesOf(b)
           /\ outcome' = outcome /\ outcome[n] = "none" /\ Done' = Done
           /\ file' = file /\ Taken' = Taken /\ ~(n < Taken)
<1>1. Len(cut') = n + 1 /\ n \in Nat /\ \A i \in 1..n : cut'[i] = cut[i]
  BY AppendProperties, Counts DEF CutBatch, Shapes
<1>2. CutIndices = 0..n - 1 /\ CutIndices' = 0..n
  BY <1>1 DEF CutIndices
<1>3. n \notin CutIndices /\ CutIndices' = CutIndices \cup {n}
  BY <1>1, <1>2
<1>4. \A b \in CutIndices : LinesOf(b)' = LinesOf(b)
  BY <1>1, <1>2 DEF LinesOf
<1>5. n \in Indices
  <2>1. n < Len(file)
    BY <1>1, Counts DEF CutBatch, CutInv
  <2> QED
    BY <1>1, <2>1, LongestFile DEF Shapes
<1>6. ~(n < Taken)
  BY <1>1, Counts
<1>7. outcome' = outcome /\ outcome[n] = "none"
  BY <1>5, <1>6 DEF CutBatch, countVars, PlaceInv
<1>8. Done' = Done
  BY <1>3, <1>7 DEF Done
<1>9. Taken' = Taken
  BY <1>1, Counts DEF CutBatch, Taken, Sent
<1>10. file' = file
  BY DEF CutBatch
<1> QED
  BY <1>1, <1>3, <1>4, <1>6, <1>7, <1>8, <1>9, <1>10

\* Every step keeps the counters the sum over the batches that are done.
LEMMA SumStep == IInv /\ [Next]_vars => SumInv'
<1> SUFFICES ASSUME IInv, [Next]_vars PROVE SumInv'
  OBVIOUS
<1> USE DEF IInv, readerVars, workerVars, edgeVars, countVars
<1>1. CASE DeadlinePasses
  <2>1. Taken' = Taken
    BY <1>1 DEF DeadlinePasses, Taken, Sent
  <2>2. UNCHANGED <<file, cut, outcome, samplesAccepted, samplesRejected, samplesFailed>>
    BY <1>1 DEF DeadlinePasses
  <2> QED
    BY <2>1, <2>2, SumQuiet
<1>2. CASE CutBatch
  <2>1. PICK n : n = Len(cut)
    OBVIOUS
  <2>2. /\ CutIndices' = CutIndices \cup {n} /\ \A b \in CutIndices : LinesOf(b)' = LinesOf(b)
        /\ Done' = Done /\ file' = file /\ Taken' = Taken /\ ~(n < Taken)
    BY <1>2, <2>1, CutGrows
  <2>3. \A b \in CutIndices : Encodable(b)' <=> Encodable(b)
    BY <2>2, SameLines
  <2>4. \A b \in CutIndices' : b < Taken' => Encodable(b)'
    BY <2>2, <2>3 DEF SumInv
  <2>5. UNCHANGED <<samplesAccepted, samplesRejected, samplesFailed>>
    BY <1>2 DEF CutBatch
  <2>6. Done \subseteq CutIndices
    BY DEF Done
  <2> QED
    BY <2>2, <2>4, <2>5, <2>6, SumKept
<1>3. CASE ReaderReturns
  <2>1. Taken' = Taken
    BY <1>3 DEF ReaderReturns, Taken, Sent
  <2>2. UNCHANGED <<file, cut, outcome, samplesAccepted, samplesRejected, samplesFailed>>
    BY <1>3 DEF ReaderReturns
  <2> QED
    BY <2>1, <2>2, SumQuiet
<1>4. CASE SendBatch
  <2>1. Len(jobs') = Len(jobs) + 1
    BY <1>4, AppendProperties, Counts DEF SendBatch, Shapes
  <2>2. Taken' = Taken
    BY <1>4, <2>1, Counts DEF SendBatch, Taken, Sent
  <2>3. UNCHANGED <<file, cut, outcome, samplesAccepted, samplesRejected, samplesFailed>>
    BY <1>4 DEF SendBatch
  <2> QED
    BY <2>2, <2>3, SumQuiet
<1>5. CASE Report
  <2>1. Taken' = Taken
    BY <1>5 DEF Report, Taken, Sent
  <2>2. UNCHANGED <<file, cut, outcome, samplesAccepted, samplesRejected, samplesFailed>>
    BY <1>5 DEF Report
  <2> QED
    BY <2>1, <2>2, SumQuiet
<1>6. CASE Dies
  <2>1. Taken' = Taken
    BY <1>6 DEF Dies, Taken, Sent
  <2>2. UNCHANGED <<file, cut, outcome, samplesAccepted, samplesRejected, samplesFailed>>
    BY <1>6 DEF Dies
  <2> QED
    BY <2>1, <2>2, SumQuiet
<1>7. CASE UNCHANGED vars
  <2>1. Taken' = Taken
    BY <1>7 DEF vars, Taken, Sent
  <2>2. UNCHANGED <<file, cut, outcome, samplesAccepted, samplesRejected, samplesFailed>>
    BY <1>7 DEF vars
  <2> QED
    BY <2>1, <2>2, SumQuiet
<1>8. ASSUME NEW w \in Workers,
             \/ TakeBatch(w) \/ ExitWorker(w) \/ Post(w) \/ GivesUp(w) \/ TriesAgain(w)
      PROVE  SumInv'
  <2>1. CASE TakeBatch(w)
    <3>1. Len(jobs) \in Nat /\ Len(jobs) > 0 /\ Head(jobs) = jobs[1] /\ Len(jobs') = Len(jobs) - 1
      BY <2>1, HeadTailProperties, EmptySeq, Counts DEF TakeBatch, Shapes
    <3>2. Taken \in Nat /\ Taken' = Taken + 1
      BY <2>1, <3>1, Counts DEF TakeBatch, Taken, Sent, PlaceInv
    <3>3. PICK n \in Nat : n = Taken
      BY <3>2
    <3>4. Head(jobs) = n
      BY <3>1, <3>2, <3>3 DEF PlaceInv
    <3>5. Encodable(n)
      BY <2>1, <3>4 DEF TakeBatch
    <3>6. UNCHANGED <<file, cut, outcome, samplesAccepted, samplesRejected, samplesFailed>>
      BY <2>1 DEF TakeBatch
    <3>7. CutIndices' = CutIndices /\ Done' = Done
      BY <3>6 DEF CutIndices, Done
    <3>8. \A b : LinesOf(b)' = LinesOf(b)
      BY <3>6 DEF LinesOf
    <3>9. ASSUME NEW b \in CutIndices', b < Taken' PROVE Encodable(b)'
      <4>1. b \in CutIndices /\ b \in Nat /\ b < n + 1
        BY <3>2, <3>3, <3>7, <3>9, Counts DEF CutIndices
      <4>2. b = n \/ b < n
        BY <4>1
      <4>3. Encodable(b)
        BY <3>3, <3>5, <4>1, <4>2 DEF SumInv
      <4> QED
        BY <3>6, <3>8, <4>3, SameLines
    <3> QED
      BY <3>6, <3>7, <3>8, <3>9, SumKept
  <2>2. CASE ExitWorker(w)
    <3>1. Taken' = Taken
      BY <2>2 DEF ExitWorker, Taken, Sent
    <3>2. UNCHANGED <<file, cut, outcome, samplesAccepted, samplesRejected, samplesFailed>>
      BY <2>2 DEF ExitWorker
    <3> QED
      BY <3>1, <3>2, SumQuiet
  <2>3. CASE Post(w)
    <3>1. Taken' = Taken
      BY <2>3 DEF Post, Taken, Sent
    <3>2. UNCHANGED <<file, cut, outcome, samplesAccepted, samplesRejected, samplesFailed>>
      BY <2>3 DEF Post
    <3> QED
      BY <3>1, <3>2, SumQuiet
  <2>4. CASE GivesUp(w)
    <3>1. Taken' = Taken
      BY <2>4 DEF GivesUp, Replying, Taken, Sent
    <3>2. UNCHANGED <<file, cut, outcome, samplesAccepted, samplesRejected, samplesFailed>>
      BY <2>4 DEF GivesUp, Replying
    <3> QED
      BY <3>1, <3>2, SumQuiet
  <2>5. CASE TriesAgain(w)
    <3>1. Taken' = Taken
      BY <2>5 DEF TriesAgain, Replying, Again, Taken, Sent
    <3>2. UNCHANGED <<file, cut, outcome, samplesAccepted, samplesRejected, samplesFailed>>
      BY <2>5 DEF TriesAgain, Replying, Again
    <3> QED
      BY <3>1, <3>2, SumQuiet
  <2> QED
    BY <1>8, <2>1, <2>2, <2>3, <2>4, <2>5
<1>9. ASSUME NEW w \in Workers, NEW o \in Outcomes,
             Resolves(w, o)
      PROVE  SumInv'
  <2>1. CASE Resolves(w, o)
    <3>1. Busy(w)
      BY <2>1 DEF Resolves, Busy
    <3>2. PICK b : b = batch[w]
      OBVIOUS
    <3>3. b \in CutIndices /\ b \in Indices /\ outcome[b] = "none" /\ Encoded(b) \in Nat
      BY <3>1, <3>2, HeldBatch, HeldSamples
    <3>4. file' = file /\ cut' = cut /\ outcome' = [outcome EXCEPT ![b] = o] /\ Taken' = Taken
      BY <2>1, <3>2 DEF Resolves, Counted, Taken, Sent
    <3>5. CutIndices' = CutIndices /\ \A c : LinesOf(c)' = LinesOf(c)
      BY <3>4 DEF CutIndices, LinesOf
    <3>6. \A c : Encoded(c)' = Encoded(c) /\ (Encodable(c)' <=> Encodable(c))
      BY <3>4, <3>5, SameLines
    <3>7. Done' = Done \cup {b} /\ b \notin Done
      <4>1. o # "none"
        BY DEF Outcomes
      <4>2. \A c \in CutIndices : outcome'[c] = IF c = b THEN o ELSE outcome[c]
        BY <3>4, CutBatches DEF Shapes
      <4> QED
        BY <3>3, <3>5, <4>1, <4>2 DEF Done
    <3>8. EncodedOf' = [c \in Done \cup {b} |-> Encoded(c)]
      BY <3>6, <3>7 DEF EncodedOf
    <3>9. Sum(EncodedOf', Done') = Encoded(b) + Sum(EncodedOf, Done)
      <4>1. IsFiniteSet(Done) /\ EncodedOf \in [Done -> Nat] /\ \A c \in Done : EncodedOf[c] = Encoded(c)
        BY DoneTypes DEF EncodedOf
      <4>2. PICK F : F = EncodedOf'
        OBVIOUS
      <4>3. F \in [Done \cup {b} -> Nat] /\ F[b] = Encoded(b) /\ \A c \in Done : F[c] = EncodedOf[c]
        BY <3>3, <3>8, <4>1, <4>2
      <4>4. Grows(EncodedOf, F, Done, b)
        BY <3>7, <4>1, <4>3 DEF Grows
      <4>5. Sum(F, Done \cup {b}) = F[b] + Sum(EncodedOf, Done)
        BY ONLY <4>4, SumGrow
      <4> QED
        BY <3>7, <4>2, <4>3, <4>5
    <3>10. samplesAccepted' + samplesRejected' + samplesFailed'
              = Encoded(b) + (samplesAccepted + samplesRejected + samplesFailed)
      <4>1. samplesAccepted \in Nat /\ samplesRejected \in Nat /\ samplesFailed \in Nat
        BY DEF Shapes
      <4>2. CASE o = "accepted"
        BY <2>1, <3>2, <3>3, <4>1, <4>2 DEF Resolves, Adds1
      <4>3. CASE o = "rejected"
        BY <2>1, <3>2, <3>3, <4>1, <4>3 DEF Resolves, Adds1
      <4>4. CASE o = "failed"
        BY <2>1, <3>2, <3>3, <4>1, <4>4 DEF Resolves, Adds1
      <4> QED
        BY <4>2, <4>3, <4>4 DEF Outcomes
    <3>11. \A c \in CutIndices' : c < Taken' => Encodable(c)'
      BY <3>4, <3>5, <3>6 DEF SumInv
    <3> QED
      BY <3>9, <3>10, <3>11 DEF SumInv
  <2> QED
    BY <1>9, <2>1
<1>10. ASSUME NEW r \in network,
             Process(r)
      PROVE  SumInv'
  <2>1. CASE Process(r)
    <3>1. Taken' = Taken
      BY <2>1 DEF Process, Taken, Sent
    <3>2. UNCHANGED <<file, cut, outcome, samplesAccepted, samplesRejected, samplesFailed>>
      BY <2>1 DEF Process
    <3> QED
      BY <3>1, <3>2, SumQuiet
  <2> QED
    BY <1>10, <2>1
<1> QED
  BY <1>1, <1>2, <1>3, <1>4, <1>5, <1>6, <1>7, <1>8, <1>9, <1>10, NextCases

\* What was lost still shows while no batch is cut or resolved.
LEMMA LossKept ==
    ASSUME LossInv, reader' = "closed" => reader = "closed",
           UNCHANGED <<file, cut, samplesRead, outcome, stoppedEarly, samplesRejected, samplesFailed>>
    PROVE  LossInv'
<1>1. CutIndices' = CutIndices /\ \A b : LinesOf(b)' = LinesOf(b)
  BY DEF CutIndices, LinesOf
<1>2. \A b : HasSamples(b)' <=> HasSamples(b)
  BY <1>1, SameLines
<1>3. Position' = Position /\ (AtLimit' <=> AtLimit) /\ (Lossy' <=> Lossy)
  BY DEF Position, AtLimit, Lossy
<1> QED
  BY <1>1, <1>2, <1>3 DEF LossInv

\* Every step leaves what was lost to see in the counters.
LEMMA LossStep == IInv /\ [Next]_vars => LossInv'
<1> SUFFICES ASSUME IInv, [Next]_vars PROVE LossInv'
  OBVIOUS
<1> USE DEF IInv, readerVars, workerVars, edgeVars, countVars
<1>1. CASE DeadlinePasses
  <2>1. UNCHANGED <<file, cut, samplesRead, outcome, stoppedEarly, samplesRejected, samplesFailed>>
        /\ (reader' = "closed" => reader = "closed")
    BY <1>1 DEF DeadlinePasses
  <2> QED
    BY <2>1, LossKept
<1>2. CASE CutBatch
  <2>1. PICK n : n = Len(cut)
    OBVIOUS
  <2>2. /\ CutIndices' = CutIndices \cup {n} /\ \A b \in CutIndices : LinesOf(b)' = LinesOf(b)
        /\ outcome' = outcome /\ outcome[n] = "none" /\ file' = file
    BY <1>2, <2>1, CutGrows
  <2>3. reader' = "send" /\ (Lossy' <=> Lossy)
    BY <1>2 DEF CutBatch, Lossy
  <2>4. \A b \in CutIndices : HasSamples(b)' <=> HasSamples(b)
    BY <2>2, SameLines
  <2>5. \A b \in CutIndices' : outcome'[b] \in {"rejected", "failed"} /\ HasSamples(b)' => Lossy'
    BY <2>2, <2>3, <2>4 DEF LossInv
  <2> QED
    BY <2>3, <2>5 DEF LossInv
<1>3. CASE ReaderReturns
  <2>1. UNCHANGED <<file, cut, eof, samplesRead, outcome, samplesRejected, samplesFailed>>
    BY <1>3 DEF ReaderReturns
  <2>2. CutIndices' = CutIndices /\ \A b : LinesOf(b)' = LinesOf(b)
    BY <2>1 DEF CutIndices, LinesOf
  <2>3. \A b : HasSamples(b)' <=> HasSamples(b)
    BY <2>1, <2>2, SameLines
  <2>4. Position' = Position /\ (AtLimit' <=> AtLimit) /\ (Lossy' <=> Lossy)
    BY <2>1 DEF Position, AtLimit, Lossy
  <2>5. ~stoppedEarly' => eof \/ AtLimit \/ Position = Len(file)
    BY <1>3 DEF ReaderReturns, StoppedAtTop
  <2>6. ~stoppedEarly' => AtLimit' \/ Position' = Len(file')
    BY <2>1, <2>4, <2>5 DEF CutInv
  <2> QED
    BY <2>1, <2>2, <2>3, <2>4, <2>6 DEF LossInv
<1>4. CASE SendBatch
  <2>1. UNCHANGED <<file, cut, samplesRead, outcome, stoppedEarly, samplesRejected, samplesFailed>>
        /\ (reader' = "closed" => reader = "closed")
    BY <1>4 DEF SendBatch
  <2> QED
    BY <2>1, LossKept
<1>5. CASE Report
  <2>1. UNCHANGED <<file, cut, samplesRead, outcome, stoppedEarly, samplesRejected, samplesFailed>>
        /\ (reader' = "closed" => reader = "closed")
    BY <1>5 DEF Report
  <2> QED
    BY <2>1, LossKept
<1>6. CASE Dies
  <2>1. UNCHANGED <<file, cut, samplesRead, outcome, stoppedEarly, samplesRejected, samplesFailed>>
        /\ (reader' = "closed" => reader = "closed")
    BY <1>6 DEF Dies
  <2> QED
    BY <2>1, LossKept
<1>7. CASE UNCHANGED vars
  <2>1. UNCHANGED <<file, cut, samplesRead, outcome, stoppedEarly, samplesRejected, samplesFailed>>
        /\ (reader' = "closed" => reader = "closed")
    BY <1>7 DEF vars
  <2> QED
    BY <2>1, LossKept
<1>8. ASSUME NEW w \in Workers,
             \/ TakeBatch(w) \/ ExitWorker(w) \/ Post(w) \/ GivesUp(w) \/ TriesAgain(w)
      PROVE  LossInv'
  <2>1. CASE TakeBatch(w)
    <3>1. UNCHANGED <<file, cut, samplesRead, outcome, stoppedEarly, samplesRejected, samplesFailed>>
          /\ (reader' = "closed" => reader = "closed")
      BY <2>1 DEF TakeBatch
    <3> QED
      BY <3>1, LossKept
  <2>2. CASE ExitWorker(w)
    <3>1. UNCHANGED <<file, cut, samplesRead, outcome, stoppedEarly, samplesRejected, samplesFailed>>
          /\ (reader' = "closed" => reader = "closed")
      BY <2>2 DEF ExitWorker
    <3> QED
      BY <3>1, LossKept
  <2>3. CASE Post(w)
    <3>1. UNCHANGED <<file, cut, samplesRead, outcome, stoppedEarly, samplesRejected, samplesFailed>>
          /\ (reader' = "closed" => reader = "closed")
      BY <2>3 DEF Post
    <3> QED
      BY <3>1, LossKept
  <2>4. CASE GivesUp(w)
    <3>1. UNCHANGED <<file, cut, samplesRead, outcome, stoppedEarly, samplesRejected, samplesFailed>>
          /\ (reader' = "closed" => reader = "closed")
      BY <2>4 DEF GivesUp, Replying
    <3> QED
      BY <3>1, LossKept
  <2>5. CASE TriesAgain(w)
    <3>1. UNCHANGED <<file, cut, samplesRead, outcome, stoppedEarly, samplesRejected, samplesFailed>>
          /\ (reader' = "closed" => reader = "closed")
      BY <2>5 DEF TriesAgain, Replying, Again
    <3> QED
      BY <3>1, LossKept
  <2> QED
    BY <1>8, <2>1, <2>2, <2>3, <2>4, <2>5
<1>9. ASSUME NEW w \in Workers, NEW o \in Outcomes,
             Resolves(w, o)
      PROVE  LossInv'
  <2>1. CASE Resolves(w, o)
    <3>1. Busy(w)
      BY <2>1 DEF Resolves, Busy
    <3>2. PICK b : b = batch[w]
      OBVIOUS
    <3>3. b \in CutIndices /\ b \in Indices /\ Encoded(b) \in Nat
      BY <3>1, <3>2, HeldBatch, HeldSamples
    <3>4. UNCHANGED <<file, cut, samplesRead, reader>> /\ outcome' = [outcome EXCEPT ![b] = o]
      BY <2>1, <3>2 DEF Resolves, Counted
    <3>5. CutIndices' = CutIndices /\ \A c : LinesOf(c)' = LinesOf(c)
      BY <3>4 DEF CutIndices, LinesOf
    <3>6. \A c : HasSamples(c)' <=> HasSamples(c)
      BY <3>4, <3>5, SameLines
    <3>7. (Lossy => Lossy') /\ (o # "accepted" /\ HasSamples(b) => Lossy')
      <4>1. samplesRejected \in Nat /\ samplesFailed \in Nat
        BY DEF Shapes
      <4>2. o = "rejected" => samplesRejected' = samplesRejected + Encoded(b) /\ samplesFailed' = samplesFailed
        BY <2>1, <3>2 DEF Resolves, Adds1
      <4>3. o = "failed" => samplesFailed' = samplesFailed + Encoded(b) /\ samplesRejected' = samplesRejected
        BY <2>1, <3>2 DEF Resolves, Adds1
      <4>4. o = "accepted" => samplesFailed' = samplesFailed /\ samplesRejected' = samplesRejected
        BY <2>1 DEF Resolves, Adds1
      <4> QED
        BY <3>3, <4>1, <4>2, <4>3, <4>4 DEF Lossy, HasSamples, Outcomes
    <3>8. \A c \in CutIndices : outcome'[c] = IF c = b THEN o ELSE outcome[c]
      BY <3>4, CutBatches DEF Shapes
    <3>9. \A c \in CutIndices : outcome'[c] \in {"rejected", "failed"} /\ HasSamples(c) => Lossy'
      BY <3>7, <3>8 DEF LossInv
    <3>10. reader = "closed" /\ ~stoppedEarly' /\ (\A c \in CutIndices : HasSamples(c)) =>
              AtLimit \/ Position = Len(file) \/ Lossy'
      <4>1. stoppedEarly' = stoppedEarly \/ o # "accepted"
        BY <2>1 DEF Resolves
      <4> QED
        BY <3>3, <3>7, <4>1 DEF LossInv
    <3>11. Position' = Position /\ (AtLimit' <=> AtLimit) /\ file' = file
      BY <3>4 DEF Position, AtLimit
    <3> QED
      BY <3>4, <3>5, <3>6, <3>9, <3>10, <3>11 DEF LossInv
  <2> QED
    BY <1>9, <2>1
<1>10. ASSUME NEW r \in network,
             Process(r)
      PROVE  LossInv'
  <2>1. CASE Process(r)
    <3>1. UNCHANGED <<file, cut, samplesRead, outcome, stoppedEarly, samplesRejected, samplesFailed>>
          /\ (reader' = "closed" => reader = "closed")
      BY <2>1 DEF Process
    <3> QED
      BY <3>1, LossKept
  <2> QED
    BY <1>10, <2>1
<1> QED
  BY <1>1, <1>2, <1>3, <1>4, <1>5, <1>6, <1>7, <1>8, <1>9, <1>10, NextCases

-----------------------------------------------------------------------------
(* What follows from the invariant *)

\* When the workers have exited every batch that was cut is done.
LEMMA AllResolved ==
    ASSUME IInv, Finished
    PROVE  /\ reader = "closed"
           /\ \A b \in Indices : b < Len(cut) => outcome[b] # "none"
<1>1. reader = "closed" /\ jobs = <<>>
  BY TsbsRwAssumption DEF IInv, EndInv, Finished, Shapes
<1>2. Taken = Len(cut)
  BY <1>1, Counts DEF IInv, Sent
<1>3. \A w \in Workers : ~Busy(w)
  BY DEF Finished, Busy
<1> QED
  BY <1>1, <1>2, <1>3 DEF IInv, PlaceInv

\* So it could be encoded.
LEMMA AllAccounted ==
    ASSUME IInv, Finished
    PROVE  Done = CutIndices /\ \A b \in CutIndices : Encoded(b) \in Nat
<1>1. \A b \in CutIndices : b \in Nat /\ b < Len(cut) /\ b \in Indices
  BY Counts, CutBatches DEF IInv, CutIndices
<1>2. Done = CutIndices
  BY <1>1, AllResolved DEF Done
<1>3. \A b \in CutIndices : Encodable(b)
  BY <1>1, AllResolved DEF IInv, PlaceInv, SumInv
<1> QED
  BY <1>2, <1>3, EncodedType DEF IInv

\* What TsbsRw totals is Sum of the table.
LEMMA EncodedTotal ==
    ASSUME IInv, Finished
    PROVE  Total(CutIndices, Encoded) = Sum(EncodedOf, Done)
<1> DEFINE S == CutIndices
           Table(g) ==
              [s \in SUBSET S |-> IF s = {} THEN 0 ELSE Encoded(Pick(s)) + g[s \ {Pick(s)}]]
           t == CHOOSE g : g = Table(g)
<1>1. IsFiniteSet(S) /\ EncodedOf \in [S -> Nat] /\ \A b \in S : EncodedOf[b] = Encoded(b)
  BY AllAccounted, DoneTypes DEF IInv, EncodedOf
<1>2. Total(S, Encoded) = t[S]
  BY DEF Total, MapThenSumSet, MapThenFoldSet, Pick
<1>0. S = Done
  BY AllAccounted
<1> HIDE DEF S
<1>3. \A g : Table(g) = [s \in SUBSET S |->
                            IF s = {} THEN 0 ELSE EncodedOf[Pick(s)] + g[s \ {Pick(s)}]]
  <2>1. \A s \in SUBSET S : s # {} => EncodedOf[Pick(s)] = Encoded(Pick(s))
    BY <1>1 DEF Pick
  <2> QED
    BY <2>1
<1>4. \A g : g = Table(g) <=> Adds(EncodedOf, S, g)
  BY <1>3 DEF Adds
<1>5. Adds(EncodedOf, S, t)
  BY <1>1, <1>4, SumIs
<1>6. t[S] = Sum(EncodedOf, S)
  BY <1>1, <1>5, SumIs
<1> HIDE DEF t
<1> QED
  BY <1>0, <1>2, <1>6 DEF S

\* After exit code 0 nothing was lost, so what has a sample was accepted and is stored.
LEMMA CleanExit == IInv => CleanExitIsWhole
<1> SUFFICES ASSUME IInv, main = "exit0" PROVE CleanExitIsWhole
  BY DEF CleanExitIsWhole
<1>1. Finished /\ ~Lossy
  BY DEF IInv, EndInv, Reported
<1>2. ASSUME NEW b \in CutIndices, HasSamples(b) PROVE copies[b] = 1
  <2>1. b \in Indices /\ b < Len(cut)
    BY Counts, CutBatches DEF IInv, CutIndices
  <2>2. outcome[b] # "none"
    BY <1>1, <2>1, AllResolved
  <2>3. outcome[b] \notin {"rejected", "failed"}
    BY <1>1, <1>2 DEF IInv, LossInv
  <2>4. outcome[b] = "accepted"
    BY <2>1, <2>2, <2>3 DEF IInv, Shapes
  <2> QED
    BY <2>1, <2>4 DEF IInv, EdgeInv
<1>3. reader = "closed"
  BY <1>1, AllResolved
<1>4. ~stoppedEarly /\ (\A b \in CutIndices : HasSamples(b)) => AtLimit \/ Position = Len(file)
  BY <1>1, <1>3 DEF IInv, LossInv
<1> QED
  BY <1>2, <1>4 DEF CleanExitIsWhole

-----------------------------------------------------------------------------

\* The strengthened invariant holds of every reachable state.
THEOREM Invariance == Spec => []IInv
<1>1. IInv /\ [Next]_vars => IInv'
  BY ShapeStep, CutStep, PlaceStep, EdgeStep, EndStep, SumStep, LossStep DEF IInv
<1> QED
  BY <1>1, InitIInv, PTL DEF Spec

\* Every variable has its type, batches partition what was read, and the channel keeps
\* within its capacity.
THEOREM TypeCorrect == Spec => []TypeOK
<1>1. IInv => TypeOK
  <2> SUFFICES ASSUME IInv PROVE TypeOK
    OBVIOUS
  <2>1. \A i \in 1..Len(jobs) : jobs[i] \in CutIndices
    <3> SUFFICES ASSUME NEW i \in 1..Len(jobs) PROVE jobs[i] \in CutIndices
      OBVIOUS
    <3>1. jobs[i] = Taken + i - 1 /\ Taken >= 0
      BY DEF IInv, PlaceInv
    <3>2. /\ Len(cut) \in Nat /\ Len(jobs) \in Nat /\ Sent \in Nat /\ Sent <= Len(cut)
          /\ Taken \in Int /\ Taken = Sent - Len(jobs)
      BY Counts DEF IInv
    <3> QED
      BY <3>1, <3>2 DEF CutIndices
  <2> QED
    BY <2>1 DEF IInv, Shapes, CutInv, TypeOK
<1> QED
  BY <1>1, Invariance, PTL

\* The summary's counters add up to what was encoded, and exit code 0 means that every
\* batch with a sample is stored once, and the whole load unless stopped_early says less:
\* for any file, any number of workers, pods and attempts, whatever answers are lost.
THEOREM ReportTrue == Spec => []ReportIsTrue
<1>1. IInv => SummaryAccounts
  <2> SUFFICES ASSUME IInv, Reported
               PROVE  samplesAccepted + samplesRejected + samplesFailed = Total(CutIndices, Encoded)
    BY DEF SummaryAccounts
  <2>1. Finished
    BY DEF IInv, EndInv
  <2> QED
    BY <2>1, EncodedTotal DEF IInv, SumInv
<1> QED
  BY <1>1, CleanExit, Invariance, PTL DEF ReportIsTrue

\* The load implements the abstract loader: every step offers, stores, resolves or
\* reports a batch, ends the loader, or leaves its state alone.
THEOREM Refinement == Spec => ImplementsBatchLoad
<1>1. Init => Promise!Init
  BY DEF Init, Promise!Init, Reported
<1>2. IInv /\ [Next]_vars => [Promise!Next]_(Promise!vars)
  <2> SUFFICES ASSUME IInv, [Next]_vars PROVE [Promise!Next]_(Promise!vars)
    OBVIOUS
  <2> USE DEF IInv, Reported, readerVars, workerVars, edgeVars, countVars
  <2>1. CASE DeadlinePasses
    BY <2>1 DEF DeadlinePasses, Promise!vars
  <2>2. CASE CutBatch
    <3>1. Len(cut') = Len(cut) + 1
      BY <2>2, AppendProperties DEF CutBatch, Shapes
    <3>2. Len(cut) \in Nat /\ Len(cut) < Len(file)
      BY <2>2, Counts DEF CutBatch, CutInv
    <3>3. Len(cut) \in Indices
      BY <3>2, LongestFile DEF Shapes
    <3>4. main = "run" /\ main' = main /\ copies' = copies /\ outcome' = outcome
      BY <2>2 DEF CutBatch, Up
    <3>5. Promise!Offer
      BY <3>1, <3>3, <3>4 DEF Promise!Offer
    <3> QED
      BY <3>5 DEF Promise!Next
  <2>3. CASE ReaderReturns \/ SendBatch
    BY <2>3 DEF ReaderReturns, SendBatch, Promise!vars
  <2>4. CASE Report
    <3>1. \A b \in 0..Len(cut) - 1 : outcome[b] # "none"
      BY <2>4, AllResolved, Counts, CutInIndices DEF Report
    <3>2. main = "run" /\ main' \in {"exit0", "exit1"} /\ cut' = cut /\ copies' = copies
          /\ outcome' = outcome
      BY <2>4 DEF Report, Up
    <3>3. Promise!Report
      BY <3>1, <3>2 DEF Promise!Report, Promise!Cut
    <3> QED
      BY <3>3 DEF Promise!Next
  <2>5. CASE Dies
    <3>1. main = "run" /\ main' = "fatal" /\ cut' = cut /\ copies' = copies /\ outcome' = outcome
      BY <2>5 DEF Dies, Up
    <3>2. Promise!Die
      BY <3>1 DEF Promise!Die
    <3> QED
      BY <3>2 DEF Promise!Next
  <2>6. CASE UNCHANGED vars
    BY <2>6 DEF vars, Promise!vars
  <2>7. ASSUME NEW w \in Workers,
               TakeBatch(w) \/ ExitWorker(w) \/ Post(w) \/ GivesUp(w) \/ TriesAgain(w)
        PROVE  UNCHANGED Promise!vars
    BY <2>7 DEF TakeBatch, ExitWorker, Post, GivesUp, TriesAgain, Replying, Again, Promise!vars
  <2>8. ASSUME NEW w \in Workers, NEW o \in Outcomes, Resolves(w, o) PROVE Promise!Next
    <3>1. Busy(w)
      BY <2>8 DEF Resolves, Busy
    <3>2. PICK b : b = batch[w]
      OBVIOUS
    <3>3. b \in Indices /\ b \in 0..Len(cut) - 1 /\ outcome[b] = "none"
      BY <3>1, <3>2, HeldBatch DEF CutIndices
    <3>4. o = "accepted" => copies[b] > 0
      BY <2>8, <3>2, <3>3 DEF Resolves, EdgeInv
    <3>5. main = "run" /\ main' = main /\ cut' = cut /\ copies' = copies
          /\ outcome' = [outcome EXCEPT ![b] = o]
      BY <2>8, <3>2 DEF Resolves, Counted, Up
    <3>6. Promise!Resolve(b, o)
      BY <3>3, <3>4, <3>5 DEF Promise!Resolve, Promise!Cut
    <3> QED
      BY <3>3, <3>6 DEF Promise!Next, Outcomes
  <2>9. ASSUME NEW r \in network, Process(r) PROVE [Promise!Next]_(Promise!vars)
    <3> DEFINE b == r.id
    <3>1. b \in Indices /\ b \in 0..Len(cut) - 1 /\ r.target = Pod(b)
      BY Counts, CutInIndices DEF EdgeInv
    <3>2. cut' = cut /\ outcome' = outcome /\ main' = main
      BY <2>9 DEF Process
    <3>3. copies' = [copies EXCEPT ![b] = IF <<Pod(b), b>> \in seen THEN @ ELSE @ + 1]
      BY <2>9, <3>1 DEF Process
    <3> HIDE DEF b
    <3>4. CASE <<Pod(b), b>> \in seen
      <4>1. copies' = copies
        BY <3>1, <3>3, <3>4 DEF Shapes
      <4> QED
        BY <4>1, <3>2 DEF Promise!vars
    <3>5. CASE <<Pod(b), b>> \notin seen
      <4>1. copies[b] = 0
        BY <3>1, <3>5 DEF EdgeInv
      <4>2. copies' = [copies EXCEPT ![b] = @ + 1]
        BY <3>3, <3>5
      <4>3. copies' = [copies EXCEPT ![b] = 1]
        BY <4>1, <4>2
      <4>4. {c \in Indices : copies'[c] > 0} = {c \in Indices : copies[c] > 0} \cup {b}
        BY <4>3, <3>1 DEF Shapes
      <4>5. b \notin {c \in Indices : copies[c] > 0}
        BY <4>1
      <4>6. Promise!Store(b)
        BY <4>4, <4>5, <3>1, <3>2 DEF Promise!Store, Promise!Cut
      <4> QED
        BY <4>6, <3>1 DEF Promise!Next
    <3> QED
      BY <3>4, <3>5
  <2> QED
    BY <2>1, <2>2, <2>3, <2>4, <2>5, <2>6, <2>7, <2>8, <2>9, NextCases
<1> QED
  BY <1>1, <1>2, Invariance, PTL DEF Spec, Promise!Spec, ImplementsBatchLoad

-----------------------------------------------------------------------------
(* stats.recordTs, which the workers call for every line they encode *)

\* A bound that is set is the timestamp of some call.
Witnessed ==
    /\ minTsMs = 0 \/ \E c \in Calls : minTsMs = ts[c]
    /\ maxTsMs = 0 \/ \E c \in Calls : maxTsMs = ts[c]

\* Inductive.  RecordTypeOK's last conjunct is what makes a successful swap move the
\* bound outwards: it compares with the value the call saw, and that value was
\* on the right side of ts[c].
RecordInv == RecordTypeOK /\ NoLostUpdate /\ Witnessed

\* Timestamps are positive: 0 is the bound nobody has set.
LEMMA StampsArePositive == \A s \in Stamps : s \in Nat /\ s > 0
BY StampsAssumption

\* The initial state satisfies the invariant.
LEMMA RecordInitInv == RecordInit => RecordInv
<1> SUFFICES ASSUME RecordInit PROVE RecordInv
  OBVIOUS
<1> QED
  BY StampsArePositive DEF RecordInit, RecordInv, RecordTypeOK, NoLostUpdate, Witnessed

\* Every step of a call preserves the invariant.
LEMMA RecordStepInv == RecordInv /\ [RecordNext]_recordVars => RecordInv'
<1> SUFFICES ASSUME RecordInv, [RecordNext]_recordVars PROVE RecordInv'
  OBVIOUS
<1> USE StampsArePositive DEF RecordInv, RecordTypeOK, NoLostUpdate, Witnessed
<1>1. CASE UNCHANGED recordVars
  BY <1>1 DEF recordVars
<1>2. CASE Returned
  BY <1>2 DEF Returned, recordVars
<1>3. ASSUME NEW c \in Calls, RecordTs(c) PROVE RecordInv'
  <2>1. CASE LoadMin(c)
    BY <2>1 DEF LoadMin, Goto, MinCovers
  <2>2. CASE CasMin(c)
    <3>1. CASE MinUnchanged(c) /\ minTsMs' = ts[c] /\ Goto(c, "casMin", "loadMax")
               /\ UNCHANGED <<ts, cur, maxTsMs>>
      BY <3>1 DEF MinUnchanged, Goto
    <3>2. CASE Goto(c, "casMin", "loadMin") /\ UNCHANGED <<ts, cur, minTsMs, maxTsMs>>
      BY <3>2 DEF Goto
    <3> QED
      BY <2>2, <3>1, <3>2 DEF CasMin
  <2>3. CASE LoadMax(c)
    BY <2>3 DEF LoadMax, Goto
  <2>4. CASE CasMax(c)
    <3>1. CASE MaxUnchanged(c) /\ maxTsMs' = ts[c] /\ Goto(c, "casMax", "done")
               /\ UNCHANGED <<ts, cur, minTsMs>>
      BY <3>1 DEF MaxUnchanged, Goto
    <3>2. CASE RetryMax(c) /\ UNCHANGED <<ts, cur, minTsMs, maxTsMs>>
      BY <3>2 DEF RetryMax, Goto
    <3> QED
      BY <2>4, <3>1, <3>2 DEF CasMax
  <2> QED
    BY <1>3, <2>1, <2>2, <2>3, <2>4 DEF RecordTs
<1> QED
  BY <1>1, <1>2, <1>3 DEF RecordNext

\* The invariant holds in every state.
LEMMA RecordAlways == RecordSpec => []RecordInv
BY RecordInitInv, RecordStepInv, PTL DEF RecordSpec

-----------------------------------------------------------------------------

\* Types, and swaps only ever attempted outwards, for any number of calls.
THEOREM RecordTypeCorrect == RecordSpec => []RecordTypeOK
<1>1. RecordInv => RecordTypeOK
  BY DEF RecordInv
<1> QED
  BY <1>1, RecordAlways, PTL

\* No interleaving of the two compare-and-swap loops loses a timestamp.
THEOREM UpdatesKept == RecordSpec => []NoLostUpdate
<1>1. RecordInv => NoLostUpdate
  BY DEF RecordInv
<1> QED
  BY <1>1, RecordAlways, PTL

\* When every call has returned the two atomics are the exact extremes.
THEOREM ExtremesExact == RecordSpec => []ExactWhenDone
<1>1. ASSUME RecordInv, AllDone, NEW d \in Calls
      PROVE  /\ minTsMs \in {ts[c] : c \in Calls} /\ \A c \in Calls : minTsMs <= ts[c]
             /\ maxTsMs \in {ts[c] : c \in Calls} /\ \A c \in Calls : maxTsMs >= ts[c]
  <2>1. \A c \in Calls : pc[c] = "done" /\ ts[c] \in Nat /\ ts[c] > 0
    BY <1>1, StampsArePositive DEF AllDone, RecordInv, RecordTypeOK
  <2>2. \A c \in Calls : minTsMs # 0 /\ minTsMs <= ts[c] /\ ts[c] <= maxTsMs
    BY <1>1, <2>1 DEF RecordInv, NoLostUpdate
  <2>3. maxTsMs # 0 /\ maxTsMs \in Nat /\ minTsMs # 0
    BY <1>1, <2>1, <2>2 DEF RecordInv, RecordTypeOK
  <2> QED
    BY <1>1, <2>1, <2>2, <2>3 DEF RecordInv, Witnessed, RecordTypeOK
<1>2. RecordInv => ExactWhenDone
  BY <1>1 DEF ExactWhenDone
<1> QED
  BY <1>2, RecordAlways, PTL

\* The recorded interval never shrinks, in any step of any call.
THEOREM IntervalWidens == RecordSpec => OnlyWidens
<1> DEFINE Widens == /\ minTsMs # 0 => minTsMs' # 0 /\ minTsMs' <= minTsMs
                     /\ maxTsMs' >= maxTsMs
<1>1. ASSUME RecordInv, [RecordNext]_recordVars PROVE Widens
  <2> USE <1>1, StampsArePositive DEF RecordInv, RecordTypeOK
  <2>1. CASE UNCHANGED <<minTsMs, maxTsMs>>
    BY <2>1
  <2>2. ASSUME NEW c \in Calls, RecordTs(c) PROVE Widens
    BY <2>2 DEF RecordTs, LoadMin, CasMin, LoadMax, CasMax, MinUnchanged, MaxUnchanged,
                Goto, RetryMax
  <2> QED
    BY <2>1, <2>2 DEF RecordNext, Returned, recordVars
<1>2. RecordInv /\ [RecordNext]_recordVars => [Widens]_recordVars
  BY <1>1
<1> QED
  BY <1>2, RecordAlways, PTL DEF RecordSpec, OnlyWidens

-----------------------------------------------------------------------------
(* Functions with the same values, each as often *)

\* Where f has a value, and a bijection that takes its values to those of g.
Places(f, v) == {i \in DOMAIN f : f[i] = v}
Matches(f, g, p) == p \in Bijection(DOMAIN f, DOMAIN g) /\ \A i \in DOMAIN f : g[p[i]] = f[i]

\* A bijection is one.
LEMMA BijectionIs ==
    ASSUME NEW S, NEW T, NEW p
    PROVE  p \in Bijection(S, T) <=>
              /\ p \in [S -> T]
              /\ \A i, j \in S : p[i] = p[j] => i = j
              /\ \A t \in T : \E i \in S : p[i] = t
BY DEF Bijection, Injection, Surjection, IsInjective

\* What a sequence of lines is sorted to tells how often each is there.
LEMMA SortedIs ==
    ASSUME NEW f
    PROVE  Sorted(f) = [v \in Range(f) |-> Cardinality(Places(f, v))]
BY DEF Sorted, Places

\* Values that are taken to each other are counted alike.
LEMMA MatchCounts ==
    ASSUME NEW f, NEW g, NEW p, IsFiniteSet(DOMAIN f), Matches(f, g, p)
    PROVE  Sorted(f) = Sorted(g)
<1>0. /\ p \in [DOMAIN f -> DOMAIN g]
      /\ \A i, j \in DOMAIN f : p[i] = p[j] => i = j
      /\ \A t \in DOMAIN g : \E i \in DOMAIN f : p[i] = t
      /\ \A i \in DOMAIN f : g[p[i]] = f[i]
  BY BijectionIs DEF Matches
<1>1. Range(f) = Range(g)
  BY <1>0 DEF Range
<1>2. ASSUME NEW v PROVE Cardinality(Places(f, v)) = Cardinality(Places(g, v))
  <2> DEFINE S == Places(f, v)
             T == Places(g, v)
             q == [i \in S |-> p[i]]
  <2>1. S \subseteq DOMAIN f /\ IsFiniteSet(S)
    BY FS_Subset DEF Places
  <2>2. q \in [S -> T]
    BY <1>0 DEF Places
  <2>3. \A i, j \in S : q[i] = q[j] => i = j
    BY <1>0, <2>1
  <2>4. \A t \in T : \E i \in S : q[i] = t
    BY <1>0 DEF Places
  <2> HIDE DEF S, T, q
  <2>5. q \in Bijection(S, T)
    BY <2>2, <2>3, <2>4, BijectionIs
  <2>6. ExistsBijection(S, T)
    BY <2>5 DEF ExistsBijection
  <2> QED
    BY <2>1, <2>6, FS_Bijection DEF S, T
<1> QED
  BY <1>1, <1>2, SortedIs

\* And values that are counted alike can be taken to each other.
LEMMA CountsMatch ==
    ASSUME NEW f, NEW g, IsFiniteSet(DOMAIN f), IsFiniteSet(DOMAIN g), Sorted(f) = Sorted(g)
    PROVE  \E p : Matches(f, g, p)
<1>1. Range(f) = Range(g)
      /\ \A v \in Range(f) : Cardinality(Places(f, v)) = Cardinality(Places(g, v))
  <2>1. PICK F, G : F = Sorted(f) /\ G = Sorted(g)
    OBVIOUS
  <2>2. F = [v \in Range(f) |-> Cardinality(Places(f, v))]
        /\ G = [v \in Range(g) |-> Cardinality(Places(g, v))] /\ F = G
    BY <2>1, SortedIs
  <2>3. DOMAIN F = Range(f) /\ DOMAIN G = Range(g)
    BY <2>2
  <2>4. Range(f) = Range(g)
    BY <2>2, <2>3
  <2> QED
    BY <2>2, <2>4
<1>2. \A v : IsFiniteSet(Places(f, v)) /\ IsFiniteSet(Places(g, v))
  BY FS_Subset DEF Places
<1> DEFINE Way(v) == CHOOSE q : q \in Bijection(Places(f, v), Places(g, v))
           p == [i \in DOMAIN f |-> Way(f[i])[i]]
<1>3. ASSUME NEW v \in Range(f)
      PROVE  /\ Way(v) \in [Places(f, v) -> Places(g, v)]
             /\ \A i, j \in Places(f, v) : Way(v)[i] = Way(v)[j] => i = j
             /\ \A t \in Places(g, v) : \E i \in Places(f, v) : Way(v)[i] = t
  <2>1. ExistsBijection(Places(f, v), Places(g, v))
    BY <1>1, <1>2, FS_SameCardinalityBij
  <2>2. \E q : q \in Bijection(Places(f, v), Places(g, v))
    BY <2>1 DEF ExistsBijection
  <2>3. Way(v) \in Bijection(Places(f, v), Places(g, v))
    BY <2>2
  <2> HIDE DEF Way
  <2> QED
    BY <2>3, BijectionIs
<1> HIDE DEF Way
<1>4. \A i \in DOMAIN f : f[i] \in Range(f) /\ i \in Places(f, f[i]) /\ p[i] = Way(f[i])[i]
  BY DEF Range, Places
<1>5. ASSUME NEW i \in DOMAIN f PROVE p[i] \in DOMAIN g /\ g[p[i]] = f[i]
  <2>1. PICK v : v = f[i]
    OBVIOUS
  <2>2. v \in Range(f) /\ i \in Places(f, v) /\ p[i] = Way(v)[i]
    BY <1>4, <2>1
  <2>3. Way(v)[i] \in Places(g, v)
    BY <1>3, <2>2
  <2> HIDE DEF p
  <2> QED
    BY <2>1, <2>2, <2>3 DEF Places
<1>6. \A i, j \in DOMAIN f : p[i] = p[j] => i = j
  <2> SUFFICES ASSUME NEW i \in DOMAIN f, NEW j \in DOMAIN f, p[i] = p[j] PROVE i = j
    OBVIOUS
  <2>1. f[i] = f[j]
    BY <1>5
  <2> HIDE DEF p
  <2> QED
    BY <1>3, <1>4, <2>1
<1>7. \A t \in DOMAIN g : \E i \in DOMAIN f : p[i] = t
  <2> SUFFICES ASSUME NEW t \in DOMAIN g PROVE \E i \in DOMAIN f : p[i] = t
    OBVIOUS
  <2>1. g[t] \in Range(f) /\ t \in Places(g, g[t])
    BY <1>1 DEF Range, Places
  <2>2. PICK i \in Places(f, g[t]) : Way(g[t])[i] = t
    BY <1>3, <2>1
  <2>3. i \in DOMAIN f /\ f[i] = g[t]
    BY <2>2 DEF Places
  <2> HIDE DEF p
  <2> QED
    BY <1>4, <2>2, <2>3
<1>8. p \in [DOMAIN f -> DOMAIN g]
  BY <1>5
<1> HIDE DEF p
<1>9. p \in Bijection(DOMAIN f, DOMAIN g)
  BY <1>6, <1>7, <1>8, BijectionIs
<1> QED
  BY <1>5, <1>9 DEF Matches

\* Numbers that are taken to each other have the same sum.
LEMMA MatchSums ==
    ASSUME NEW S, IsFiniteSet(S), NEW T, NEW F \in [S -> Nat], NEW G \in [T -> Nat],
           NEW p, Matches(F, G, p)
    PROVE  Sum(F, S) = Sum(G, T)
<1> DEFINE To(s) == {p[i] : i \in s}
           Left(s) == Sum([y \in s |-> F[y]], s)
           Right(s) == Sum([y \in To(s) |-> G[y]], To(s))
           Z == {s \in SUBSET S : Left(s) = Right(s)}
<1>0. /\ p \in [S -> T] /\ \A i, j \in S : p[i] = p[j] => i = j
      /\ \A t \in T : \E i \in S : p[i] = t
      /\ \A i \in S : G[p[i]] = F[i]
  <2>1. DOMAIN F = S /\ DOMAIN G = T
    OBVIOUS
  <2> QED
    BY <2>1, BijectionIs DEF Matches
<1>1. {} \in Z
  <2>1. To({}) = {}
    OBVIOUS
  <2> HIDE DEF To
  <2> QED
    BY <2>1, SumEmpty
<1>2. ASSUME NEW s \in SUBSET S, s # {}, \A x \in s : s \ {x} \in Z PROVE s \in Z
  <2>1. PICK x \in s : TRUE
    BY <1>2
  <2>2. PICK u : u = s \ {x}
    OBVIOUS
  <2>3. Left(u) = Right(u)
    BY <1>2, <2>2
  <2>4. Left(s) = F[x] + Left(u)
    <3>1. PICK f : f = [y \in s |-> F[y]]
      OBVIOUS
    <3>2. IsFiniteSet(s) /\ f \in [s -> Nat] /\ f[x] = F[x]
      BY <3>1, FS_Subset
    <3>3. [y \in s \ {x} |-> f[y]] = [y \in u |-> F[y]]
      BY <2>2, <3>1
    <3>4. Sum(f, s) = f[x] + Sum([y \in s \ {x} |-> f[y]], s \ {x})
      BY ONLY <3>2, <2>1, SumSplit
    <3> QED
      BY <2>2, <3>1, <3>2, <3>3, <3>4
  <2>5. Right(s) = G[p[x]] + Right(u)
    <3>1. PICK g : g = [y \in To(s) |-> G[y]]
      OBVIOUS
    <3>2. To(s) \subseteq T /\ p[x] \in To(s) /\ To(u) = To(s) \ {p[x]}
      BY <1>0, <2>1, <2>2
    <3>3. IsFiniteSet(T)
      <4>1. p \in Bijection(S, T)
        BY <1>0, BijectionIs
      <4> QED
        BY <4>1, FS_Bijection DEF ExistsBijection
    <3>4. IsFiniteSet(To(s)) /\ g \in [To(s) -> Nat] /\ g[p[x]] = G[p[x]]
      BY <3>1, <3>2, <3>3, FS_Subset
    <3> HIDE DEF To
    <3>5. [y \in To(s) \ {p[x]} |-> g[y]] = [y \in To(u) |-> G[y]]
      BY <3>1, <3>2
    <3>6. Sum(g, To(s)) = g[p[x]] + Sum([y \in To(s) \ {p[x]} |-> g[y]], To(s) \ {p[x]})
      BY ONLY <3>2, <3>4, SumSplit
    <3> QED
      BY <3>1, <3>2, <3>4, <3>5, <3>6
  <2>6. G[p[x]] = F[x]
    BY <1>0, <2>1
  <2> HIDE DEF Left, Right
  <2> QED
    BY <2>3, <2>4, <2>5, <2>6
<1> HIDE DEF Z
<1>3. S \in Z
  BY <1>1, <1>2, SubsetsInduct
<1>4. To(S) = T /\ [y \in S |-> F[y]] = F /\ [y \in T |-> G[y]] = G
  BY <1>0
<1> HIDE DEF To
<1> QED
  BY <1>3, <1>4 DEF Z

-----------------------------------------------------------------------------
(* Digests *)

\* What the proofs need to know of an answer, parsed or not.
IsAnswer(a) == a.result \in Seq(Series)

\* The lines digest() sorts, and how many points each has.
SeriesLines(a) == [i \in DOMAIN a.result |-> LineOf(a.result[i])]
PointCounts(a) == [i \in DOMAIN a.result |-> Len(LineOf(a.result[i]).points)]
DigestOf(a) ==
    IF a.status # "success" THEN [status |-> a.status, error |-> a.type]
    ELSE [status |-> a.status, series |-> Len(SeriesLines(a)),
          points |-> FoldSeq(LAMBDA line, sum : Len(line.points) + sum, 0, SeriesLines(a)),
          sha256 |-> <<a.type, Sorted(SeriesLines(a))>>]

\* A digest is that of the parsed answer.
LEMMA DigestIs == \A body : Digest(body) = DigestOf(Parsed(body))
BY DEF Digest, DigestOf, SeriesLines

\* A series has a sequence of points.
LEMMA PointsType ==
    ASSUME NEW s \in Series
    PROVE  /\ Points(s) \in Samples /\ Len(Points(s)) \in Nat
           /\ DOMAIN Points(s) = 1..Len(Points(s))
<1>1. Points(s) \in Samples
  BY DEF Points, Series
<1> QED
  BY <1>1, LenProperties DEF Samples

\* Lines are equal when labels, times and rounded values are, and no less.
LEMMA LineSame ==
    ASSUME NEW s \in Series, NEW r \in Series
    PROVE  LineOf(s) = LineOf(r) <=>
              /\ s.labels = r.labels /\ Len(Points(s)) = Len(Points(r))
              /\ \A j \in DOMAIN Points(s) :
                    /\ Points(s)[j].t = Points(r)[j].t
                    /\ Rounded(Points(s)[j].v) = Rounded(Points(r)[j].v)
<1>1. PICK P, R : P = Points(s) /\ R = Points(r)
  OBVIOUS
<1>2. Len(P) \in Nat /\ Len(R) \in Nat /\ DOMAIN P = 1..Len(P) /\ DOMAIN R = 1..Len(R)
  BY <1>1, PointsType
<1>3. PICK p, q : /\ p = [i \in DOMAIN P |-> <<P[i].t, Rounded(P[i].v)>>]
                  /\ q = [i \in DOMAIN R |-> <<R[i].t, Rounded(R[i].v)>>]
  OBVIOUS
<1>4. LineOf(s) = [labels |-> s.labels, points |-> p]
      /\ LineOf(r) = [labels |-> r.labels, points |-> q]
  BY <1>1, <1>3 DEF LineOf
<1>5. LineOf(s) = LineOf(r) <=> s.labels = r.labels /\ p = q
  BY <1>4
<1>6. ASSUME p = q
      PROVE  Len(P) = Len(R) /\ \A j \in DOMAIN P : P[j].t = R[j].t /\ Rounded(P[j].v) = Rounded(R[j].v)
  <2>1. DOMAIN p = DOMAIN P /\ DOMAIN q = DOMAIN R
    BY <1>3
  <2>2. 1..Len(P) = 1..Len(R)
    BY <1>2, <1>6, <2>1
  <2>3. Len(P) = Len(R)
    <3>1. PICK m \in Nat, n \in Nat : m = Len(P) /\ n = Len(R)
      BY <1>2
    <3>2. \A i \in Nat \ {0} : i <= m <=> i <= n
      BY <2>2, <3>1
    <3>3. (m # 0 => m <= n) /\ (n # 0 => n <= m)
      BY <3>1, <3>2
    <3> QED
      BY <3>1, <3>3
  <2>4. ASSUME NEW j \in DOMAIN P PROVE P[j].t = R[j].t /\ Rounded(P[j].v) = Rounded(R[j].v)
    <3>1. p[j] = <<P[j].t, Rounded(P[j].v)>> /\ q[j] = <<R[j].t, Rounded(R[j].v)>>
      BY <1>2, <1>3, <2>3
    <3> QED
      BY <1>6, <3>1
  <2> QED
    BY <2>3, <2>4
<1>7. ASSUME Len(P) = Len(R), \A j \in DOMAIN P : P[j].t = R[j].t /\ Rounded(P[j].v) = Rounded(R[j].v)
      PROVE  p = q
  BY <1>2, <1>3, <1>7
<1> QED
  BY <1>1, <1>5, <1>6, <1>7

\* An answer has finitely many series, as many as lines.
LEMMA SeriesTypes ==
    ASSUME NEW a, IsAnswer(a)
    PROVE  /\ Len(a.result) \in Nat /\ DOMAIN a.result = 1..Len(a.result)
           /\ \A i \in DOMAIN a.result : a.result[i] \in Series
           /\ DOMAIN SeriesLines(a) = DOMAIN a.result /\ IsFiniteSet(DOMAIN a.result)
           /\ Len(SeriesLines(a)) = Len(a.result)
           /\ PointCounts(a) \in [DOMAIN a.result -> Nat]
<1>1. a.result \in Seq(Series)
  BY DEF IsAnswer
<1>2. Len(a.result) \in Nat /\ DOMAIN a.result = 1..Len(a.result) /\ a.result \in [1..Len(a.result) -> Series]
  BY <1>1, LenProperties
<1>3. PICK n \in Nat : n = Len(a.result)
  BY <1>2
<1>4. IsFiniteSet(1..n)
  BY FS_Interval
<1>5. Len(SeriesLines(a)) = n
  <2>1. SeriesLines(a) = [i \in 1..n |-> LineOf(a.result[i])]
    BY <1>2, <1>3 DEF SeriesLines
  <2> QED
    BY <2>1
<1>6. ASSUME NEW s \in Series PROVE Len(LineOf(s).points) \in Nat
  <2>1. PICK k \in Nat : k = Len(Points(s)) /\ DOMAIN Points(s) = 1..k
    BY PointsType
  <2>2. LineOf(s).points = [i \in 1..k |-> <<Points(s)[i].t, Rounded(Points(s)[i].v)>>]
    BY <2>1 DEF LineOf
  <2>3. Len(LineOf(s).points) = k
    BY <2>2
  <2> QED
    BY <2>3
<1>7. PointCounts(a) \in [DOMAIN a.result -> Nat]
  BY <1>2, <1>6 DEF PointCounts
<1>8. DOMAIN SeriesLines(a) = DOMAIN a.result
  BY DEF SeriesLines
<1> QED
  BY <1>2, <1>3, <1>4, <1>5, <1>7, <1>8

\* The points of a digest are the sum over its series.
LEMMA FoldIs ==
    ASSUME NEW a, IsAnswer(a)
    PROVE  FoldSeq(LAMBDA line, sum : Len(line.points) + sum, 0, SeriesLines(a))
              = Sum(PointCounts(a), DOMAIN a.result)
<1> DEFINE S == DOMAIN a.result
           Term(i) == Len(SeriesLines(a)[i].points)
           Table(g) ==
              [s \in SUBSET S |-> IF s = {} THEN 0 ELSE Term(Pick(s)) + g[s \ {Pick(s)}]]
           t == CHOOSE g : g = Table(g)
<1>1. IsFiniteSet(S) /\ PointCounts(a) \in [S -> Nat] /\ \A i \in S : PointCounts(a)[i] = Term(i)
  BY SeriesTypes DEF PointCounts, SeriesLines
<1>2. FoldSeq(LAMBDA line, sum : Len(line.points) + sum, 0, SeriesLines(a)) = t[S]
  <2>1. DOMAIN SeriesLines(a) = S
    BY SeriesTypes
  <2> QED
    BY <2>1 DEF FoldSeq, FoldFunction, FoldFunctionOnSet, MapThenFoldSet, Pick
<1> HIDE DEF Term, S
<1>3. \A g : Table(g) = [s \in SUBSET S |->
                            IF s = {} THEN 0 ELSE PointCounts(a)[Pick(s)] + g[s \ {Pick(s)}]]
  <2>1. \A s \in SUBSET S : s # {} => PointCounts(a)[Pick(s)] = Term(Pick(s))
    BY <1>1 DEF Pick
  <2> QED
    BY <2>1
<1>4. \A g : g = Table(g) <=> Adds(PointCounts(a), S, g)
  BY <1>3 DEF Adds
<1>5. Adds(PointCounts(a), S, t)
  BY <1>1, <1>4, SumIs
<1>6. t[S] = Sum(PointCounts(a), S)
  BY <1>1, <1>5, SumIs
<1> HIDE DEF t
<1> QED
  BY <1>2, <1>6 DEF S

\* Answers agree when their lines can be taken to each other.
LEMMA SameMatch ==
    ASSUME NEW x, IsAnswer(x), NEW y, IsAnswer(y)
    PROVE  Same(x, y) <=> /\ x.status = y.status /\ x.type = y.type
                          /\ Len(x.result) = Len(y.result)
                          /\ \E p : Matches(SeriesLines(x), SeriesLines(y), p)
<1> DEFINE Fits(p) == \A i \in DOMAIN x.result :
              LET s == x.result[i]
                  r == y.result[p[i]]
              IN  /\ s.labels = r.labels /\ Len(Points(s)) = Len(Points(r))
                  /\ \A j \in DOMAIN Points(s) :
                      /\ Points(s)[j].t = Points(r)[j].t
                      /\ Rounded(Points(s)[j].v) = Rounded(Points(r)[j].v)
<1>1. ASSUME NEW p \in Bijection(DOMAIN x.result, DOMAIN y.result)
      PROVE  Fits(p) <=> Matches(SeriesLines(x), SeriesLines(y), p)
  <2>1. p \in [DOMAIN x.result -> DOMAIN y.result]
    BY BijectionIs
  <2>2. ASSUME NEW i \in DOMAIN x.result
        PROVE  /\ x.result[i] \in Series /\ y.result[p[i]] \in Series
               /\ SeriesLines(x)[i] = LineOf(x.result[i])
               /\ SeriesLines(y)[p[i]] = LineOf(y.result[p[i]])
    BY <2>1, SeriesTypes DEF SeriesLines
  <2>3. Fits(p) <=> \A i \in DOMAIN x.result : LineOf(x.result[i]) = LineOf(y.result[p[i]])
    BY <2>2, LineSame
  <2>4. DOMAIN SeriesLines(x) = DOMAIN x.result /\ DOMAIN SeriesLines(y) = DOMAIN y.result
    BY SeriesTypes
  <2> HIDE DEF Fits
  <2> QED
    BY <2>2, <2>3, <2>4 DEF Matches
<1>2. ASSUME NEW p, Matches(SeriesLines(x), SeriesLines(y), p)
      PROVE  p \in Bijection(DOMAIN x.result, DOMAIN y.result)
  BY <1>2, SeriesTypes DEF Matches
<1>3. Same(x, y) <=> /\ x.status = y.status /\ x.type = y.type
                     /\ Len(x.result) = Len(y.result)
                     /\ \E p \in Bijection(DOMAIN x.result, DOMAIN y.result) : Fits(p)
  BY DEF Same
<1> HIDE DEF Fits
<1> QED
  BY <1>1, <1>2, <1>3

\* Successful answers have the same digest exactly when they agree.
LEMMA DigestSame ==
    ASSUME NEW x, IsAnswer(x), NEW y, IsAnswer(y), x.status = "success", y.status = "success"
    PROVE  DigestOf(x) = DigestOf(y) <=> Same(x, y)
<1>1. DigestOf(x) = DigestOf(y) <=>
         /\ Len(SeriesLines(x)) = Len(SeriesLines(y))
         /\ Sum(PointCounts(x), DOMAIN x.result) = Sum(PointCounts(y), DOMAIN y.result)
         /\ x.type = y.type /\ Sorted(SeriesLines(x)) = Sorted(SeriesLines(y))
  <2>1. ASSUME NEW a, IsAnswer(a), a.status = "success"
        PROVE  DigestOf(a) = [status |-> "success", series |-> Len(SeriesLines(a)),
                              points |-> Sum(PointCounts(a), DOMAIN a.result),
                              sha256 |-> <<a.type, Sorted(SeriesLines(a))>>]
    BY <2>1, FoldIs DEF DigestOf
  <2>2. PICK m, n, u, v, f, g :
           /\ m = Len(SeriesLines(x)) /\ n = Len(SeriesLines(y))
           /\ u = Sum(PointCounts(x), DOMAIN x.result) /\ v = Sum(PointCounts(y), DOMAIN y.result)
           /\ f = <<x.type, Sorted(SeriesLines(x))>> /\ g = <<y.type, Sorted(SeriesLines(y))>>
    OBVIOUS
  <2>3. /\ DigestOf(x) = [status |-> "success", series |-> m, points |-> u, sha256 |-> f]
        /\ DigestOf(y) = [status |-> "success", series |-> n, points |-> v, sha256 |-> g]
    BY <2>1, <2>2
  <2>4. DigestOf(x) = DigestOf(y) <=> m = n /\ u = v /\ f = g
    BY ONLY <2>3
  <2>5. f = g <=> x.type = y.type /\ Sorted(SeriesLines(x)) = Sorted(SeriesLines(y))
    BY ONLY <2>2
  <2> QED
    BY ONLY <2>2, <2>4, <2>5
<1>2. Len(SeriesLines(x)) = Len(x.result) /\ Len(SeriesLines(y)) = Len(y.result)
      /\ IsFiniteSet(DOMAIN SeriesLines(x)) /\ IsFiniteSet(DOMAIN SeriesLines(y))
  BY SeriesTypes
<1>3. ASSUME Sorted(SeriesLines(x)) = Sorted(SeriesLines(y))
      PROVE  \E p : Matches(SeriesLines(x), SeriesLines(y), p)
  BY <1>2, <1>3, CountsMatch
<1>4. ASSUME NEW p, Matches(SeriesLines(x), SeriesLines(y), p)
      PROVE  /\ Sorted(SeriesLines(x)) = Sorted(SeriesLines(y))
             /\ Sum(PointCounts(x), DOMAIN x.result) = Sum(PointCounts(y), DOMAIN y.result)
  <2>1. Sorted(SeriesLines(x)) = Sorted(SeriesLines(y))
    BY <1>2, <1>4, MatchCounts
  <2>2. PICK S, T, F, G : /\ S = DOMAIN x.result /\ T = DOMAIN y.result
                          /\ F = PointCounts(x) /\ G = PointCounts(y)
    OBVIOUS
  <2>3. F \in [S -> Nat] /\ G \in [T -> Nat] /\ IsFiniteSet(S)
    BY <2>2, SeriesTypes
  <2>4. Matches(F, G, p)
    <3>1. DOMAIN F = S /\ DOMAIN G = T /\ p \in Bijection(S, T)
          /\ \A i \in S : SeriesLines(y)[p[i]] = SeriesLines(x)[i]
      BY <1>4, <2>2, <2>3, SeriesTypes DEF Matches
    <3>2. p \in [S -> T]
      BY <3>1, BijectionIs
    <3>3. \A i \in S : F[i] = Len(SeriesLines(x)[i].points)
      BY <2>2 DEF PointCounts, SeriesLines
    <3>4. \A i \in T : G[i] = Len(SeriesLines(y)[i].points)
      BY <2>2 DEF PointCounts, SeriesLines
    <3>5. \A i \in S : G[p[i]] = F[i]
      BY <3>1, <3>2, <3>3, <3>4
    <3> QED
      BY <3>1, <3>5 DEF Matches
  <2>5. Sum(F, S) = Sum(G, T)
    BY <2>3, <2>4, MatchSums
  <2> QED
    BY <2>1, <2>2, <2>5
<1>5. Same(x, y) <=> /\ x.type = y.type /\ Len(x.result) = Len(y.result)
                     /\ \E p : Matches(SeriesLines(x), SeriesLines(y), p)
  BY SameMatch
<1> QED
  BY <1>1, <1>2, <1>3, <1>4, <1>5

-----------------------------------------------------------------------------
(* What a build printed of a query *)

LineType == [id : Nat, answer : AnswerType, part : STRING]

\* The parts of a query in the first n lines of an output, for each n, and in all of it.
Growing(s, id, f) ==
    [n \in 0..Len(s) |-> IF n = 0 THEN <<>>
                         ELSE IF s[n].id = id THEN Append(f[n - 1], s[n]) ELSE f[n - 1]]
UpTo(s, id) == CHOOSE f : f = Growing(s, id, f)
AnswerOf(s, id) == Parsed(UpTo(s, id)[Len(s)])

\* The queries in the first n lines, and in all of them.
IdsUpTo(s, n) == {s[i].id : i \in 1..n} \ {NoId}
IdsOf(s) == IdsUpTo(s, Len(s))

\* There is a function that grows so: by induction on the lines it covers.
LEMMA GrowingExists ==
    ASSUME NEW s \in Seq(LineType), NEW id
    PROVE  \E f : f = Growing(s, id, f)
<1> DEFINE Step(f, m) ==
              IF m = 0 THEN <<>> ELSE IF s[m].id = id THEN Append(f[m - 1], s[m]) ELSE f[m - 1]
           Fits(n, f) == \A m \in 0..n : f[m] = Step(f, m)
           N == {n \in Nat : \E f : Fits(n, f)}
<1>1. 0 \in N
  <2>1. Fits(0, [m \in 0..0 |-> <<>>])
    OBVIOUS
  <2> HIDE DEF Fits
  <2> QED
    BY <2>1
<1>2. ASSUME NEW n \in Nat, n \in N PROVE n + 1 \in N
  <2>1. PICK f : Fits(n, f)
    BY <1>2
  <2> DEFINE h == [m \in 0..n + 1 |-> Step(f, m)]
  <2>2. ASSUME NEW m \in 0..n + 1 PROVE h[m] = Step(h, m)
    <3>1. h[m] = Step(f, m)
      OBVIOUS
    <3>2. CASE m = 0
      BY <3>1, <3>2
    <3>3. CASE m # 0
      <4>1. m - 1 \in 0..n /\ m - 1 \in 0..n + 1
        BY <3>3
      <4>2. h[m - 1] = Step(f, m - 1) /\ f[m - 1] = Step(f, m - 1)
        BY <2>1, <4>1
      <4>3. h[m - 1] = f[m - 1]
        BY <4>2
      <4> HIDE DEF h
      <4> QED
        BY <3>1, <3>3, <4>3
    <3> QED
      BY <3>2, <3>3
  <2>3. Fits(n + 1, h)
    BY <2>2
  <2> HIDE DEF Fits, h
  <2> QED
    BY <2>3
<1> HIDE DEF N
<1>3. Len(s) \in Nat /\ Len(s) \in N
  <2>1. Nat \subseteq N
    BY <1>1, <1>2, NatInduct
  <2>2. Len(s) \in Nat
    BY LenProperties
  <2> QED
    BY <2>1, <2>2
<1>4. PICK f : Fits(Len(s), f)
  BY <1>3 DEF N
<1>5. PICK h : h = [m \in 0..Len(s) |-> f[m]]
  OBVIOUS
<1>6. ASSUME NEW m \in 0..Len(s) PROVE h[m] = Step(h, m)
  <2>1. h[m] = Step(f, m)
    BY <1>4, <1>5
  <2>2. m # 0 => h[m - 1] = f[m - 1]
    <3>1. m # 0 => m - 1 \in 0..Len(s)
      BY <1>3
    <3> QED
      BY <1>5, <3>1
  <2> QED
    BY <2>1, <2>2
<1>7. h = [m \in 0..Len(s) |-> Step(h, m)]
  BY <1>5, <1>6
<1>8. h = Growing(s, id, h)
  BY <1>7 DEF Growing
<1> QED
  BY <1>8

\* What it is of no line, and of one line more.
LEMMA UpToIs ==
    ASSUME NEW s \in Seq(LineType), NEW id
    PROVE  /\ UpTo(s, id)[0] = <<>>
           /\ \A n \in Nat : n < Len(s) =>
                 UpTo(s, id)[n + 1] = IF s[n + 1].id = id THEN Append(UpTo(s, id)[n], s[n + 1])
                                      ELSE UpTo(s, id)[n]
<1>1. UpTo(s, id) = Growing(s, id, UpTo(s, id))
  BY GrowingExists DEF UpTo
<1>2. PICK f : f = UpTo(s, id)
  OBVIOUS
<1>3. f = Growing(s, id, f) /\ Len(s) \in Nat
  BY <1>1, <1>2, LenProperties
<1>4. ASSUME NEW n \in 0..Len(s)
      PROVE  f[n] = IF n = 0 THEN <<>>
                    ELSE IF s[n].id = id THEN Append(f[n - 1], s[n]) ELSE f[n - 1]
  BY <1>3 DEF Growing
<1>5. f[0] = <<>>
  BY <1>3, <1>4
<1>6. ASSUME NEW n \in Nat, n < Len(s)
      PROVE  f[n + 1] = IF s[n + 1].id = id THEN Append(f[n], s[n + 1]) ELSE f[n]
  <2>1. n + 1 \in 0..Len(s) /\ n + 1 # 0 /\ (n + 1) - 1 = n
    BY <1>3, <1>6
  <2> QED
    BY <1>4, <2>1
<1> QED
  BY <1>2, <1>5, <1>6

\* It is made of lines, and empty as long as no line is of the query.
LEMMA UpToType ==
    ASSUME NEW s \in Seq(LineType), NEW id
    PROVE  \A n \in 0..Len(s) :
              /\ UpTo(s, id)[n] \in Seq(LineType)
              /\ (\A i \in 1..n : s[i].id # id) => UpTo(s, id)[n] = <<>>
<1>1. PICK f : f = UpTo(s, id)
  OBVIOUS
<1>2. f[0] = <<>> /\ \A n \in Nat : n < Len(s) =>
         f[n + 1] = IF s[n + 1].id = id THEN Append(f[n], s[n + 1]) ELSE f[n]
  BY <1>1, UpToIs
<1>3. Len(s) \in Nat /\ \A i \in 1..Len(s) : s[i] \in LineType
  BY LenProperties
<1> DEFINE Good(n) == /\ f[n] \in Seq(LineType)
                      /\ (\A i \in 1..n : s[i].id # id) => f[n] = <<>>
           T == {n \in Nat : n <= Len(s) => Good(n)}
<1>4. 0 \in T
  <2>1. <<>> \in Seq(LineType)
    OBVIOUS
  <2> QED
    BY <1>2, <2>1
<1>5. ASSUME NEW n \in Nat, n \in T PROVE n + 1 \in T
  <2> SUFFICES ASSUME n + 1 <= Len(s) PROVE Good(n + 1)
    OBVIOUS
  <2>1. n < Len(s) /\ n + 1 \in 1..Len(s) /\ s[n + 1] \in LineType
    BY <1>3
  <2>2. Good(n)
    BY <1>3, <1>5, <2>1
  <2>3. f[n + 1] = IF s[n + 1].id = id THEN Append(f[n], s[n + 1]) ELSE f[n]
    BY <1>2, <2>1
  <2>4. f[n + 1] \in Seq(LineType)
    <3>1. f[n] \in Seq(LineType)
      BY <2>2
    <3>2. Append(f[n], s[n + 1]) \in Seq(LineType)
      BY <2>1, <3>1, AppendProperties
    <3> QED
      BY <2>3, <3>1, <3>2
  <2>5. ASSUME \A i \in 1..n + 1 : s[i].id # id PROVE f[n + 1] = <<>>
    <3>1. n + 1 \in 1..n + 1 /\ \A i \in 1..n : i \in 1..n + 1
      OBVIOUS
    <3>2. s[n + 1].id # id /\ \A i \in 1..n : s[i].id # id
      BY <2>5, <3>1
    <3>3. f[n] = <<>>
      BY <2>2, <3>2
    <3> QED
      BY <2>3, <3>2, <3>3
  <2> QED
    BY <2>4, <2>5
<1> HIDE DEF T
<1>6. Nat \subseteq T
  BY <1>4, <1>5, NatInduct
<1>7. \A n \in 0..Len(s) : Good(n)
  BY <1>3, <1>6 DEF T
<1> QED
  BY <1>1, <1>7

\* A body is parsed to an answer, if only to the unparsed one.
LEMMA ParsedType ==
    ASSUME NEW body \in Seq(LineType)
    PROVE  IsAnswer(Parsed(body))
<1>1. CASE Parsed(body) = Unparsed
  <2>1. Unparsed.result = <<>>
    BY DEF Unparsed
  <2>2. Unparsed.result \in Seq(Series)
    BY <2>1
  <2> QED
    BY <1>1, <2>2 DEF IsAnswer
<1>2. CASE Parsed(body) # Unparsed
  <2>1. Parsed(body) = body[1].answer /\ (Len(body) = 1 \/ Len(body) = 2)
    BY <1>2 DEF Parsed
  <2>2. body[1] \in LineType
    BY <2>1, LenProperties
  <2> QED
    BY <2>1, <2>2 DEF LineType, AnswerType, IsAnswer
<1> QED
  BY <1>1, <1>2

\* So is what a build printed.
LEMMA AnswerOfType ==
    ASSUME NEW s \in Seq(LineType), NEW id
    PROVE  IsAnswer(AnswerOf(s, id))
<1>1. Len(s) \in Nat
  BY LenProperties
<1>2. UpTo(s, id)[Len(s)] \in Seq(LineType)
  BY <1>1, UpToType
<1> QED
  BY <1>2, ParsedType DEF AnswerOf

-----------------------------------------------------------------------------
(* Verdicts *)

\* Builds agree that printed the same answers, and what a verdict promises of them.
Agree(s, t) ==
    IdsOf(s) = IdsOf(t) /\ \A id \in IdsOf(s) : Same(AnswerOf(s, id), AnswerOf(t, id))
Right(v, k, o) ==
    /\ v = "identical" => \A b, c \in Builds : Agree(o[b], o[c])
    /\ v = "differ" /\ (\A b \in Builds : k[b] = "digest") =>
            \E b, c \in Builds : ~Agree(o[b], o[c])
    /\ v = "no answer" => \E b \in Builds : IdsOf(o[b]) = {}
    /\ v \notin {"none", "no answer"} => \A b \in Builds : IdsOf(o[b]) # {}
    /\ v = "refused" =>
            \E b \in Builds : \E id \in IdsOf(o[b]) : AnswerOf(o[b], id).status # "success"

\* What has been read of an output is what bodies holds.
ReadInv ==
    /\ kept \in [Builds -> {"digest", "text"}] /\ output \in [Builds -> Seq(LineType)]
    /\ read \in [Builds -> Nat] /\ \A b \in Builds : read[b] <= Len(output[b])
    /\ bodies = [b \in Builds |-> bodies[b]]
    /\ \A b \in Builds : DOMAIN bodies[b] = IdsUpTo(output[b], read[b])
    /\ \A b \in Builds : \A id \in DOMAIN bodies[b] :
          bodies[b][id] = UpTo(output[b], id)[read[b]]
AllRead == \A b \in Builds : read[b] = Len(output[b])
DigestInv ==
    /\ ReadInv
    /\ Right(verdict, kept, output) /\ (verdict # "none" => AllRead)

\* The queries that Right speaks of are those of the model.
LEMMA AnsweredIs ==
    ASSUME NEW b \in Builds, output \in [Builds -> Seq(LineType)]
    PROVE  AnsweredIds(b) = IdsOf(output[b])
<1>1. PICK s : s = output[b]
  OBVIOUS
<1>2. DOMAIN s = 1..Len(s)
  BY <1>1, LenProperties
<1>3. {line.id : line \in Range(s)} = {s[i].id : i \in 1..Len(s)}
  BY <1>2 DEF Range
<1> QED
  BY <1>1, <1>3 DEF AnsweredIds, IdsOf, IdsUpTo

\* So are the answers,
LEMMA AnswerIs == \A b, id : Answer(b, id) = AnswerOf(output[b], id)
<1> SUFFICES ASSUME NEW b, NEW id PROVE Answer(b, id) = AnswerOf(output[b], id)
  OBVIOUS
<1>1. Printed(b, id) = UpTo(output[b], id)[Len(output[b])]
  BY DEF Printed, UpTo, Growing
<1> QED
  BY <1>1 DEF Answer, AnswerOf

\* and so what it promises.
LEMMA VerdictIs ==
    ASSUME output \in [Builds -> Seq(LineType)]
    PROVE  VerdictIsRight <=> Right(verdict, kept, output)
<1>1. \A b \in Builds : AnsweredIds(b) = IdsOf(output[b])
  BY AnsweredIs
<1>2. \A b, c \in Builds : BuildsAgree(b, c) <=> Agree(output[b], output[c])
  BY <1>1, AnswerIs DEF BuildsAgree, Agree
<1> QED
  BY <1>1, <1>2, AnswerIs DEF VerdictIsRight, Right

\* An answer agrees with itself.
LEMMA SameSelf == ASSUME NEW x, IsAnswer(x) PROVE Same(x, x)
<1> DEFINE p == [i \in DOMAIN SeriesLines(x) |-> i]
<1>1. p \in Bijection(DOMAIN SeriesLines(x), DOMAIN SeriesLines(x))
  <2>1. PICK S : S = DOMAIN SeriesLines(x)
    OBVIOUS
  <2>2. PICK q : q = [i \in S |-> i]
    OBVIOUS
  <2>3. q \in Bijection(S, S)
    BY <2>2, BijectionIs
  <2> QED
    BY <2>1, <2>2, <2>3
<1>2. Matches(SeriesLines(x), SeriesLines(x), p)
  BY <1>1 DEF Matches
<1> QED
  BY <1>2, SameMatch

\* Answers that agree with a third agree: by way of their lines.
LEMMA SameBoth ==
    ASSUME NEW x, IsAnswer(x), NEW y, IsAnswer(y), NEW z, IsAnswer(z),
           x.status = "success", y.status = "success", z.status = "success",
           DigestOf(z) = DigestOf(x), DigestOf(z) = DigestOf(y)
    PROVE  Same(x, y)
BY DigestSame

\* What the comparison sees of a build that has been read.
LEMMA ReadAnswers ==
    ASSUME ReadInv, AllRead, NEW b \in Builds
    PROVE  /\ DOMAIN bodies[b] = IdsOf(output[b]) /\ DOMAIN Answers(b) = IdsOf(output[b])
           /\ \A id \in IdsOf(output[b]) :
                /\ IsAnswer(AnswerOf(output[b], id))
                /\ Answers(b)[id] = IF kept[b] = "digest" THEN DigestOf(AnswerOf(output[b], id))
                                    ELSE AnswerOf(output[b], id)
<1>1. output[b] \in Seq(LineType) /\ read[b] = Len(output[b])
  BY DEF ReadInv, AllRead
<1>2. DOMAIN bodies[b] = IdsOf(output[b])
  BY <1>1 DEF ReadInv, IdsOf
<1>3. ASSUME NEW id \in IdsOf(output[b]) PROVE Parsed(bodies[b][id]) = AnswerOf(output[b], id)
  <2>1. bodies[b][id] = UpTo(output[b], id)[Len(output[b])]
    BY <1>1, <1>2 DEF ReadInv
  <2> QED
    BY <2>1 DEF AnswerOf
<1>4. DOMAIN Answers(b) = IdsOf(output[b])
  BY <1>2 DEF Answers
<1>5. ASSUME NEW id \in IdsOf(output[b])
      PROVE  Answers(b)[id] = IF kept[b] = "digest" THEN DigestOf(AnswerOf(output[b], id))
                              ELSE AnswerOf(output[b], id)
  <2>1. Answers(b)[id] = IF kept[b] = "digest" THEN Digest(bodies[b][id]) ELSE Parsed(bodies[b][id])
    BY <1>2 DEF Answers
  <2> QED
    BY <2>1, <1>3, DigestIs
<1> QED
  BY <1>1, <1>2, <1>4, <1>5, AnswerOfType

\* A digest is refused when its answer is no success.
LEMMA RefusedIs ==
    ASSUME ReadInv, AllRead, NEW b \in Builds
    PROVE  Refused(b) <=> kept[b] = "digest"
                          /\ \E id \in IdsOf(output[b]) : AnswerOf(output[b], id).status # "success"
<1>1. \A a : DigestOf(a).status = a.status
  BY DEF DigestOf
<1>2. ASSUME kept[b] = "digest", NEW id \in IdsOf(output[b])
      PROVE  Answers(b)[id].status = AnswerOf(output[b], id).status
  BY <1>1, <1>2, ReadAnswers
<1>3. DOMAIN Answers(b) = IdsOf(output[b])
  BY ReadAnswers
<1> QED
  BY <1>2, <1>3 DEF Refused

\* Builds that are equal to one agree with each other, unless a digest was refused.
LEMMA EqualAgree ==
    ASSUME ReadInv, AllRead, NEW a \in Builds, NEW b \in Builds, NEW c \in Builds,
           ~Refused(a), ~Refused(b), ~Refused(c), Equal(a, b), Equal(a, c)
    PROVE  Agree(output[b], output[c])
<1>1. PICK s, t, u : s = output[a] /\ t = output[b] /\ u = output[c]
  OBVIOUS
<1>2. kept[b] = kept[a] /\ kept[c] = kept[a] /\ Answers(a) = Answers(b) /\ Answers(a) = Answers(c)
  BY DEF Equal
<1>3. IdsOf(s) = IdsOf(t) /\ IdsOf(s) = IdsOf(u)
  <2>1. DOMAIN Answers(a) = IdsOf(s) /\ DOMAIN Answers(b) = IdsOf(t) /\ DOMAIN Answers(c) = IdsOf(u)
    BY <1>1, ReadAnswers
  <2> QED
    BY <1>2, <2>1
<1>4. ASSUME NEW id \in IdsOf(t) PROVE Same(AnswerOf(t, id), AnswerOf(u, id))
  <2>1. PICK x, y, z : x = AnswerOf(t, id) /\ y = AnswerOf(u, id) /\ z = AnswerOf(s, id)
    OBVIOUS
  <2>2. IsAnswer(x) /\ IsAnswer(y) /\ IsAnswer(z)
    BY <1>1, <1>3, <2>1, ReadAnswers
  <2>3. CASE kept[a] = "digest"
    <3>1. x.status = "success" /\ y.status = "success" /\ z.status = "success"
      BY <1>1, <1>2, <1>3, <2>1, <2>3, RefusedIs
    <3>2. Answers(a)[id] = DigestOf(z) /\ Answers(b)[id] = DigestOf(x) /\ Answers(c)[id] = DigestOf(y)
      BY <1>1, <1>2, <1>3, <2>1, <2>3, ReadAnswers
    <3> QED
      BY <1>2, <2>1, <2>2, <3>1, <3>2, SameBoth
  <2>4. CASE kept[a] # "digest"
    <3>1. Answers(b)[id] = x /\ Answers(c)[id] = y
      BY <1>1, <1>2, <1>3, <2>1, <2>4, ReadAnswers
    <3>2. x = y
      BY <1>2, <3>1
    <3> QED
      BY <2>1, <2>2, <3>2, SameSelf
  <2> QED
    BY <2>3, <2>4
<1> QED
  BY <1>1, <1>3, <1>4 DEF Agree

\* Digests of builds that agree are equal, unless one was refused.
LEMMA AgreeEqual ==
    ASSUME ReadInv, AllRead, NEW b \in Builds, NEW c \in Builds,
           kept[b] = "digest", kept[c] = "digest", ~Refused(b), ~Refused(c),
           Agree(output[b], output[c])
    PROVE  Equal(b, c)
<1>1. PICK s, t, f, g : /\ s = output[b] /\ t = output[c]
                        /\ f = Answers(b) /\ g = Answers(c)
  OBVIOUS
<1>2. IdsOf(s) = IdsOf(t) /\ \A id \in IdsOf(s) : Same(AnswerOf(s, id), AnswerOf(t, id))
  BY <1>1 DEF Agree
<1>3. DOMAIN f = IdsOf(s) /\ DOMAIN g = IdsOf(t)
  BY <1>1, ReadAnswers
<1>4. ASSUME NEW id \in IdsOf(s) PROVE f[id] = g[id]
  <2>1. PICK x, y : x = AnswerOf(s, id) /\ y = AnswerOf(t, id)
    OBVIOUS
  <2>2. IsAnswer(x) /\ IsAnswer(y) /\ f[id] = DigestOf(x) /\ g[id] = DigestOf(y)
    BY <1>1, <1>2, <2>1, ReadAnswers
  <2>3. x.status = "success" /\ y.status = "success"
    BY <1>1, <1>2, <2>1, RefusedIs
  <2>4. Same(x, y)
    BY <1>2, <2>1
  <2> QED
    BY <2>2, <2>3, <2>4, DigestSame
<1>5. f = [id \in IdsOf(s) |-> f[id]] /\ g = [id \in IdsOf(t) |-> g[id]]
  <2>1. f = [id \in DOMAIN bodies[b] |-> f[id]] /\ g = [id \in DOMAIN bodies[c] |-> g[id]]
    BY <1>1 DEF Answers
  <2> QED
    BY <1>1, <2>1, ReadAnswers
<1>6. f = g
  BY <1>2, <1>4, <1>5
<1> QED
  BY <1>1, <1>6 DEF Equal

\* The comparison gives a right verdict once everything is read.
LEMMA CompareRight ==
    ASSUME ReadInv, AllRead
    PROVE  Right(Compared, kept, output)
<1>1. PICK a \in Builds : a = CHOOSE b \in Builds : TRUE
  BY TsbsDigestAssumption
<1>2. PICK v : v = Compared
  OBVIOUS
<1>3. v = IF \E b \in Builds : DOMAIN bodies[b] = {} THEN "no answer"
          ELSE IF \E b \in Builds : Refused(b)       THEN "refused"
          ELSE IF \A b \in Builds : Equal(a, b)      THEN "identical"
          ELSE IF \A b \in Builds : CloseTo(a, b)    THEN "close"
          ELSE "differ"
  BY <1>1, <1>2 DEF Compared
<1>4. ASSUME v = "identical" PROVE \A b, c \in Builds : Agree(output[b], output[c])
  <2>1. \A b \in Builds : ~Refused(b) /\ Equal(a, b)
    BY <1>3, <1>4
  <2> QED
    BY <2>1, EqualAgree
<1>5. ASSUME v = "differ", \A b \in Builds : kept[b] = "digest"
      PROVE  \E b, c \in Builds : ~Agree(output[b], output[c])
  <2>1. PICK b \in Builds : ~Equal(a, b)
    BY <1>3, <1>5
  <2>2. ~Refused(a) /\ ~Refused(b)
    BY <1>3, <1>5
  <2> QED
    BY <1>5, <2>1, <2>2, AgreeEqual
<1>6. ASSUME v \notin {"none", "no answer"} PROVE \A b \in Builds : IdsOf(output[b]) # {}
  <2>1. \A b \in Builds : DOMAIN bodies[b] # {}
    BY <1>3, <1>6
  <2> QED
    BY <2>1, ReadAnswers
<1>7. ASSUME v = "refused"
      PROVE  \E b \in Builds : \E id \in IdsOf(output[b]) : AnswerOf(output[b], id).status # "success"
  <2>1. PICK b \in Builds : Refused(b)
    BY <1>3, <1>7
  <2> QED
    BY <2>1, RefusedIs
<1>8. ASSUME v = "no answer" PROVE \E b \in Builds : IdsOf(output[b]) = {}
  <2>1. PICK b \in Builds : DOMAIN bodies[b] = {}
    BY <1>3, <1>8
  <2> QED
    BY <2>1, ReadAnswers
<1> QED
  BY <1>2, <1>4, <1>5, <1>6, <1>7, <1>8 DEF Right

\* Nothing has been read at first.
LEMMA DigestInitInv == DigestInit => DigestInv
<1> SUFFICES ASSUME DigestInit PROVE DigestInv
  OBVIOUS
<1>1. output \in [Builds -> Seq(LineType)]
  BY TsbsDigestAssumption DEF DigestInit, LineType
<1>2. \A b \in Builds : read[b] = 0 /\ bodies[b] = <<>> /\ 0 \in Nat /\ 0 <= Len(output[b])
  BY <1>1, LenProperties DEF DigestInit
<1>3. ASSUME NEW b \in Builds PROVE DOMAIN bodies[b] = {} /\ IdsUpTo(output[b], 0) = {}
  BY <1>2 DEF IdsUpTo
<1>4. ReadInv
  <2>1. read \in [Builds -> Nat] /\ bodies = [b \in Builds |-> bodies[b]]
        /\ kept \in [Builds -> {"digest", "text"}]
    BY DEF DigestInit
  <2> QED
    BY <1>1, <1>2, <1>3, <2>1 DEF ReadInv
<1>5. Right(verdict, kept, output)
  BY DEF DigestInit, Right
<1> QED
  BY <1>4, <1>5 DEF DigestInv, DigestInit

\* A line is added to the parts of its query, and to those of no other.
LEMMA ScanRead ==
    ASSUME ReadInv, NEW b \in Builds, Scan(b)
    PROVE  ReadInv'
<1>1. PICK s, n, line, f :
         s = output[b] /\ n = read[b] /\ line = s[n + 1] /\ f = bodies[b]
  OBVIOUS
<1>2. /\ s \in Seq(LineType) /\ n \in Nat /\ n < Len(s) /\ Len(s) \in Nat
      /\ DOMAIN f = IdsUpTo(s, n) /\ \A id \in DOMAIN f : f[id] = UpTo(s, id)[n]
  BY <1>1, LenProperties DEF ReadInv, Scan
<1>3. /\ kept' = kept /\ output' = output /\ read' = [read EXCEPT ![b] = n + 1]
      /\ n + 1 \in Nat /\ n + 1 <= Len(s) /\ n + 1 \in 1..Len(s) /\ n \in 0..Len(s)
  BY <1>1, <1>2 DEF Scan
<1>4. /\ read' \in [Builds -> Nat] /\ read'[b] = n + 1
      /\ \A c \in Builds : c # b => read'[c] = read[c]
  BY <1>3 DEF ReadInv
<1>5. IdsUpTo(s, n + 1) = IdsUpTo(s, n) \cup ({line.id} \ {NoId})
  <2>1. 1..n + 1 = 1..n \cup {n + 1}
    BY <1>2
  <2> QED
    BY <1>1, <2>1 DEF IdsUpTo
<1>6. \A id : UpTo(s, id)[n + 1] = IF line.id = id THEN Append(UpTo(s, id)[n], line)
                                   ELSE UpTo(s, id)[n]
  BY <1>1, <1>2, UpToIs
<1> DEFINE old == IF line.id \in DOMAIN f THEN f[line.id] ELSE <<>>
           g == [id \in DOMAIN f \cup {line.id} |-> IF id = line.id THEN Append(old, line) ELSE f[id]]
<1>7. bodies' = IF line.id = NoId THEN bodies ELSE [bodies EXCEPT ![b] = g]
  BY <1>1 DEF Scan, Extended
<1>8. line.id # NoId => old = UpTo(s, line.id)[n]
  <2>1. CASE line.id \in DOMAIN f
    BY <1>2, <2>1
  <2>2. CASE line.id \notin DOMAIN f /\ line.id # NoId
    <3>1. \A i \in 1..n : s[i].id # line.id
      BY <1>2, <2>2 DEF IdsUpTo
    <3>2. UpTo(s, line.id)[n] = <<>>
      BY <1>2, <1>3, <3>1, UpToType
    <3> QED
      BY <2>2, <3>2
  <2> QED
    BY <2>1, <2>2
<1> HIDE DEF old
<1>9. ASSUME line.id # NoId
      PROVE  DOMAIN g = IdsUpTo(s, n + 1) /\ \A id \in DOMAIN g : g[id] = UpTo(s, id)[n + 1]
  <2>1. DOMAIN g = IdsUpTo(s, n + 1)
    BY <1>2, <1>5, <1>9
  <2>2. ASSUME NEW id \in DOMAIN g PROVE g[id] = UpTo(s, id)[n + 1]
    <3>1. CASE id = line.id
      BY <1>6, <1>8, <1>9, <3>1
    <3>2. CASE id # line.id
      BY <1>2, <1>6, <3>2
    <3> QED
      BY <3>1, <3>2
  <2> QED
    BY <2>1, <2>2
<1>10. ASSUME line.id = NoId
       PROVE  DOMAIN f = IdsUpTo(s, n + 1) /\ \A id \in DOMAIN f : f[id] = UpTo(s, id)[n + 1]
  <2>1. NoId \notin DOMAIN f
    BY <1>2 DEF IdsUpTo
  <2> QED
    BY <1>2, <1>5, <1>6, <1>10, <2>1
<1> HIDE DEF g
<1>11. /\ bodies' = [c \in Builds |-> bodies'[c]]
       /\ bodies'[b] = IF line.id = NoId THEN f ELSE g
       /\ \A c \in Builds : c # b => bodies'[c] = bodies[c]
  <2>1. bodies = [c \in Builds |-> bodies[c]]
    BY DEF ReadInv
  <2>2. PICK B : B = bodies
    OBVIOUS
  <2>3. PICK C : C = IF line.id = NoId THEN B ELSE [B EXCEPT ![b] = g]
    OBVIOUS
  <2>4. C = [c \in Builds |-> C[c]] /\ C[b] = (IF line.id = NoId THEN B[b] ELSE g)
        /\ \A c \in Builds : c # b => C[c] = B[c]
    BY <2>1, <2>2, <2>3
  <2>5. bodies' = C
    BY <1>7, <2>2, <2>3
  <2> QED
    BY <1>1, <2>2, <2>4, <2>5
<1>12. ASSUME NEW c \in Builds
       PROVE  /\ read'[c] <= Len(output'[c])
              /\ DOMAIN bodies'[c] = IdsUpTo(output'[c], read'[c])
              /\ \A id \in DOMAIN bodies'[c] : bodies'[c][id] = UpTo(output'[c], id)[read'[c]]
  <2>1. CASE c = b
    BY <1>1, <1>3, <1>4, <1>9, <1>10, <1>11, <2>1
  <2>2. CASE c # b
    BY <1>3, <1>4, <1>11, <2>2 DEF ReadInv
  <2> QED
    BY <2>1, <2>2
<1>13. kept' \in [Builds -> {"digest", "text"}] /\ output' \in [Builds -> Seq(LineType)]
  BY <1>3 DEF ReadInv
<1> QED
  BY <1>4, <1>11, <1>12, <1>13 DEF ReadInv

\* A step reads a line, or gives the verdict of all that was read.
LEMMA DigestStepInv == DigestInv /\ [DigestNext]_digestVars => DigestInv'
<1> SUFFICES ASSUME DigestInv, [DigestNext]_digestVars PROVE DigestInv'
  OBVIOUS
<1>1. ASSUME NEW b \in Builds, Scan(b) PROVE DigestInv'
  <2>1. ReadInv'
    BY <1>1, ScanRead DEF DigestInv
  <2>2. verdict = "none"
    <3>1. read[b] < Len(output[b]) /\ read[b] \in Nat /\ Len(output[b]) \in Nat
      BY <1>1, LenProperties DEF Scan, DigestInv, ReadInv
    <3>2. ~AllRead
      BY <3>1 DEF AllRead
    <3> QED
      BY <3>2 DEF DigestInv
  <2>3. verdict' = verdict /\ kept' = kept /\ output' = output
    BY <1>1 DEF Scan
  <2>4. Right(verdict', kept', output')
    BY <2>3 DEF DigestInv
  <2> QED
    BY <2>1, <2>2, <2>3, <2>4 DEF DigestInv
<1>2. ASSUME CompareAnswers PROVE DigestInv'
  <2>1. kept' = kept /\ output' = output /\ read' = read /\ bodies' = bodies
        /\ verdict' = Compared /\ AllRead
    BY <1>2 DEF CompareAnswers, AllRead
  <2>2. Right(verdict', kept', output')
    BY <2>1, CompareRight DEF DigestInv
  <2>3. ReadInv' /\ AllRead'
    BY <2>1 DEF DigestInv, ReadInv, AllRead
  <2> QED
    BY <2>2, <2>3 DEF DigestInv
<1>3. ASSUME UNCHANGED digestVars PROVE DigestInv'
  <2>1. kept' = kept /\ output' = output /\ read' = read /\ bodies' = bodies /\ verdict' = verdict
    BY <1>3 DEF digestVars
  <2>2. Right(verdict', kept', output')
    BY <2>1 DEF DigestInv
  <2>3. ReadInv' /\ (AllRead' <=> AllRead)
    BY <2>1 DEF DigestInv, ReadInv, AllRead
  <2> QED
    BY <2>1, <2>2, <2>3 DEF DigestInv
<1> QED
  BY <1>1, <1>2, <1>3 DEF DigestNext, Rest

\* The verdict of the report is right: identical only of builds that agree on every
\* query, never differ of digests that agree, no answer exactly where a build printed
\* none, and refused only where an answer was no success, however the lines were split
\* and the series ordered (compare_answers of scripts/tsbs.exs, digest and
\* canonicalValue of tools/tsbsdigest/main.go).
THEOREM VerdictRight == DigestSpec => []VerdictIsRight
<1>1. DigestInv => VerdictIsRight
  BY VerdictIs DEF DigestInv, ReadInv
<1> QED
  BY <1>1, DigestInitInv, DigestStepInv, PTL DEF DigestSpec
=============================================================================
