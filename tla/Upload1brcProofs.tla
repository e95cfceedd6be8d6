-------------------------- MODULE Upload1brcProofs --------------------------
(***************************************************************************)
(* What Upload1brc promises of batches, for any file, any number of        *)
(* workers, pods and attempts: each is stored at most once, gets at most   *)
(* one attempt past the deadline and is accounted for in the counters and  *)
(* files; the upload implements BatchLoad.                                 *)
(***************************************************************************)
EXTENDS Upload1brc, SequenceTheorems, FiniteSetTheorems, WellFoundedInduction, TLAPS

-----------------------------------------------------------------------------
(* Sums over finite sets *)

\* Induction over the naturals, stated of a set: from the well-foundedness of <.
LEMMA NatInduct ==
    ASSUME NEW T, 0 \in T, \A n \in Nat : n \in T => n + 1 \in T
    PROVE  Nat \subseteq T
<1> SUFFICES ASSUME Nat \ T # {} PROVE FALSE
  OBVIOUS
<1> DEFINE R == OpToRel(<, Nat)
<1>1. \E n \in Nat \ T : \A m \in Nat \ T : <<m, n>> \notin R
  <2> HIDE DEF R
  <2>1. IsWellFoundedOn(R, Nat)
    BY NatLessThanWellFounded DEF R
  <2> QED
    BY <2>1, WFMin
<1>2. PICK n \in Nat \ T : \A m \in Nat \ T : ~(m < n)
  BY <1>1 DEF OpToRel
<1> QED
  BY <1>2

\* Induction over the subsets of a finite set, one element at a time.
LEMMA SubsetsInduct ==
    ASSUME NEW S, IsFiniteSet(S), NEW T, {} \in T,
           \A s \in SUBSET S : s # {} /\ (\A x \in s : s \ {x} \in T) => s \in T
    PROVE  SUBSET S \subseteq T
<1> DEFINE N == {n \in Nat : \A s \in SUBSET S : Cardinality(s) = n => s \in T}
<1>1. \A s \in SUBSET S : IsFiniteSet(s) /\ Cardinality(s) \in Nat
  BY FS_Subset, FS_CardinalityType
<1>2. 0 \in N
  BY <1>1, FS_EmptySet
<1>3. ASSUME NEW n \in Nat, n \in N PROVE n + 1 \in N
  <2> SUFFICES ASSUME NEW s \in SUBSET S, Cardinality(s) = n + 1 PROVE s \in T
    OBVIOUS
  <2>1. s # {}
    <3>1. Cardinality({}) = 0
      BY FS_EmptySet
    <3> QED
      BY <3>1
  <2>2. \A x \in s : s \ {x} \in T
    BY <1>1, <1>3, FS_RemoveElement
  <2> QED
    BY <2>1, <2>2
<1> HIDE DEF N
<1>4. Nat \subseteq N
  BY <1>2, <1>3, NatInduct
<1> QED
  BY <1>1, <1>4 DEF N

\* MapThenSumSet adds the elements of a set in the order of CHOOSE: g is its table of
\* the sums of F over the subsets of S.
Pick(s) == CHOOSE x \in s : TRUE
Adds(F, S, g) ==
    g = [s \in SUBSET S |-> IF s = {} THEN 0 ELSE F[Pick(s)] + g[s \ {Pick(s)}]]
Sum(F, S) == (CHOOSE g : Adds(F, S, g))[S]

\* There is such a table: by induction on the size of the subsets it covers.
LEMMA AddsExists ==
    ASSUME NEW S, IsFiniteSet(S), NEW F \in [S -> Nat]
    PROVE  \E g : Adds(F, S, g)
<1> DEFINE Sub(n) == {s \in SUBSET S : Cardinality(s) <= n}
           Fits(n, g) ==
              \A s \in Sub(n) : g[s] = IF s = {} THEN 0 ELSE F[Pick(s)] + g[s \ {Pick(s)}]
           N == {n \in Nat : \E g : Fits(n, g)}
<1>1. \A s \in SUBSET S : IsFiniteSet(s) /\ Cardinality(s) \in Nat /\ Cardinality(s) <= Cardinality(S)
  BY FS_Subset, FS_CardinalityType
<1>2. 0 \in N
  <2>1. \A s \in Sub(0) : s = {}
    BY <1>1, FS_EmptySet
  <2>2. Fits(0, [s \in Sub(0) |-> 0])
    BY <2>1
  <2> QED
    BY <2>2
<1>3. ASSUME NEW n \in Nat, n \in N PROVE n + 1 \in N
  <2>1. PICK g : Fits(n, g)
    BY <1>3
  <2> DEFINE Add(s) == IF s = {} THEN 0 ELSE F[Pick(s)] + g[s \ {Pick(s)}]
             h == [s \in Sub(n + 1) |-> Add(s)]
  <2>2. \A s \in Sub(n) : g[s] = Add(s) /\ s \in Sub(n + 1)
    BY <2>1, <1>1
  <2>3. ASSUME NEW s \in Sub(n + 1), s # {} PROVE s \ {Pick(s)} \in Sub(n)
    <3>1. Pick(s) \in s
      BY <2>3 DEF Pick
    <3> QED
      BY <3>1, <1>1, FS_RemoveElement
  <2>4. Fits(n + 1, h)
    <3> SUFFICES ASSUME NEW s \in Sub(n + 1)
                 PROVE  h[s] = IF s = {} THEN 0 ELSE F[Pick(s)] + h[s \ {Pick(s)}]
      OBVIOUS
    <3>1. h[s] = Add(s)
      OBVIOUS
    <3>2. CASE s = {}
      BY <3>1, <3>2
    <3>3. CASE s # {}
      <4> DEFINE u == s \ {Pick(s)}
      <4>1. g[u] = Add(u) /\ u \in Sub(n + 1)
        BY <2>2, <2>3, <3>3
      <4>2. h[u] = g[u]
        BY <4>1
      <4> HIDE DEF u, h, Add
      <4> QED
        BY <3>1, <3>3, <4>2 DEF u, Add
    <3> QED
      BY <3>2, <3>3
  <2>5. \E f : Fits(n + 1, f)
    BY <2>4
  <2> HIDE DEF Fits
  <2> QED
    BY <2>5
<1> HIDE DEF N
<1>4. Cardinality(S) \in N
  BY <1>2, <1>3, NatInduct, FS_CardinalityType
<1>5. PICK g : Fits(Cardinality(S), g)
  BY <1>4 DEF N
<1> DEFINE h == [s \in SUBSET S |-> g[s]]
<1>6. ASSUME NEW s \in SUBSET S
      PROVE  h[s] = IF s = {} THEN 0 ELSE F[Pick(s)] + h[s \ {Pick(s)}]
  <2>1. s \in Sub(Cardinality(S))
    BY <1>1
  <2>2. g[s] = IF s = {} THEN 0 ELSE F[Pick(s)] + g[s \ {Pick(s)}]
    BY <1>5, <2>1
  <2> QED
    BY <2>2
<1>7. Adds(F, S, h)
  BY <1>6 DEF Adds
<1> QED
  BY <1>7

\* Its sums are naturals.
LEMMA AddsType ==
    ASSUME NEW S, IsFiniteSet(S), NEW F \in [S -> Nat], NEW g, Adds(F, S, g)
    PROVE  g[{}] = 0 /\ \A s \in SUBSET S : g[s] \in Nat
<1> DEFINE T == {s \in SUBSET S : g[s] \in Nat}
<1>1. \A s \in SUBSET S : g[s] = IF s = {} THEN 0 ELSE F[Pick(s)] + g[s \ {Pick(s)}]
  BY DEF Adds
<1>2. g[{}] = 0
  BY <1>1
<1>3. {} \in T
  BY <1>2
<1>4. ASSUME NEW s \in SUBSET S, s # {}, \A x \in s : s \ {x} \in T PROVE s \in T
  <2>1. Pick(s) \in s
    BY <1>4 DEF Pick
  <2>2. g[s] = F[Pick(s)] + g[s \ {Pick(s)}] /\ g[s \ {Pick(s)}] \in Nat /\ F[Pick(s)] \in Nat
    BY <2>1, <1>4, <1>1
  <2>3. g[s] \in Nat
    BY <2>2
  <2> QED
    BY <2>3
<1> HIDE DEF T
<1>5. SUBSET S \subseteq T
  BY <1>3, <1>4, SubsetsInduct
<1> QED
  BY <1>2, <1>5 DEF T

\* In which order the elements are added does not matter.
Steps(F, S, g) ==
    /\ g[{}] = 0
    /\ \A s \in SUBSET S : g[s] \in Nat
    /\ \A s \in SUBSET S : \A x \in s : F[x] \in Nat /\ g[s] = F[x] + g[s \ {x}]

\* The table of Adds takes the members in the order of Pick; any order gives the same.
LEMMA AddsSteps ==
    ASSUME NEW S, IsFiniteSet(S), NEW F \in [S -> Nat], NEW g, Adds(F, S, g)
    PROVE  Steps(F, S, g)
<1> DEFINE P(s) == \A x \in s : g[s] = F[x] + g[s \ {x}]
           T == {s \in SUBSET S : P(s)}
<1>0. \A s \in SUBSET S : g[s] = IF s = {} THEN 0 ELSE F[Pick(s)] + g[s \ {Pick(s)}]
  BY DEF Adds
<1>1. {} \in T
  OBVIOUS
<1>2. ASSUME NEW s \in SUBSET S, s # {}, \A x \in s : s \ {x} \in T PROVE s \in T
  <2> DEFINE p == Pick(s)
  <2>1. p \in s
    BY <1>2 DEF Pick
  <2>2. g[s] = F[p] + g[s \ {p}]
    BY <1>2, <1>0
  <2> HIDE DEF p
  <2>3. ASSUME NEW x \in s, x # p PROVE g[s] = F[x] + g[s \ {x}]
    <3> DEFINE u == (s \ {p}) \ {x}
    <3>1. (s \ {x}) \ {p} = u
      OBVIOUS
    <3>2. g[s \ {p}] = F[x] + g[u]
      BY <2>1, <2>3, <1>2
    <3>3. g[s \ {x}] = F[p] + g[u]
      BY <2>1, <2>3, <1>2, <3>1
    <3>4. g[u] \in Nat /\ F[x] \in Nat /\ F[p] \in Nat
      BY <2>1, AddsType
    <3> HIDE DEF u
    <3> QED
      BY <2>2, <3>2, <3>3, <3>4
  <2>4. P(s)
    BY <2>2, <2>3
  <2> HIDE DEF P
  <2> QED
    BY <2>4
<1> HIDE DEF T
<1>3. SUBSET S \subseteq T
  BY <1>1, <1>2, SubsetsInduct
<1>4. \A s \in SUBSET S : \A x \in s : F[x] \in Nat /\ g[s] = F[x] + g[s \ {x}]
  BY <1>3 DEF T
<1> QED
  BY <1>4, AddsType DEF Steps

\* Two tables agree where their functions do.
LEMMA AddsAgree ==
    ASSUME NEW S, IsFiniteSet(S), NEW R, S \subseteq R, NEW F, NEW g, Steps(F, S, g),
           NEW G, NEW h, Steps(G, R, h), \A x \in S : F[x] = G[x]
    PROVE  g[S] = h[S]
<1> DEFINE T == {s \in SUBSET S : g[s] = h[s]}
<1>1. {} \in T
  BY DEF Steps
<1>2. ASSUME NEW s \in SUBSET S, s # {}, \A x \in s : s \ {x} \in T PROVE s \in T
  <2>1. PICK x \in s : TRUE
    BY <1>2
  <2>2. g[s] = F[x] + g[s \ {x}]
    BY DEF Steps
  <2>3. h[s] = G[x] + h[s \ {x}]
    BY DEF Steps
  <2>4. g[s \ {x}] = h[s \ {x}] /\ F[x] = G[x]
    BY <1>2
  <2>5. g[s] = h[s]
    BY <2>2, <2>3, <2>4
  <2> QED
    BY <2>5
<1> HIDE DEF T
<1>3. SUBSET S \subseteq T
  BY <1>1, <1>2, SubsetsInduct
<1> QED
  BY <1>3 DEF T

\* What Sum stands for.
LEMMA SumTable ==
    ASSUME NEW S, IsFiniteSet(S), NEW F \in [S -> Nat]
    PROVE  \E g : Adds(F, S, g) /\ Steps(F, S, g) /\ Sum(F, S) = g[S]
<1>1. Adds(F, S, CHOOSE g : Adds(F, S, g))
  BY AddsExists
<1> QED
  BY <1>1, AddsSteps DEF Sum

\* Any table has the sum as its last entry, and one has.
LEMMA SumIs ==
    ASSUME NEW S, IsFiniteSet(S), NEW F \in [S -> Nat]
    PROVE  (\E g : Adds(F, S, g)) /\ (\A g : Adds(F, S, g) => g[S] = Sum(F, S))
<1>1. PICK h : Adds(F, S, h) /\ Steps(F, S, h) /\ Sum(F, S) = h[S]
  BY SumTable
<1>2. ASSUME NEW g, Adds(F, S, g) PROVE g[S] = Sum(F, S)
  <2>1. Steps(F, S, g)
    BY <1>2, AddsSteps
  <2> QED
    BY <1>1, <2>1, AddsAgree
<1> QED
  BY <1>1, <1>2

\* Nothing to add.
LEMMA SumEmpty == \A F : Sum(F, {}) = 0
<1> SUFFICES ASSUME NEW F PROVE Sum(F, {}) = 0
  OBVIOUS
<1>1. \A g : Adds(F, {}, g) => g[{}] = 0
  BY DEF Adds
<1>2. Adds(F, {}, [s \in {{}} |-> 0])
  BY DEF Adds
<1> QED
  BY <1>1, <1>2 DEF Sum

\* A sum is a natural, and any of its terms can be taken out of it.
LEMMA SumSplit ==
    ASSUME NEW S, IsFiniteSet(S), NEW F \in [S -> Nat]
    PROVE  /\ Sum(F, S) \in Nat
           /\ \A x \in S : Sum(F, S) = F[x] + Sum([y \in S \ {x} |-> F[y]], S \ {x})
<1>1. PICK g : Steps(F, S, g) /\ Sum(F, S) = g[S]
  BY SumTable
<1>2. Sum(F, S) \in Nat
  BY <1>1 DEF Steps
<1>3. ASSUME NEW x \in S PROVE Sum(F, S) = F[x] + Sum([y \in S \ {x} |-> F[y]], S \ {x})
  <2> DEFINE R == S \ {x}
             G == [y \in R |-> F[y]]
  <2>1. IsFiniteSet(R) /\ R \subseteq R /\ G \in [R -> Nat] /\ R \subseteq S /\ \A y \in R : G[y] = F[y]
    BY FS_Subset
  <2>2. g[S] = F[x] + g[R]
    BY <1>1 DEF Steps
  <2> HIDE DEF G, R
  <2>3. PICK h : Steps(G, R, h) /\ Sum(G, R) = h[R]
    BY <2>1, SumTable
  <2>4. h[R] = g[R]
    <3>1. Steps(F, R, g)
      BY <1>1, <2>1 DEF Steps
    <3> QED
      BY <2>1, <2>3, <3>1, AddsAgree
  <2>5. Sum(F, S) = F[x] + Sum(G, R)
    BY <1>1, <2>2, <2>3, <2>4
  <2> QED
    BY <2>5 DEF G, R
<1> QED
  BY <1>2, <1>3

\* A term more.
Grows(G, F, S, x) ==
    /\ IsFiniteSet(S) /\ x \notin S /\ F \in [S \cup {x} -> Nat] /\ G \in [S -> Nat]
    /\ \A y \in S : F[y] = G[y]
LEMMA SumGrow ==
    ASSUME NEW S, NEW x, NEW F, NEW G, Grows(G, F, S, x)
    PROVE  Sum(F, S \cup {x}) = F[x] + Sum(G, S)
<1> USE DEF Grows
<1>1. IsFiniteSet(S \cup {x})
  BY FS_AddElement
<1>2. (S \cup {x}) \ {x} = S
  OBVIOUS
<1>3. [y \in S |-> F[y]] = G
  OBVIOUS
<1> QED
  BY <1>1, <1>2, <1>3, SumSplit

\* A term that changes.
LEMMA SumChange ==
    ASSUME NEW S, IsFiniteSet(S), NEW F \in [S -> Nat], NEW G \in [S -> Nat], NEW x \in S,
           \A y \in S \ {x} : F[y] = G[y]
    PROVE  Sum(G, S) + F[x] = Sum(F, S) + G[x]
<1> DEFINE R == S \ {x}
           H == [y \in R |-> F[y]]
<1>1. H = [y \in R |-> G[y]] /\ H \in [R -> Nat] /\ IsFiniteSet(R)
  BY FS_Subset
<1>2. Sum(F, S) = F[x] + Sum(H, R)
  BY SumSplit
<1>3. Sum(G, S) = G[x] + Sum([y \in R |-> G[y]], R)
  BY SumSplit
<1> HIDE DEF H, R
<1>4. Sum(H, R) \in Nat
  BY <1>1, SumSplit
<1>5. Sum(G, S) = G[x] + Sum(H, R)
  BY <1>1, <1>3
<1> QED
  BY <1>2, <1>4, <1>5

\* Term by term, sums compare and add up.
LEMMA SumTerms ==
    ASSUME NEW S, IsFiniteSet(S), NEW F \in [S -> Nat], NEW G \in [S -> Nat],
           NEW H \in [S -> Nat], \A x \in S : F[x] + G[x] <= H[x]
    PROVE  /\ Sum(F, S) + Sum(G, S) <= Sum(H, S)
           /\ (\A x \in S : F[x] + G[x] = H[x]) => Sum(F, S) + Sum(G, S) = Sum(H, S)
<1>1. PICK f : Steps(F, S, f) /\ Sum(F, S) = f[S]
  BY SumTable
<1>2. PICK g : Steps(G, S, g) /\ Sum(G, S) = g[S]
  BY SumTable
<1>3. PICK h : Steps(H, S, h) /\ Sum(H, S) = h[S]
  BY SumTable
<1> DEFINE P(s) == f[s] + g[s] <= h[s]
           Q(s) == (\A x \in S : F[x] + G[x] = H[x]) => f[s] + g[s] = h[s]
           T == {s \in SUBSET S : P(s) /\ Q(s)}
<1>4. {} \in T
  BY <1>1, <1>2, <1>3 DEF Steps
<1>5. ASSUME NEW s \in SUBSET S, s # {}, \A x \in s : s \ {x} \in T PROVE s \in T
  <2>1. PICK x \in s : TRUE
    BY <1>5
  <2> DEFINE u == s \ {x}
  <2>2. P(u) /\ Q(u)
    BY <1>5
  <2>3. f[s] = F[x] + f[u] /\ g[s] = G[x] + g[u] /\ h[s] = H[x] + h[u]
    BY <1>1, <1>2, <1>3 DEF Steps
  <2>4. f[u] \in Nat /\ g[u] \in Nat /\ h[u] \in Nat /\ F[x] \in Nat /\ G[x] \in Nat /\ H[x] \in Nat
    BY <1>1, <1>2, <1>3 DEF Steps
  <2>5. F[x] + G[x] <= H[x] /\ ((\A y \in S : F[y] + G[y] = H[y]) => F[x] + G[x] = H[x])
    OBVIOUS
  <2> HIDE DEF u
  <2>6. P(s) /\ Q(s)
    BY <2>2, <2>3, <2>4, <2>5
  <2> HIDE DEF P, Q
  <2> QED
    BY <2>6
<1> HIDE DEF T
<1>6. SUBSET S \subseteq T
  BY <1>4, <1>5, SubsetsInduct
<1>7. P(S) /\ Q(S)
  BY <1>6 DEF T
<1> QED
  BY <1>1, <1>2, <1>3, <1>7

-----------------------------------------------------------------------------
(* The invariant *)

\* Batches sent to the channel and taken from it: both in the order of the file.
Sent == IF reader = "send" THEN Len(cut) - 1 ELSE Len(cut)
Taken == Sent - Len(jobs)
Busy(w) == worker[w] \in {"post", "reply"}
Pod(b) == TargetOf(b, 0)

\* What TypeOK says, but for the counters of rows, and of what it leaves open.
Shapes ==
    /\ load \in Loads /\ late \in BOOLEAN /\ stoppedEarly \in BOOLEAN
    /\ reader \in {"cut", "send", "closed"}
    /\ cut \in Seq(Nat \X Nat) /\ rowsRead \in 0..Len(Lines) /\ jobs \in Seq(Nat)
    /\ worker \in [Workers -> {"recv", "post", "reply", "exited"}]
    /\ batch \in [Workers -> Nat] /\ attempt \in [Workers -> 0..MaxAttempts]
    /\ copies \in [Indices -> Nat]
    /\ outcome \in [Indices -> {"none", "accepted", "failed"}]
    /\ lateAttempts \in [Indices -> Nat]
    /\ main \in {"run", "snap", "final", "exited", "fatal"}

\* A batch has at least one line, and the channel its capacity.
CutInv ==
    /\ Len(cut) <= rowsRead
    /\ \A i \in 1..Len(cut) :
          0 < cut[i][1] /\ cut[i][1] <= cut[i][2] /\ cut[i][2] <= rowsRead
    /\ reader = "send" => Len(cut) > 0
    /\ MaxRows > 0 => rowsRead <= MaxRows
    /\ Len(jobs) <= JobsCap

\* A batch is in one place: still to be sent, in the channel, with one worker, or done.
PlaceInv ==
    /\ Taken >= 0
    /\ \A i \in 1..Len(jobs) : jobs[i] = Taken + i - 1
    /\ \A w \in Workers : Busy(w) => batch[w] < Taken /\ outcome[batch[w]] = "none"
    /\ \A v, w \in Workers : Busy(v) /\ Busy(w) /\ batch[v] = batch[w] => v = w
    /\ \A b \in Indices : outcome[b] # "none" => b < Taken
    /\ \A b \in Indices :
          b < Taken => outcome[b] # "none" \/ \E w \in Workers : Busy(w) /\ batch[w] = b

\* A pod stores a batch when it first sees its id, a batch has one pod, and what is
\* accepted was stored.
ClusterInv ==
    /\ \A r \in network : r.id \in Nat /\ r.id < Len(cut) /\ r.target = Pod(r.id)
    /\ \A b \in Indices : copies[b] = IF <<Pod(b), b>> \in seen THEN 1 ELSE 0
    /\ \A b \in Indices : copies[b] > 0 => b < Len(cut)
    /\ \A b \in Indices : outcome[b] = "accepted" => <<Pod(b), b>> \in seen

\* An attempt past the deadline is a batch's last.
DeadlineInv ==
    /\ \A b \in Indices : lateAttempts[b] <= 1
    /\ \A b \in Indices : lateAttempts[b] > 0 => late /\ b < Taken
    /\ \A w \in Workers : worker[w] = "post" => lateAttempts[batch[w]] = 0

\* Workers exit when the channel is closed and empty, main ends when they all have, and
\* what is cut short is marked.
EndInv ==
    /\ \A w \in load.workers : worker[w] = "exited" => reader = "closed" /\ jobs = <<>>
    /\ \A w \in Workers \ load.workers : worker[w] = "exited"
    /\ main \in {"final", "exited"} => Finished
    /\ summary # NoFile => main = "exited"
    /\ reader = "closed" /\ ~stoppedEarly => AtLimit \/ RowsLeft = 0
    /\ \A g \in giveUps : g.posts = MaxAttempts \/ stoppedEarly

\* What each batch adds to a counter.
SizeOf == [b \in CutIndices |-> Cardinality(LinesOf(b))]
SkippedOf == [b \in CutIndices |-> OfKind(b, {"skipped"})]
AcceptedOf == [b \in CutIndices |-> IF outcome[b] = "accepted" THEN Inserted(b) ELSE 0]
RejectedOf ==
    [b \in CutIndices |-> IF outcome[b] = "accepted" THEN Converted(b) - Inserted(b) ELSE 0]
FailedOf == [b \in CutIndices |-> IF outcome[b] = "failed" THEN Converted(b) ELSE 0]

\* The counters add up what became of the batches.
SumInv ==
    /\ rowsRead = Sum(SizeOf, CutIndices)
    /\ rowsAccepted = Sum(AcceptedOf, CutIndices)
    /\ rowsRejected = Sum(RejectedOf, CutIndices)
    /\ rowsFailed = Sum(FailedOf, CutIndices)

\* What main has loaded for a snapshot was read before, and stays so.
FileInv == snapAccepted \in Nat /\ snapAccepted <= rowsRead /\ ProgressConsistent

IInv ==
    /\ Shapes /\ CutInv /\ PlaceInv /\ ClusterInv /\ DeadlineInv /\ EndInv
    /\ SumInv /\ FileInv

-----------------------------------------------------------------------------

\* The constants are positive numbers, and a load has workers and batches of its size.
LEMMA Constants ==
    /\ Targets \in Nat /\ Targets > 0 /\ MaxAttempts \in Nat /\ MaxAttempts > 0
    /\ \A l \in Loads : /\ Len(l.lines) \in Nat /\ l.batchRows \in Nat /\ l.batchRows > 0
                        /\ l.maxRows \in Nat /\ l.workers \subseteq Workers /\ l.workers # {}
<1>1. \A l \in Loads : Len(l.lines) \in Nat
  BY UploadAssumption, LenProperties
<1> QED
  BY <1>1, UploadAssumption

\* Indices has an index for every line of the longest file.
LEMMA LongestFile ==
    /\ Indices \subseteq Nat
    /\ \A l \in Loads : \A n \in Nat : n < Len(l.lines) => n \in Indices
<1> DEFINE S == {Len(l.lines) : l \in Loads}
<1>1. \E m \in S : \A n \in S : m >= n
  BY UploadAssumption, Constants
<1>2. Max(S) \in S /\ \A n \in S : Max(S) >= n
  BY <1>1 DEF Max
<1>3. Max(S) \in Nat
  BY <1>2, Constants
<1>4. Indices = 0..Max(S) - 1
  BY DEF Indices
<1> HIDE DEF S
<1>5. Indices \subseteq Nat
  BY <1>3, <1>4
<1>6. ASSUME NEW l \in Loads, NEW n \in Nat, n < Len(l.lines) PROVE n \in Indices
  <2>1. Len(l.lines) <= Max(S) /\ Len(l.lines) \in Nat
    BY <1>2, Constants DEF S
  <2> QED
    BY <1>3, <1>4, <1>6, <2>1
<1> QED
  BY <1>5, <1>6

\* A batch that was cut has an index.
LEMMA CutInIndices ==
    ASSUME Shapes, CutInv, NEW n \in Nat, n < Len(cut)
    PROVE  n \in Indices
<1>1. Len(Lines) \in Nat /\ Len(cut) \in Nat
  BY Constants, LenProperties DEF Shapes, Lines
<1>2. n < Len(load.lines)
  BY <1>1 DEF Shapes, CutInv, Lines
<1> QED
  BY <1>2, LongestFile DEF Shapes

\* The reader cuts at least one line, and none beyond the file or -max-rows.
LEMMA RowsCut ==
    ASSUME Shapes, CutInv, ~AtLimit, RowsLeft > 0
    PROVE  /\ RowsToCut \in Nat /\ RowsToCut > 0 /\ rowsRead + RowsToCut <= Len(Lines)
           /\ MaxRows > 0 => rowsRead + RowsToCut <= MaxRows
<1>1. BatchRows \in Nat /\ BatchRows > 0 /\ MaxRows \in Nat /\ Len(Lines) \in Nat /\ rowsRead \in Nat
  BY Constants DEF Shapes, BatchRows, MaxRows, Lines
<1>2. RowsLeft \in Nat /\ RowsLeft > 0 /\ rowsRead + RowsLeft = Len(Lines)
  BY <1>1 DEF RowsLeft, Shapes
<1>3. MaxRows = 0 \/ MaxRows - rowsRead > 0
  BY <1>1 DEF AtLimit
<1> HIDE DEF BatchRows, RowsLeft, MaxRows, Lines
<1> QED
  BY <1>1, <1>2, <1>3 DEF RowsToCut, Smaller

\* The channel's capacity is a number.
LEMMA CapType == ASSUME Shapes PROVE JobsCap \in Nat
<1>1. IsFiniteSet(load.workers)
  BY UploadAssumption DEF Shapes
<1>2. Cardinality(load.workers) \in Nat
  BY <1>1, FS_CardinalityType
<1> QED
  BY <1>2 DEF JobsCap

\* An answer that is not a readable 200, by what the worker makes of it.
Failure(w) ==
    /\ Up /\ worker[w] = "reply" /\ network' \subseteq network
    /\ UNCHANGED <<load, late, readerVars, jobs, seen, copies, rowsAccepted, rowsRejected,
                   mainVars, lateAttempts>>
GivesUp(w) == Failure(w) /\ GiveUp(w) /\ (late \/ attempt[w] = MaxAttempts)
TriesAgain(w) == Failure(w) /\ TryAgain(w) /\ ~late /\ attempt[w] # MaxAttempts

\* The steps of Next, one by one.
LEMMA NextCases ==
    ASSUME [Next]_vars
    PROVE  \/ DeadlinePasses \/ CutBatch \/ ReaderReturns \/ SendBatch \/ TakeSnapshot
           \/ WriteProgress \/ WriteFinalProgress \/ WriteSummary \/ Fatal \/ UNCHANGED vars
           \/ \E w \in Workers : \/ TakeBatch(w) \/ ExitWorker(w) \/ Post(w) \/ ReplyOk(w)
                                 \/ GivesUp(w) \/ TriesAgain(w)
           \/ \E r \in network : Process(r)
<1>1. ASSUME NEW w \in Workers, ReplyBusy(w) \/ ReplyBroken(w) PROVE GivesUp(w) \/ TriesAgain(w)
  <2>1. Failure(w)
    BY <1>1 DEF Failure, ReplyBusy, ReplyBroken
  <2>2. AfterFailure(w)
    BY <1>1 DEF ReplyBusy, ReplyBroken
  <2> QED
    BY <2>1, <2>2 DEF AfterFailure, GivesUp, TriesAgain
<1> QED
  BY <1>1 DEF Next, ReaderStep, MainStep, WorkerStep, Ended

\* Adding to one counter of a table of them.
LEMMA Raise ==
    ASSUME NEW S, NEW f \in [S -> Nat], NEW x, NEW d \in Nat
    PROVE  /\ [f EXCEPT ![x] = @ + d] \in [S -> Nat]
           /\ \A y \in S : [f EXCEPT ![x] = @ + d][y] = IF y = x THEN f[y] + d ELSE f[y]
<1>1. CASE x \in S
  BY <1>1
<1>2. CASE x \notin S
  BY <1>2
<1> QED
  BY <1>1, <1>2

\* The initial state satisfies the invariant.
LEMMA InitIInv == Init => IInv
<1> SUFFICES ASSUME Init PROVE IInv
  OBVIOUS
<1> USE DEF Init
<1>1. Len(cut) = 0 /\ Len(jobs) = 0 /\ load \in Loads
  OBVIOUS
<1>2. Shapes
  <2>1. batch \in [Workers -> Nat] /\ attempt \in [Workers -> 0..MaxAttempts]
    BY Constants
  <2>2. rowsRead \in 0..Len(Lines)
    BY <1>1, Constants DEF Lines
  <2>3. cut \in Seq(Nat \X Nat) /\ jobs \in Seq(Nat)
    OBVIOUS
  <2> QED
    BY <1>1, <2>1, <2>2, <2>3 DEF Shapes
<1>3. CutInv
  <2>1. JobsCap \in Nat
    BY <1>2, CapType
  <2> QED
    BY <1>1, <2>1, Constants DEF CutInv, MaxRows
<1>4. PlaceInv
  BY <1>1, LongestFile DEF PlaceInv, Taken, Sent, Busy
<1>5. ClusterInv
  BY DEF ClusterInv
<1>6. DeadlineInv
  BY LongestFile DEF DeadlineInv
<1>7. EndInv
  BY Constants DEF EndInv, Finished
<1>8. SumInv
  <2>1. CutIndices = {}
    BY <1>1 DEF CutIndices
  <2> QED
    BY <2>1, SumEmpty DEF SumInv
<1>9. FileInv
  BY DEF FileInv, ProgressConsistent, NoFile
<1> QED
  BY <1>2, <1>3, <1>4, <1>5, <1>6, <1>7, <1>8, <1>9 DEF IInv

\* Every step preserves the types.
LEMMA ShapeStep == IInv /\ [Next]_vars => Shapes'
<1> SUFFICES ASSUME IInv, [Next]_vars PROVE Shapes'
  OBVIOUS
<1> USE DEF IInv, Shapes, Lines, readerVars, workerVars, clusterVars, mainVars, history
<1>1. CASE DeadlinePasses
  BY <1>1 DEF DeadlinePasses
<1>2. CASE CutBatch
  <2>1. <<rowsRead + 1, rowsRead + RowsToCut>> \in Nat \X Nat /\ rowsRead + RowsToCut \in 0..Len(Lines)
    BY <1>2, RowsCut, Constants DEF CutBatch
  <2>2. cut' \in Seq(Nat \X Nat)
    BY <1>2, <2>1, AppendProperties DEF CutBatch
  <2> QED
    BY <1>2, <2>1, <2>2 DEF CutBatch
<1>3. CASE ReaderReturns
  <2>1. StoppedAtTop \in BOOLEAN
    BY DEF StoppedAtTop
  <2> QED
    BY <1>3, <2>1 DEF ReaderReturns
<1>4. CASE SendBatch
  <2>1. Len(cut) - 1 \in Nat
    BY <1>4, LenProperties DEF SendBatch, CutInv
  <2>2. jobs' \in Seq(Nat)
    BY <1>4, <2>1, AppendProperties DEF SendBatch
  <2> QED
    BY <1>4, <2>2 DEF SendBatch
<1>5. CASE TakeSnapshot
  BY <1>5 DEF TakeSnapshot, mainElse
<1>6. CASE WriteProgress
  BY <1>6 DEF WriteProgress, mainElse
<1>7. CASE WriteFinalProgress
  BY <1>7 DEF WriteFinalProgress, mainElse
<1>8. CASE WriteSummary
  BY <1>8 DEF WriteSummary, mainElse
<1>9. CASE Fatal
  BY <1>9 DEF Fatal, mainElse
<1>10. CASE UNCHANGED vars
  BY <1>10 DEF vars, history, mainVars, clientStats
<1>11. ASSUME NEW w \in Workers,
             \/ TakeBatch(w) \/ ExitWorker(w) \/ Post(w) \/ ReplyOk(w)
             \/ GivesUp(w) \/ TriesAgain(w)
      PROVE  Shapes'
  <2>1. CASE TakeBatch(w)
    <3>1. Head(jobs) \in Nat /\ Tail(jobs) \in Seq(Nat)
      BY <2>1, HeadTailProperties DEF TakeBatch
    <3>2. 1 \in 0..MaxAttempts
      BY Constants
    <3> QED
      BY <2>1, <3>1, <3>2 DEF TakeBatch
  <2>2. CASE ExitWorker(w)
    BY <2>2 DEF ExitWorker
  <2>3. CASE Post(w)
    <3>1. PICK d \in Nat : lateAttempts' = [lateAttempts EXCEPT ![batch[w]] = @ + d]
      BY <2>3 DEF Post
    <3>2. lateAttempts' \in [Indices -> Nat]
      BY <3>1, Raise
    <3> QED
      BY <2>3, <3>2 DEF Post
  <2>4. CASE ReplyOk(w)
    BY <2>4 DEF ReplyOk, DoneWithBatch
  <2>5. CASE GivesUp(w)
    BY <2>5 DEF GivesUp, Failure, GiveUp, DoneWithBatch, MarkedByWorker
  <2>6. CASE TriesAgain(w)
    <3>1. attempt[w] + 1 \in 0..MaxAttempts
      BY <2>6, Constants DEF TriesAgain
    <3>2. attempt' \in [Workers -> 0..MaxAttempts]
      BY <2>6, <3>1 DEF TriesAgain, TryAgain
    <3> QED
      BY <2>6, <3>2 DEF TriesAgain, Failure, TryAgain
  <2> QED
    BY <1>11, <2>1, <2>2, <2>3, <2>4, <2>5, <2>6
<1>12. ASSUME NEW r \in network,
             Process(r)
      PROVE  Shapes'
  <2>1. CASE Process(r)
    <3>1. r.id \in Indices
      BY CutInIndices DEF ClusterInv
    <3>2. copies' \in [Indices -> Nat]
      BY <2>1, <3>1 DEF Process
    <3> QED
      BY <2>1, <3>2 DEF Process
  <2> QED
    BY <1>12, <2>1
<1> QED
  BY <1>1, <1>2, <1>3, <1>4, <1>5, <1>6, <1>7, <1>8, <1>9, <1>10, <1>11, <1>12, NextCases

\* Every batch has lines of its own.
LEMMA CutStep == IInv /\ [Next]_vars => CutInv'
<1> SUFFICES ASSUME IInv, [Next]_vars PROVE CutInv'
  OBVIOUS
<1> USE DEF IInv, CutInv, MaxRows, readerVars, workerVars, clusterVars, mainVars, history
<1>1. CASE DeadlinePasses
  BY <1>1 DEF DeadlinePasses, JobsCap
<1>2. CASE CutBatch
  <2>1. Len(cut') = Len(cut) + 1 /\ Len(cut) \in Nat
        /\ cut'[Len(cut) + 1] = <<rowsRead + 1, rowsRead + RowsToCut>>
        /\ \A i \in 1..Len(cut) : cut'[i] = cut[i]
    BY <1>2, AppendProperties, LenProperties DEF CutBatch, Shapes
  <2>2. rowsRead \in Nat /\ MaxRows \in Nat
    BY Constants DEF Shapes, MaxRows
  <2>3. RowsToCut \in Nat /\ RowsToCut > 0 /\ (MaxRows > 0 => rowsRead + RowsToCut <= MaxRows)
    BY <1>2, RowsCut DEF CutBatch
  <2>4. rowsRead' = rowsRead + RowsToCut /\ MaxRows' = MaxRows /\ reader' = "send" /\ jobs' = jobs
        /\ JobsCap' = JobsCap
    BY <1>2 DEF CutBatch, JobsCap
  <2> HIDE DEF MaxRows
  <2>5. Len(cut') <= rowsRead' /\ Len(cut') > 0
    BY <2>1, <2>2, <2>3, <2>4
  <2>6. ASSUME NEW i \in 1..Len(cut')
        PROVE  0 < cut'[i][1] /\ cut'[i][1] <= cut'[i][2] /\ cut'[i][2] <= rowsRead'
    <3>1. CASE i = Len(cut) + 1
      BY <3>1, <2>1, <2>2, <2>3, <2>4
    <3>2. CASE i \in 1..Len(cut)
      <4>1. cut'[i] = cut[i] /\ cut[i] \in Nat \X Nat
        BY <3>2, <2>1, ElementOfSeq DEF Shapes
      <4>2. 0 < cut[i][1] /\ cut[i][1] <= cut[i][2] /\ cut[i][2] <= rowsRead
        BY <3>2
      <4> QED
        BY <4>1, <4>2, <2>2, <2>3, <2>4
    <3> QED
      BY <3>1, <3>2, <2>1
  <2> QED
    BY <2>3, <2>4, <2>5, <2>6
<1>3. CASE ReaderReturns
  BY <1>3 DEF ReaderReturns, JobsCap
<1>4. CASE SendBatch
  <2>1. Len(jobs') = Len(jobs) + 1 /\ Len(jobs) \in Nat /\ Len(jobs) < JobsCap
    BY <1>4, AppendProperties, LenProperties DEF SendBatch, Shapes
  <2>2. JobsCap \in Nat /\ JobsCap' = JobsCap
    BY <1>4, CapType DEF SendBatch, JobsCap
  <2>3. Len(jobs') <= JobsCap'
    BY <2>1, <2>2
  <2> QED
    BY <1>4, <2>3 DEF SendBatch
<1>5. CASE TakeSnapshot
  BY <1>5 DEF TakeSnapshot, mainElse, JobsCap
<1>6. CASE WriteProgress
  BY <1>6 DEF WriteProgress, mainElse, JobsCap
<1>7. CASE WriteFinalProgress
  BY <1>7 DEF WriteFinalProgress, mainElse, JobsCap
<1>8. CASE WriteSummary
  BY <1>8 DEF WriteSummary, mainElse, JobsCap
<1>9. CASE Fatal
  BY <1>9 DEF Fatal, mainElse, JobsCap
<1>10. CASE UNCHANGED vars
  BY <1>10 DEF vars, history, mainVars, clientStats, JobsCap
<1>11. ASSUME NEW w \in Workers,
             \/ TakeBatch(w) \/ ExitWorker(w) \/ Post(w) \/ ReplyOk(w)
             \/ GivesUp(w) \/ TriesAgain(w)
      PROVE  CutInv'
  <2>1. CASE TakeBatch(w)
    <3>1. Len(jobs') = Len(jobs) - 1 /\ Len(jobs) \in Nat
      BY <2>1, HeadTailProperties, LenProperties, EmptySeq DEF TakeBatch, Shapes
    <3>2. JobsCap \in Nat /\ JobsCap' = JobsCap
      BY <2>1, CapType DEF TakeBatch, JobsCap
    <3>3. Len(jobs') <= JobsCap'
      BY <3>1, <3>2
    <3> QED
      BY <2>1, <3>3 DEF TakeBatch
  <2>2. CASE ExitWorker(w)
    BY <2>2 DEF ExitWorker, JobsCap
  <2>3. CASE Post(w)
    BY <2>3 DEF Post, JobsCap
  <2>4. CASE ReplyOk(w)
    BY <2>4 DEF ReplyOk, DoneWithBatch, JobsCap
  <2>5. CASE GivesUp(w)
    BY <2>5 DEF GivesUp, Failure, GiveUp, DoneWithBatch, JobsCap
  <2>6. CASE TriesAgain(w)
    BY <2>6 DEF TriesAgain, Failure, TryAgain, JobsCap
  <2> QED
    BY <1>11, <2>1, <2>2, <2>3, <2>4, <2>5, <2>6
<1>12. ASSUME NEW r \in network,
             Process(r)
      PROVE  CutInv'
  <2>1. CASE Process(r)
    BY <2>1 DEF Process, JobsCap
  <2> QED
    BY <1>12, <2>1
<1> QED
  BY <1>1, <1>2, <1>3, <1>4, <1>5, <1>6, <1>7, <1>8, <1>9, <1>10, <1>11, <1>12, NextCases

\* How many batches were sent and taken, in any state.
LEMMA Counts ==
    ASSUME Shapes, CutInv
    PROVE  /\ Len(cut) \in Nat /\ Len(jobs) \in Nat /\ Sent \in Nat /\ Sent <= Len(cut)
           /\ Taken \in Int /\ Taken = Sent - Len(jobs) /\ Taken <= Len(cut)
<1>1. Len(cut) \in Nat /\ Len(jobs) \in Nat
  BY LenProperties DEF Shapes
<1>2. Sent \in Nat /\ Sent <= Len(cut)
  BY <1>1 DEF Sent, CutInv
<1> QED
  BY <1>1, <1>2 DEF Taken

\* A batch that was taken has an index.
LEMMA TakenInIndices ==
    ASSUME Shapes, CutInv, NEW n \in Nat, n < Taken
    PROVE  n \in Indices
BY Counts, CutInIndices

\* A step that moves no batch leaves every batch where it is.
LEMMA NothingMoves ==
    ASSUME PlaceInv, Taken' = Taken, jobs' = jobs, batch' = batch, outcome' = outcome,
           \A w \in Workers : Busy(w)' <=> Busy(w)
    PROVE  PlaceInv'
BY DEF PlaceInv

\* A batch that a worker is done with.
LEMMA BatchDone ==
    ASSUME Shapes, CutInv, PlaceInv, NEW w \in Workers, Busy(w), ~Busy(w)', Taken' = Taken,
           jobs' = jobs, batch' = batch, \A v \in Workers \ {w} : Busy(v)' <=> Busy(v),
           NEW o \in {"accepted", "failed"}, outcome' = [outcome EXCEPT ![batch[w]] = o]
    PROVE  PlaceInv'
<1>1. batch[w] \in Nat /\ batch[w] < Taken
  BY DEF Shapes, PlaceInv
<1>2. batch[w] \in Indices
  BY <1>1, TakenInIndices
<1>3. \A b \in Indices : outcome'[b] = IF b = batch[w] THEN o ELSE outcome[b]
  BY <1>2 DEF Shapes
<1>4. \A v \in Workers : Busy(v)' => batch[v] < Taken /\ outcome'[batch[v]] = "none"
  <2> SUFFICES ASSUME NEW v \in Workers, Busy(v)'
               PROVE  batch[v] < Taken /\ outcome'[batch[v]] = "none"
    OBVIOUS
  <2>1. Busy(v) /\ v # w
    OBVIOUS
  <2>2. batch[v] < Taken /\ outcome[batch[v]] = "none" /\ batch[v] # batch[w] /\ batch[v] \in Nat
    BY <2>1 DEF PlaceInv, Shapes
  <2>3. batch[v] \in Indices
    BY <2>2, TakenInIndices
  <2> QED
    BY <2>2, <2>3, <1>3
<1>5. \A b \in Indices :
         b < Taken => outcome'[b] # "none" \/ \E v \in Workers : Busy(v)' /\ batch[v] = b
  BY <1>3 DEF PlaceInv
<1>6. \A b \in Indices : outcome'[b] # "none" => b < Taken
  BY <1>1, <1>3 DEF PlaceInv
<1>7. \A u, v \in Workers : Busy(u)' /\ Busy(v)' /\ batch[u] = batch[v] => u = v
  BY DEF PlaceInv
<1> QED
  BY <1>4, <1>5, <1>6, <1>7 DEF PlaceInv

\* Every step leaves a batch in one place.
LEMMA PlaceStep == IInv /\ [Next]_vars => PlaceInv'
<1> SUFFICES ASSUME IInv, [Next]_vars PROVE PlaceInv'
  OBVIOUS
<1> USE DEF IInv, readerVars, workerVars, clusterVars, mainVars, history
<1>1. CASE DeadlinePasses
  BY <1>1, NothingMoves DEF DeadlinePasses, Taken, Sent, Busy
<1>2. CASE CutBatch
  <2>1. Len(cut') = Len(cut) + 1
    BY <1>2, AppendProperties, LenProperties DEF CutBatch, Shapes
  <2>2. Taken' = Taken
    BY <1>2, <2>1, Counts DEF CutBatch, Taken, Sent
  <2>3. jobs' = jobs /\ batch' = batch /\ outcome' = outcome /\ \A w \in Workers : Busy(w)' <=> Busy(w)
    BY <1>2 DEF CutBatch, Busy
  <2> QED
    BY <2>2, <2>3, NothingMoves
<1>3. CASE ReaderReturns
  BY <1>3, NothingMoves DEF ReaderReturns, Taken, Sent, Busy
<1>4. CASE SendBatch
  <2>1. Len(cut) \in Nat /\ Len(cut) > 0 /\ Len(jobs) \in Nat /\ Sent = Len(cut) - 1 /\ Sent' = Len(cut)
    BY <1>4, LenProperties DEF SendBatch, CutInv, Shapes, Sent
  <2>2. Len(jobs') = Len(jobs) + 1 /\ jobs'[Len(jobs) + 1] = Sent
        /\ \A i \in 1..Len(jobs) : jobs'[i] = jobs[i]
    BY <1>4, <2>1, AppendProperties DEF SendBatch, Shapes
  <2>3. Taken' = Taken /\ Sent = Taken + Len(jobs) /\ Taken \in Int
    BY <2>1, <2>2 DEF Taken
  <2>4. \A i \in 1..Len(jobs') : jobs'[i] = Taken + i - 1
    <3>1. TAKE i \in 1..Len(jobs')
    <3>2. CASE i \in 1..Len(jobs)
      BY <2>2, <2>3, <3>2 DEF PlaceInv
    <3>3. CASE i = Len(jobs) + 1
      BY <2>1, <2>2, <2>3, <3>3
    <3> QED
      BY <2>1, <2>2, <3>1, <3>2, <3>3
  <2>5. batch' = batch /\ outcome' = outcome /\ \A w \in Workers : Busy(w)' <=> Busy(w)
    BY <1>4 DEF SendBatch, Busy
  <2> QED
    BY <2>3, <2>4, <2>5 DEF PlaceInv
<1>5. CASE TakeSnapshot
  BY <1>5, NothingMoves DEF TakeSnapshot, mainElse, Taken, Sent, Busy
<1>6. CASE WriteProgress
  BY <1>6, NothingMoves DEF WriteProgress, mainElse, Taken, Sent, Busy
<1>7. CASE WriteFinalProgress
  BY <1>7, NothingMoves DEF WriteFinalProgress, mainElse, Taken, Sent, Busy
<1>8. CASE WriteSummary
  BY <1>8, NothingMoves DEF WriteSummary, mainElse, Taken, Sent, Busy
<1>9. CASE Fatal
  BY <1>9, NothingMoves DEF Fatal, mainElse, Taken, Sent, Busy
<1>10. CASE UNCHANGED vars
  BY <1>10, NothingMoves DEF vars, history, mainVars, clientStats, Taken, Sent, Busy
<1>11. ASSUME NEW w \in Workers,
             \/ TakeBatch(w) \/ ExitWorker(w) \/ Post(w) \/ ReplyOk(w)
             \/ GivesUp(w) \/ TriesAgain(w)
      PROVE  PlaceInv'
  <2>1. CASE TakeBatch(w)
    <3>1. /\ Len(jobs) \in Nat /\ Len(jobs) > 0 /\ Head(jobs) = jobs[1] /\ Len(jobs') = Len(jobs) - 1
          /\ \A i \in 1..Len(jobs') : jobs'[i] = jobs[i + 1]
      BY <2>1, HeadTailProperties, EmptySeq, LenProperties DEF TakeBatch, Shapes
    <3>2. Taken \in Nat /\ Taken < Len(cut) /\ Taken' = Taken + 1
      BY <2>1, <3>1, Counts DEF TakeBatch, Taken, Sent, PlaceInv
    <3>3. jobs[1] = Taken
      BY <3>1, <3>2 DEF PlaceInv
    <3>4. \A i \in 1..Len(jobs') : jobs'[i] = Taken' + i - 1
      <4> SUFFICES ASSUME NEW i \in 1..Len(jobs') PROVE jobs'[i] = Taken' + i - 1
        OBVIOUS
      <4>1. i + 1 \in 1..Len(jobs) /\ jobs'[i] = jobs[i + 1]
        BY <3>1
      <4> QED
        BY <4>1, <3>1, <3>2 DEF PlaceInv
    <3>5. Taken \in Indices /\ outcome[Taken] = "none"
      BY <3>2, CutInIndices DEF PlaceInv
    <3>6. ~Busy(w) /\ Busy(w)' /\ batch'[w] = Taken /\ outcome' = outcome
      BY <2>1, <3>1, <3>3 DEF TakeBatch, Busy, Shapes
    <3>7. \A v \in Workers \ {w} : (Busy(v)' <=> Busy(v)) /\ batch'[v] = batch[v]
      BY <2>1 DEF TakeBatch, Busy, Shapes
    <3>8. \A v \in Workers : Busy(v)' => batch'[v] < Taken' /\ outcome'[batch'[v]] = "none"
      <4> SUFFICES ASSUME NEW v \in Workers, Busy(v)'
                   PROVE  batch'[v] < Taken' /\ outcome'[batch'[v]] = "none"
        OBVIOUS
      <4>1. CASE v = w
        BY <4>1, <3>2, <3>5, <3>6
      <4>2. CASE v # w
        <5>1. batch'[v] < Taken /\ outcome[batch'[v]] = "none" /\ batch'[v] \in Nat
          BY <4>2, <3>7 DEF PlaceInv, Shapes
        <5> QED
          BY <5>1, <3>2, <3>6
      <4> QED
        BY <4>1, <4>2
    <3>9. \A u, v \in Workers : Busy(u)' /\ Busy(v)' /\ batch'[u] = batch'[v] => u = v
      <4>1. \A v \in Workers \ {w} : Busy(v)' => batch'[v] # Taken
        <5> SUFFICES ASSUME NEW v \in Workers \ {w}, Busy(v)' PROVE batch'[v] # Taken
          OBVIOUS
        <5>1. batch[v] < Taken /\ batch[v] \in Nat /\ batch'[v] = batch[v]
          BY <3>7 DEF PlaceInv, Shapes
        <5> QED
          BY <5>1, <3>2
      <4> QED
        BY <4>1, <3>6, <3>7 DEF PlaceInv
    <3>10. \A b \in Indices : outcome'[b] # "none" => b < Taken'
      BY <3>2, <3>6, LongestFile DEF PlaceInv
    <3>11. ASSUME NEW b \in Indices, b < Taken'
           PROVE  outcome'[b] # "none" \/ \E v \in Workers : Busy(v)' /\ batch'[v] = b
      <4>1. b \in Nat
        BY LongestFile
      <4>2. CASE b = Taken
        BY <4>2, <3>6
      <4>3. CASE b < Taken
        <5>1. outcome[b] # "none" \/ \E v \in Workers : Busy(v) /\ batch[v] = b
          BY <4>3 DEF PlaceInv
        <5> QED
          BY <5>1, <3>6, <3>7
      <4> QED
        BY <4>1, <4>2, <4>3, <3>11, <3>2
    <3> QED
      BY <3>2, <3>4, <3>8, <3>9, <3>10, <3>11 DEF PlaceInv
  <2>2. CASE ExitWorker(w)
    <3>1. jobs' = jobs /\ batch' = batch /\ outcome' = outcome /\ Taken' = Taken
      BY <2>2 DEF ExitWorker, Taken, Sent
    <3>2. \A v \in Workers : Busy(v)' <=> Busy(v)
      BY <2>2 DEF ExitWorker, Busy, Shapes
    <3> QED
      BY <3>1, <3>2, NothingMoves
  <2>3. CASE Post(w)
    <3>1. jobs' = jobs /\ batch' = batch /\ outcome' = outcome /\ Taken' = Taken
      BY <2>3 DEF Post, Taken, Sent
    <3>2. \A v \in Workers : Busy(v)' <=> Busy(v)
      BY <2>3 DEF Post, Busy, Shapes
    <3> QED
      BY <3>1, <3>2, NothingMoves
  <2>4. CASE ReplyOk(w)
    <3>1. Busy(w) /\ ~Busy(w)' /\ Taken' = Taken
      BY <2>4 DEF ReplyOk, DoneWithBatch, Busy, Taken, Sent, Shapes
    <3>2. \A v \in Workers \ {w} : Busy(v)' <=> Busy(v)
      BY <2>4 DEF ReplyOk, DoneWithBatch, Shapes, Busy
    <3>3. jobs' = jobs /\ batch' = batch /\ outcome' = [outcome EXCEPT ![batch[w]] = "accepted"]
      BY <2>4 DEF ReplyOk, DoneWithBatch
    <3> QED
      BY <3>1, <3>2, <3>3, BatchDone DEF Shapes
  <2>5. CASE GivesUp(w)
    <3>1. Busy(w) /\ ~Busy(w)' /\ Taken' = Taken
      BY <2>5 DEF GivesUp, Failure, GiveUp, DoneWithBatch, Busy, Taken, Sent, Shapes
    <3>2. \A v \in Workers \ {w} : Busy(v)' <=> Busy(v)
      BY <2>5 DEF GivesUp, Failure, GiveUp, DoneWithBatch, Shapes, Busy
    <3>3. jobs' = jobs /\ batch' = batch /\ outcome' = [outcome EXCEPT ![batch[w]] = "failed"]
      BY <2>5 DEF GivesUp, Failure, GiveUp, DoneWithBatch
    <3> QED
      BY <3>1, <3>2, <3>3, BatchDone DEF Shapes
  <2>6. CASE TriesAgain(w)
    <3>1. jobs' = jobs /\ batch' = batch /\ outcome' = outcome /\ Taken' = Taken
      BY <2>6 DEF TriesAgain, Failure, TryAgain, Taken, Sent
    <3>2. \A v \in Workers : Busy(v)' <=> Busy(v)
      BY <2>6 DEF TriesAgain, Failure, TryAgain, Busy, Shapes
    <3> QED
      BY <3>1, <3>2, NothingMoves
  <2> QED
    BY <1>11, <2>1, <2>2, <2>3, <2>4, <2>5, <2>6
<1>12. ASSUME NEW r \in network,
             Process(r)
      PROVE  PlaceInv'
  <2>1. CASE Process(r)
    BY <2>1, NothingMoves DEF Process, Taken, Sent, Busy
  <2> QED
    BY <1>12, <2>1
<1> QED
  BY <1>1, <1>2, <1>3, <1>4, <1>5, <1>6, <1>7, <1>8, <1>9, <1>10, <1>11, <1>12, NextCases

\* A batch's pod is the same for every attempt.
LEMMA OnePod == \A b, a : TargetOf(b, a) = Pod(b)
BY DEF TargetOf, Pod

\* A batch that a worker holds was cut.
LEMMA HeldBatch ==
    ASSUME Shapes, CutInv, PlaceInv, NEW w \in Workers, Busy(w)
    PROVE  batch[w] \in Nat /\ batch[w] < Len(cut) /\ batch[w] < Taken /\ batch[w] \in Indices
<1>1. batch[w] \in Nat /\ batch[w] < Taken
  BY DEF Shapes, PlaceInv
<1> QED
  BY <1>1, Counts, TakenInIndices

\* What the cluster holds stays right while requests only leave the network.
LEMMA ClusterKeeps ==
    ASSUME ClusterInv, network' \subseteq network, Len(cut') >= Len(cut), Len(cut) \in Nat,
           Len(cut') \in Nat, copies' = copies, seen' = seen,
           \A b \in Indices :
              outcome'[b] = "accepted" => outcome[b] = "accepted" \/ <<Pod(b), b>> \in seen
    PROVE  ClusterInv'
<1>1. \A b \in Indices : copies[b] > 0 => b < Len(cut')
  BY LongestFile DEF ClusterInv
<1>2. \A r \in network' : r.id \in Nat /\ r.id < Len(cut') /\ r.target = Pod(r.id)
  BY DEF ClusterInv
<1> QED
  BY <1>1, <1>2 DEF ClusterInv, Pod, TargetOf

\* Every step leaves at most one copy of a batch.
LEMMA ClusterStep == IInv /\ [Next]_vars => ClusterInv'
<1> SUFFICES ASSUME IInv, [Next]_vars PROVE ClusterInv'
  OBVIOUS
<1> USE DEF IInv, readerVars, workerVars, clusterVars, mainVars, history
<1>1. CASE DeadlinePasses
  <2>1. network' \subseteq network /\ cut' = cut /\ copies' = copies /\ seen' = seen
        /\ outcome' = outcome
    BY <1>1 DEF DeadlinePasses
  <2> QED
    BY <2>1, Counts, ClusterKeeps
<1>2. CASE CutBatch
  <2>1. Len(cut') = Len(cut) + 1 /\ Len(cut) \in Nat
    BY <1>2, AppendProperties, Counts DEF CutBatch, Shapes
  <2>2. network' = network /\ copies' = copies /\ seen' = seen /\ outcome' = outcome
    BY <1>2 DEF CutBatch
  <2> QED
    BY <2>1, <2>2, ClusterKeeps
<1>3. CASE ReaderReturns
  <2>1. network' \subseteq network /\ cut' = cut /\ copies' = copies /\ seen' = seen
        /\ outcome' = outcome
    BY <1>3 DEF ReaderReturns
  <2> QED
    BY <2>1, Counts, ClusterKeeps
<1>4. CASE SendBatch
  <2>1. network' \subseteq network /\ cut' = cut /\ copies' = copies /\ seen' = seen
        /\ outcome' = outcome
    BY <1>4 DEF SendBatch
  <2> QED
    BY <2>1, Counts, ClusterKeeps
<1>5. CASE TakeSnapshot
  <2>1. network' \subseteq network /\ cut' = cut /\ copies' = copies /\ seen' = seen
        /\ outcome' = outcome
    BY <1>5 DEF TakeSnapshot, mainElse
  <2> QED
    BY <2>1, Counts, ClusterKeeps
<1>6. CASE WriteProgress
  <2>1. network' \subseteq network /\ cut' = cut /\ copies' = copies /\ seen' = seen
        /\ outcome' = outcome
    BY <1>6 DEF WriteProgress, mainElse
  <2> QED
    BY <2>1, Counts, ClusterKeeps
<1>7. CASE WriteFinalProgress
  <2>1. network' \subseteq network /\ cut' = cut /\ copies' = copies /\ seen' = seen
        /\ outcome' = outcome
    BY <1>7 DEF WriteFinalProgress, mainElse
  <2> QED
    BY <2>1, Counts, ClusterKeeps
<1>8. CASE WriteSummary
  <2>1. network' \subseteq network /\ cut' = cut /\ copies' = copies /\ seen' = seen
        /\ outcome' = outcome
    BY <1>8 DEF WriteSummary, mainElse
  <2> QED
    BY <2>1, Counts, ClusterKeeps
<1>9. CASE Fatal
  <2>1. network' \subseteq network /\ cut' = cut /\ copies' = copies /\ seen' = seen
        /\ outcome' = outcome
    BY <1>9 DEF Fatal, mainElse
  <2> QED
    BY <2>1, Counts, ClusterKeeps
<1>10. CASE UNCHANGED vars
  <2>1. network' \subseteq network /\ cut' = cut /\ copies' = copies /\ seen' = seen
        /\ outcome' = outcome
    BY <1>10 DEF vars, history, mainVars, clientStats
  <2> QED
    BY <2>1, Counts, ClusterKeeps
<1>11. ASSUME NEW w \in Workers,
             \/ TakeBatch(w) \/ ExitWorker(w) \/ Post(w) \/ ReplyOk(w)
             \/ GivesUp(w) \/ TriesAgain(w)
      PROVE  ClusterInv'
  <2>1. CASE TakeBatch(w)
    <3>1. network' \subseteq network /\ cut' = cut /\ copies' = copies /\ seen' = seen
          /\ outcome' = outcome
      BY <2>1 DEF TakeBatch
    <3> QED
      BY <3>1, Counts, ClusterKeeps
  <2>2. CASE ExitWorker(w)
    <3>1. network' \subseteq network /\ cut' = cut /\ copies' = copies /\ seen' = seen
          /\ outcome' = outcome
      BY <2>2 DEF ExitWorker
    <3> QED
      BY <3>1, Counts, ClusterKeeps
  <2>3. CASE Post(w)
    <3>1. Busy(w)
      BY <2>3 DEF Post, Busy
    <3>2. Request(w).id \in Nat /\ Request(w).id < Len(cut) /\ Request(w).target = Pod(Request(w).id)
      BY <3>1, HeldBatch, OnePod DEF Request
    <3>3. network' = network \cup {Request(w)} /\ cut' = cut /\ copies' = copies /\ seen' = seen
          /\ outcome' = outcome
      BY <2>3 DEF Post
    <3>4. \A r \in network' : r.id \in Nat /\ r.id < Len(cut') /\ r.target = Pod(r.id)
      BY <3>2, <3>3 DEF ClusterInv
    <3> QED
      BY <3>3, <3>4 DEF ClusterInv, Pod, TargetOf
  <2>4. CASE ReplyOk(w)
    <3>1. network' \subseteq network /\ cut' = cut /\ copies' = copies /\ seen' = seen
      BY <2>4 DEF ReplyOk
    <3>2. outcome' = [outcome EXCEPT ![batch[w]] = "accepted"]
      BY <2>4 DEF ReplyOk
    <3>3. \A b \in Indices :
             outcome'[b] = "accepted" => outcome[b] = "accepted" \/ <<Pod(b), b>> \in seen
      BY <2>4, <3>2, OnePod DEF Shapes, ReplyOk
    <3> QED
      BY <3>1, <3>3, Counts, ClusterKeeps
  <2>5. CASE GivesUp(w)
    <3>1. network' \subseteq network /\ cut' = cut /\ copies' = copies /\ seen' = seen
      BY <2>5 DEF GivesUp, Failure, GiveUp
    <3>2. outcome' = [outcome EXCEPT ![batch[w]] = "failed"]
      BY <2>5 DEF GivesUp, Failure, GiveUp
    <3>3. \A b \in Indices :
             outcome'[b] = "accepted" => outcome[b] = "accepted" \/ <<Pod(b), b>> \in seen
      BY <3>2 DEF Shapes
    <3> QED
      BY <3>1, <3>3, Counts, ClusterKeeps
  <2>6. CASE TriesAgain(w)
    <3>1. network' \subseteq network /\ cut' = cut /\ copies' = copies /\ seen' = seen
          /\ outcome' = outcome
      BY <2>6 DEF TriesAgain, Failure, TryAgain
    <3> QED
      BY <3>1, Counts, ClusterKeeps
  <2> QED
    BY <1>11, <2>1, <2>2, <2>3, <2>4, <2>5, <2>6
<1>12. ASSUME NEW r \in network,
             Process(r)
      PROVE  ClusterInv'
  <2>1. CASE Process(r)
    <3>1. r.id \in Nat /\ r.id < Len(cut) /\ r.target = Pod(r.id)
      BY DEF ClusterInv
    <3>2. r.id \in Indices
      BY <3>1, CutInIndices
    <3>3. network' \subseteq network /\ seen' = seen \cup {<<Pod(r.id), r.id>>} /\ cut' = cut
          /\ outcome' = outcome
      BY <2>1, <3>1 DEF Process
    <3>4. copies' = [copies EXCEPT ![r.id] = IF <<Pod(r.id), r.id>> \in seen THEN @ ELSE @ + 1]
      BY <2>1, <3>1 DEF Process
    <3>5. ASSUME NEW b \in Indices
          PROVE  /\ copies'[b] = IF <<Pod(b), b>> \in seen' THEN 1 ELSE 0
                 /\ copies'[b] > 0 => b < Len(cut')
                 /\ outcome'[b] = "accepted" => <<Pod(b), b>> \in seen'
      <4>1. CASE b = r.id
        BY <4>1, <3>1, <3>2, <3>3, <3>4 DEF ClusterInv, Shapes
      <4>2. CASE b # r.id
        BY <4>2, <3>2, <3>3, <3>4 DEF ClusterInv, Shapes
      <4> QED
        BY <4>1, <4>2
    <3>6. \A q \in network' : q.id \in Nat /\ q.id < Len(cut') /\ q.target = Pod(q.id)
      BY <3>3 DEF ClusterInv
    <3> QED
      BY <3>5, <3>6 DEF ClusterInv, Pod, TargetOf
  <2> QED
    BY <1>12, <2>1
<1> QED
  BY <1>1, <1>2, <1>3, <1>4, <1>5, <1>6, <1>7, <1>8, <1>9, <1>10, <1>11, <1>12, NextCases

\* The deadline once passed, a batch's attempts only count up when it is posted.
LEMMA AttemptsKept ==
    ASSUME Shapes, CutInv, DeadlineInv, lateAttempts' = lateAttempts, late => late',
           Taken' \in Int, Taken <= Taken',
           \A w \in Workers : worker'[w] = "post" => lateAttempts[batch'[w]] = 0
    PROVE  DeadlineInv'
<1>1. \A b \in Indices : lateAttempts[b] > 0 => late' /\ b < Taken'
  BY LongestFile, Counts DEF DeadlineInv
<1> QED
  BY <1>1 DEF DeadlineInv

\* Every step gives a batch at most one attempt past the deadline.
LEMMA DeadlineStep == IInv /\ [Next]_vars => DeadlineInv'
<1> SUFFICES ASSUME IInv, [Next]_vars PROVE DeadlineInv'
  OBVIOUS
<1> USE DEF IInv, readerVars, workerVars, clusterVars, mainVars, history
<1>1. CASE DeadlinePasses
  <2>1. lateAttempts' = lateAttempts /\ (late => late') /\ Taken' = Taken
    BY <1>1 DEF DeadlinePasses, Taken, Sent
  <2>2. \A w \in Workers : worker'[w] = "post" => lateAttempts[batch'[w]] = 0
    BY <1>1 DEF DeadlinePasses, DeadlineInv
  <2> QED
    BY <2>1, <2>2, Counts, AttemptsKept
<1>2. CASE CutBatch
  <2>1. Len(cut') = Len(cut) + 1
    BY <1>2, AppendProperties DEF CutBatch, Shapes
  <2>2. Taken' = Taken /\ lateAttempts' = lateAttempts /\ late' = late
    BY <1>2, <2>1, Counts DEF CutBatch, Taken, Sent
  <2>3. \A w \in Workers : worker'[w] = "post" => lateAttempts[batch'[w]] = 0
    BY <1>2 DEF CutBatch, DeadlineInv
  <2> QED
    BY <2>2, <2>3, Counts, AttemptsKept
<1>3. CASE ReaderReturns
  <2>1. lateAttempts' = lateAttempts /\ (late => late') /\ Taken' = Taken
    BY <1>3 DEF ReaderReturns, Taken, Sent
  <2>2. \A w \in Workers : worker'[w] = "post" => lateAttempts[batch'[w]] = 0
    BY <1>3 DEF ReaderReturns, DeadlineInv
  <2> QED
    BY <2>1, <2>2, Counts, AttemptsKept
<1>4. CASE SendBatch
  <2>1. Len(jobs') = Len(jobs) + 1 /\ Len(cut) \in Nat /\ Len(jobs) \in Nat
    BY <1>4, Counts, AppendProperties DEF SendBatch, Shapes
  <2>2. Taken' = Taken /\ lateAttempts' = lateAttempts /\ late' = late
    BY <1>4, <2>1 DEF SendBatch, Taken, Sent
  <2>3. \A w \in Workers : worker'[w] = "post" => lateAttempts[batch'[w]] = 0
    BY <1>4 DEF SendBatch, DeadlineInv
  <2> QED
    BY <2>2, <2>3, Counts, AttemptsKept
<1>5. CASE TakeSnapshot
  <2>1. lateAttempts' = lateAttempts /\ (late => late') /\ Taken' = Taken
    BY <1>5 DEF TakeSnapshot, mainElse, Taken, Sent
  <2>2. \A w \in Workers : worker'[w] = "post" => lateAttempts[batch'[w]] = 0
    BY <1>5 DEF TakeSnapshot, mainElse, DeadlineInv
  <2> QED
    BY <2>1, <2>2, Counts, AttemptsKept
<1>6. CASE WriteProgress
  <2>1. lateAttempts' = lateAttempts /\ (late => late') /\ Taken' = Taken
    BY <1>6 DEF WriteProgress, mainElse, Taken, Sent
  <2>2. \A w \in Workers : worker'[w] = "post" => lateAttempts[batch'[w]] = 0
    BY <1>6 DEF WriteProgress, mainElse, DeadlineInv
  <2> QED
    BY <2>1, <2>2, Counts, AttemptsKept
<1>7. CASE WriteFinalProgress
  <2>1. lateAttempts' = lateAttempts /\ (late => late') /\ Taken' = Taken
    BY <1>7 DEF WriteFinalProgress, mainElse, Taken, Sent
  <2>2. \A w \in Workers : worker'[w] = "post" => lateAttempts[batch'[w]] = 0
    BY <1>7 DEF WriteFinalProgress, mainElse, DeadlineInv
  <2> QED
    BY <2>1, <2>2, Counts, AttemptsKept
<1>8. CASE WriteSummary
  <2>1. lateAttempts' = lateAttempts /\ (late => late') /\ Taken' = Taken
    BY <1>8 DEF WriteSummary, mainElse, Taken, Sent
  <2>2. \A w \in Workers : worker'[w] = "post" => lateAttempts[batch'[w]] = 0
    BY <1>8 DEF WriteSummary, mainElse, DeadlineInv
  <2> QED
    BY <2>1, <2>2, Counts, AttemptsKept
<1>9. CASE Fatal
  <2>1. lateAttempts' = lateAttempts /\ (late => late') /\ Taken' = Taken
    BY <1>9 DEF Fatal, mainElse, Taken, Sent
  <2>2. \A w \in Workers : worker'[w] = "post" => lateAttempts[batch'[w]] = 0
    BY <1>9 DEF Fatal, mainElse, DeadlineInv
  <2> QED
    BY <2>1, <2>2, Counts, AttemptsKept
<1>10. CASE UNCHANGED vars
  <2>1. lateAttempts' = lateAttempts /\ (late => late') /\ Taken' = Taken
    BY <1>10 DEF vars, history, mainVars, clientStats, Taken, Sent
  <2>2. \A w \in Workers : worker'[w] = "post" => lateAttempts[batch'[w]] = 0
    BY <1>10 DEF vars, history, mainVars, clientStats, DeadlineInv
  <2> QED
    BY <2>1, <2>2, Counts, AttemptsKept
<1>11. ASSUME NEW w \in Workers,
             \/ TakeBatch(w) \/ ExitWorker(w) \/ Post(w) \/ ReplyOk(w)
             \/ GivesUp(w) \/ TriesAgain(w)
      PROVE  DeadlineInv'
  <2>1. CASE TakeBatch(w)
    <3>1. /\ Len(jobs) \in Nat /\ Len(jobs) > 0 /\ Head(jobs) = jobs[1] /\ Len(jobs') = Len(jobs) - 1
      BY <2>1, HeadTailProperties, EmptySeq, LenProperties DEF TakeBatch, Shapes
    <3>2. Taken \in Nat /\ Taken < Len(cut) /\ Taken' = Taken + 1
      BY <2>1, <3>1, Counts DEF TakeBatch, Taken, Sent, PlaceInv
    <3>3. jobs[1] = Taken /\ Taken \in Indices
      BY <3>1, <3>2, CutInIndices DEF PlaceInv
    <3>4. lateAttempts[Taken] = 0
      BY <3>2, <3>3 DEF DeadlineInv, Shapes
    <3>5. lateAttempts' = lateAttempts /\ late' = late
      BY <2>1 DEF TakeBatch
    <3>6. \A v \in Workers : worker'[v] = "post" => lateAttempts[batch'[v]] = 0
      BY <2>1, <3>1, <3>3, <3>4 DEF TakeBatch, DeadlineInv, Shapes
    <3> QED
      BY <3>2, <3>5, <3>6, AttemptsKept
  <2>2. CASE ExitWorker(w)
    <3>1. lateAttempts' = lateAttempts /\ (late => late') /\ Taken' = Taken
      BY <2>2 DEF ExitWorker, Taken, Sent
    <3>2. \A v \in Workers : worker'[v] = "post" => lateAttempts[batch'[v]] = 0
      BY <2>2 DEF ExitWorker, DeadlineInv, Shapes
    <3> QED
      BY <3>1, <3>2, Counts, AttemptsKept
  <2>3. CASE Post(w)
    <3>1. Busy(w)
      BY <2>3 DEF Post, Busy
    <3>2. batch[w] \in Indices /\ batch[w] < Taken /\ lateAttempts[batch[w]] = 0
      BY <2>3, <3>1, HeldBatch DEF Post, DeadlineInv
    <3>3. Taken' = Taken /\ late' = late /\ batch' = batch
      BY <2>3 DEF Post, Taken, Sent
    <3>4. \A b \in Indices :
             lateAttempts'[b] = IF b = batch[w] THEN IF late THEN 1 ELSE 0 ELSE lateAttempts[b]
      BY <2>3, <3>2 DEF Post, Shapes
    <3>5. /\ \A b \in Indices : lateAttempts'[b] <= 1
          /\ \A b \in Indices : lateAttempts'[b] > 0 => late /\ b < Taken
      BY <3>2, <3>4 DEF DeadlineInv
    <3>6. ASSUME NEW v \in Workers, worker'[v] = "post" PROVE lateAttempts'[batch[v]] = 0
      <4>1. v # w /\ worker[v] = "post"
        BY <2>3, <3>6 DEF Post, Shapes
      <4>2. Busy(v) /\ batch[v] # batch[w]
        BY <4>1, <3>1 DEF Busy, PlaceInv
      <4>3. batch[v] \in Indices /\ lateAttempts[batch[v]] = 0
        BY <4>1, <4>2, HeldBatch DEF DeadlineInv
      <4> QED
        BY <4>2, <4>3, <3>4
    <3> QED
      BY <3>3, <3>5, <3>6 DEF DeadlineInv
  <2>4. CASE ReplyOk(w)
    <3>1. lateAttempts' = lateAttempts /\ (late => late') /\ Taken' = Taken
      BY <2>4 DEF ReplyOk, DoneWithBatch, Taken, Sent
    <3>2. \A v \in Workers : worker'[v] = "post" => lateAttempts[batch'[v]] = 0
      BY <2>4 DEF ReplyOk, DoneWithBatch, DeadlineInv, Shapes
    <3> QED
      BY <3>1, <3>2, Counts, AttemptsKept
  <2>5. CASE GivesUp(w)
    <3>1. lateAttempts' = lateAttempts /\ (late => late') /\ Taken' = Taken
      BY <2>5 DEF GivesUp, Failure, GiveUp, DoneWithBatch, Taken, Sent
    <3>2. \A v \in Workers : worker'[v] = "post" => lateAttempts[batch'[v]] = 0
      BY <2>5 DEF GivesUp, Failure, GiveUp, DoneWithBatch, DeadlineInv, Shapes
    <3> QED
      BY <3>1, <3>2, Counts, AttemptsKept
  <2>6. CASE TriesAgain(w)
    <3>1. lateAttempts' = lateAttempts /\ late' = late /\ ~late /\ Taken' = Taken /\ batch' = batch
      BY <2>6 DEF TriesAgain, Failure, TryAgain, Taken, Sent
    <3>2. Busy(w)
      BY <2>6 DEF TriesAgain, Failure, Busy
    <3>3. lateAttempts[batch[w]] = 0
      BY <3>1, <3>2, HeldBatch DEF DeadlineInv, Shapes
    <3>4. \A v \in Workers : worker'[v] = "post" => lateAttempts[batch'[v]] = 0
      BY <2>6, <3>1, <3>3 DEF TriesAgain, TryAgain, DeadlineInv, Shapes
    <3> QED
      BY <3>1, <3>4, Counts, AttemptsKept
  <2> QED
    BY <1>11, <2>1, <2>2, <2>3, <2>4, <2>5, <2>6
<1>12. ASSUME NEW r \in network,
             Process(r)
      PROVE  DeadlineInv'
  <2>1. CASE Process(r)
    <3>1. lateAttempts' = lateAttempts /\ (late => late') /\ Taken' = Taken
      BY <2>1 DEF Process, Taken, Sent
    <3>2. \A w \in Workers : worker'[w] = "post" => lateAttempts[batch'[w]] = 0
      BY <2>1 DEF Process, DeadlineInv
    <3> QED
      BY <3>1, <3>2, Counts, AttemptsKept
  <2> QED
    BY <1>12, <2>1
<1> QED
  BY <1>1, <1>2, <1>3, <1>4, <1>5, <1>6, <1>7, <1>8, <1>9, <1>10, <1>11, <1>12, NextCases

\* Every step ends the upload in order, and marks what it cuts short.
LEMMA EndStep == IInv /\ [Next]_vars => EndInv'
<1> SUFFICES ASSUME IInv, [Next]_vars PROVE EndInv'
  OBVIOUS
<1> USE DEF IInv, EndInv, Finished, Up, AtLimit, RowsLeft, Lines, MaxRows, readerVars,
    workerVars, clusterVars, mainVars, history
<1>1. CASE DeadlinePasses
  BY <1>1 DEF DeadlinePasses
<1>2. CASE CutBatch
  BY <1>2, Constants DEF CutBatch
<1>3. CASE ReaderReturns
  BY <1>3 DEF ReaderReturns, StoppedAtTop
<1>4. CASE SendBatch
  BY <1>4 DEF SendBatch
<1>5. CASE TakeSnapshot
  BY <1>5 DEF TakeSnapshot, mainElse
<1>6. CASE WriteProgress
  BY <1>6 DEF WriteProgress, mainElse
<1>7. CASE WriteFinalProgress
  BY <1>7 DEF WriteFinalProgress, mainElse
<1>8. CASE WriteSummary
  BY <1>8 DEF WriteSummary, mainElse
<1>9. CASE Fatal
  BY <1>9 DEF Fatal, mainElse
<1>10. CASE UNCHANGED vars
  BY <1>10 DEF vars, history, mainVars, clientStats
<1>11. ASSUME NEW w \in Workers,
             \/ TakeBatch(w) \/ ExitWorker(w) \/ Post(w) \/ ReplyOk(w)
             \/ GivesUp(w) \/ TriesAgain(w)
      PROVE  EndInv'
  <2>1. CASE TakeBatch(w)
    <3>1. w \in load.workers /\ ~Finished /\ main \notin {"final", "exited"}
      BY <2>1 DEF TakeBatch, EndInv, Finished
    <3> QED
      BY <2>1, <3>1 DEF TakeBatch, EndInv, Finished, Shapes, AtLimit, RowsLeft, Lines, MaxRows
  <2>2. CASE ExitWorker(w)
    <3>1. w \in load.workers /\ ~Finished /\ main \notin {"final", "exited"}
      BY <2>2 DEF ExitWorker, EndInv, Finished
    <3> QED
      BY <2>2, <3>1 DEF ExitWorker, EndInv, Finished, Shapes, AtLimit, RowsLeft, Lines, MaxRows
  <2>3. CASE Post(w)
    <3>1. w \in load.workers /\ ~Finished /\ main \notin {"final", "exited"}
      BY <2>3 DEF Post, EndInv, Finished
    <3> QED
      BY <2>3, <3>1 DEF Post, EndInv, Finished, Shapes, AtLimit, RowsLeft, Lines, MaxRows
  <2>4. CASE ReplyOk(w)
    <3>1. w \in load.workers /\ ~Finished /\ main \notin {"final", "exited"}
      BY <2>4 DEF ReplyOk, DoneWithBatch, EndInv, Finished
    <3> QED
      BY <2>4, <3>1 DEF ReplyOk, DoneWithBatch, EndInv, Finished, Shapes, AtLimit, RowsLeft, Lines, MaxRows
  <2>5. CASE GivesUp(w)
    <3>1. w \in load.workers /\ ~Finished /\ main \notin {"final", "exited"}
      BY <2>5 DEF GivesUp, Failure, EndInv, Finished
    <3>2. \A g \in giveUps' : g.posts = MaxAttempts \/ stoppedEarly'
      BY <2>5 DEF GivesUp, GiveUp, MarkedByWorker, EndInv, Shapes
    <3>3. stoppedEarly \in BOOLEAN /\ (stoppedEarly => stoppedEarly')
      BY <2>5 DEF GivesUp, GiveUp, MarkedByWorker, Shapes
    <3> QED
      BY <2>5, <3>1, <3>2, <3>3 DEF GivesUp, Failure, GiveUp, DoneWithBatch, EndInv, Finished, Shapes, AtLimit, RowsLeft, Lines, MaxRows
  <2>6. CASE TriesAgain(w)
    <3>1. w \in load.workers /\ ~Finished /\ main \notin {"final", "exited"}
      BY <2>6 DEF TriesAgain, Failure, TryAgain, EndInv, Finished
    <3> QED
      BY <2>6, <3>1 DEF TriesAgain, Failure, TryAgain, EndInv, Finished, Shapes, AtLimit, RowsLeft, Lines, MaxRows
  <2> QED
    BY <1>11, <2>1, <2>2, <2>3, <2>4, <2>5, <2>6
<1>12. ASSUME NEW r \in network,
             Process(r)
      PROVE  EndInv'
  <2>1. CASE Process(r)
    BY <2>1 DEF Process
  <2> QED
    BY <1>12, <2>1
<1> QED
  BY <1>1, <1>2, <1>3, <1>4, <1>5, <1>6, <1>7, <1>8, <1>9, <1>10, <1>11, <1>12, NextCases

\* The lines of a batch: some converted, of which some are inserted, the others skipped.
LEMMA BatchLines ==
    ASSUME Shapes, CutInv, NEW b \in CutIndices
    PROVE  /\ Inserted(b) \in Nat /\ Converted(b) \in Nat /\ OfKind(b, {"skipped"}) \in Nat
           /\ Cardinality(LinesOf(b)) \in Nat /\ Inserted(b) <= Converted(b)
           /\ Converted(b) + OfKind(b, {"skipped"}) = Cardinality(LinesOf(b))
<1> DEFINE L == LinesOf(b)
           Kind(K) == {i \in L : Lines[i] \in K}
<1>1. b + 1 \in 1..Len(cut) /\ cut[b + 1] \in Nat \X Nat
  BY Counts, ElementOfSeq DEF CutIndices, Shapes
<1>2. cut[b + 1][1] \in Nat /\ cut[b + 1][2] \in Nat /\ 0 < cut[b + 1][1] /\ cut[b + 1][2] <= rowsRead
  BY <1>1 DEF CutInv
<1>3. L \subseteq 1..Len(Lines) /\ IsFiniteSet(L)
  <2>1. PICK lo \in Nat, hi \in Nat : L = lo..hi /\ 0 < lo /\ hi <= rowsRead
    BY <1>2 DEF LinesOf
  <2>2. rowsRead \in Nat /\ rowsRead <= Len(Lines) /\ Len(Lines) \in Nat
    BY Constants DEF Shapes, Lines
  <2> HIDE DEF L
  <2>3. IsFiniteSet(L)
    BY <2>1, FS_Interval
  <2> QED
    BY <2>1, <2>2, <2>3
<1>4. \A i \in L : Lines[i] \in {"good", "refused", "skipped"}
  BY <1>3, UploadAssumption, ElementOfSeq DEF Shapes, Lines
<1> HIDE DEF L
<1>5. \A K : IsFiniteSet(Kind(K)) /\ Cardinality(Kind(K)) \in Nat
  BY <1>3, FS_Subset, FS_CardinalityType
<1>6. Cardinality(Kind({"good"})) <= Cardinality(Kind({"good", "refused"}))
  BY <1>5, FS_Subset
<1>7. Cardinality(Kind({"good", "refused"})) + Cardinality(Kind({"skipped"})) = Cardinality(L)
  <2> DEFINE C == Kind({"good", "refused"})
             D == Kind({"skipped"})
  <2>1. C \cup D = L /\ C \cap D = {}
    BY <1>4
  <2>2. IsFiniteSet(C) /\ Cardinality(C) \in Nat /\ IsFiniteSet(D) /\ Cardinality(D) \in Nat
    BY <1>5
  <2> HIDE DEF C, D
  <2>3. Cardinality(L) = Cardinality(C) + Cardinality(D) - Cardinality({})
    BY <2>1, <2>2, FS_Union
  <2>4. Cardinality(C) + Cardinality(D) = Cardinality(L)
    BY <2>2, <2>3, FS_EmptySet
  <2> QED
    BY <2>4 DEF C, D
<1>8. Cardinality(L) \in Nat
  BY <1>3, FS_CardinalityType
<1> QED
  BY <1>5, <1>6, <1>7, <1>8 DEF L, OfKind, Converted, Inserted

\* What a batch adds to each counter is a natural number of rows.
LEMMA TableTypes ==
    ASSUME Shapes, CutInv
    PROVE  /\ IsFiniteSet(CutIndices)
           /\ SizeOf \in [CutIndices -> Nat] /\ SkippedOf \in [CutIndices -> Nat]
           /\ AcceptedOf \in [CutIndices -> Nat] /\ RejectedOf \in [CutIndices -> Nat]
           /\ FailedOf \in [CutIndices -> Nat]
<1>1. IsFiniteSet(CutIndices)
  BY Counts, FS_Interval DEF CutIndices
<1>2. SizeOf \in [CutIndices -> Nat] /\ SkippedOf \in [CutIndices -> Nat]
  BY BatchLines DEF SizeOf, SkippedOf
<1>3. AcceptedOf \in [CutIndices -> Nat] /\ FailedOf \in [CutIndices -> Nat]
  BY BatchLines DEF AcceptedOf, FailedOf
<1>4. RejectedOf \in [CutIndices -> Nat]
  <2>1. \A b \in CutIndices : Converted(b) - Inserted(b) \in Nat
    BY BatchLines
  <2> QED
    BY <2>1 DEF RejectedOf
<1> QED
  BY <1>1, <1>2, <1>3, <1>4

\* While no batch is cut or resolved the sums stay as they are.
LEMMA SumsKept ==
    ASSUME SumInv, UNCHANGED <<load, cut, outcome, rowsRead, rowsAccepted, rowsRejected, rowsFailed>>
    PROVE  SumInv'
<1>1. CutIndices' = CutIndices /\ SizeOf' = SizeOf /\ AcceptedOf' = AcceptedOf
      /\ RejectedOf' = RejectedOf /\ FailedOf' = FailedOf
  BY DEF CutIndices, SizeOf, AcceptedOf, RejectedOf, FailedOf, LinesOf, Inserted, Converted, OfKind, Lines
<1> QED
  BY <1>1 DEF SumInv

\* A batch that is resolved changes what it adds, and no other batch does.
LEMMA Resolved ==
    ASSUME Shapes, CutInv, SumInv, NEW b \in CutIndices, b \in Indices, outcome[b] = "none",
           NEW o \in {"accepted", "failed"}, outcome' = [outcome EXCEPT ![b] = o],
           UNCHANGED <<load, cut, rowsRead>>,
           NEW a \in Nat, a = (IF o = "accepted" THEN Inserted(b) ELSE 0),
           NEW r \in Nat, r = (IF o = "accepted" THEN Converted(b) - Inserted(b) ELSE 0),
           NEW f \in Nat, f = (IF o = "failed" THEN Converted(b) ELSE 0),
           rowsAccepted' = rowsAccepted + a, rowsRejected' = rowsRejected + r,
           rowsFailed' = rowsFailed + f
    PROVE  SumInv'
<1>1. CutIndices' = CutIndices /\ SizeOf' = SizeOf
  BY DEF CutIndices, SizeOf, LinesOf
<1>2. \A c \in CutIndices : Inserted(c)' = Inserted(c) /\ Converted(c)' = Converted(c)
  BY DEF Inserted, Converted, OfKind, LinesOf, Lines
<1>3. \A c \in CutIndices : c \in Indices
  BY Counts, CutInIndices DEF CutIndices
<1>4. \A c \in CutIndices : outcome'[c] = IF c = b THEN o ELSE outcome[c]
  BY <1>3 DEF Shapes
<1>5. AcceptedOf[b] = 0 /\ RejectedOf[b] = 0 /\ FailedOf[b] = 0
  BY DEF AcceptedOf, RejectedOf, FailedOf
<1>6. AcceptedOf' = [AcceptedOf EXCEPT ![b] = a]
  BY <1>1, <1>2, <1>4 DEF AcceptedOf
<1>7. RejectedOf' = [RejectedOf EXCEPT ![b] = r]
  BY <1>1, <1>2, <1>4 DEF RejectedOf
<1>8. FailedOf' = [FailedOf EXCEPT ![b] = f]
  BY <1>1, <1>2, <1>4 DEF FailedOf
<1>9. ASSUME NEW F \in [CutIndices -> Nat], NEW n \in Nat, F[b] = 0
      PROVE  Sum([F EXCEPT ![b] = n], CutIndices) = Sum(F, CutIndices) + n
  <2> DEFINE G == [F EXCEPT ![b] = n]
  <2>1. G \in [CutIndices -> Nat] /\ G[b] = n /\ \A c \in CutIndices \ {b} : F[c] = G[c]
    OBVIOUS
  <2> HIDE DEF G
  <2>2. Sum(G, CutIndices) + F[b] = Sum(F, CutIndices) + G[b]
    BY <2>1, TableTypes, SumChange
  <2>3. Sum(G, CutIndices) \in Nat
    BY <2>1, TableTypes, SumSplit
  <2>4. Sum(G, CutIndices) = Sum(F, CutIndices) + n
    BY <1>9, <2>1, <2>2, <2>3
  <2> QED
    BY <2>4 DEF G
<1>10. Sum(AcceptedOf', CutIndices) = rowsAccepted + a
  BY <1>5, <1>6, <1>9, TableTypes DEF SumInv
<1>11. Sum(RejectedOf', CutIndices) = rowsRejected + r
  BY <1>5, <1>7, <1>9, TableTypes DEF SumInv
<1>12. Sum(FailedOf', CutIndices) = rowsFailed + f
  BY <1>5, <1>8, <1>9, TableTypes DEF SumInv
<1> QED
  BY <1>1, <1>10, <1>11, <1>12 DEF SumInv

\* The counters are natural numbers.
LEMMA CounterTypes ==
    ASSUME Shapes, CutInv, SumInv
    PROVE  rowsAccepted \in Nat /\ rowsRejected \in Nat /\ rowsFailed \in Nat
BY TableTypes, SumSplit DEF SumInv

\* The counters stay within the rows read, and add up to them once every batch is resolved.
LEMMA CountersBounded ==
    ASSUME Shapes, CutInv, SumInv
    PROVE  /\ rowsAccepted + rowsRejected + rowsFailed + Sum(SkippedOf, CutIndices) <= rowsRead
           /\ (\A b \in CutIndices : outcome[b] # "none")
                => rowsAccepted + rowsRejected + rowsFailed + Sum(SkippedOf, CutIndices) = rowsRead
<1> DEFINE All == \A b \in CutIndices : outcome[b] # "none"
           ConvertedOf == [b \in CutIndices |-> Converted(b)]
           InsertedOf == [b \in CutIndices |-> IF outcome[b] = "accepted" THEN Converted(b) ELSE 0]
<1>1. ConvertedOf \in [CutIndices -> Nat] /\ InsertedOf \in [CutIndices -> Nat]
  BY BatchLines
<1>2. \A b \in CutIndices : AcceptedOf[b] + RejectedOf[b] = InsertedOf[b]
  BY BatchLines DEF AcceptedOf, RejectedOf
<1>3. \A b \in CutIndices : /\ InsertedOf[b] + FailedOf[b] <= ConvertedOf[b]
                            /\ All => InsertedOf[b] + FailedOf[b] = ConvertedOf[b]
  <2> SUFFICES ASSUME NEW b \in CutIndices
               PROVE  /\ InsertedOf[b] + FailedOf[b] <= ConvertedOf[b]
                      /\ All => InsertedOf[b] + FailedOf[b] = ConvertedOf[b]
    OBVIOUS
  <2>1. Converted(b) \in Nat
    BY BatchLines
  <2>2. outcome[b] \in {"none", "accepted", "failed"}
    <3>1. b \in Indices
      BY Counts, CutInIndices DEF CutIndices
    <3> QED
      BY <3>1 DEF Shapes
  <2>3. /\ InsertedOf[b] = IF outcome[b] = "accepted" THEN Converted(b) ELSE 0
        /\ FailedOf[b] = IF outcome[b] = "failed" THEN Converted(b) ELSE 0
        /\ ConvertedOf[b] = Converted(b)
    BY DEF FailedOf
  <2> HIDE DEF InsertedOf, ConvertedOf
  <2>4. InsertedOf[b] + FailedOf[b] <= ConvertedOf[b]
    BY <2>1, <2>2, <2>3
  <2>5. All => outcome[b] # "none"
    OBVIOUS
  <2>6. outcome[b] # "none" => InsertedOf[b] + FailedOf[b] = ConvertedOf[b]
    BY <2>1, <2>2, <2>3
  <2> QED
    BY <2>4, <2>5, <2>6
<1>4. \A b \in CutIndices : ConvertedOf[b] + SkippedOf[b] = SizeOf[b]
  BY BatchLines DEF SkippedOf, SizeOf
<1> HIDE DEF ConvertedOf, InsertedOf, All
<1>5. rowsAccepted + rowsRejected = Sum(InsertedOf, CutIndices)
  <2>1. \A b \in CutIndices : AcceptedOf[b] + RejectedOf[b] <= InsertedOf[b]
    BY <1>1, <1>2
  <2> QED
    BY <1>1, <1>2, <2>1, TableTypes, SumTerms DEF SumInv
<1>6. Sum(InsertedOf, CutIndices) + rowsFailed <= Sum(ConvertedOf, CutIndices)
      /\ (All => Sum(InsertedOf, CutIndices) + rowsFailed = Sum(ConvertedOf, CutIndices))
  BY <1>1, <1>3, TableTypes, SumTerms DEF SumInv
<1>7. Sum(ConvertedOf, CutIndices) + Sum(SkippedOf, CutIndices) = rowsRead
  <2>1. \A b \in CutIndices : ConvertedOf[b] + SkippedOf[b] <= SizeOf[b]
    BY <1>1, <1>4, TableTypes
  <2> QED
    BY <1>1, <1>4, <2>1, TableTypes, SumTerms DEF SumInv
<1>8. /\ Sum(InsertedOf, CutIndices) \in Nat /\ Sum(ConvertedOf, CutIndices) \in Nat
      /\ Sum(SkippedOf, CutIndices) \in Nat
  BY <1>1, TableTypes, SumSplit
<1> QED
  BY <1>5, <1>6, <1>7, <1>8, CounterTypes DEF All

\* Every step keeps the counters the sums of what became of the batches.
LEMMA SumStep == IInv /\ [Next]_vars => SumInv'
<1> SUFFICES ASSUME IInv, [Next]_vars PROVE SumInv'
  OBVIOUS
<1> USE DEF IInv, clientStats, readerVars, workerVars, clusterVars, mainVars, history
<1>1. CASE DeadlinePasses
  <2>1. UNCHANGED <<load, cut, outcome, rowsRead, rowsAccepted, rowsRejected, rowsFailed>>
    BY <1>1 DEF DeadlinePasses
  <2> QED
    BY <2>1, SumsKept
<1>2. CASE CutBatch
  <2>0. PICK n \in Nat : n = Len(cut)
    BY Counts
  <2>1. n \in Nat /\ n \notin CutIndices /\ CutIndices' = CutIndices \cup {n}
        /\ cut'[n + 1] = <<rowsRead + 1, rowsRead + RowsToCut>>
        /\ \A i \in 1..n : cut'[i] = cut[i]
    <3>1. Len(cut') = n + 1 /\ n \in Nat /\ cut'[n + 1] = <<rowsRead + 1, rowsRead + RowsToCut>>
          /\ \A i \in 1..n : cut'[i] = cut[i]
      BY <1>2, <2>0, AppendProperties DEF CutBatch, Shapes
    <3>2. n \notin 0..n - 1 /\ 0..(n + 1) - 1 = (0..n - 1) \cup {n}
      BY <3>1
    <3> QED
      BY <2>0, <3>1, <3>2 DEF CutIndices
  <2>2. RowsToCut \in Nat /\ RowsToCut > 0 /\ rowsRead \in Nat /\ rowsRead < Len(load.lines)
    BY <1>2, RowsCut, Constants DEF CutBatch, RowsLeft, Lines, Shapes
  <2>3. n \in Indices /\ outcome[n] = "none" /\ outcome' = outcome
    <3>1. n \in Indices
      BY <2>0, <2>2, Constants, LongestFile DEF Shapes, CutInv
    <3>2. ~(n < Taken)
      BY <2>0, Counts
    <3> QED
      BY <1>2, <3>1, <3>2 DEF CutBatch, PlaceInv
  <2>4. \A b \in CutIndices : LinesOf(b)' = LinesOf(b)
    BY <2>0, <2>1 DEF LinesOf, CutIndices
  <2>5. Cardinality(LinesOf(n))' = RowsToCut
    <3>1. LinesOf(n)' = rowsRead + 1 .. rowsRead + RowsToCut
      BY <2>1 DEF LinesOf
    <3>2. Cardinality(rowsRead + 1 .. rowsRead + RowsToCut) = RowsToCut
      BY <2>2, FS_Interval
    <3> QED
      BY <3>1, <3>2
  <2>6. \A b \in CutIndices : Inserted(b)' = Inserted(b) /\ Converted(b)' = Converted(b)
    BY <1>2, <2>4 DEF CutBatch, Inserted, Converted, OfKind, Lines
  <2>7. SizeOf' \in [CutIndices \cup {n} -> Nat] /\ SizeOf'[n] = RowsToCut
        /\ \A b \in CutIndices : SizeOf'[b] = SizeOf[b]
    <3>1. SizeOf' = [b \in CutIndices \cup {n} |-> IF b = n THEN RowsToCut ELSE SizeOf[b]]
      BY <2>1, <2>4, <2>5 DEF SizeOf
    <3> QED
      BY <3>1, <2>1, <2>2, TableTypes
  <2>8. AcceptedOf' \in [CutIndices \cup {n} -> Nat] /\ AcceptedOf'[n] = 0
        /\ \A b \in CutIndices : AcceptedOf'[b] = AcceptedOf[b]
    <3>1. AcceptedOf' = [b \in CutIndices \cup {n} |-> IF b = n THEN 0 ELSE AcceptedOf[b]]
      BY <2>1, <2>3, <2>6 DEF AcceptedOf
    <3> QED
      BY <3>1, <2>1, TableTypes
  <2>9. RejectedOf' \in [CutIndices \cup {n} -> Nat] /\ RejectedOf'[n] = 0
        /\ \A b \in CutIndices : RejectedOf'[b] = RejectedOf[b]
    <3>1. RejectedOf' = [b \in CutIndices \cup {n} |-> IF b = n THEN 0 ELSE RejectedOf[b]]
      BY <2>1, <2>3, <2>6 DEF RejectedOf
    <3> QED
      BY <3>1, <2>1, TableTypes
  <2>10. FailedOf' \in [CutIndices \cup {n} -> Nat] /\ FailedOf'[n] = 0
         /\ \A b \in CutIndices : FailedOf'[b] = FailedOf[b]
    <3>1. FailedOf' = [b \in CutIndices \cup {n} |-> IF b = n THEN 0 ELSE FailedOf[b]]
      BY <2>1, <2>3, <2>6 DEF FailedOf
    <3> QED
      BY <3>1, <2>1, TableTypes
  <2>11. ASSUME NEW F \in [CutIndices \cup {n} -> Nat], NEW G \in [CutIndices -> Nat],
                \A b \in CutIndices : F[b] = G[b]
         PROVE  Sum(F, CutIndices') = F[n] + Sum(G, CutIndices)
    <3>1. IsFiniteSet(CutIndices)
      BY TableTypes
    <3>2. n \notin CutIndices /\ CutIndices' = CutIndices \cup {n}
      BY <2>1
    <3>3. Grows(G, F, CutIndices, n)
      BY <2>11, <3>1, <3>2 DEF Grows
    <3>4. Sum(F, CutIndices \cup {n}) = F[n] + Sum(G, CutIndices)
      BY ONLY <3>3, SumGrow
    <3> QED
      BY <3>2, <3>4
  <2>12. Sum(SizeOf', CutIndices') = RowsToCut + rowsRead
    BY <2>7, <2>11, TableTypes DEF SumInv
  <2>13. /\ Sum(AcceptedOf', CutIndices') = 0 + rowsAccepted
         /\ Sum(RejectedOf', CutIndices') = 0 + rowsRejected
         /\ Sum(FailedOf', CutIndices') = 0 + rowsFailed
    <3>1. Sum(AcceptedOf', CutIndices') = 0 + rowsAccepted
      BY <2>8, <2>11, TableTypes DEF SumInv
    <3>2. Sum(RejectedOf', CutIndices') = 0 + rowsRejected
      BY <2>9, <2>11, TableTypes DEF SumInv
    <3>3. Sum(FailedOf', CutIndices') = 0 + rowsFailed
      BY <2>10, <2>11, TableTypes DEF SumInv
    <3> QED
      BY <3>1, <3>2, <3>3
  <2>14. rowsRead' = rowsRead + RowsToCut /\ UNCHANGED <<rowsAccepted, rowsRejected, rowsFailed>>
    BY <1>2 DEF CutBatch, clientStats
  <2> QED
    BY <2>2, <2>12, <2>13, <2>14, CounterTypes DEF SumInv
<1>3. CASE ReaderReturns
  <2>1. UNCHANGED <<load, cut, outcome, rowsRead, rowsAccepted, rowsRejected, rowsFailed>>
    BY <1>3 DEF ReaderReturns
  <2> QED
    BY <2>1, SumsKept
<1>4. CASE SendBatch
  <2>1. UNCHANGED <<load, cut, outcome, rowsRead, rowsAccepted, rowsRejected, rowsFailed>>
    BY <1>4 DEF SendBatch
  <2> QED
    BY <2>1, SumsKept
<1>5. CASE TakeSnapshot
  <2>1. UNCHANGED <<load, cut, outcome, rowsRead, rowsAccepted, rowsRejected, rowsFailed>>
    BY <1>5 DEF TakeSnapshot, mainElse
  <2> QED
    BY <2>1, SumsKept
<1>6. CASE WriteProgress
  <2>1. UNCHANGED <<load, cut, outcome, rowsRead, rowsAccepted, rowsRejected, rowsFailed>>
    BY <1>6 DEF WriteProgress, mainElse
  <2> QED
    BY <2>1, SumsKept
<1>7. CASE WriteFinalProgress
  <2>1. UNCHANGED <<load, cut, outcome, rowsRead, rowsAccepted, rowsRejected, rowsFailed>>
    BY <1>7 DEF WriteFinalProgress, mainElse
  <2> QED
    BY <2>1, SumsKept
<1>8. CASE WriteSummary
  <2>1. UNCHANGED <<load, cut, outcome, rowsRead, rowsAccepted, rowsRejected, rowsFailed>>
    BY <1>8 DEF WriteSummary, mainElse
  <2> QED
    BY <2>1, SumsKept
<1>9. CASE Fatal
  <2>1. UNCHANGED <<load, cut, outcome, rowsRead, rowsAccepted, rowsRejected, rowsFailed>>
    BY <1>9 DEF Fatal, mainElse
  <2> QED
    BY <2>1, SumsKept
<1>10. CASE UNCHANGED vars
  <2>1. UNCHANGED <<load, cut, outcome, rowsRead, rowsAccepted, rowsRejected, rowsFailed>>
    BY <1>10 DEF vars, history, mainVars, clientStats
  <2> QED
    BY <2>1, SumsKept
<1>11. ASSUME NEW w \in Workers,
             \/ TakeBatch(w) \/ ExitWorker(w) \/ Post(w) \/ ReplyOk(w)
             \/ GivesUp(w) \/ TriesAgain(w)
      PROVE  SumInv'
  <2>1. CASE TakeBatch(w)
    <3>1. UNCHANGED <<load, cut, outcome, rowsRead, rowsAccepted, rowsRejected, rowsFailed>>
      BY <2>1 DEF TakeBatch
    <3> QED
      BY <3>1, SumsKept
  <2>2. CASE ExitWorker(w)
    <3>1. UNCHANGED <<load, cut, outcome, rowsRead, rowsAccepted, rowsRejected, rowsFailed>>
      BY <2>2 DEF ExitWorker
    <3> QED
      BY <3>1, SumsKept
  <2>3. CASE Post(w)
    <3>1. UNCHANGED <<load, cut, outcome, rowsRead, rowsAccepted, rowsRejected, rowsFailed>>
      BY <2>3 DEF Post
    <3> QED
      BY <3>1, SumsKept
  <2>4. CASE ReplyOk(w)
    <3> DEFINE b == batch[w]
    <3>1. Busy(w)
      BY <2>4 DEF ReplyOk, Busy
    <3>2. b \in CutIndices /\ b \in Indices /\ outcome[b] = "none"
      BY <3>1, HeldBatch, Counts DEF CutIndices, PlaceInv
    <3>3. Inserted(b) \in Nat /\ Converted(b) - Inserted(b) \in Nat
      BY <3>2, BatchLines
    <3>4. /\ UNCHANGED <<load, cut, rowsRead>> /\ outcome' = [outcome EXCEPT ![b] = "accepted"]
          /\ rowsAccepted' = rowsAccepted + Inserted(b) /\ rowsFailed' = rowsFailed
          /\ rowsRejected' = rowsRejected + (Converted(b) - Inserted(b))
      BY <2>4 DEF ReplyOk, AcceptedRows
    <3> HIDE DEF b
    <3>5. rowsFailed' = rowsFailed + 0
      BY <3>4, CounterTypes
    <3> QED
      BY <3>2, <3>3, <3>4, <3>5, Resolved
  <2>5. CASE GivesUp(w)
    <3> DEFINE b == batch[w]
    <3>1. Busy(w)
      BY <2>5 DEF GivesUp, Failure, Busy
    <3>2. b \in CutIndices /\ b \in Indices /\ outcome[b] = "none"
      BY <3>1, HeldBatch, Counts DEF CutIndices, PlaceInv
    <3>3. Converted(b) \in Nat
      BY <3>2, BatchLines
    <3>4. /\ UNCHANGED <<load, cut, rowsRead>> /\ outcome' = [outcome EXCEPT ![b] = "failed"]
          /\ rowsAccepted' = rowsAccepted /\ rowsRejected' = rowsRejected
          /\ rowsFailed' = rowsFailed + Converted(b)
      BY <2>5 DEF GivesUp, Failure, GiveUp, RowsLost
    <3> HIDE DEF b
    <3>5. rowsAccepted' = rowsAccepted + 0 /\ rowsRejected' = rowsRejected + 0
      BY <3>4, CounterTypes
    <3> QED
      BY <3>2, <3>3, <3>4, <3>5, Resolved
  <2>6. CASE TriesAgain(w)
    <3>1. UNCHANGED <<load, cut, outcome, rowsRead, rowsAccepted, rowsRejected, rowsFailed>>
      BY <2>6 DEF TriesAgain, Failure, TryAgain
    <3> QED
      BY <3>1, SumsKept
  <2> QED
    BY <1>11, <2>1, <2>2, <2>3, <2>4, <2>5, <2>6
<1>12. ASSUME NEW r \in network,
             Process(r)
      PROVE  SumInv'
  <2>1. CASE Process(r)
    <3>1. UNCHANGED <<load, cut, outcome, rowsRead, rowsAccepted, rowsRejected, rowsFailed>>
      BY <2>1 DEF Process
    <3> QED
      BY <3>1, SumsKept
  <2> QED
    BY <1>12, <2>1
<1> QED
  BY <1>1, <1>2, <1>3, <1>4, <1>5, <1>6, <1>7, <1>8, <1>9, <1>10, <1>11, <1>12, NextCases

\* No more rows are accepted than were read.
LEMMA AcceptedWereRead ==
    ASSUME Shapes, CutInv, SumInv
    PROVE  rowsAccepted \in Nat /\ rowsAccepted <= rowsRead
<1>1. Sum(SkippedOf, CutIndices) \in Nat
  BY TableTypes, SumSplit
<1>2. rowsRead \in Nat
  BY DEF Shapes
<1> QED
  BY <1>1, <1>2, CounterTypes, CountersBounded

\* Every step leaves a progress file that claims no more than was read.
LEMMA FileStep == IInv /\ [Next]_vars => FileInv'
<1> SUFFICES ASSUME IInv, [Next]_vars PROVE FileInv'
  OBVIOUS
<1> USE DEF IInv, FileInv, ProgressConsistent, readerVars, workerVars, clusterVars, mainVars,
    history
<1>1. CASE DeadlinePasses
  BY <1>1 DEF DeadlinePasses
<1>2. CASE CutBatch
  <2>1. rowsRead \in Nat /\ RowsToCut \in Nat
    BY <1>2, RowsCut DEF CutBatch, Shapes
  <2>2. rowsRead' = rowsRead + RowsToCut /\ snapAccepted' = snapAccepted /\ progress' = progress
    BY <1>2 DEF CutBatch
  <2> QED
    BY <2>1, <2>2
<1>3. CASE ReaderReturns
  BY <1>3 DEF ReaderReturns
<1>4. CASE SendBatch
  BY <1>4 DEF SendBatch
<1>5. CASE TakeSnapshot
  <2>1. rowsAccepted <= rowsRead /\ rowsAccepted \in Nat
    BY AcceptedWereRead
  <2> QED
    BY <1>5, <2>1 DEF TakeSnapshot, mainElse
<1>6. CASE WriteProgress
  BY <1>6 DEF WriteProgress, mainElse, SnapFile
<1>7. CASE WriteFinalProgress
  <2>1. rowsAccepted <= rowsRead /\ rowsAccepted \in Nat
    BY AcceptedWereRead
  <2> QED
    BY <1>7, <2>1 DEF WriteFinalProgress, FinalFile, mainElse
<1>8. CASE WriteSummary
  BY <1>8 DEF WriteSummary, mainElse
<1>9. CASE Fatal
  BY <1>9 DEF Fatal, mainElse
<1>10. CASE UNCHANGED vars
  BY <1>10 DEF vars, history, mainVars, clientStats
<1>11. ASSUME NEW w \in Workers,
             \/ TakeBatch(w) \/ ExitWorker(w) \/ Post(w) \/ ReplyOk(w)
             \/ GivesUp(w) \/ TriesAgain(w)
      PROVE  FileInv'
  <2>1. CASE TakeBatch(w)
    BY <2>1 DEF TakeBatch
  <2>2. CASE ExitWorker(w)
    BY <2>2 DEF ExitWorker
  <2>3. CASE Post(w)
    BY <2>3 DEF Post
  <2>4. CASE ReplyOk(w)
    BY <2>4 DEF ReplyOk, DoneWithBatch
  <2>5. CASE GivesUp(w)
    BY <2>5 DEF GivesUp, Failure, GiveUp, DoneWithBatch
  <2>6. CASE TriesAgain(w)
    BY <2>6 DEF TriesAgain, Failure, TryAgain
  <2> QED
    BY <1>11, <2>1, <2>2, <2>3, <2>4, <2>5, <2>6
<1>12. ASSUME NEW r \in network,
             Process(r)
      PROVE  FileInv'
  <2>1. CASE Process(r)
    BY <2>1 DEF Process
  <2> QED
    BY <1>12, <2>1
<1> QED
  BY <1>1, <1>2, <1>3, <1>4, <1>5, <1>6, <1>7, <1>8, <1>9, <1>10, <1>11, <1>12, NextCases

\* When main has seen every worker exit, every batch that was cut is accounted for.
LEMMA AllResolved ==
    ASSUME IInv, Finished
    PROVE  /\ reader = "closed"
           /\ \A b \in Indices : b < Len(cut) => outcome[b] # "none"
<1>1. reader = "closed" /\ jobs = <<>>
  BY Constants DEF IInv, EndInv, Finished, Shapes
<1>2. Taken = Len(cut)
  BY <1>1, Counts DEF IInv, Sent
<1>3. \A w \in Workers : ~Busy(w)
  BY DEF Finished, Busy
<1> QED
  BY <1>1, <1>2, <1>3 DEF IInv, PlaceInv

\* A summary without stopped_early is one of the whole file, or of -max-rows of it, and
\* what it counts as failed was tried maxAttempts times.
LEMMA Unmarked == IInv => UnmarkedIsWhole
<1> SUFFICES ASSUME IInv, summary # NoFile, ~stoppedEarly
             PROVE  /\ rowsRead = Smaller(Len(Lines), IF MaxRows = 0 THEN Len(Lines) ELSE MaxRows)
                    /\ \A g \in giveUps : g.posts = MaxAttempts
  BY DEF UnmarkedIsWhole
<1>1. Finished
  BY DEF IInv, EndInv
<1>2. AtLimit \/ RowsLeft = 0
  BY <1>1, AllResolved DEF IInv, EndInv
<1>3. Len(Lines) \in Nat /\ MaxRows \in Nat /\ rowsRead \in Nat /\ rowsRead <= Len(Lines)
      /\ (MaxRows > 0 => rowsRead <= MaxRows)
  BY Constants DEF IInv, Shapes, CutInv, Lines, MaxRows
<1>4. (MaxRows > 0 /\ rowsRead >= MaxRows) \/ rowsRead = Len(Lines)
  BY <1>2, <1>3 DEF AtLimit, RowsLeft
<1> HIDE DEF Lines, MaxRows
<1>5. rowsRead = Smaller(Len(Lines), IF MaxRows = 0 THEN Len(Lines) ELSE MaxRows)
  BY <1>3, <1>4 DEF Smaller
<1> QED
  BY <1>5 DEF IInv, EndInv

\* The rows the table holds of each batch.
StoredOf == [b \in CutIndices |-> copies[b] * Inserted(b)]

\* A batch that was cut is stored whole or not at all.
LEMMA StoredTypes ==
    ASSUME Shapes, CutInv, ClusterInv
    PROVE  /\ StoredOf \in [CutIndices -> Nat]
           /\ \A b \in CutIndices : StoredOf[b] = IF <<Pod(b), b>> \in seen THEN Inserted(b) ELSE 0
<1>1. \A b \in CutIndices : b \in Indices /\ Inserted(b) \in Nat
  BY BatchLines, Counts, CutInIndices DEF CutIndices
<1>2. ASSUME NEW b \in CutIndices
      PROVE  copies[b] * Inserted(b) = IF <<Pod(b), b>> \in seen THEN Inserted(b) ELSE 0
  <2>1. CASE <<Pod(b), b>> \in seen
    <3>1. copies[b] = 1
      BY <1>1, <2>1 DEF ClusterInv
    <3> QED
      BY <1>1, <2>1, <3>1
  <2>2. CASE <<Pod(b), b>> \notin seen
    <3>1. copies[b] = 0
      BY <1>1, <2>2 DEF ClusterInv
    <3> QED
      BY <1>1, <2>2, <3>1
  <2> QED
    BY <2>1, <2>2
<1>3. ASSUME NEW b \in CutIndices PROVE copies[b] * Inserted(b) \in Nat
  <2>1. (IF <<Pod(b), b>> \in seen THEN Inserted(b) ELSE 0) \in Nat
    BY <1>1
  <2> QED
    BY <1>2, <2>1
<1> QED
  BY <1>2, <1>3 DEF StoredOf

\* What Upload1brc totals of a batch is Sum of its table: the rows convert dropped,
LEMMA SkippedTotal ==
    ASSUME Shapes, CutInv
    PROVE  Total(CutIndices, LAMBDA b : OfKind(b, {"skipped"})) = Sum(SkippedOf, CutIndices)
<1> DEFINE S == CutIndices
           Term(b) == OfKind(b, {"skipped"})
           Table(g) ==
              [s \in SUBSET S |-> IF s = {} THEN 0 ELSE Term(Pick(s)) + g[s \ {Pick(s)}]]
           t == CHOOSE g : g = Table(g)
<1>1. IsFiniteSet(S) /\ SkippedOf \in [S -> Nat] /\ \A b \in S : SkippedOf[b] = Term(b)
  BY TableTypes DEF SkippedOf
<1>2. Total(S, LAMBDA b : OfKind(b, {"skipped"})) = t[S]
  BY DEF Total, MapThenSumSet, MapThenFoldSet, Pick
<1> HIDE DEF Term, S
<1>3. \A g : Table(g) = [s \in SUBSET S |->
                            IF s = {} THEN 0 ELSE SkippedOf[Pick(s)] + g[s \ {Pick(s)}]]
  <2>1. \A s \in SUBSET S : s # {} => SkippedOf[Pick(s)] = Term(Pick(s))
    BY <1>1 DEF Pick
  <2> QED
    BY <2>1
<1>4. \A g : g = Table(g) <=> Adds(SkippedOf, S, g)
  BY <1>3 DEF Adds
<1>5. Adds(SkippedOf, S, t)
  BY <1>1, <1>4, SumIs
<1>6. t[S] = Sum(SkippedOf, S)
  BY <1>1, <1>5, SumIs
<1> HIDE DEF t
<1> QED
  BY <1>2, <1>6 DEF S

\* the lines of the batches,
LEMMA SizeTotal ==
    ASSUME Shapes, CutInv
    PROVE  Total(CutIndices, LAMBDA b : Cardinality(LinesOf(b))) = Sum(SizeOf, CutIndices)
<1> DEFINE S == CutIndices
           Term(b) == Cardinality(LinesOf(b))
           Table(g) ==
              [s \in SUBSET S |-> IF s = {} THEN 0 ELSE Term(Pick(s)) + g[s \ {Pick(s)}]]
           t == CHOOSE g : g = Table(g)
<1>1. IsFiniteSet(S) /\ SizeOf \in [S -> Nat] /\ \A b \in S : SizeOf[b] = Term(b)
  BY TableTypes DEF SizeOf
<1>2. Total(S, LAMBDA b : Cardinality(LinesOf(b))) = t[S]
  BY DEF Total, MapThenSumSet, MapThenFoldSet, Pick
<1> HIDE DEF Term, S
<1>3. \A g : Table(g) = [s \in SUBSET S |->
                            IF s = {} THEN 0 ELSE SizeOf[Pick(s)] + g[s \ {Pick(s)}]]
  <2>1. \A s \in SUBSET S : s # {} => SizeOf[Pick(s)] = Term(Pick(s))
    BY <1>1 DEF Pick
  <2> QED
    BY <2>1
<1>4. \A g : g = Table(g) <=> Adds(SizeOf, S, g)
  BY <1>3 DEF Adds
<1>5. Adds(SizeOf, S, t)
  BY <1>1, <1>4, SumIs
<1>6. t[S] = Sum(SizeOf, S)
  BY <1>1, <1>5, SumIs
<1> HIDE DEF t
<1> QED
  BY <1>2, <1>6 DEF S

\* and the rows the table holds.
LEMMA StoredTotal ==
    ASSUME Shapes, CutInv, PlaceInv, ClusterInv
    PROVE  Total(CutIndices, LAMBDA b : copies[b] * Inserted(b)) = Sum(StoredOf, CutIndices)
<1> DEFINE S == CutIndices
           Term(b) == copies[b] * Inserted(b)
           Table(g) ==
              [s \in SUBSET S |-> IF s = {} THEN 0 ELSE Term(Pick(s)) + g[s \ {Pick(s)}]]
           t == CHOOSE g : g = Table(g)
<1>1. IsFiniteSet(S) /\ StoredOf \in [S -> Nat] /\ \A b \in S : StoredOf[b] = Term(b)
  BY TableTypes, StoredTypes DEF StoredOf
<1>2. Total(S, LAMBDA b : copies[b] * Inserted(b)) = t[S]
  BY DEF Total, MapThenSumSet, MapThenFoldSet, Pick
<1> HIDE DEF Term, S
<1>3. \A g : Table(g) = [s \in SUBSET S |->
                            IF s = {} THEN 0 ELSE StoredOf[Pick(s)] + g[s \ {Pick(s)}]]
  <2>1. \A s \in SUBSET S : s # {} => StoredOf[Pick(s)] = Term(Pick(s))
    BY <1>1 DEF Pick
  <2> QED
    BY <2>1
<1>4. \A g : g = Table(g) <=> Adds(StoredOf, S, g)
  BY <1>3 DEF Adds
<1>5. Adds(StoredOf, S, t)
  BY <1>1, <1>4, SumIs
<1>6. t[S] = Sum(StoredOf, S)
  BY <1>1, <1>5, SumIs
<1> HIDE DEF t
<1> QED
  BY <1>2, <1>6 DEF S

\* A summary adds up.
LEMMA Summed == IInv => SummaryAccounts
<1> SUFFICES ASSUME IInv, summary # NoFile
             PROVE  /\ rowsRead = rowsAccepted + rowsRejected + rowsFailed
                                   + Total(CutIndices, LAMBDA b : OfKind(b, {"skipped"}))
                    /\ rowsRead = Total(CutIndices, LAMBDA b : Cardinality(LinesOf(b)))
  BY DEF SummaryAccounts
<1>1. \A b \in CutIndices : outcome[b] # "none"
  <2>1. \A b \in CutIndices : b \in Indices /\ b < Len(cut)
    BY Counts, CutInIndices DEF CutIndices, IInv
  <2> QED
    BY <2>1, AllResolved DEF IInv, EndInv
<1>2. rowsAccepted + rowsRejected + rowsFailed + Sum(SkippedOf, CutIndices) = rowsRead
  BY <1>1, CountersBounded DEF IInv
<1> QED
  BY <1>2, SkippedTotal, SizeTotal DEF IInv, SumInv

\* The table holds at least what was accepted, and nothing else when nothing failed.
LEMMA CountExact == IInv => CountExactUnlessFailed
<1> SUFFICES ASSUME IInv PROVE CountExactUnlessFailed
  OBVIOUS
<1> USE DEF IInv
<1>1. \A b \in CutIndices : b \in Indices /\ Inserted(b) \in Nat /\ Converted(b) \in Nat
                            /\ Inserted(b) <= Converted(b)
  BY BatchLines, Counts, CutInIndices DEF CutIndices
<1>2. ASSUME NEW b \in CutIndices PROVE AcceptedOf[b] <= StoredOf[b]
  <2>1. CASE outcome[b] = "accepted"
    <3>1. StoredOf[b] = Inserted(b)
      BY <1>1, <2>1, StoredTypes DEF ClusterInv
    <3> QED
      BY <1>1, <2>1, <3>1 DEF AcceptedOf
  <2>2. CASE outcome[b] # "accepted"
    <3>1. AcceptedOf[b] = 0 /\ StoredOf[b] \in Nat
      BY <2>2, StoredTypes DEF AcceptedOf
    <3> QED
      BY <3>1
  <2> QED
    BY <2>1, <2>2
<1>3. rowsAccepted <= Sum(StoredOf, CutIndices)
  <2> DEFINE Zero == [b \in CutIndices |-> 0]
  <2>1. Zero \in [CutIndices -> Nat] /\ \A b \in CutIndices : AcceptedOf[b] + Zero[b] <= StoredOf[b]
    BY <1>2, TableTypes, StoredTypes
  <2> HIDE DEF Zero
  <2>2. Sum(AcceptedOf, CutIndices) + Sum(Zero, CutIndices) <= Sum(StoredOf, CutIndices)
    BY <2>1, TableTypes, StoredTypes, SumTerms
  <2>3. Sum(AcceptedOf, CutIndices) \in Nat /\ Sum(Zero, CutIndices) \in Nat
        /\ Sum(StoredOf, CutIndices) \in Nat
    BY <2>1, TableTypes, StoredTypes, SumSplit
  <2> QED
    BY <2>2, <2>3 DEF SumInv
<1>4. ASSUME main = "exited", rowsFailed = 0 PROVE rowsAccepted = Sum(StoredOf, CutIndices)
  <2>1. \A b \in CutIndices : outcome[b] # "none"
    BY <1>1, <1>4, AllResolved DEF EndInv, CutIndices
  <2>2. ASSUME NEW b \in CutIndices PROVE FailedOf[b] = 0
    <3> DEFINE Rest == Sum([c \in CutIndices \ {b} |-> FailedOf[c]], CutIndices \ {b})
    <3>1. rowsFailed = FailedOf[b] + Rest /\ FailedOf[b] \in Nat
      <4>1. IsFiniteSet(CutIndices) /\ FailedOf \in [CutIndices -> Nat]
        BY TableTypes
      <4>2. Sum(FailedOf, CutIndices) = FailedOf[b] + Rest
        BY <4>1, SumSplit
      <4> QED
        BY <4>1, <4>2 DEF SumInv
    <3>2. Rest \in Nat
      <4>1. [c \in CutIndices \ {b} |-> FailedOf[c]] \in [CutIndices \ {b} -> Nat]
            /\ IsFiniteSet(CutIndices \ {b})
        BY TableTypes, FS_Subset
      <4> QED
        BY <4>1, SumSplit
    <3> HIDE DEF Rest
    <3> QED
      BY <1>4, <3>1, <3>2
  <2>3. ASSUME NEW b \in CutIndices PROVE StoredOf[b] = AcceptedOf[b]
    <3>1. CASE outcome[b] = "accepted"
      BY <1>1, <3>1, StoredTypes DEF AcceptedOf, ClusterInv
    <3>2. CASE outcome[b] = "failed"
      <4>1. Converted(b) = 0
        BY <2>2, <3>2 DEF FailedOf
      <4>2. Inserted(b) = 0
        BY <1>1, <4>1
      <4> QED
        BY <3>2, <4>2, StoredTypes DEF AcceptedOf
    <3> QED
      BY <1>1, <2>1, <3>1, <3>2 DEF Shapes
  <2>4. StoredOf = AcceptedOf
    BY <2>3 DEF StoredOf, AcceptedOf
  <2> QED
    BY <2>4 DEF SumInv
<1> QED
  BY <1>3, <1>4, StoredTotal DEF CountExactUnlessFailed

-----------------------------------------------------------------------------

\* The strengthened invariant holds of every reachable state.
THEOREM Invariance == Spec => []IInv
<1>1. IInv /\ [Next]_vars => IInv'
  BY ShapeStep, CutStep, PlaceStep, ClusterStep, DeadlineStep, EndStep, SumStep, FileStep DEF IInv
<1> QED
  BY <1>1, InitIInv, PTL DEF Spec

\* No retry, late commit or lost answer leaves a second copy of a batch, for any file,
\* any number of workers, pods and attempts.
THEOREM StoredOnce == Spec => []StoredAtMostOnce
<1>1. ASSUME IInv, NEW b \in Indices PROVE copies[b] \in {0, 1}
  BY <1>1 DEF IInv, ClusterInv
<1>2. IInv => StoredAtMostOnce
  BY <1>1 DEF StoredAtMostOnce
<1> QED
  BY <1>2, Invariance, PTL

\* The deadline once passed, a batch is posted at most once more.
THEOREM DeadlineBound == Spec => []DeadlineBoundsAttempts
<1>1. IInv => DeadlineBoundsAttempts
  BY DEF IInv, DeadlineInv, DeadlineBoundsAttempts
<1> QED
  BY <1>1, Invariance, PTL

\* The summary accounts for every line that was read, count(*) is what it says unless a
\* batch failed, one without stopped_early is of the whole file or of -max-rows of it, and
\* no progress file is ahead of the reader.
THEOREM FilesTrue == Spec => []FilesAreTrue
<1>1. IInv => FilesAreTrue
  BY Summed, CountExact, Unmarked DEF FilesAreTrue, IInv, FileInv
<1> QED
  BY <1>1, Invariance, PTL

\* Every variable has its type, the counters stay within the file, and the channel
\* within its capacity.
THEOREM TypeCorrect == Spec => []TypeOK
<1>1. IInv => TypeOK
  <2> SUFFICES ASSUME IInv PROVE TypeOK
    OBVIOUS
  <2>1. {rowsAccepted, rowsRejected, rowsFailed} \subseteq 0..Len(Lines)
    <3>1. rowsRead \in Nat /\ rowsRead <= Len(Lines) /\ Len(Lines) \in Nat
      BY Constants DEF IInv, Shapes, Lines
    <3>2. Sum(SkippedOf, CutIndices) \in Nat
      BY TableTypes, SumSplit DEF IInv
    <3>3. rowsAccepted + rowsRejected + rowsFailed + Sum(SkippedOf, CutIndices) <= rowsRead
      BY CountersBounded DEF IInv
    <3> QED
      BY <3>1, <3>2, <3>3, CounterTypes DEF IInv
  <2>2. \A i \in 1..Len(jobs) : jobs[i] \in CutIndices
    <3> SUFFICES ASSUME NEW i \in 1..Len(jobs) PROVE jobs[i] \in CutIndices
      OBVIOUS
    <3>1. jobs[i] = Taken + i - 1 /\ Taken >= 0
      BY DEF IInv, PlaceInv
    <3>2. /\ Len(cut) \in Nat /\ Len(jobs) \in Nat /\ Sent \in Nat /\ Sent <= Len(cut)
          /\ Taken \in Int /\ Taken = Sent - Len(jobs)
      BY Counts DEF IInv
    <3> QED
      BY <3>1, <3>2 DEF CutIndices
  <2> QED
    BY <2>1, <2>2 DEF IInv, Shapes, CutInv, TypeOK
<1> QED
  BY <1>1, Invariance, PTL

\* The upload implements the abstract loader: every step offers, stores, resolves or
\* reports a batch, ends the loader, or leaves its state alone.
THEOREM Refinement == Spec => ImplementsBatchLoad
<1>1. Init => Promise!Init
  BY DEF Init, Promise!Init
<1>2. IInv /\ [Next]_vars => [Promise!Next]_(Promise!vars)
  <2> SUFFICES ASSUME IInv, [Next]_vars PROVE [Promise!Next]_(Promise!vars)
    OBVIOUS
  <2> USE DEF IInv
  <2>1. CASE DeadlinePasses
    BY <2>1 DEF DeadlinePasses, readerVars, clusterVars, mainVars, history, Promise!vars
  <2>2. CASE CutBatch
    <3>1. Len(cut') = Len(cut) + 1
      BY <2>2, AppendProperties DEF CutBatch, Shapes
    <3>2. rowsRead \in Nat /\ rowsRead < Len(load.lines) /\ Len(cut) \in Nat /\ Len(cut) <= rowsRead
      BY <2>2, Counts, Constants DEF CutBatch, RowsLeft, Lines, Shapes, CutInv
    <3>3. Len(cut) \in Indices
      <4>1. load \in Loads /\ Len(load.lines) \in Nat
        BY Constants DEF Shapes
      <4>2. Len(cut) < Len(load.lines)
        BY <3>2, <4>1
      <4> QED
        BY <3>2, <4>1, <4>2, LongestFile
    <3>4. main \in {"run", "snap", "final"} /\ main' = main /\ copies' = copies /\ outcome' = outcome
      BY <2>2 DEF CutBatch, Up, mainVars, clusterVars, history
    <3>5. Promise!Offer
      BY <3>1, <3>3, <3>4 DEF Promise!Offer
    <3> QED
      BY <3>5 DEF Promise!Next
  <2>3. CASE ReaderReturns \/ SendBatch
    BY <2>3 DEF ReaderReturns, SendBatch, workerVars, clusterVars, mainVars, history, Promise!vars
  <2>4. CASE TakeSnapshot \/ WriteProgress \/ WriteFinalProgress
    BY <2>4 DEF TakeSnapshot, WriteProgress, WriteFinalProgress, mainElse, readerVars, clusterVars,
       history, Promise!vars
  <2>5. CASE WriteSummary
    <3>1. Finished
      BY <2>5 DEF WriteSummary, EndInv
    <3>2. \A b \in 0..Len(cut) - 1 : outcome[b] # "none"
      BY <3>1, AllResolved, Counts, CutInIndices
    <3>3. main = "final" /\ main' = "exited" /\ cut' = cut /\ copies' = copies /\ outcome' = outcome
      BY <2>5 DEF WriteSummary, mainElse, readerVars, clusterVars, history
    <3>4. Promise!Report
      BY <3>2, <3>3 DEF Promise!Report, Promise!Cut
    <3> QED
      BY <3>4 DEF Promise!Next
  <2>6. CASE Fatal
    <3>1. main \in {"run", "snap", "final"} /\ main' = "fatal"
          /\ cut' = cut /\ copies' = copies /\ outcome' = outcome
      BY <2>6 DEF Fatal, Up, mainElse, readerVars, clusterVars, history
    <3>2. Promise!Die
      BY <3>1 DEF Promise!Die
    <3> QED
      BY <3>2 DEF Promise!Next
  <2>7. CASE UNCHANGED vars
    BY <2>7 DEF vars, readerVars, clusterVars, mainVars, history, Promise!vars
  <2>8. ASSUME NEW w \in Workers, TakeBatch(w) \/ ExitWorker(w) \/ Post(w) \/ TriesAgain(w)
        PROVE  UNCHANGED Promise!vars
    BY <2>8 DEF TakeBatch, ExitWorker, Post, TriesAgain, Failure, TryAgain, readerVars, clusterVars,
       mainVars, history, Promise!vars
  <2>9. ASSUME NEW w \in Workers, ReplyOk(w) PROVE Promise!Next
    <3>1. Busy(w)
      BY <2>9 DEF ReplyOk, Busy
    <3> DEFINE b == batch[w]
    <3>2. b \in Indices /\ b \in 0..Len(cut) - 1 /\ outcome[b] = "none"
      BY <3>1, HeldBatch, Counts DEF PlaceInv
    <3>3. copies[b] > 0
      BY <2>9, <3>2, OnePod DEF ReplyOk, ClusterInv
    <3>4. main \in {"run", "snap", "final"} /\ main' = main /\ cut' = cut /\ copies' = copies
          /\ outcome' = [outcome EXCEPT ![b] = "accepted"]
      BY <2>9 DEF ReplyOk, Up, mainVars, clusterVars, readerVars
    <3> HIDE DEF b
    <3>5. Promise!Resolve(b, "accepted")
      BY <3>2, <3>3, <3>4 DEF Promise!Resolve, Promise!Cut
    <3> QED
      BY <3>2, <3>5 DEF Promise!Next
  <2>10. ASSUME NEW w \in Workers, GivesUp(w) PROVE Promise!Next
    <3>1. Busy(w)
      BY <2>10 DEF GivesUp, Failure, Busy
    <3> DEFINE b == batch[w]
    <3>2. b \in Indices /\ b \in 0..Len(cut) - 1 /\ outcome[b] = "none"
      BY <3>1, HeldBatch, Counts DEF PlaceInv
    <3>3. main \in {"run", "snap", "final"} /\ main' = main /\ cut' = cut /\ copies' = copies
          /\ outcome' = [outcome EXCEPT ![b] = "failed"]
      BY <2>10 DEF GivesUp, GiveUp, Failure, Up, mainVars, readerVars
    <3> HIDE DEF b
    <3>4. Promise!Resolve(b, "failed")
      BY <3>2, <3>3 DEF Promise!Resolve, Promise!Cut
    <3> QED
      BY <3>2, <3>4 DEF Promise!Next
  <2>11. ASSUME NEW r \in network, Process(r) PROVE [Promise!Next]_(Promise!vars)
    <3> DEFINE b == r.id
    <3>1. b \in Indices /\ b \in 0..Len(cut) - 1 /\ r.target = Pod(b)
      BY Counts, CutInIndices DEF ClusterInv
    <3>2. cut' = cut /\ outcome' = outcome /\ main' = main
      BY <2>11 DEF Process, readerVars, mainVars, history
    <3>3. copies' = [copies EXCEPT ![b] = IF <<Pod(b), b>> \in seen THEN @ ELSE @ + 1]
      BY <2>11, <3>1 DEF Process
    <3> HIDE DEF b
    <3>4. CASE <<Pod(b), b>> \in seen
      <4>1. copies' = copies
        BY <3>1, <3>3, <3>4 DEF Shapes
      <4> QED
        BY <4>1, <3>2 DEF Promise!vars
    <3>5. CASE <<Pod(b), b>> \notin seen
      <4>1. copies[b] = 0 /\ copies' = [copies EXCEPT ![b] = 1]
        <5>1. copies[b] = 0
          BY <3>1, <3>5 DEF ClusterInv
        <5>2. copies' = [copies EXCEPT ![b] = @ + 1]
          BY <3>3, <3>5
        <5> QED
          BY <5>1, <5>2
      <4>2. {c \in Indices : copies'[c] > 0} = {c \in Indices : copies[c] > 0} \cup {b}
        BY <4>1, <3>1 DEF Shapes
      <4>3. b \notin {c \in Indices : copies[c] > 0}
        BY <4>1
      <4>4. Promise!Store(b)
        BY <4>2, <4>3, <3>1, <3>2 DEF Promise!Store, Promise!Cut
      <4> QED
        BY <4>4, <3>1 DEF Promise!Next
    <3> QED
      BY <3>4, <3>5
  <2> QED
    BY <2>1, <2>2, <2>3, <2>4, <2>5, <2>6, <2>7, <2>8, <2>9, <2>10, <2>11, NextCases
<1> QED
  BY <1>1, <1>2, Invariance, PTL DEF Spec, Promise!Spec, ImplementsBatchLoad
=============================================================================
