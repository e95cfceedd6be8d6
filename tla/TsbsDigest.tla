------------------------------ MODULE TsbsDigest ------------------------------
(***************************************************************************)
(* The comparison of two builds' answers: the query runner prints them,    *)
(* tools/tsbsdigest reduces each to a line (on the cluster) or the text is *)
(* kept (on one node), and compare_answers of scripts/tsbs.exs gives the   *)
(* verdict of the report.                                                  *)
(*                                                                         *)
(* An answer is [status, type, result], its result a sequence of series    *)
(* [labels, values, value]; values are integers, in units of which Grain   *)
(* make a significant digit.  A hash stands for what is hashed.            *)
(***************************************************************************)
EXTENDS Integers, FiniteSets, Functions, SequencesExt

CONSTANTS Builds,
          Outputs,          \* what a runner can print: sequences of [id, answer, part],
                            \* part being "whole", "head" or "tail"
          Grain,            \* the tenth digit
          Tolerance         \* 1e-9

Samples == Seq([t : Int, v : Int])
Series == [labels : STRING, values : Samples, value : Samples]
AnswerType == [status : STRING, type : STRING, result : Seq(Series)]

ASSUME TsbsDigestAssumption ==
    /\ IsFiniteSet(Builds) /\ Builds # {}
    /\ Outputs \subseteq Seq([id : Nat, answer : AnswerType, part : STRING])
    /\ Grain \in Nat \ {0} /\ Tolerance \in Nat

NoId == 0                   \* a line of the runner that is no answer

VARIABLES
    kept,                   \* how a build's answers are kept: "digest" or "text"
    output, read,           \* the runner's lines, and how many have been read
    bodies,                 \* the parts of each answer, by query id
    verdict

digestVars == <<kept, output, read, bodies, verdict>>

DigestInit ==
    /\ kept \in [Builds -> {"digest", "text"}] /\ output \in [Builds -> Outputs]
    /\ read = [b \in Builds |-> 0] /\ bodies = [b \in Builds |-> <<>>] /\ verdict = "none"

\* The scanner: a line of an answer is added to what came before of its id.
Extended(old, part) == Append(old, part)

Scan(b) ==
    /\ read[b] < Len(output[b]) /\ read' = [read EXCEPT ![b] = @ + 1]
    /\ LET line == output[b][read[b] + 1]
           old == IF line.id \in DOMAIN bodies[b] THEN bodies[b][line.id] ELSE <<>>
       IN  IF line.id = NoId THEN UNCHANGED bodies
           ELSE bodies' = [bodies EXCEPT ![b] =
                              [id \in DOMAIN @ \cup {line.id} |->
                                  IF id = line.id THEN Extended(old, line) ELSE @[id]]]
    /\ UNCHANGED <<kept, output, verdict>>

-----------------------------------------------------------------------------
(* digest *)

Unparsed == [status |-> "unparsed", type |-> "none", result |-> <<>>]

\* A body is JSON when it is all there: one line, or two of the same answer.
Parsed(body) ==
    IF \/ Len(body) = 1 /\ body[1].part = "whole"
       \/ /\ Len(body) = 2 /\ body[1].part = "head" /\ body[2].part = "tail"
          /\ body[1].answer = body[2].answer
    THEN body[1].answer ELSE Unparsed

\* canonicalValue: the nearest value of ten digits.
Rounded(v) == (v + Grain \div 2) \div Grain

\* A range answer has values, an instant answer a value.
Points(s) == IF s.values = <<>> THEN s.value ELSE s.values

LineOf(s) ==
    [labels |-> s.labels,
     points |-> [i \in DOMAIN Points(s) |-> <<Points(s)[i].t, Rounded(Points(s)[i].v)>>]]

\* sort.Strings: the same lines in any order give the same sequence, which is told
\* apart by how often each line is in it.
BugUnsorted(lines) == lines
Sorted(lines) == [line \in Range(lines) |-> Cardinality({i \in DOMAIN lines : lines[i] = line})]

Digest(body) ==
    LET a == Parsed(body)
        lines == [i \in DOMAIN a.result |-> LineOf(a.result[i])]
    IN  IF a.status # "success" THEN [status |-> a.status, error |-> a.type]
        ELSE [status |-> a.status, series |-> Len(lines),
              points |-> FoldSeq(LAMBDA line, sum : Len(line.points) + sum, 0, lines),
              sha256 |-> <<a.type, Sorted(lines)>>]

-----------------------------------------------------------------------------
(* compare_answers *)

Answers(b) ==
    [id \in DOMAIN bodies[b] |->
        IF kept[b] = "digest" THEN Digest(bodies[b][id]) ELSE Parsed(bodies[b][id])]

\* Only a digest tells of a refusal.
Refused(b) ==
    kept[b] = "digest" /\ \E id \in DOMAIN Answers(b) : Answers(b)[id].status # "success"

\* near? on two answers: series and points in the same places.
Near(x, y) ==
    /\ x.status = y.status /\ x.type = y.type /\ Len(x.result) = Len(y.result)
    /\ \A i \in DOMAIN x.result :
        LET s == x.result[i]
            r == y.result[i]
        IN  /\ s.labels = r.labels /\ Len(Points(s)) = Len(Points(r))
            /\ \A j \in DOMAIN Points(s) :
                LET p == Points(s)[j]
                    q == Points(r)[j]
                IN  p.t = q.t /\ p.v - q.v \in -Tolerance..Tolerance

\* Digests are strings, near only when they are equal.
CloseTo(b, c) ==
    /\ kept[b] = "text" /\ kept[c] = "text" /\ DOMAIN Answers(b) = DOMAIN Answers(c)
    /\ \A id \in DOMAIN Answers(b) : Near(Answers(b)[id], Answers(c)[id])

Equal(b, c) == kept[b] = kept[c] /\ Answers(b) = Answers(c)

Compared ==
    LET first == CHOOSE b \in Builds : TRUE IN
    IF \E b \in Builds : DOMAIN bodies[b] = {} THEN "no answer"
    ELSE IF \E b \in Builds : Refused(b)       THEN "refused"
    ELSE IF \A b \in Builds : Equal(first, b)  THEN "identical"
    ELSE IF \A b \in Builds : CloseTo(first, b) THEN "close"
    ELSE "differ"

CompareAnswers ==
    /\ verdict = "none" /\ \A b \in Builds : read[b] = Len(output[b])
    /\ verdict' = Compared /\ UNCHANGED <<kept, output, read, bodies>>

Rest == verdict # "none" /\ UNCHANGED digestVars

DigestNext == CompareAnswers \/ Rest \/ \E b \in Builds : Scan(b)

DigestSpec == DigestInit /\ [][DigestNext]_digestVars

-----------------------------------------------------------------------------
(* Properties *)

AnsweredIds(b) == {line.id : line \in Range(output[b])} \ {NoId}

\* What a runner printed of a query, and its answer.
Printed(b, id) ==
    LET upTo[n \in 0..Len(output[b])] ==
            IF n = 0 THEN <<>>
            ELSE IF output[b][n].id = id THEN Append(upTo[n - 1], output[b][n])
            ELSE upTo[n - 1]
    IN  upTo[Len(output[b])]
Answer(b, id) == Parsed(Printed(b, id))

\* Two answers agree if the series of one are those of the other in some order, with
\* the same times and with values that round to the same.
Same(x, y) ==
    /\ x.status = y.status /\ x.type = y.type /\ Len(x.result) = Len(y.result)
    /\ \E place \in Bijection(DOMAIN x.result, DOMAIN y.result) :
        \A i \in DOMAIN x.result :
            LET s == x.result[i]
                r == y.result[place[i]]
            IN  /\ s.labels = r.labels /\ Len(Points(s)) = Len(Points(r))
                /\ \A j \in DOMAIN Points(s) :
                    /\ Points(s)[j].t = Points(r)[j].t
                    /\ Rounded(Points(s)[j].v) = Rounded(Points(r)[j].v)

BuildsAgree(b, c) ==
    AnsweredIds(b) = AnsweredIds(c) /\ \A id \in AnsweredIds(b) : Same(Answer(b, id), Answer(c, id))

\* The report calls builds identical only if they agree on every query, however the
\* lines were split and the series ordered; digests of builds that agree never differ;
\* it says that there is no answer when a build printed none, and only then; and it
\* tells of a refused answer only where there is one.
VerdictIsRight ==
    /\ verdict = "identical" => \A b, c \in Builds : BuildsAgree(b, c)
    /\ verdict = "differ" /\ (\A b \in Builds : kept[b] = "digest") =>
            \E b, c \in Builds : ~BuildsAgree(b, c)
    /\ verdict = "no answer" => \E b \in Builds : AnsweredIds(b) = {}
    /\ verdict \notin {"none", "no answer"} => \A b \in Builds : AnsweredIds(b) # {}
    /\ verdict = "refused" =>
            \E b \in Builds : \E id \in AnsweredIds(b) : Answer(b, id).status # "success"
=============================================================================
