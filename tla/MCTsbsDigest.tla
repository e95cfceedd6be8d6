---------------------------- MODULE MCTsbsDigest ----------------------------
\* Answers that differ in the order of their series, in a digit or in a series, and
\* what a runner prints of them: whole, on two lines, cut off by its panic.
EXTENDS TsbsDigest

CONSTANTS before, after

Range1(host, v) == [labels |-> host, values |-> <<[t |-> 1, v |-> v], [t |-> 2, v |-> 20]>>, value |-> <<>>]
Instant(host, v) == [labels |-> host, values |-> <<>>, value |-> <<[t |-> 1, v |-> v]>>]
Matrix(result) == [status |-> "success", type |-> "matrix", result |-> result]
Vector(result) == [status |-> "success", type |-> "vector", result |-> result]
Refusal == [status |-> "error", type |-> "too many samples", result |-> <<>>]

a == Range1("host_0", 10)
b == Range1("host_1", 10)
Several ==
    {Matrix(<<a, b>>), Matrix(<<b, a>>), Matrix(<<a, b, b>>), Matrix(<<b, a, a>>),
     Matrix(<<Range1("host_0", 12), b>>), Matrix(<<Range1("host_0", 14), b>>),
     Matrix(<<Range1("host_0", 16), b>>), Vector(<<Instant("host_0", 10)>>), Refusal}
Few == {Matrix(<<a, b>>), Matrix(<<b, a>>), Vector(<<Instant("host_0", 12)>>)}

Line(id, answer, part) == [id |-> id, answer |-> answer, part |-> part]
Noise == Line(NoId, Refusal, "whole")
MCOutputs ==
    {<<>>, <<Noise>>}
      \cup {<<Line(1, x, "whole")>> : x \in Several}
      \cup {<<Line(1, x, "whole"), Line(2, y, "head")>> : x \in Several, y \in Few}
      \cup {<<Line(1, x, "whole"), Noise, Line(2, y, "head"), Line(2, y, "tail")>> :
                x \in Several, y \in Few}
=============================================================================
