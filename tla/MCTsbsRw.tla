------------------------------ MODULE MCTsbsRw ------------------------------
\* Small files: one whose first batch has a comment line and an unreadable field, and
\* which goes on where -max-samples stops the load; one that ends inside its second
\* batch; one with a line that encode() refuses; one whose first batch has no readable
\* field.
EXTENDS TsbsRw

CONSTANTS w1, w2

OneWorker == {w1}
TwoWorkers == {w1, w2}

Line(f, s) == [fields |-> f, samples |-> s]
CleanFile == <<Line(1, 1), Line(0, 0), Line(1, 0), Line(2, 2), Line(2, 2)>>
ShortFile == <<Line(2, 2), Line(1, 1)>>
TornFile == <<Line(2, 2), Line(0, -1), Line(2, 2)>>
BlankFile == <<Line(2, 0), Line(2, 2)>>
AllFiles == {CleanFile, ShortFile, TornFile, BlankFile}
OneFile == {CleanFile}
=============================================================================
