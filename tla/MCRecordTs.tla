----------------------------- MODULE MCRecordTs -----------------------------
\* Three overlapping calls with every assignment of three timestamps to them.
EXTENDS RecordTs

CONSTANTS c1, c2, c3

MCCalls == {c1, c2, c3}
MCStamps == {1, 2, 3}
=============================================================================
