------------------------------ MODULE MCGen1brc ------------------------------
\* Seven blocks, the last one short, through channels of capacity 2 and 4: the
\* feeder blocks on jobs, the writers block on results and run ahead of one
\* another by more than a channel's length.
EXTENDS Gen1brc

CONSTANTS w1, w2

MCWriters == {w1, w2}
MCRows == 20
MCBlockRows == 3
=============================================================================
