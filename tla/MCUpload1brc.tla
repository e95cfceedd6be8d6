---------------------------- MODULE MCUpload1brc ----------------------------
\* Small loads: the deadline can pass between any two steps of the pipeline, and
\* a pipeline of one worker can be full.
EXTENDS Upload1brc

CONSTANTS w1, w2

TwoWorkers == {w1, w2}

\* Two batches of three lines for two workers: one with a refused and a skipped
\* row, one that -max-rows 5 cuts short.
Mixed == [workers |-> TwoWorkers, batchRows |-> 3, maxRows |-> 5, ticks |-> 1,
          lines |-> <<"good", "refused", "skipped", "good", "good", "good">>]
\* One worker with a batch, two in its channel, the reader blocked with a fourth.
Full == [workers |-> {w1}, batchRows |-> 1, maxRows |-> 0, ticks |-> 0,
         lines |-> <<"good", "good", "good", "good">>]

AllLoads == {Mixed, Full}
=============================================================================
