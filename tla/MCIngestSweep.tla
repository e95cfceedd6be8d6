---------------------------- MODULE MCIngestSweep ----------------------------
\* The constants are numbers: each configuration gives them directly.
EXTENDS IngestSweep
=============================================================================
